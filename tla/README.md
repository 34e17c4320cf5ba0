# Verification of go-hooppy

TLA+ models of go-hooppy, the TLC runs that check them on small instances, and
TLAPS proofs of what holds for every instance. Source paths below are relative
to `src/`.

go-hooppy is a Go client for the Hooppy API (posts, schedules, sources, search,
cross-posting) with three surfaces over it: the library (package `hooppy`, the
files in the root), the CLI `cmd/hooppy` and the MCP server `cmd/hooppy-mcp`.
`ops/` holds the operations the two surfaces share. The program keeps nothing on
disk. All its state is on a server that it does not control, that answers late,
twice or never, and that other clients, a web UI and a publisher change at the
same time. What is hard is therefore not the data but the ORDER of requests:
what may be claimed about the server after a series of calls of which some
failed, were lost, or were seen in an inconsistent state.

## 1. Inventory

### The parts

| component | code | state | operations |
| --- | --- | --- | --- |
| client core | `client.go`, `errors.go` | `Config` (retry options); an attempt count per call | `doGET`, `doPOST`, `doPUT`, `doDELETE`, raw and multipart forms, `doWithRetry`, answer classes |
| stop rule | `bulk_stop.go` | streak of server errors | `Observe` |
| publishing with slot recovery | `posts_search.go`, `schedule_slots.go`, `success_gate.go` | two list snapshots, the response | `PublishPost`, `fillScheduleSlots`, `fillBatchSlotsBySnapshotDiff`, `checkCreateID` |
| list of scraped posts | `posts_search.go`, `ops/publish_search.go`, `cmd/hooppy/import_text.go`, `search_runners.go` | per-post records, the result, the verdict | import, rewrite, copy; CLI exit codes; MCP results |
| delete | `ops/posts_delete.go`, `ops/post_ids.go` | the record (deleted, gone, failed, not attempted) | `ops.DeletePosts` |
| move | `posts.go`, `ops/posts_move.go`, `cmd/hooppy/posts_move.go` | the entries of the answer | `BatchMovePosts`, `requireScheduleDriven`, `moveDateWarning` |
| page walks, envelopes | `posts.go`, `posts_search.go`, `projects.go`, `accounts.go`, `notifications.go`, `proxies.go`, `watermarks.go`, `crossposting.go` | page, rows, first and last total | the `ListAll...` family, the equality, high-churn and capped envelopes, `--all` and `--page` of every list |
| doctor | `doctor.go` | the walks' totals, the report | `RunDoctor`, the exit code |
| schedule edit | `projects.go`, `ops/update_schedule.go` | the raw edit state read | `UpdateScheduleFromEdit` (read, overlay, PUT) |
| post edit | `posts.go`, `ops/post_edit.go` | the edit state read | `UpdatePostText` (read, rebuild, PUT) |
| plain creates, updates, deletes | `posts.go`, `projects.go`, `watermarks.go`, `proxies.go`, `accounts.go`, `crosspost.go`, `types.go` | none | one request each, some after validation |
| stop of a parse | `posts_search.go`, `search_runners.go`, `types.go` | none | `StartParsing`, `StopParsingAndConfirm` (DELETE, one read) |
| queue summary, filters | `cmd/hooppy/schedule_queue.go`, `projects.go`, the `List...` calls | none | `ListSchedulePosts` and its summary; which filters a list knows, refuses, sends |
| uploads | `files.go`, `client.go` | a pipe and a goroutine | `doMultipartStream` |
| the rest | `user.go`, `sources.go`, `posts_where.go`, statistics of `crossposting.go`, flags, schema binding, `internal/apicov` | none | one read each, or build-time tools |

### How they interact

The surfaces parse ids and flags and call `ops`; `ops` calls the client's
methods, one after the other, in one goroutine; every method ends in
`do`/`doWithRetry`. There are no callbacks and no shared memory between calls.
What is shared is the server: a publish, a walk, a move and another client's
edit meet in the schedule's list and in the posts themselves. Concurrency in
this system is between clients, and between a client and attempts of its own
that it has given up and the server has not.

### What is hard, and what makes each part correct

* **client core** - attempts are lost, applied late, or answered with a body that
  breaks off. Correct when creates act at most once, when an "ok" means that the
  server acted, when resent full-state updates converge, and when calls return.
* **publishing** - the slot of the new post is found as the difference of two
  walks, each of several requests, and nothing locks the list. Correct when no
  slot or id of somebody else's post is claimed, and when a failed recovery does
  not make a created post look like a failed call.
* **list of scraped posts** - some fail, some land unnamed. Correct when
  everything that landed is reported and the verdict is the one the per-post fates
  imply, on every surface.
* **delete** - a refused batch may be half applied. Correct when the record
  partitions the ids, is true of the server, and no unknown outcome becomes a record.
* **move** - a guard of many reads before one irreversible request. Correct when
  every doubt the guard can see refuses the batch, and when an accepted move is reported whatever the later
  reads do.
* **page walks** - rows shift between pages, totals and flags may be wrong. Correct
  when a truncated list is an error, a busy one is not taken for truncated, and a
  walk that the server cut short says so.
* **doctor** - a summary over a walk that may be short. Correct when exit 0 means
  that there was nothing to report.
* **schedule and post edits** - read-modify-write without a version. Correct when
  fields that were not asked for keep the value read, and nothing is written to
  another object; lost updates between editors that overlap cannot be excluded, and
  the conditions under which nothing is lost are stated.
* **creates and deletes** - answers get lost. Correct when a create is never sent
  twice and its exit code is true.
* **stop of a parse** - asynchronous at the server and confirmed by one read.
  Correct when "stopped" is only said after a read that showed it, and when an agent
  that retries on errors does not stop somebody else's parse.
* **queue summary and filters** - the server ignores parameters it does not know and
  cuts a calendar to its first page without a word. Correct when no part is
  taken for the whole, and every filter asked for is refused or sent.

`PROJECT.json` lists every hazard at its line with the properties aimed at it,
and says for the others why no property covers them.

## 2. Modules

| module | models | abstract or composed with |
| --- | --- | --- |
| `Answers` | answer classes, `IsServerAnswer`, `BulkStop`, what one DELETE may have done | used by `RequestRetry`, `CallContract`, `DeletePosts`, `BatchMove` |
| `RequestRetry` | the client core: calls as series of attempts against a server that acts when it likes | implements `CallContract`, keeps `DeleteOutcome` |
| `CallContract` | what a series of API calls promises: how often what a call asks for may happen, and what its answer means | abstract |
| `PublishPost` | several clients publishing on one schedule, page by page | - |
| `SearchBatch` | the list loops and what the surfaces make of their verdict | EXTENDS `PublishPost`; implements `BatchContract` |
| `BatchContract` | what a batch of publishes promises: one fate for each post, the verdict follows | abstract |
| `DeletePosts` | `ops.DeletePosts` | relies on `DeleteOutcome` |
| `BatchMove` | `BatchMovePosts` | - |
| `Lists` | the lists that can be read whole, the rule each is judged by, the commands and tools that read them | used by `PagedWalk` |
| `PagedWalk` | one reader of one list, page by page, while the list changes; the envelopes; `RunDoctor` | EXTENDS `Lists` |
| `Commands` | the library's writes, what each does to an object, and the commands and tools that run them, over all their inputs | used by `Editors` |
| `Editors` | several editors, one command each, on one object | EXTENDS `Commands` |
| `StopParse` | stopping a parse while jobs end and others start | - |
| `Filters` | the filters of every list call, what the client refuses and sends, what the server applies | used by `Queries` |
| `Queries` | filtered reads, and the queue of one schedule with its summary | EXTENDS `Filters` |
| `MC...` | instances of these for TLC | |
| `..._proofs` | theorems about `PublishPost`, `SearchBatch`, `RequestRetry`, `DeletePosts`, `BatchMove`, `PagedWalk`, `Editors`, and `ReadAnswers_proofs` about `StopParse` and `Queries` | |

Definitions named "Broken" are deliberate mistakes - a guard dropped, a reset
forgotten, an order swapped - kept beside the definition they damage. No
specification uses them; each shows that a property notices the mistake.

### `PublishPost`

One action for each request of `PublishPost` (`posts_search.go:757`) with the local
computation that follows it; a request is atomic, a walk is not. `pc[c]` is the
request a call is at ("before" and "after" are the two walks), `page` and `rows`
are the walk's loop variables, `before` and `beforeErr` the snapshot and its
error, `resp` the `PostIDResponse`, `outcome` what the call returns. The server is
external: `posts` (its ids are positions), `queue` (the list surface, in
publication order, which is why a new row may come anywhere), `hidden` (created and not
yet listed). `Store`, `StrangerCreates`, `BecomesListed` and `LeavesSchedule` are
all that others may do, between any two requests. `Recovered` is
`fillBatchSlotsBySnapshotDiff` with its three exits: the count guard, the wire-id
cross-check, the slot. A slot is the id of the post it belongs to: dates and their
malformed forms are left out.

`quiet` marks the behaviours in which a created post is listed at once and none
leaves. `CountGuardSuffices` needs it and says so; `SlotIsMine` does not.

### `SearchBatch`

EXTENDS `PublishPost`: each publish of the list is one whole `PublishPost` call, the
calls being the positions of the list, and the world goes on while the list is
processed. The loop is in the code twice; `core` says which one a behaviour runs,
and where they differ (the guard on schedules, the single create without an id, the
result beside an error) the actions say so. `Exit` is what the CLI makes of the
verdict. `KeepsContract` is the refinement:
`BatchContract` with `fate` read off the calls that are behind the loop.

### `RequestRetry`

A call is a series of attempts; `wire` holds those the server has not handled. The
server acts or declines at any time until the client gives up the attempt, in `late`
behaviours even after that, and may fail to answer what it did. Answers come as
headers (`open`), and the body ends, breaks off or never ends. `Retryable` is the
retryable argument of the call sites, `MayRetry` the loop of `doWithRetry`.
Payloads are the number of the updating call, since full-state updates matter only
by which of them came last.

`KeepsCallContract` is the refinement: `CallContract` has the same calls and the same
object, and no attempts on the wire, waits, pauses, bodies or retries. A call is sent
some times (a create once), what it asks for `Happens` at most once for each time it was
sent, while the call is under way or, in `late` behaviours, after it; and it `Returns`
an answer that is true: "ok" only if it happened, "not found" only if the object is
gone, and another decided failure of a call sent once only if it did not and will
not happen. The last is the point of the contract - it binds the future of an
attempt whose fate the client can only read off a status code.

### `DeletePosts`, `BatchMove`

One step is one call of the client. What a DELETE with its retries may have done is
`DeleteOutcome` in `Answers`; `RequestRetry` shows that calls keep it
(`DeleteKeepsContract`), which is how the two fit together. A batch request may be
applied in part and answered with anything but success. Other clients delete
or re-target posts at any time. `BatchMove` does the guard and the date recovery read by
read. The edit state a read returns (`EditReads`) may be another post's, with that
post's id or with none; only the guard compares, and only an id that is there
(`posts.go:682`). The history variable `misled` keeps the posts for which it was shown a
driven state of another without an id, so that the properties can name them.

### `Lists`, `PagedWalk`

`reader` is the command or tool that reads: which list, judged how, what it shows
and how it ends when the walk was cut. `page`, `got`, `firstTotal` and `lastTotal`
are the loop variables of `ListAll...WithFirstAndLastTotal`; `ReadPage` is one
turn of its loop, with the exit on `is_has_more` and the bound
`maxListAllPages`. `WindowRefused` is the one list (search posts) whose walk keeps
what it has when the server refuses a page past its window. `JudgeWhole`,
`JudgeShort` and `JudgeCut` are `NewAllListEnvelope`, `...HighChurn` and
`NewCappedAllListEnvelope`; `DoctorNotifications` and `DoctorReports` are
`RunDoctor`, whose short walk is a sign and not an error. `ReadOnePage` is the same
list with `--page`. Rows are ids; a new one enters at the head (`RowEnters`) and any
may leave (`RowLeaves`) between two pages. The server may serve the rows of the page
before, a wrong total or a wrong `is_has_more`: each wrong field is recorded in `lies`, so
that a property can say which lies it survives. `atFirst`, `atLast` and `gone`
are history.

### `Commands`, `Editors`

`Commands` translates the writes of the library into what they do to an object -
create, delete, "patch" (the fields not named are kept), "overwrite" (they are
reset), "edit" (read, overlay, write back), "refuse" (validation fails before any
request) - and each CLI command and MCP tool into the operations its inputs
select. `Editors` lets every editor run one of them on one object. An edit is
`ReadEdit` and a write; what a read may answer is any part of the state, another
object's state, or a state without an id, and `RecognisableSchedule` and
`RecognisablePost` are the guards of `UpdateScheduleFromEdit` and
`buildPostUpdatePayload` against that. A write is answered (`Answered`,
`AnsweredWithoutId`), refused, or not answered: then it was applied, was not, or
is still under way (`late`), and `MayResend` says whether it is sent again.
What the server resets on a partial update is the model's reading of the comments
in `projects.go` and `posts.go`.

### `StopParse`

`BeginStop` to `ConfirmStop` are `StopParsingAndConfirm`; `StopUnanswered` is one
attempt of the retried DELETE. `tool` says whether the CLI (exit codes) or the MCP
tool (state or error) reports. The agent that repeats a failed tool call is the reason
the code gives for reporting "still running" as a state (`cmd/hooppy-mcp/main.go`).
The server marks the job that runs (`stopping`) and ends it later.

### `Filters`, `Queries`

`Filters` has one record for each list call: the numbers it sends when above 0, the
texts it sends as given, the dates it validates, the phantom filters it refuses. `Given`
are the forms of a value, among them a key the server does not know (`Keyed`), `Sent` what
goes on the wire, `Applied` what the server is taken to apply: measured by the authors for
some parameters and assumed for the others, which its comment lists.
`Queries` asks any list with up to two filters, and reads the queue of a
schedule: `ListSchedulePosts` for any window and page, `buildScheduleQueueSummary`
(`FirstBookedDay`, `BookedUntil`), the two warnings (`Complete`), and the recovery
page by page that the warning tells its reader to run (`AskNextPage`). Days are
numbers.

## 3. Runs

Every run is `tlc -config X.cfg M` and takes at most two minutes with two workers.

| run | instance | states | question |
| --- | --- | --- | --- |
| publish | 2 clients, pages of 1, 2 pages, an empty schedule, 3 posts in all | 434 thousand | what may a snapshot difference attribute? |
| batch | 1 or 2 posts, both loops, 3 posts in all | 531 thousand | is everything that landed reported, and the verdict the contract's? |
| retry | 2 calls of 2 attempts, all kinds | 773 thousand | what do retries do to creates, updates and deletes? |
| delete | up to 5 ids | 4.1 million | is the record complete and true? |
| move | lists of up to 4 of 2 posts | 3.4 million | does the guard refuse on every doubt it can see, is an accepted move reported? |
| walk | every reader, up to 3 rows at first and 5 in all, pages of 1, 2 lies, 1 row leaves | 635 thousand | when is a truncated list caught, a busy one accepted, a cut one said? |
| edits | 2 editors, any two commands on one object of each kind, 2 attempts | 583 thousand | what may concurrent, partial or lost edits do to an object? |
| stop | 3 jobs, 2 attempts, 3 calls | 50 thousand | is "stopped" true, whose parse may a repeated stop hit? |
| queries | 3 days, 1 day per answer, 3 reads, 1 change of the queue | 35 thousand | is a part ever taken for the whole, or a filter dropped on the way? |

Why the bounds are enough. Publish: two clients and the stranger give every pair of
racing creates, pages of one row make every insertion and removal shift a page
boundary, and two pages let a walk run past `maxListAllPages`. Three posts let each
client and the stranger create one, before, between or after the walks. Batch: two
posts are the smallest list with a mixed outcome; the walks are those of publish.
Retry: two attempts are one retry, two calls give an update overtaken by the next
one. Delete: a streak is three, so five ids leave one before and one after it. Move:
four positions leave one after a streak, two posts let ids repeat, which the move's
validation allows. Walk: pages of one row make every insertion, removal and lie
shift a boundary; two lies let one make up for another (a row served twice and a
total that counts it), one row that leaves and two that enter can cancel out in
a count, and five pages are enough for all five rows but not for a walk that is told
there is more for ever. Edits: two editors give every overlap of two
commands, two attempts one retry, and the late request of the first may land after
the second. Stop: a job before, one during and one after the calls; three calls
are a repeated repeat. Queries: three days with one day per answer make a first, a middle
and a last page; one change falls between any two reads.

Symmetry is used for clients in publish and posts in move, where no liveness is checked.

### What the properties say

* publish: `SlotIsMine` (a post the server named is the only one whose slot is
  reported), `CountGuardSuffices` (what the count alone guarantees, and when),
  `RecoveryNeverFailsTheCreate`, `OnePostPerCall`.
* batch: `NothingNamedIsLost`, `ExitOneOnlyIfNothingAccepted` (after exit 1 no
  create was answered as accepted; one whose answer was lost may still have published), `IdsAreDistinct`, `KeepsContract` (refinement), `ListIsAnswered` (liveness).
* retry: `CreateActsOnce`, `OkMeansActed` (with convergence of resent updates),
  `DeleteKeepsContract`, `KeepsCallContract` (refinement), `CallsReturn` (liveness).
* delete: `RecordPartitionsIds`, `RecordIsTrue` (nothing reported deleted or gone
  exists, and outside an accepted batch a post reported deleted was removed by this
  call), `StopsWhenItShould`, `UnknownStaysUnknown`.
* move: `OnlyDrivenPostsMove` (the guard refuses on every doubt it can see),
  `AcceptedMoveIsReported`, `ReadingStopsInTime`.
* walk: `BusyListIsReadWhole` (a list that only grows is never called truncated, and
  no row of page 1's time is missing), `TruncationIsRefused` and `EqualityIsExact` (what
  each rule guarantees of a list it accepts, and against which lies),
  `CutIsNeverWhole`, `QuietDoctorMeansNoFailures`.
* edits: `EditsKeepTheRest` (commands that do not overlap lose nothing),
  `NothingForeignIsWritten`, `NeverLeftWithoutTarget`, `CreatesMakeOne`.
* stop: `StoppedWasSeen`, `NewParsesAreLeftAlone`.
* queries: `FiltersWereApplied` (what was asked is what was sent, and nothing of it is
  known to be ignored), `QueueAnswersAreWhole`.

The conditions in these properties are part of what they say. `TruncationIsRefused`
is void once a row entered: then the first-total rule cannot tell an arrival from a
missed row, and TLC shows it. `EqualityIsExact` is void once a row left or a
total was wrong. `EditsKeepTheRest` is void for commands that overlap, since nothing
on the wire orders two writers. `NothingForeignIsWritten` excepts a post's state
without an id, which the guard at `posts.go:328` cannot tell from the right one.
`OnlyDrivenPostsMove` and `AcceptedMoveIsReported` except, post by post, the same thing
in the guard of a move (`posts.go:682`): a post for which it was shown a driven state
without an id while the post itself was not driven (`misled`). They are also stated for
a call that has the posts to itself, since reads and move are separate requests.
`FiltersWereApplied` excepts two values that the client sends without a check: a key the
server does not know, which it ignores (`posts_search.go:44`), and a text date that is
not one.

### Where the code and its own words differ

Each of these runs checks one sentence of the repository and TLC refutes it; the
counterexample and the line are in `PROJECT.json` under "findings".

* `zero_id`: a publish whose id could not be recovered puts a 0 into `IDs`, which a
  comment excludes.
* `empty_post`: with the VK-markup strip, the op hands `PublishPost` one empty text
  and its guard against empty content does not see it.
* `schedule_create`: `hooppy schedules create --name` (`README.md:167`) and
  `hooppy_create_schedule` build a payload that its own `Validate` always
  refuses: no request is ever sent.

Met while modelling, without a run of their own:

* two of the three MCP tools report an accepted create without an id as an error, the CLI
  and the third tool do not (`cmd/hooppy-mcp/main.go:1673`);
* a DELETE that was applied, lost its answer and was sent again comes back as 404,
  and the single-id form of `ops.DeletePosts` then reports its own deletion as "not
  found" (`ops/posts_delete.go:78`, `:93`);
* a run by id in which nothing was deleted is reported as partial
  (`ops/posts_delete.go:44`, `:158`);
* doctor counts a failure twice when a shift serves its row on two pages: counts
  per group are left out of the model, the exit code does not depend on them;
* the comment of `BatchMovePosts` says that the whole batch is refused unless every post
  is driven by a schedule (`posts.go:563`); the state of another, driven post that comes
  without its id passes for the post's own (`posts.go:682`);
* the comment at `posts.go:326` says that an edit state `{}`, whose id decodes as 0, is
  refused; the condition below it (`:328`) lets an id of 0 pass, and it is the guard on
  the targets (`:404`) that stops `{}`;
* an empty parsing form `{}` reads as "no parse in progress": `StoppedWasSeen` excepts
  it (`seen = "blank"`);
* `UpdateWatermark`, `UpdateProxy`, `UpdatePost` and the library's `UpdateSchedule`
  write only the fields of their struct, so `EditsKeepTheRest` excludes
  behaviours in which one of them runs (`Overwrites`).

## 4. Fairness

`SearchBatch`: weak fairness of the loop as a whole. One goroutine runs it, and
nothing but requests blocks it; that requests end is what `RequestRetry` checks.

`RequestRetry`: weak fairness of the client as a whole (`Client`), none of the
server. The wait for headers is ended by `ResponseHeaderTimeout` (`client.go:83`),
the pause by a timer, the reading of a body by a context that ends. Reading a body
is NOT timed, so for a caller whose context has no deadline - which is what the CLI
and the MCP server pass - a body that never ends holds the call: `CallsReturn`
states exactly this exception (`~bounded /\ <>[]open`).

The other specifications have no liveness property and no fairness. Deadlock is
checked everywhere: each has one explicit final step for "everything has returned".

## 5. Proofs

Assumptions, one per component: `PublishAssumption`, `RetryAssumption`,
`DeleteAssumption`, `MoveAssumption`, `BatchAssumption`, `WalkAssumption`,
`StopAssumption`, `QueriesAssumption` and `EditorsAssumption`: positive page size, attempts and list
bounds, natural numbers for the other bounds, a stranger who is not a client, field
values that differ from one another. TLC evaluates them on every run.

**`PublishPost_proofs`**, for any number of clients, pages, rows and posts:

* `TypeCorrect`. `TypeOK` is not inductive: a walk collects rows and a response
  collects ids from them. `TypeInv` adds `IdsExist`: lists, walks and snapshots
  hold ids of created posts only. `InsertAtFacts`, `RemoveAtType`, `PageRowsFacts`
  and `ToSetOfConcat` are the lemmas on sequences; `RecoveredFacts` is the one on
  the recovery: a slot means that the two walks differ in one post, and that the
  wire agrees.
* `OnePost`, `SlotsAreMine`, `RecoveryIsHarmless` follow from one invariant, `CallInv`:
  at each `pc`, what the call has made (nothing before the POST, one post after it)
  and what its response may say. `OtherCall` and `EnvironmentCall` show that
  everyone else leaves both alone; `StepCallOK` goes through the call's own actions.
* `CountGuardIsEnough` is the deep one. `GuardInv` adds, for quiet behaviours: the
  before snapshot does not hold the call's post, and during the second walk the post is
  either collected or still AHEAD of the page the walk is at. Insertions only move rows
  down (`GrowthMovesDown`), so `Ahead` survives every step of everybody, and a page
  that passes the row collects it (`AheadOfWalk`). When the walk ends the post is among
  the fresh rows, and if there is one fresh row it is the call's.

**`RequestRetry_proofs`**, for any number of calls and attempts:

* `RetryTypeCorrect`. The bound on attempts needs `AttemptLeft` (who is about to send has one
  left) and `LaterUnsent` (calls come one after the other); a pause needs its error.
* `CreatesActOnce`, from `CreateInv`: a create's only attempt is on the wire and has not
  acted, or has left it for good; a decided failure, waiting to be read or returned,
  is on the second side.
* `OkIsTrue`, from `AnswerInv`: what an answer says of the server while it is still on its
  way. An attempt that was answered is off the wire (`AnsweredIsOff`), without late
  requests nothing but the attempt waited for is on it (`OnlyThisAttempt`), and so the
  object holds an update from when its ok is under way until a later update is sent
  (`OkIsHeld`). `CountUp` and `ActFacts` are the lemmas on one act of the server.
* `DeletesKeepContract`, from `DeleteInv`: for an object nobody else deletes,
  `DeleteUnderWay` says where the DELETE under way stands; the one case that needs it is
  an object already gone by the first attempt, whose answer then leaves it open
  whether it was - so that the 404 of the second attempt comes from a call sent twice.
* `CallsKeepContract`, the refinement `Spec => KeepsCallContract`, from `ContractInv`:
  the attempts of a call that acted and those on the wire are together no more than were
  sent (`EachActsOnce`, a count over `wire`), and the one attempt of a call that failed with
  a decided answer is off the wire and has not acted (`DecidedIsIdle`). `SettleIsInContract`,
  `ActIsInContract` and their like map each step; `StepKeepsContract` puts them together.
* `ContractSuffices`: `CallContract` alone implies `CreateActsOnce`, `OkMeansActed` and
  `DeleteKeepsContract`. Its invariant `CallsInv` speaks of no attempt, so the contract
  is strong enough to be used in place of the client.

**`DeletePosts_proofs`**, for lists of any length:

* `RecordIsComplete` and `RecordIsHonest`, from `DeleteInv`. `RecordPartitionsIds` speaks
  of the end only; `Progress` says of the loop that the ids before `at` are exactly
  those recorded, `Separate` that none is recorded twice, and `GoneIsGone` that a post
  recorded as deleted or gone does not exist at any time. `DeleteIsHonest` is the one
  place where the contract of a single DELETE is used: a 404 means that the post is gone,
  whoever removed it.
* `UnknownIsKept`, from `BatchDecides`: the answer to the batch request alone decides
  whether there is a loop.
* `StopsInTime`: the property speaks of a history of answers, the code of a counter.
  `Trails` ties them (the counter is the length of the run of server errors at the
  end of the history); `TrailsFurther` and `EndsAtTheLimit` carry it through one answer.
* `DeleteTypeCorrect`; `StreakIsBounded` keeps the counter within BulkStop's limit.

**`BatchMove_proofs`**, for any posts and lists of any length:

* `GuardFailsClosed`, from `MoveInv`: while the guard reads, `alone` and no refusal so far
  mean that every post read is driven by a schedule or among those the guard was misled
  about (`Fit`, `Guarding`); that is what the move starts from (`Moving`), so it moves no
  other post.
* `AcceptedIsReported`: `Dating` ties the number of entries to the position in the list,
  whichever way an entry gets its date, and `Ended` carries it to the verdict.
* `BothLoopsStop`: as `StopsInTime`, for both loops; the second starts from a new counter.
* `MoveTypeCorrect`.

**`SearchBatch_proofs`**, for lists of any length and both loops. The module EXTENDS
`PublishPost_proofs`: a step of a publish inside the list is a step of
`PublishPost`, so its step lemmas are cited, not repeated.

* `BatchTypeCorrect`, `NamesAreKept`, `ExitOneMeansNothing`, from `BatchInv`: the calls'
  own invariant (`CallsInv`); calls the loop has not reached are idle (`Waiting`),
  calls behind it have returned (`Left`); what the result holds is backed by a call and what a
  call was named is in the result (`Backed`); what the verdict says of the counts (`Ended`).
* `ListKeepsContract`, the refinement `BatchSpec => KeepsContract`. A step inside a
  publish leaves every fate alone (`FateFacts`), leaving one settles exactly its
  position (`LeavingSettles`), finishing gives the verdict of the fates
  (`FinishReports`); `StepKeepsContract` puts the three together.
* `NothingIsCountedTwice`, from `ApartInv`: on a quiet schedule every id in the result is the
  id of a post still on the list, so the before snapshot of the NEXT publish holds
  it and the difference of its two walks cannot.

**`PagedWalk_proofs`**, for lists, pages and walks of any length:

* `WalkTypeCorrect`, and from `WalkInv`: the list stays newest first and holds the ids the
  properties speak of (`ListOK`), each stage has its page and its judgement
  (`Stages`), the totals are what was counted unless they were a lie (`Counted`), and on
  a list that only grows no row slips by unseen (`NothingSlipsBy`): every row
  of page 1's time is collected or still ahead of the walk.
* `BusyListsAreWhole` is `NothingSlipsBy` at the end of the walk (`WalkInvMeansWhole`).
  `TruncatedListsAreRefused`, `EqualListsAreExact` and `QuietDoctorIsRight` need no
  account of the shifts at all: with the total right, as many different ids as there
  were rows, all of them rows there were, are all the rows (`SameSize`, then
  `WholeWhenQuiet` and `WholeWhenEqual`). That is why the code counts ids and not rows.
* `CutsAreSaid`.

**`Editors_proofs`**, for any number of editors and attempts:

* `EditorsTypeCorrect`, `ForeignStateStaysOut`, `PostsStayAimed`, `OneObjectEach`, from
  `EditInv`: what is about to be written, or still under way from a request given
  up, is itself a state that keeps the two promises (`WholeBodies`) - so it does not
  matter when it arrives (`Arrival`) - and a create was made once, is under way once,
  or can still be sent once (`OneEach`).
* `NothingIsUndone`, from `KeepInv`: with no overlap, the state an edit is about to write
  is the server's own but for its fields (`Fresh`), so its write touches no other field
  (`Touches`), and every field is settled after each step (`QuietStep`).

**`ReadAnswers_proofs`**:

* `StoppedIsSeen` and `LaterParsesLive`, for any number of jobs, attempts and calls, from
  `StopInv`: jobs are numbered in the order they start (`Numbered`), the job that ran
  when the call began is the one that runs or has ended (`FirstIsKnown`), and once the
  form was seen no further DELETE is sent by this agent (`SeenIsFinal`).
* `QueueAnswersWhole`, for any number of days, reads and changes and any size of a page,
  from `QueriesInv`. A page of a calendar is the days whose place in the window lies
  between two bounds, so the lemmas are about places: they run from 0 without a gap
  (`Places`), hence a page that says there is no more holds the last day (`PageEnds`,
  `LastDayIsShown`), and page 1 holds the first one (`BoundsOfPageOne`). `WalkIsOnTrack`
  is what makes the property inductive: a recovery that has read n pages of a queue that
  stood still has the days of the first n pages, so the unflagged answer that ends it
  completes the window (`AllPagesRead`).
* `FiltersApplied`: for every endpoint at once, a filter that is not refused is sent, and
  applied unless its value is one the client does not check (`AcceptedIsApplied`).

Only model-checked: liveness (`ListIsAnswered`, `CallsReturn`), which is out of the
prover's reach. Every other property of a passing run is also a theorem. Only proved,
and no longer run: `BatchTypeOK`, the type of a list's result (`BatchTypeCorrect`).

## 6. Not modelled

* **Uploads** (`doMultipartStream`): a goroutine writes a pipe which the transport reads
  and closes. Which side releases the other is decided in `net/http`; a model would
  be mostly of code outside `src/`.
* **Reads of one request** (`user.go`, `sources.go`, `posts_where.go`, the statistics of
  `crossposting.go`): no state, no decision; they are GET calls of `RequestRetry`.
* **`resolveSearchTarget` in full, ad markers, markup patterns, id-list parsing**: text
  processing, or one decision without state. The path a target selects and what the
  strip does to an empty post are in `SearchBatch`.
* **`internal/apicov`, `scripts/`**: build-time comparison of documents.
* **Formatting, flags, schema binding, JSON decoding, wording of errors.**
  `Retry-After`, JWT expiry and the environment do not change the order of requests.
* The table with which doctor groups failures by their text, and the counts of the queue
  summary.

The models' own bounds, none of which the code has: `MaxPosts`, `MaxCalls`, `MaxSize`,
`MaxLength`, `MaxIds` (the code's `MaxBatchDeleteIDs` is far above it), `Old`,
`Rows`, `MaxLies`, `MaxGone`, `Jobs`, `Calls`, `LastDay`, `Reads`, `MaxPage`, `Changes`.
`MaxPages`, `MaxAttempts`, `Attempts` and `PageSize` are the code's constants or
options; `PerPage` is the server's.

## 7. Plan

Done, in this order: `PublishPost`, `SearchBatch` and its contract, `RequestRetry`,
`DeletePosts`, `BatchMove`; then `PagedWalk`, `Editors`, `StopParse`, `Queries`, the
refinement proof of `SearchBatch` and the proofs of the two stop rules; then
`CallContract` with its refinement, and the proofs about answers (`RequestRetry`,
`Queries`).

What remains worth doing:

1. An abstract specification of `PagedWalk` (a walk returns a set between what was
   there throughout and what was there at some time), and of `Editors` (an object
   whose fields are written one command at a time, when commands do not overlap).
2. `doMultipartStream` against an abstract transport.
3. Liveness of the walks: that one ends whatever the server answers, which today the bound
   of `maxListAllPages` gives by its shape.
