---------------------------- MODULE SearchBatch ----------------------------
(***************************************************************************)
(* search import, rewrite and copy: one client resolves and publishes a    *)
(* list of scraped posts, one after the other, and reports one verdict for *)
(* the list.  Each publish is a whole PublishPost call of PublishPost.tla, *)
(* while the rest of the world goes on using the schedule.                 *)
(*                                                                         *)
(* The loop exists twice in the code: resolvePublishBatch in the library   *)
(* (rewrite, copy, the library's import) and ops.ImportSearchPost (the CLI *)
(* and MCP import).  "core" says which one a behaviour runs.               *)
(***************************************************************************)
EXTENDS PublishPost

CONSTANTS
  Cores,   \* the loops a behaviour may run: {"library", "op"} or one of them
  Options, \* what a caller may ask to do with the texts
  MaxSize  \* bound: ids in the list

ASSUME BatchAssumption ==
  /\ Cores \subseteq {"library", "op"}
  /\ Options \subseteq {"keep", "texts", "strip"}
  /\ MaxSize \in Nat \ {0}
  /\ Clients = 1..MaxSize

VARIABLES
  core,     \* resolvePublishBatch or ops.ImportSearchPost
  size,     \* len(ids)
  option,   \* what the caller asked to do with the texts
  at,       \* position in the list; 0 before the guards, size + 1 after it
  resolved, \* content holds the current post's resolved content
  source,   \* each scraped post has texts, or attachments the caller keeps
  status,   \* the branch each post left the loop body by
  res,      \* the PostIDResponse of the list
  verdict,  \* the error the list returns: none, a PartialPostError, another
  told      \* the returned result is not nil

request == <<core, size, option>>
batch == <<request, at, resolved, source, status, res, verdict, told>>
allvars == <<vars, batch>>

Results == [ids : Seq(Nat), id : Nat, slots : SUBSET PostIds, noId : Nat, lookup : BOOLEAN]
NoResult == [ids |-> <<>>, id |-> 0, slots |-> {}, noId |-> 0, lookup |-> FALSE]

BatchTypeOK ==
  /\ TypeOK
  /\ core \in Cores
  /\ size \in Clients
  /\ option \in Options
  /\ at \in 0..MaxSize + 1
  /\ resolved \in BOOLEAN
  /\ source \in [Clients -> BOOLEAN]
  /\ status \in [Clients -> {"none", "created", "created_no_id", "failed"}]
  /\ res \in Results
  /\ verdict \in {"none", "ok", "partial", "error"}
  /\ told \in BOOLEAN

(* Only the library takes texts, only the op strips. *)
BatchInit ==
  /\ Init
  /\ \E t \in Inputs : ~t.content /\ input = [c \in Clients |-> t]
  /\ core \in Cores
  /\ size \in Clients
  /\ option \in Options
  /\ option = "texts" => core = "library"
  /\ option = "strip" => core = "op"
  /\ at = 0
  /\ resolved = FALSE
  /\ source = [c \in Clients |-> FALSE]
  /\ status = [c \in Clients |-> "none"]
  /\ res = NoResult
  /\ verdict = "none"
  /\ told = FALSE

-----------------------------------------------------------------------------
(* Before any request *)

Target == input[1]

(* The guard against one text for many posts, and the two guards on the    *)
(* target: schedules need the by-schedule mode, and for the op the mode    *)
(* needs schedules (the library leaves that one to PublishPost).           *)
RequestRefused ==
  \/ size > 1 /\ option = "texts"
  \/ Target.schedules /\ ~Target.bySchedule
  \/ core = "op" /\ Target.bySchedule /\ ~Target.schedules

RefuseRequest ==
  /\ at = 0
  /\ verdict = "none"
  /\ RequestRefused
  /\ verdict' = "error"
  /\ UNCHANGED <<vars, request, at, resolved, source, status, res, told>>

BeginLoop ==
  /\ at = 0
  /\ ~RequestRefused
  /\ at' = 1
  /\ UNCHANGED <<vars, request, resolved, source, status, res, verdict, told>>

-----------------------------------------------------------------------------
(* The loop body *)

InLoop == at \in 1..size

(* What is left to publish: the override and the strip each put one text   *)
(* in the content whatever the source had.                                 *)
HasContent(s) == s \/ option # "keep"

Resolve ==
  /\ InLoop
  /\ ~resolved
  /\ \E s \in BOOLEAN :
       /\ source' = [source EXCEPT ![at] = s]
       /\ input' = [input EXCEPT ![at].content = HasContent(s)]
  /\ resolved' = TRUE
  /\ UNCHANGED <<server, pc, page, rows, before, beforeErr, resp, outcome>>
  /\ UNCHANGED <<request, at, status, res, verdict, told>>

(* Broken: a failed post is tried again. *)
LeavesBodyOnSuccess(s) ==
  /\ status' = [status EXCEPT ![at] = s]
  /\ at' = IF s = "failed" THEN at ELSE at + 1
  /\ resolved' = FALSE

LeavesBody(s) ==
  /\ status' = [status EXCEPT ![at] = s]
  /\ at' = at + 1
  /\ resolved' = FALSE

(* A read error or an attachment kind the mapping does not know.           *)
ResolveFails ==
  /\ InLoop
  /\ ~resolved
  /\ LeavesBody("failed")
  /\ UNCHANGED <<vars, request, source, res, verdict, told>>

Publishing ==
  /\ InLoop
  /\ resolved
  /\ Step(at)
  /\ UNCHANGED batch

(* Broken: only the first post of the list reaches the result. *)
WithFirstOnly(r) == IF res.ids = <<>>
  THEN [res EXCEPT !.ids = <<r.id>>, !.id = r.id, !.slots = r.slots] ELSE res

With(r) ==
  [res EXCEPT !.ids = Append(@, r.id),
              !.slots = @ \cup r.slots,
              !.id = IF @ = 0 THEN r.id ELSE @,
              !.lookup = @ \/ r.lookup # {}]

Published ==
  /\ InLoop
  /\ resolved
  /\ pc[at] = "done"
  /\ \/ /\ outcome[at] = "ok"
        /\ LeavesBody("created")
        /\ res' = With(resp[at])
     \/ /\ outcome[at] = "noId"
        /\ \/ core = "op"
           \/ size > 1
        /\ LeavesBody("created_no_id")
        /\ res' = [res EXCEPT !.noId = @ + 1]
     \/ /\ \/ outcome[at] \in {"refused", "failed"}
           \/ outcome[at] = "noId" /\ core = "library" /\ size = 1
        /\ LeavesBody("failed")
        /\ UNCHANGED res
  /\ UNCHANGED <<vars, request, source, verdict, told>>

-----------------------------------------------------------------------------
(* After the loop *)

FailedPosts == {i \in 1..size : status[i] = "failed"}

(* Broken: creates without an id are not counted as landed. *)
NothingNamed == res.ids = <<>>

NothingLanded == res.ids = <<>> /\ res.noId = 0

(* Broken: a list with a failure returns no result. *)
HasResultIfClean(v) == v = "ok"

(* The op always returns its per-post record; the library returns nil with *)
(* an error that is not a PartialPostError.                                *)
HasResult(v) == core = "op" \/ v # "error"

Finish ==
  /\ at = size + 1
  /\ verdict = "none"
  /\ \/ FailedPosts = {} /\ verdict' = "ok"
     \/ FailedPosts # {} /\ (size = 1 \/ NothingLanded) /\ verdict' = "error"
     \/ FailedPosts # {} /\ size > 1 /\ ~NothingLanded /\ verdict' = "partial"
  /\ told' = HasResult(verdict')
  /\ UNCHANGED <<vars, request, at, resolved, source, status, res>>

-----------------------------------------------------------------------------
Progress ==
  \/ RefuseRequest
  \/ BeginLoop
  \/ Resolve
  \/ ResolveFails
  \/ Publishing
  \/ Published
  \/ Finish

(* The rest of the world, as long as the call has not returned. *)
World ==
  /\ verdict = "none"
  /\ Environment
  /\ UNCHANGED batch

Reported ==
  /\ verdict # "none"
  /\ UNCHANGED allvars

BatchNext == Progress \/ World \/ Reported

(* One goroutine runs the loop and nothing blocks it but requests.  Those  *)
(* end (CallsReturn of RequestRetry), a body that never does left aside.   *)
BatchSpec == BatchInit /\ [][BatchNext]_allvars /\ WF_allvars(Progress)

-----------------------------------------------------------------------------
(* What the surfaces print *)

AcceptedWithoutId == size = 1 /\ outcome[1] = "noId"

(* Broken: a create without an id is printed as any other error. *)
ExitOnVerdict == CASE verdict = "ok" -> 0 [] verdict = "partial" -> 2 [] OTHER -> 1

(* runImport, runRewriteSearchPost, runCopySearchPost *)
Exit ==
  CASE verdict = "ok" -> 0
    [] verdict = "partial" -> 2
    [] verdict = "error" /\ AcceptedWithoutId -> 0
    [] OTHER -> 1

-----------------------------------------------------------------------------
(* Properties *)

(* Every id the server named is in the result the caller holds, also when  *)
(* later posts of the list failed (posts_search.go:1131-1133).             *)
NothingNamedIsLost ==
  verdict # "none" =>
    \A c \in Clients : resp[c].wire # 0 => told /\ resp[c].wire \in ToSet(res.ids)

(* Exit 1 says that no create was answered as accepted: a re-run makes no  *)
(* second post that the first run could have reported                      *)
(* (search_runners.go:202-207, import_text.go:21-26).  A create whose      *)
(* answer was lost may have made a post all the same, which nothing tells. *)
ExitOneOnlyIfNothingAccepted ==
  verdict # "none" /\ Exit = 1 => \A c \in Clients : outcome[c] \notin {"ok", "noId"}

(* On a schedule nothing leaves and nothing is late on, no post is counted *)
(* twice: the before snapshot of each publish holds every earlier one.     *)
IdsAreDistinct ==
  quiet => \A i, j \in DOMAIN res.ids : res.ids[i] = res.ids[j] /\ res.ids[i] # 0 => i = j

(* The verdict of the list is the one its contract derives from what       *)
(* became of each post.                                                    *)
Fate(i) ==
  IF i >= at THEN "none"
  ELSE IF outcome[i] = "ok" THEN "created"
  ELSE IF outcome[i] = "noId" THEN "noId" ELSE "failed"

Contract == INSTANCE BatchContract WITH fate <- [i \in Clients |-> Fate(i)]

KeepsContract == Contract!Spec

(* The call returns, whatever fails and whatever the world does to the     *)
(* lists it walks.                                                         *)
ListIsAnswered == <>(verdict # "none")

(* No zero id in the list of ids (posts_search.go:1050-1052).              *)
NoZeroId == 0 \notin ToSet(res.ids)

(* A post with no texts and no attachments is never published              *)
(* (posts_search.go:771-772).                                              *)
NothingEmptyPublished ==
  \A c \in Clients : MadeBy(c) # {} => source[c] \/ option = "texts"
=============================================================================
