---------------------------- MODULE PublishPost ----------------------------
(***************************************************************************)
(* Client.PublishPost (posts_search.go) and the slot recovery it runs      *)
(* (schedule_slots.go), called by several clients on ONE schedule at the   *)
(* same time.                                                              *)
(*                                                                         *)
(* A schedule-driven create does three requests: walk the schedule's post  *)
(* list, POST /posts, walk the list again.  The difference of the two      *)
(* walks is the slot the server gave to the post.  Nothing locks the       *)
(* schedule: other clients, the web UI and the publisher change the list   *)
(* between any two requests, and between two PAGES of one walk.            *)
(*                                                                         *)
(* The server is external; it is modelled from what the client code and    *)
(* its comments say of it.  It may list a post some time after creating it *)
(* (schedule_slots.go:48) and posts may leave the schedule (published,     *)
(* moved, deleted) at any moment; a behaviour that starts quiet has        *)
(* neither, which is the case the count guard is sufficient for.           *)
(***************************************************************************)
EXTENDS Naturals, Sequences, FiniteSets, SequencesExt

CONSTANTS
  Clients,    \* the processes that call PublishPost on the schedule
  Stranger,   \* whoever else creates posts on it
  PageSize,   \* rows on one page of GET /posts
  MaxPages,   \* maxListAllPages
  Initial,    \* posts on the schedule before the first call
  MaxPosts    \* bound: posts the server ever holds

ASSUME PublishAssumption ==
  /\ Stranger \notin Clients
  /\ PageSize \in Nat \ {0}
  /\ MaxPages \in Nat \ {0}
  /\ Initial \in Nat
  /\ MaxPosts \in Nat

VARIABLES
  quiet,     \* no late listing and no removal in this behaviour
  posts,     \* who made each post ever created; its id is its position
  queue,     \* the ids the list surface shows, in its order
  hidden,    \* ids created and not listed yet
  pc,        \* what each call does next
  input,     \* its arguments
  page,      \* the next page of the walk it is in
  rows,      \* the ids that walk has collected
  before,    \* beforeSnapshot, as the set of its ids
  beforeErr, \* beforeErr # nil
  resp,      \* the PostIDResponse under construction
  outcome    \* what the call returned

server == <<quiet, posts, queue, hidden>>
vars == <<server, pc, input, page, rows, before, beforeErr, resp, outcome>>

-----------------------------------------------------------------------------
(* Data *)

Ids == 1..Len(posts)

Makers == Clients \cup {Stranger}

(* publication_when_type = 3, schedules_ids not empty, something to post.  *)
Inputs == [bySchedule : BOOLEAN, schedules : BOOLEAN, content : BOOLEAN]

(* The parts of SlotLookupError, one name for each text the code puts in.  *)
(* The text on a malformed time field is left out with the date itself: a  *)
(* slot is the id of the post it belongs to.                               *)
Lookup == {"before", "after", "count", "mismatch", "offset"}
PostIds == Nat \ {0}
Responses == [wire  : Nat,            \* id decoded from the answer, 0 if none
              id    : Nat,            \* ID
              ids   : SUBSET PostIds, \* IDs
              slots : SUBSET PostIds, \* Slots
              lookup : SUBSET Lookup] \* SlotLookupError, {} when empty
NoResponse == [wire |-> 0, id |-> 0, ids |-> {}, slots |-> {}, lookup |-> {}]

Outcomes == {"none", "refused", "failed", "noId", "ok"}
PCs == {"idle", "before", "post", "after", "done"}

TypeOK ==
  /\ quiet \in BOOLEAN
  /\ posts \in Seq(Makers)
  /\ queue \in Seq(PostIds)
  /\ hidden \in SUBSET PostIds
  /\ pc \in [Clients -> PCs]
  /\ input \in [Clients -> Inputs]
  /\ page \in [Clients -> Nat \ {0}]
  /\ rows \in [Clients -> Seq(PostIds)]
  /\ before \in [Clients -> SUBSET PostIds]
  /\ beforeErr \in [Clients -> BOOLEAN]
  /\ resp \in [Clients -> Responses]
  /\ outcome \in [Clients -> Outcomes]

-----------------------------------------------------------------------------
(* The server *)

Init ==
  /\ quiet \in BOOLEAN
  /\ posts = [i \in 1..Initial |-> Stranger]
  /\ queue = [i \in 1..Initial |-> i]
  /\ hidden = {}
  /\ pc = [c \in Clients |-> "idle"]
  /\ input \in [Clients -> Inputs]
  /\ page = [c \in Clients |-> 1]
  /\ rows = [c \in Clients |-> <<>>]
  /\ before = [c \in Clients |-> {}]
  /\ beforeErr = [c \in Clients |-> FALSE]
  /\ resp = [c \in Clients |-> NoResponse]
  /\ outcome = [c \in Clients |-> "none"]

(* The server stores a post.  Whether it is on the schedule decides if the *)
(* list ever shows it; the list is in publication order, so a new row may  *)
(* come anywhere.                                                          *)
Store(maker, onSchedule) ==
  /\ Len(posts) < MaxPosts
  /\ UNCHANGED quiet
  /\ posts' = Append(posts, maker)
  /\ LET id == Len(posts) + 1 IN
       \/ /\ onSchedule
          /\ \E i \in 1..Len(queue) + 1 : queue' = InsertAt(queue, i, id)
          /\ UNCHANGED hidden
       \/ /\ onSchedule
          /\ ~quiet
          /\ hidden' = hidden \cup {id}
          /\ UNCHANGED queue
       \/ /\ ~onSchedule
          /\ UNCHANGED <<queue, hidden>>

StrangerCreates ==
  /\ Store(Stranger, TRUE)
  /\ UNCHANGED <<pc, input, page, rows, before, beforeErr, resp, outcome>>

BecomesListed(id) ==
  /\ id \in hidden
  /\ hidden' = hidden \ {id}
  /\ \E i \in 1..Len(queue) + 1 : queue' = InsertAt(queue, i, id)
  /\ UNCHANGED <<quiet, posts, pc, input, page, rows, before, beforeErr, resp, outcome>>

LeavesSchedule(i) ==
  /\ ~quiet
  /\ i \in 1..Len(queue)
  /\ queue' = RemoveAt(queue, i)
  /\ UNCHANGED <<quiet, posts, hidden, pc, input, page, rows, before, beforeErr, resp,
                 outcome>>

-----------------------------------------------------------------------------
(* ListAllPostsWithTotal: page after page of the list as it is NOW.        *)

IsHasMore(p) == p * PageSize < Len(queue)
PageRows(p) == SubSeq(queue, (p - 1) * PageSize + 1,
                      IF IsHasMore(p) THEN p * PageSize ELSE Len(queue))
Collected(c) == rows[c] \o PageRows(page[c])

(* Broken: the walk asks for page 0 first. *)
BeginWalkAtZero(c, which) ==
  /\ pc' = [pc EXCEPT ![c] = which]
  /\ page' = [page EXCEPT ![c] = 0]
  /\ rows' = [rows EXCEPT ![c] = <<>>]

BeginWalk(c, which) ==
  /\ pc' = [pc EXCEPT ![c] = which]
  /\ page' = [page EXCEPT ![c] = 1]
  /\ rows' = [rows EXCEPT ![c] = <<>>]

NextPage(c) ==
  /\ pc[c] \in {"before", "after"}
  /\ page[c] <= MaxPages
  /\ IsHasMore(page[c])
  /\ rows' = [rows EXCEPT ![c] = Collected(c)]
  /\ page' = [page EXCEPT ![c] = @ + 1]
  /\ UNCHANGED <<server, pc, input, before, beforeErr, resp, outcome>>

(* The last page: the walk returns all rows. *)
WalkEnds(c, which) ==
  /\ pc[c] = which
  /\ page[c] <= MaxPages
  /\ ~IsHasMore(page[c])

-----------------------------------------------------------------------------
(* fillBatchSlotsBySnapshotDiff, for the one post PublishPost creates.     *)

Sent == 1

FreshRows(all, seen) == {i \in 1..Len(all) : all[i] \notin seen}
FirstOf(S) == CHOOSE i \in S : \A j \in S : i <= j

(* Broken: any fresh row will do. *)
CountIgnored(fresh) == fresh # {}

CountGuard(fresh) == Cardinality(fresh) = Sent

(* Broken: the count guard is trusted to name the caller's post. *)
WireTrusted(wire, created) == created # {}

WireIdCheck(wire, created) == wire = 0 \/ wire \in created

Recovered(r, all, seen, offsetKnown) ==
  LET fresh == FreshRows(all, seen)
      created == {all[i] : i \in fresh}
      first == all[FirstOf(fresh)]
      id == IF r.wire = 0 /\ fresh # {} THEN first ELSE r.id
  IN CASE ~CountGuard(fresh) ->
            [r EXCEPT !.ids = created, !.id = id, !.lookup = {"count"}]
       [] CountGuard(fresh) /\ ~WireIdCheck(r.wire, created) ->
            [r EXCEPT !.ids = created, !.lookup = {"mismatch"}]
       [] OTHER ->
            [r EXCEPT !.ids = created, !.id = id,
                      !.slots = created,
                      !.lookup = IF offsetKnown THEN {} ELSE {"offset"}]

(* Broken: an id that could not be recovered is an id that is missing. *)
VerdictOnIdAlone(r) == IF r.id = 0 /\ r.ids = {} THEN "noId" ELSE "ok"

(* checkCreateID *)
Verdict(r) == IF r.id = 0 /\ r.ids = {} /\ r.lookup = {} THEN "noId" ELSE "ok"

(* The call returns and its local variables are gone. *)
Return(c, r, o) ==
  /\ resp' = [resp EXCEPT ![c] = r]
  /\ outcome' = [outcome EXCEPT ![c] = o]
  /\ pc' = [pc EXCEPT ![c] = "done"]
  /\ page' = [page EXCEPT ![c] = 1]
  /\ rows' = [rows EXCEPT ![c] = <<>>]
  /\ before' = [before EXCEPT ![c] = {}]
  /\ beforeErr' = [beforeErr EXCEPT ![c] = FALSE]

-----------------------------------------------------------------------------
(* PublishPost *)

Refuse(c) ==
  /\ pc[c] = "idle"
  /\ \/ ~input[c].content
     \/ input[c].bySchedule /\ ~input[c].schedules
  /\ Return(c, NoResponse, "refused")
  /\ UNCHANGED <<server, input>>

Accept(c) ==
  /\ pc[c] = "idle"
  /\ input[c].content
  /\ input[c].bySchedule => input[c].schedules
  /\ BeginWalk(c, IF input[c].bySchedule THEN "before" ELSE "post")
  /\ UNCHANGED <<server, input, before, beforeErr, resp, outcome>>

(* Broken: the snapshot is taken and not kept. *)
BeforeForgotten(c) ==
  /\ WalkEnds(c, "before")
  /\ pc' = [pc EXCEPT ![c] = "post"]
  /\ UNCHANGED <<server, input, page, rows, before, beforeErr, resp, outcome>>

BeforeTaken(c) ==
  /\ WalkEnds(c, "before")
  /\ before' = [before EXCEPT ![c] = ToSet(Collected(c))]
  /\ pc' = [pc EXCEPT ![c] = "post"]
  /\ UNCHANGED <<server, input, page, rows, beforeErr, resp, outcome>>

(* A failed snapshot (an error answer, or a walk past MaxPages) does not   *)
(* stop the create.                                                        *)
BeforeFails(c) ==
  /\ pc[c] = "before"
  /\ beforeErr' = [beforeErr EXCEPT ![c] = TRUE]
  /\ pc' = [pc EXCEPT ![c] = "post"]
  /\ UNCHANGED <<server, input, page, rows, before, resp, outcome>>

(* POST /posts answered 2xx, with the new id or without one. *)
PostAnswered(c) ==
  /\ pc[c] = "post"
  /\ Store(c, input[c].bySchedule)
  /\ \E wire \in {0, Len(posts) + 1} :
       LET r == [NoResponse EXCEPT !.wire = wire, !.id = wire] IN
         \/ /\ input[c].bySchedule
            /\ ~beforeErr[c]
            /\ BeginWalk(c, "after")
            /\ resp' = [resp EXCEPT ![c] = r]
            /\ UNCHANGED <<outcome, before, beforeErr>>
         \/ /\ input[c].bySchedule
            /\ beforeErr[c]
            /\ LET failed == [r EXCEPT !.lookup = {"before"}] IN
                 Return(c, failed, Verdict(failed))
         \/ /\ ~input[c].bySchedule
            /\ Return(c, r, Verdict(r))
  /\ UNCHANGED input

(* POST /posts is not retried: an error answer ends the call.              *)
PostRefused(c) ==
  /\ pc[c] = "post"
  /\ Return(c, NoResponse, "failed")
  /\ UNCHANGED <<server, input>>

(* Broken: a lost answer is tried again. *)
PostAnswerLostRetried(c) ==
  /\ pc[c] = "post"
  /\ Store(c, input[c].bySchedule)
  /\ UNCHANGED <<pc, resp, outcome, input, page, rows, before, beforeErr>>

(* The server stored the post and the answer was lost or unreadable.       *)
PostAnswerLost(c) ==
  /\ pc[c] = "post"
  /\ Store(c, input[c].bySchedule)
  /\ Return(c, NoResponse, "failed")
  /\ UNCHANGED input

AfterTaken(c) ==
  /\ WalkEnds(c, "after")
  /\ \E offsetKnown \in BOOLEAN :
       LET r == Recovered(resp[c], Collected(c), before[c], offsetKnown) IN
         Return(c, r, Verdict(r))
  /\ UNCHANGED <<server, input>>

AfterFails(c) ==
  /\ pc[c] = "after"
  /\ LET r == [resp[c] EXCEPT !.lookup = {"after"}] IN Return(c, r, Verdict(r))
  /\ UNCHANGED <<server, input>>

-----------------------------------------------------------------------------
Step(c) ==
  \/ Refuse(c)
  \/ Accept(c)
  \/ NextPage(c)
  \/ BeforeTaken(c)
  \/ BeforeFails(c)
  \/ PostAnswered(c)
  \/ PostRefused(c)
  \/ PostAnswerLost(c)
  \/ AfterTaken(c)
  \/ AfterFails(c)

Environment ==
  \/ StrangerCreates
  \/ \E id \in hidden : BecomesListed(id)
  \/ \E i \in 1..Len(queue) : LeavesSchedule(i)

(* Every call has returned; the model stops here and nowhere else. *)
AllReturned ==
  /\ \A c \in Clients : pc[c] = "done"
  /\ UNCHANGED vars

Next ==
  \/ Environment
  \/ \E c \in Clients : Step(c)
  \/ AllReturned

Spec == Init /\ [][Next]_vars

-----------------------------------------------------------------------------
(* Properties *)

Returned(c) == pc[c] = "done" /\ outcome[c] = "ok"
MadeBy(c) == {id \in Ids : posts[id] = c}

(* When the server named the created post, that id is what the call        *)
(* returns and a slot is reported for that post only, whatever other       *)
(* clients, late listing and removals did to the two walks (the wire-id    *)
(* cross-check, schedule_slots.go:171-200).                                *)
SlotIsMine ==
  \A c \in Clients : resp[c].wire # 0 =>
    /\ resp[c].id = resp[c].wire
    /\ \A s \in resp[c].slots : s = resp[c].wire /\ posts[s] = c

(* When the server names no post, the count guard alone protects the       *)
(* caller (schedule_slots.go:152-168).  It is enough as long as a created  *)
(* post is listed at once and none leaves the schedule during the call:    *)
(* then a recovered slot, id and ids are the caller's own post, even       *)
(* though the two walks are not atomic.                                    *)
CountGuardSuffices ==
  quiet =>
    \A c \in Clients : resp[c].slots # {} =>
      /\ resp[c].id \in MadeBy(c)
      /\ resp[c].ids = {resp[c].id}
      /\ resp[c].slots = {resp[c].id}

(* A failure of the recovery never makes a created post look like a failed *)
(* call, and never ends as CreateNoIDError: on the schedule path an        *)
(* answered create returns ok, with a slot or with the reason it has none  *)
(* (schedule_slots.go:61-63, success_gate.go:197-215).                     *)
RecoveryNeverFailsTheCreate ==
  \A c \in Clients : input[c].bySchedule =>
    /\ outcome[c] # "noId"
    /\ Returned(c) => resp[c].slots # {} \/ resp[c].lookup # {}

(* CreateNoIDError is raised only for a post that exists                   *)
(* (success_gate.go:121-130), a refusal only when nothing was sent, and no *)
(* call ever creates two posts: POST /posts is not retried.                *)
OnePostPerCall ==
  \A c \in Clients :
    /\ \A i, j \in MadeBy(c) : i = j
    /\ outcome[c] \in {"ok", "noId"} => MadeBy(c) # {}
    /\ outcome[c] = "refused" => MadeBy(c) = {}
=============================================================================
