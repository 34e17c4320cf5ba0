---------------------------- MODULE DeletePosts ----------------------------
(***************************************************************************)
(* ops.DeletePosts (posts_delete.go): one POST /posts/batch/delete for     *)
(* several ids, and when the server refuses it, one DELETE per id with     *)
(* BulkStop deciding when to stop.  A call of the client is one step here; *)
(* what a DELETE with its retries may have done is DeleteOutcome, which    *)
(* RequestRetry keeps.                                                     *)
(***************************************************************************)
EXTENDS Answers, FiniteSets, Sequences

CONSTANT MaxIds    \* bound: ids of the largest list

ASSUME DeleteAssumption == MaxIds \in Nat \ {0}

VARIABLES
  n,         \* the ids are 1..n: validatePostIDs refused every other list
  retries,   \* Config.RetryOptions # nil
  there,     \* the ids of posts that exist
  removed,   \* ids this operation's own requests removed
  cancelled, \* the caller's context is done
  phase,     \* "call", "loop" over the ids, "sum" up, "done"
  batch,     \* what the batch request returned, "none" when none was sent
  at,        \* the id the loop is at
  streak,    \* BulkStop.serverErrors
  stopped,   \* the remaining ids are not attempted
  answers,   \* what the per-id requests returned, in order
  deleted, alreadyGone, failed, notTried,  \* the result; notTried \subseteq failed
  verdict    \* "ok", "partial", "error" with a record, "unknown" without one

record == <<deleted, alreadyGone, failed, notTried>>
vars == <<n, retries, there, removed, cancelled, phase, batch, at, streak, stopped, answers,
          record, verdict>>

Ids == 1..n

DeleteTypeOK ==
  /\ n \in 1..MaxIds
  /\ retries \in BOOLEAN
  /\ there \subseteq Ids
  /\ removed \subseteq Ids
  /\ cancelled \in BOOLEAN
  /\ phase \in {"call", "loop", "sum", "done"}
  /\ batch \in CallAnswers \cup {"none"}
  /\ at \in 1..MaxIds + 1
  /\ streak \in 0..MaxConsecutiveServerErrors
  /\ stopped \in BOOLEAN
  /\ answers \in Seq(CallAnswers)
  /\ deleted \subseteq Ids
  /\ alreadyGone \subseteq Ids
  /\ failed \subseteq Ids
  /\ notTried \subseteq failed
  /\ verdict \in {"none", "ok", "partial", "error", "unknown"}

Init ==
  /\ n \in 1..MaxIds
  /\ retries \in BOOLEAN
  /\ there \in SUBSET Ids
  /\ removed = {}
  /\ cancelled \in BOOLEAN
  /\ phase = "call"
  /\ batch = "none"
  /\ at = 1
  /\ streak = 0
  /\ stopped = FALSE
  /\ answers = <<>>
  /\ deleted = {} /\ alreadyGone = {} /\ failed = {} /\ notTried = {}
  /\ verdict = "none"

-----------------------------------------------------------------------------
(* The requests *)

(* One DELETE /posts/{id}: a cancelled context sends nothing.              *)
Delete(id, a, gone) ==
  /\ DeleteOutcome(id \in there, id \in there /\ ~gone, a, retries)
  /\ cancelled => a = "no answer" /\ ~gone
  /\ gone => id \in there
  /\ there' = IF gone THEN there \ {id} ELSE there
  /\ removed' = IF gone THEN removed \cup {id} ELSE removed

(* POST /posts/batch/delete, sent once.  A 5xx, a refusal or silence may   *)
(* hide a batch that was applied in part (posts_delete.go:74-75, 100).     *)
BatchDelete(a, gone) ==
  /\ a = "ok" => gone = there \cap Ids
  /\ a \in {"not found", "rate limited", "barred"} => gone = {}
  /\ cancelled => a = "no answer" /\ gone = {}
  /\ there' = there \ gone
  /\ removed' = removed \cup gone

Finish(v) == phase' = "done" /\ verdict' = v

-----------------------------------------------------------------------------
(* The operation *)

Single ==
  /\ phase = "call"
  /\ n = 1
  /\ \E a \in CallAnswers, gone \in BOOLEAN :
       /\ Delete(1, a, gone)
       /\ \/ a = "ok" /\ deleted' = {1} /\ UNCHANGED failed /\ Finish("ok")
          \/ a # "ok" /\ failed' = {1} /\ UNCHANGED deleted /\ Finish("error")
       /\ answers' = <<a>>
  /\ UNCHANGED <<n, retries, cancelled, batch, at, streak, stopped, alreadyGone, notTried>>

(* Broken: silence is read as a refusal of the batch. *)
GoesOnAfterAny(a) == a \notin {"ok", "not found"}

(* The per-id run is for a batch the server itself refused.                *)
GoesOnById(a) == a # "ok" /\ IsServerAnswer(a) /\ a # "not found"

Batch ==
  /\ phase = "call"
  /\ n > 1
  /\ \E a \in CallAnswers, gone \in SUBSET (there \cap Ids) :
       /\ BatchDelete(a, gone)
       /\ batch' = a
       /\ \/ a = "ok" /\ deleted' = Ids /\ Finish("ok")
          \/ GoesOnById(a) /\ phase' = "loop" /\ UNCHANGED <<deleted, verdict>>
          \/ a # "ok" /\ ~GoesOnById(a) /\ Finish("unknown") /\ UNCHANGED deleted
  /\ UNCHANGED <<n, retries, cancelled, at, streak, stopped, answers>>
  /\ UNCHANGED <<alreadyGone, failed, notTried>>

StopsHere == stopped \/ cancelled

Advance ==
  /\ at' = at + 1
  /\ phase' = IF at = n THEN "sum" ELSE phase

DeleteNext ==
  /\ phase = "loop"
  /\ ~StopsHere
  /\ \E a \in CallAnswers, gone \in BOOLEAN :
       /\ Delete(at, a, gone)
       /\ streak' = Streak(streak, a)
       /\ stopped' = Halts(streak, a)
       /\ answers' = Append(answers, a)
       /\ deleted' = IF a = "ok" THEN deleted \cup {at} ELSE deleted
       /\ alreadyGone' = IF a = "not found" THEN alreadyGone \cup {at} ELSE alreadyGone
       /\ failed' = IF a \in {"ok", "not found"} THEN failed ELSE failed \cup {at}
  /\ Advance
  /\ UNCHANGED <<n, retries, cancelled, batch, notTried, verdict>>

(* Broken: an id left out is not reported. *)
SkipSilently ==
  /\ phase = "loop"
  /\ StopsHere
  /\ stopped' = TRUE
  /\ Advance
  /\ UNCHANGED <<n, retries, there, removed, cancelled, batch, streak, answers, record,
                 verdict>>

NotAttempted ==
  /\ phase = "loop"
  /\ StopsHere
  /\ stopped' = TRUE
  /\ failed' = failed \cup {at}
  /\ notTried' = notTried \cup {at}
  /\ Advance
  /\ UNCHANGED <<n, retries, there, removed, cancelled, batch, streak, answers, deleted,
                 alreadyGone, verdict>>

(* Broken: a run without failures is a success. *)
VerdictOnFailures ==
  IF failed = {} THEN "ok" ELSE IF failed = Ids THEN "error" ELSE "partial"

Verdict ==
  IF failed = {} THEN IF deleted # {} THEN "ok" ELSE "error"
  ELSE IF failed = Ids THEN "error" ELSE "partial"

SumUp ==
  /\ phase = "sum"
  /\ Finish(Verdict)
  /\ UNCHANGED <<n, retries, there, removed, cancelled, batch, at, streak, stopped, answers,
                 record>>

(* The caller's context ends between two requests. *)
Cancel ==
  /\ phase # "done"
  /\ ~cancelled
  /\ cancelled' = TRUE
  /\ UNCHANGED <<n, retries, there, removed, phase, batch, at, streak, stopped, answers,
                 record, verdict>>

(* Another client deletes one of the posts. *)
OtherDeletes(id) ==
  /\ phase # "done"
  /\ there' = there \ {id}
  /\ UNCHANGED <<n, retries, removed, cancelled, phase, batch, at, streak, stopped, answers,
                 record, verdict>>

Returned ==
  /\ phase = "done"
  /\ UNCHANGED vars

Next ==
  \/ Single
  \/ Batch
  \/ DeleteNext
  \/ NotAttempted
  \/ SumUp
  \/ Cancel
  \/ \E id \in there : OtherDeletes(id)
  \/ Returned

Spec == Init /\ [][Next]_vars

-----------------------------------------------------------------------------
(* Properties *)

Reports == verdict \in {"ok", "partial", "error"}

(* Deleted, AlreadyGone and Failed partition the input whenever a record   *)
(* is returned (posts_delete.go:26-28), and an id is left out of the loop  *)
(* only for a reason that later ids share.                                 *)
RecordPartitionsIds ==
  Reports =>
    /\ deleted \cup alreadyGone \cup failed = Ids
    /\ deleted \cap alreadyGone = {}
    /\ failed \cap (deleted \cup alreadyGone) = {}

(* The record agrees with the server: no post reported deleted or gone     *)
(* exists, whatever the refused batch, the retries and other clients did,  *)
(* and success means that every post is gone and this call said so of one. *)
(* Unless the server took the whole batch, a post reported deleted, not    *)
(* gone, was removed by this call and by nobody else (posts_delete.go:     *)
(* 73-83, 142-158).                                                        *)
RecordIsTrue ==
  /\ Reports => (deleted \cup alreadyGone) \cap there = {}
  /\ batch # "ok" => deleted \subseteq removed
  /\ verdict = "ok" => Ids \cap there = {} /\ (n > 1 => deleted # {})

(* The loop obeys BulkStop: it goes on exactly as long as the server       *)
(* itself answers and three 5xx in a row have not come (bulk_stop.go:38-44)*)
Streaks(i) == i > 2 /\ \A j \in i - 2..i : answers[j] = "server error"
SharedCause(a) == a \in {"rate limited", "barred", "no answer", "unreadable"}
EndsLoop(i) == SharedCause(answers[i]) \/ Streaks(i)
StopsWhenItShould ==
  n > 1 =>
    /\ \A i \in 1..Len(answers) - 1 : ~EndsLoop(i)
    /\ notTried # {} => cancelled \/ (answers # <<>> /\ EndsLoop(Len(answers)))

(* An unknown outcome is never turned into a per-id record: after a batch  *)
(* that may have been applied without saying so, or that no id is to blame *)
(* for, nothing more is sent and no record is returned; a 5xx or a refusal *)
(* always ends in a record that names every post (posts_delete.go:79-85).  *)
UnknownStaysUnknown ==
  /\ SharedCause(batch) \/ batch = "not found" =>
       answers = <<>> /\ deleted = {} /\ verdict = "unknown"
  /\ phase = "done" /\ batch \in {"refused", "server error"} => Reports
=============================================================================
