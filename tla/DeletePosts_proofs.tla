------------------------- MODULE DeletePosts_proofs -------------------------
(* DeletePosts returns a complete and true record for any number of ids.   *)
EXTENDS DeletePosts, SequenceTheorems, TLAPS

(* The ids the loop has dealt with. *)
Handled == deleted \cup alreadyGone \cup failed

(* What the loop knows between two ids: the ones before "at" are recorded, *)
(* each once, a post recorded as deleted or gone does not exist, one that  *)
(* is recorded as deleted was removed here, and a streak of server errors  *)
(* that is long enough has stopped the loop.                               *)
Progress ==
  /\ n \in Nat \ {0}
  /\ phase = "call" => Handled = {} /\ at = 1 /\ streak = 0
  /\ phase = "loop" => at \in 1..n /\ Handled = 1..at - 1 /\ n > 1
  /\ phase = "sum" => Handled = Ids /\ n > 1
  /\ phase # "done" <=> verdict = "none"
  /\ ~stopped => streak < MaxConsecutiveServerErrors

Separate ==
  /\ deleted \cap alreadyGone = {}
  /\ failed \cap (deleted \cup alreadyGone) = {}

GoneIsGone ==
  /\ (deleted \cup alreadyGone) \cap there = {}
  /\ batch # "ok" => deleted \subseteq removed

Complete ==
  /\ Reports => Handled = Ids
  /\ verdict = "ok" => failed = {} /\ deleted # {}

DeleteInv == DeleteTypeOK /\ Progress /\ Separate /\ GoneIsGone /\ Complete

-----------------------------------------------------------------------------
LEMMA InitInv == Init => DeleteInv
<1> SUFFICES ASSUME Init PROVE DeleteInv
  OBVIOUS
<1>1. DeleteTypeOK
  <2>1. answers \in Seq(CallAnswers)
    BY DEF Init
  <2>2. streak \in 0..MaxConsecutiveServerErrors /\ at \in 1..MaxIds + 1
    BY DeleteAssumption DEF Init, MaxConsecutiveServerErrors, DeleteAssumption
  <2>3. there \subseteq Ids
    BY DEF Init
  <2> QED
    BY <2>1, <2>2, <2>3 DEF Init, DeleteTypeOK
<1>2. Handled = {}
  BY DEF Init, Handled
<1>3. Progress
  BY <1>2, DeleteAssumption DEF Init, Progress, MaxConsecutiveServerErrors, DeleteAssumption
<1>4. Separate /\ GoneIsGone /\ Complete
  BY DEF Init, Separate, GoneIsGone, Complete, Reports
<1> QED
  BY <1>1, <1>3, <1>4 DEF DeleteInv

(* One DELETE only ever removes the post it names, and an answer that says *)
(* the post is gone is true.                                               *)
LEMMA DeleteIsHonest ==
  ASSUME NEW id \in Ids, NEW a \in CallAnswers, NEW gone \in BOOLEAN,
         there \subseteq Ids, removed \subseteq Ids, Delete(id, a, gone)
  PROVE  /\ there' \subseteq there
         /\ removed' \subseteq Ids
         /\ a \in {"ok", "not found"} => id \notin there'
         /\ removed \subseteq removed'
         /\ a = "ok" => id \in removed'
  BY DEF Delete, DeleteOutcome

(* BulkStop never counts past its limit without stopping.                  *)
LEMMA StreakIsBounded ==
  ASSUME NEW s \in 0..MaxConsecutiveServerErrors, NEW a \in CallAnswers,
         s < MaxConsecutiveServerErrors
  PROVE  /\ Streak(s, a) \in 0..MaxConsecutiveServerErrors
         /\ ~Halts(s, a) => Streak(s, a) < MaxConsecutiveServerErrors
<1>1. Streak(s, a) \in {0, s + 1}
  BY DEF Streak
<1>2. ~Halts(s, a) => ~(Streak(s, a) >= MaxConsecutiveServerErrors)
  BY DEF Halts
<1> QED
  BY <1>1, <1>2 DEF MaxConsecutiveServerErrors

-----------------------------------------------------------------------------
LEMMA SingleKeeps == ASSUME DeleteInv, Single PROVE DeleteInv'
<1>1. PICK a \in CallAnswers, gone \in BOOLEAN :
        /\ Delete(1, a, gone)
        /\ \/ a = "ok" /\ deleted' = {1} /\ UNCHANGED failed /\ Finish("ok")
           \/ a # "ok" /\ failed' = {1} /\ UNCHANGED deleted /\ Finish("error")
        /\ answers' = <<a>>
  BY DEF Single
<1>2. /\ phase = "call" /\ n = 1 /\ Ids = {1} /\ Ids' = {1}
      /\ UNCHANGED <<n, retries, cancelled, batch, at, streak, stopped, alreadyGone, notTried>>
  BY DEF Single, Ids
<1>3. deleted = {} /\ alreadyGone = {} /\ failed = {} /\ notTried = {}
  BY <1>2 DEF DeleteInv, DeleteTypeOK, Progress, Handled
<1>4. /\ there' \subseteq {1} /\ removed' \subseteq {1}
      /\ a = "ok" => 1 \notin there' /\ 1 \in removed'
  BY <1>1, <1>2, DeleteIsHonest DEF DeleteInv, DeleteTypeOK
<1>5. DeleteTypeOK'
  <2>1. answers' \in Seq(CallAnswers)
    BY <1>1
  <2> QED
    BY <1>1, <1>2, <1>3, <1>4, <2>1 DEF DeleteInv, DeleteTypeOK, Finish
<1>6. Progress'
  BY <1>1, <1>2 DEF DeleteInv, Progress, Finish
<1>7. Separate' /\ GoneIsGone'
  BY <1>1, <1>3, <1>2, <1>4 DEF Separate, GoneIsGone
<1>8. Complete'
  BY <1>1, <1>2, <1>3 DEF Complete, Reports, Handled, Finish
<1> QED
  BY <1>5, <1>6, <1>7, <1>8 DEF DeleteInv

LEMMA BatchKeeps == ASSUME DeleteInv, Batch PROVE DeleteInv'
<1>1. PICK a \in CallAnswers, gone \in SUBSET (there \cap Ids) :
        /\ BatchDelete(a, gone)
        /\ batch' = a
        /\ \/ a = "ok" /\ deleted' = Ids /\ Finish("ok")
           \/ GoesOnById(a) /\ phase' = "loop" /\ UNCHANGED <<deleted, verdict>>
           \/ a # "ok" /\ ~GoesOnById(a) /\ Finish("unknown") /\ UNCHANGED deleted
  BY DEF Batch
<1>2. /\ phase = "call" /\ n > 1 /\ n \in Nat /\ Ids' = Ids /\ Ids # {} /\ at = 1
      /\ UNCHANGED <<n, retries, cancelled, at, streak, stopped, answers>>
      /\ UNCHANGED <<alreadyGone, failed, notTried>>
  BY DEF Batch, Ids, DeleteInv, Progress
<1>3. deleted = {} /\ alreadyGone = {} /\ failed = {} /\ notTried = {} /\ verdict = "none"
  BY <1>2 DEF DeleteInv, DeleteTypeOK, Progress, Handled
<1>4. there' \subseteq there /\ removed' \subseteq Ids /\ (a = "ok" => there' = {})
  BY <1>1 DEF BatchDelete, DeleteInv, DeleteTypeOK
<1>5. DeleteTypeOK'
  BY <1>1, <1>2, <1>3, <1>4 DEF DeleteInv, DeleteTypeOK, Finish
<1>6. Progress'
  BY <1>1, <1>2, <1>3 DEF DeleteInv, Progress, Handled, Finish
<1>7. Separate' /\ GoneIsGone'
  BY <1>1, <1>2, <1>3, <1>4 DEF Separate, GoneIsGone
<1>8. Complete'
  BY <1>1, <1>2, <1>3 DEF Complete, Reports, Handled, Finish
<1> QED
  BY <1>5, <1>6, <1>7, <1>8 DEF DeleteInv

(* Advance moves to the next id or to the summing up. *)
LEMMA AdvanceKeeps ==
  ASSUME DeleteInv, phase = "loop", Advance, n' = n, verdict' = verdict,
         Handled' = Handled \cup {at}, ~stopped' => streak' < MaxConsecutiveServerErrors
  PROVE  Progress' /\ Complete' /\ phase' \in {"loop", "sum"} /\ at' \in 1..MaxIds + 1
<1>1. /\ n \in Nat /\ n > 1 /\ at \in 1..n /\ Handled = 1..at - 1 /\ verdict = "none"
      /\ n <= MaxIds
  BY DEF DeleteInv, Progress, DeleteTypeOK
<1>2. at' = at + 1 /\ Handled' = 1..at
  BY <1>1 DEF Advance
<1>3. phase' = IF at = n THEN "sum" ELSE "loop"
  BY DEF Advance
<1>4. Progress'
  BY <1>1, <1>2, <1>3 DEF Progress, Ids
<1>5. Complete'
  BY <1>1 DEF Complete, Reports
<1> QED
  BY <1>1, <1>2, <1>3, <1>4, <1>5, DeleteAssumption DEF DeleteAssumption

LEMMA DeleteNextKeeps == ASSUME DeleteInv, DeleteNext PROVE DeleteInv'
<1>1. PICK a \in CallAnswers, gone \in BOOLEAN :
        /\ Delete(at, a, gone)
        /\ streak' = Streak(streak, a)
        /\ stopped' = Halts(streak, a)
        /\ answers' = Append(answers, a)
        /\ deleted' = IF a = "ok" THEN deleted \cup {at} ELSE deleted
        /\ alreadyGone' = IF a = "not found" THEN alreadyGone \cup {at} ELSE alreadyGone
        /\ failed' = IF a \in {"ok", "not found"} THEN failed ELSE failed \cup {at}
  BY DEF DeleteNext
<1>2. /\ phase = "loop" /\ ~stopped /\ Advance
      /\ UNCHANGED <<n, retries, cancelled, batch, notTried, verdict>>
  BY DEF DeleteNext, StopsHere
<1>3. /\ n \in Nat /\ at \in 1..n /\ at \in Ids /\ Ids' = Ids /\ Handled = 1..at - 1
      /\ at \notin Handled
  BY <1>2 DEF DeleteInv, Progress, Ids
<1>4. /\ there' \subseteq there /\ removed' \subseteq Ids
      /\ a \in {"ok", "not found"} => at \notin there'
      /\ removed \subseteq removed'
      /\ a = "ok" => at \in removed'
  BY <1>1, <1>3, DeleteIsHonest DEF DeleteInv, DeleteTypeOK
<1>5. /\ streak' \in 0..MaxConsecutiveServerErrors
      /\ ~stopped' => streak' < MaxConsecutiveServerErrors
  BY <1>1, <1>2, StreakIsBounded DEF DeleteInv, DeleteTypeOK, Progress
<1>6. Handled' = Handled \cup {at}
  BY <1>1 DEF Handled
<1>7. Progress' /\ Complete' /\ phase' \in {"loop", "sum"} /\ at' \in 1..MaxIds + 1
  BY <1>2, <1>5, <1>6, AdvanceKeeps
<1>8. DeleteTypeOK'
  <2>1. answers' \in Seq(CallAnswers)
    <3>1. answers \in Seq(CallAnswers) /\ answers' = Append(answers, a)
      BY <1>1 DEF DeleteInv, DeleteTypeOK
    <3> QED
      BY <3>1
  <2>2. stopped' \in BOOLEAN
    BY <1>1 DEF Halts, IsServerAnswer
  <2>3. deleted' \subseteq Ids' /\ alreadyGone' \subseteq Ids' /\ failed' \subseteq Ids'
    BY <1>1, <1>3 DEF DeleteInv, DeleteTypeOK
  <2>4. notTried' \subseteq failed'
    BY <1>1, <1>2 DEF DeleteInv, DeleteTypeOK
  <2>5. there' \subseteq Ids' /\ removed' \subseteq Ids'
    BY <1>3, <1>4 DEF DeleteInv, DeleteTypeOK
  <2> QED
    BY <1>2, <1>5, <1>7, <2>1, <2>2, <2>3, <2>4, <2>5 DEF DeleteInv, DeleteTypeOK
<1>9. Separate'
  BY <1>1, <1>3 DEF DeleteInv, Separate, Handled
<1>10. GoneIsGone'
  BY <1>1, <1>2, <1>4 DEF DeleteInv, GoneIsGone
<1> QED
  BY <1>7, <1>8, <1>9, <1>10 DEF DeleteInv

LEMMA NotAttemptedKeeps == ASSUME DeleteInv, NotAttempted PROVE DeleteInv'
<1>1. /\ phase = "loop" /\ Advance /\ stopped' = TRUE
      /\ failed' = failed \cup {at} /\ notTried' = notTried \cup {at}
      /\ UNCHANGED <<n, retries, there, removed, cancelled, batch, streak, answers, deleted,
                     alreadyGone, verdict>>
  BY DEF NotAttempted
<1>2. at \in Ids /\ Ids' = Ids /\ at \notin Handled
  BY <1>1 DEF DeleteInv, Progress, Ids
<1>3. Handled' = Handled \cup {at}
  BY <1>1 DEF Handled
<1>4. Progress' /\ Complete' /\ phase' \in {"loop", "sum"} /\ at' \in 1..MaxIds + 1
  BY <1>1, <1>3, AdvanceKeeps
<1>5. DeleteTypeOK'
  BY <1>1, <1>2, <1>4 DEF DeleteInv, DeleteTypeOK
<1>6. Separate' /\ GoneIsGone'
  BY <1>1, <1>2 DEF DeleteInv, Separate, GoneIsGone, Handled
<1> QED
  BY <1>4, <1>5, <1>6 DEF DeleteInv

LEMMA SumUpKeeps == ASSUME DeleteInv, SumUp PROVE DeleteInv'
<1>1. /\ phase = "sum" /\ Finish(Verdict)
      /\ UNCHANGED <<n, retries, there, removed, cancelled, batch, at, streak, stopped,
                     answers, deleted, alreadyGone, failed, notTried>>
  BY DEF SumUp, record
<1>2. Verdict \in {"ok", "partial", "error"} /\ (Verdict = "ok" => failed = {} /\ deleted # {})
  BY DEF Verdict
<1>3. Handled = Ids /\ Handled' = Handled /\ Ids' = Ids
  BY <1>1 DEF DeleteInv, Progress, Handled, Ids
<1>4. DeleteTypeOK'
  BY <1>1, <1>2, <1>3 DEF DeleteInv, DeleteTypeOK, Finish
<1>5. Progress'
  BY <1>1, <1>2 DEF DeleteInv, Progress, Finish
<1>6. Separate' /\ GoneIsGone'
  BY <1>1 DEF DeleteInv, Separate, GoneIsGone
<1>7. Complete'
  BY <1>1, <1>2, <1>3 DEF Complete, Finish
<1> QED
  BY <1>4, <1>5, <1>6, <1>7 DEF DeleteInv

LEMMA EnvironmentKeeps ==
  ASSUME DeleteInv, Cancel \/ \E id \in there : OtherDeletes(id)
  PROVE  DeleteInv'
<1>1. /\ there' \subseteq there /\ cancelled' \in BOOLEAN
      /\ UNCHANGED <<n, retries, removed, phase, batch, at, streak, stopped, answers,
                     deleted, alreadyGone, failed, notTried, verdict>>
  BY DEF Cancel, OtherDeletes, record, DeleteInv, DeleteTypeOK
<1> QED
  BY <1>1 DEF DeleteInv, DeleteTypeOK, Progress, Separate, GoneIsGone, Complete, Handled,
     Ids, Reports

LEMMA NextKeeps == ASSUME DeleteInv, [Next]_vars PROVE DeleteInv'
<1>1. CASE Single
  BY <1>1, SingleKeeps
<1>2. CASE Batch
  BY <1>2, BatchKeeps
<1>3. CASE DeleteNext
  BY <1>3, DeleteNextKeeps
<1>4. CASE NotAttempted
  BY <1>4, NotAttemptedKeeps
<1>5. CASE SumUp
  BY <1>5, SumUpKeeps
<1>6. CASE Cancel \/ \E id \in there : OtherDeletes(id)
  BY <1>6, EnvironmentKeeps
<1>7. CASE UNCHANGED vars
  BY <1>7 DEF vars, record, DeleteInv, DeleteTypeOK, Progress, Separate, GoneIsGone,
     Complete, Handled, Ids, Reports
<1> QED
  BY <1>1, <1>2, <1>3, <1>4, <1>5, <1>6, <1>7 DEF Next, Returned

LEMMA DeleteInvariant == Spec => []DeleteInv
  BY InitInv, NextKeeps, PTL DEF Spec

-----------------------------------------------------------------------------
(* The variables of a deletion keep their types, and BulkStop's counter    *)
(* stays within its limit, for lists of any length.                        *)
THEOREM DeleteTypeCorrect == Spec => []DeleteTypeOK
<1>1. DeleteInv => DeleteTypeOK
  BY DEF DeleteInv
<1> QED
  BY <1>1, DeleteInvariant, PTL

(* Whenever a record is returned, every id of the input is in exactly one  *)
(* of Deleted, AlreadyGone and Failed (posts_delete.go:120-158).           *)
THEOREM RecordIsComplete == Spec => []RecordPartitionsIds
<1>1. DeleteInv => RecordPartitionsIds
  BY DEF DeleteInv, Separate, Complete, Handled, RecordPartitionsIds
<1> QED
  BY <1>1, DeleteInvariant, PTL

(* No post the record calls deleted or gone exists, whatever retries, a    *)
(* half-applied batch and other clients did; success means that all are    *)
(* gone (posts_delete.go:136-145).                                         *)
THEOREM RecordIsHonest == Spec => []RecordIsTrue
<1>1. ASSUME DeleteInv PROVE RecordIsTrue
  <2>1. verdict = "ok" => deleted \cup alreadyGone = Ids /\ deleted # {}
    BY <1>1 DEF DeleteInv, Complete, Reports, Handled
  <2> QED
    BY <1>1, <2>1 DEF DeleteInv, GoneIsGone, RecordIsTrue
<1> QED
  BY <1>1, DeleteInvariant, PTL

-----------------------------------------------------------------------------
(* What the answer to the batch request decides. *)
BatchDecides ==
  /\ phase = "call" => batch = "none" /\ answers = <<>> /\ deleted = {}
  /\ SharedCause(batch) \/ batch = "not found" =>
       phase = "done" /\ answers = <<>> /\ deleted = {} /\ verdict = "unknown"
  /\ verdict = "unknown" => SharedCause(batch) \/ batch = "not found"

LEMMA BatchDecidesKept ==
  ASSUME DeleteInv, BatchDecides, [Next]_vars
  PROVE  BatchDecides'
<1>1. CASE Single
  BY <1>1 DEF BatchDecides, Single, Finish, SharedCause
<1>2. CASE Batch
  <2>1. PICK a \in CallAnswers :
          /\ batch' = a
          /\ \/ a = "ok" /\ Finish("ok")
             \/ GoesOnById(a) /\ phase' = "loop" /\ UNCHANGED verdict
             \/ a # "ok" /\ ~GoesOnById(a) /\ Finish("unknown") /\ UNCHANGED deleted
    BY <1>2 DEF Batch
  <2>2. phase = "call" /\ answers' = answers /\ verdict = "none"
    BY <1>2 DEF Batch, DeleteInv, Progress
  <2> QED
    BY <2>1, <2>2 DEF BatchDecides, GoesOnById, IsServerAnswer, SharedCause, Finish,
       CallAnswers
<1>3. CASE DeleteNext \/ NotAttempted
  <2>1. phase = "loop" /\ phase' \in {"loop", "sum"} /\ batch' = batch /\ verdict' = verdict
    BY <1>3 DEF DeleteNext, NotAttempted, Advance
  <2> QED
    BY <2>1 DEF BatchDecides, SharedCause
<1>4. CASE SumUp
  BY <1>4 DEF BatchDecides, SharedCause, SumUp, Finish, Verdict
<1>5. CASE Cancel \/ \E id \in there : OtherDeletes(id)
  BY <1>5 DEF BatchDecides, SharedCause, Cancel, OtherDeletes, record
<1>6. CASE UNCHANGED vars
  BY <1>6 DEF BatchDecides, SharedCause, vars, record
<1> QED
  BY <1>1, <1>2, <1>3, <1>4, <1>5, <1>6 DEF Next, Returned

(* A batch of unknown outcome is followed by no request and no record, and *)
(* one the server refused by a record (posts_delete.go:104-113).           *)
THEOREM UnknownIsKept == Spec => []UnknownStaysUnknown
<1>1. Init => BatchDecides
  BY DEF Init, BatchDecides, SharedCause
<1>2. DeleteInv /\ BatchDecides /\ [Next]_vars => BatchDecides'
  BY BatchDecidesKept
<1>3. DeleteInv /\ BatchDecides => UnknownStaysUnknown
  BY DEF DeleteInv, DeleteTypeOK, Progress, BatchDecides, UnknownStaysUnknown, Reports,
     SharedCause
<1> QED
  BY <1>1, <1>2, <1>3, DeleteInvariant, PTL DEF Spec

-----------------------------------------------------------------------------
(* BulkStop's counter is the number of server errors the answers end with, *)
(* so that what it stops at can be read off the answers.                   *)
Trails(s, k) ==
  /\ k \in 0..Len(s)
  /\ \A j \in 1..Len(s) : j > Len(s) - k => s[j] = "server error"
  /\ k < Len(s) => s[Len(s) - k] # "server error"

Ends(s, i) ==
  \/ s[i] \in {"rate limited", "barred", "no answer", "unreadable"}
  \/ i > 2 /\ \A j \in i - 2..i : s[j] = "server error"

LEMMA EndsAtTheLimit ==
  ASSUME NEW s \in Seq(CallAnswers), Len(s) > 0, NEW k, Trails(s, k)
  PROVE  Ends(s, Len(s)) <=> ~IsServerAnswer(s[Len(s)]) \/ k >= MaxConsecutiveServerErrors
<1> DEFINE l == Len(s)
<1>1. l \in Nat \ {0} /\ k \in 0..l /\ s[l] \in CallAnswers
  <2>1. l \in Nat
    BY LenProperties
  <2>2. l \in 1..Len(s) /\ l # 0
    BY <2>1
  <2>3. s[l] \in CallAnswers
    BY <2>2, ElementOfSeq
  <2> QED BY <2>1, <2>2, <2>3 DEF Trails
<1>2. /\ \A j \in 1..l : j > l - k => s[j] = "server error"
      /\ k < l => s[l - k] # "server error"
  BY DEF Trails
<1> HIDE DEF l
<1>3. s[l] \in {"rate limited", "barred", "no answer", "unreadable"} <=> ~IsServerAnswer(s[l])
  BY <1>1 DEF IsServerAnswer, CallAnswers
<1>4. ASSUME k >= 3 PROVE l > 2 /\ \A j \in l - 2..l : s[j] = "server error"
  <2>1. l > 2 /\ \A j \in l - 2..l : j \in 1..l /\ j > l - k
    BY <1>1, <1>4
  <2>2. ASSUME NEW j \in l - 2..l PROVE s[j] = "server error"
    BY <1>2, <2>1
  <2> QED BY <2>1, <2>2
<1>5. ASSUME k < 3, l > 2 PROVE \E j \in l - 2..l : s[j] # "server error"
  <2>1. k < l /\ l - k \in l - 2..l
    BY <1>1, <1>5
  <2> QED BY <1>2, <2>1
<1>6. k >= 3 \/ k < 3
  BY <1>1
<1>7. Ends(s, l) <=> ~IsServerAnswer(s[l]) \/ k >= 3
  BY <1>1, <1>3, <1>4, <1>5, <1>6 DEF Ends
<1> QED BY <1>7 DEF l, MaxConsecutiveServerErrors

LEMMA TrailsMeans ==
  ASSUME NEW s, NEW l, Len(s) = l, NEW k, k \in 0..l,
         \A j \in 1..l : j > l - k => s[j] = "server error",
         k < l => s[l - k] # "server error"
  PROVE  Trails(s, k)
BY DEF Trails

LEMMA TrailsFurther ==
  ASSUME NEW s \in Seq(CallAnswers), NEW k, Trails(s, k), NEW a \in CallAnswers
  PROVE  /\ Append(s, a) \in Seq(CallAnswers) /\ Len(Append(s, a)) = Len(s) + 1
         /\ Trails(Append(s, a), Streak(k, a))
         /\ Ends(Append(s, a), Len(s) + 1) <=> Halts(k, a)
         /\ \A i \in 1..Len(s) : Ends(Append(s, a), i) <=> Ends(s, i)
<1> DEFINE t == Append(s, a)
           l == Len(s)
<1>1. l \in Nat /\ k \in 0..l /\ t \in Seq(CallAnswers) /\ Len(t) = l + 1
  BY LenProperties, AppendProperties DEF Trails
<1>2. t[l + 1] = a /\ \A j \in 1..l : t[j] = s[j]
  BY AppendProperties
<1>3. /\ \A j \in 1..l : j > l - k => s[j] = "server error"
      /\ k < l => s[l - k] # "server error"
  BY DEF Trails
<1> HIDE DEF t, l
<1>4. Trails(t, Streak(k, a))
  <2>1. CASE a = "server error"
    <3>0. Streak(k, a) = k + 1
      BY <2>1 DEF Streak
    <3>1. k + 1 \in 0..l + 1
      BY <1>1
    <3>2. ASSUME NEW j \in 1..l + 1, j > (l + 1) - (k + 1) PROVE t[j] = "server error"
      <4>1. CASE j = l + 1
        BY <1>2, <2>1, <4>1
      <4>2. CASE j # l + 1
        <5>1. j \in 1..l /\ j > l - k
          BY <1>1, <3>2, <4>2
        <5> QED BY <1>2, <1>3, <5>1
      <4> QED BY <4>1, <4>2
    <3>3. ASSUME k + 1 < l + 1 PROVE t[(l + 1) - (k + 1)] # "server error"
      <4>1. k < l /\ l - k \in 1..l /\ (l + 1) - (k + 1) = l - k
        BY <1>1, <3>3
      <4> QED BY <1>2, <1>3, <4>1
    <3>4. Trails(t, k + 1)
      <4> DEFINE m == l + 1
                 i == k + 1
      <4>1. Len(t) = m /\ i \in 0..m
        BY <1>1, <3>1
      <4>2. \A j \in 1..m : j > m - i => t[j] = "server error"
        BY <3>2
      <4>3. i < m => t[m - i] # "server error"
        BY <3>3
      <4> HIDE DEF m, i
      <4>4. Trails(t, i)
        BY <4>1, <4>2, <4>3, TrailsMeans
      <4> QED BY <4>4 DEF i
    <3> QED BY <3>0, <3>4
  <2>2. CASE a # "server error"
    <3>1. Streak(k, a) = 0
      BY <2>2 DEF Streak
    <3>2. 0 \in 0..l + 1 /\ \A j \in 1..l + 1 : ~(j > (l + 1) - 0)
      BY <1>1
    <3>3. (l + 1) - 0 = l + 1
      BY <1>1
    <3>4. Trails(t, 0)
      <4> DEFINE m == l + 1
      <4>1. Len(t) = m /\ 0 \in 0..m /\ \A j \in 1..m : j > m - 0 => t[j] = "server error"
        BY <1>1, <3>2
      <4>2. t[m - 0] # "server error"
        BY <1>2, <2>2, <3>3
      <4> HIDE DEF m
      <4> QED BY <4>1, <4>2, TrailsMeans
    <3> QED BY <3>1, <3>4
  <2> QED BY <2>1, <2>2
<1>5. Ends(t, l + 1) <=> Halts(k, a)
  BY <1>1, <1>2, <1>4, EndsAtTheLimit DEF Halts
<1>6. ASSUME NEW i \in 1..l PROVE Ends(t, i) <=> Ends(s, i)
  <2>1. t[i] = s[i]
    BY <1>2
  <2>2. ASSUME i > 2 PROVE \A j \in i - 2..i : t[j] = s[j]
    <3>1. \A j \in i - 2..i : j \in 1..l
      BY <1>1, <2>2
    <3> QED BY <1>2, <3>1
  <2> QED BY <2>1, <2>2 DEF Ends
<1> QED BY <1>1, <1>4, <1>5, <1>6 DEF t, l

Counting ==
  n > 1 =>
    /\ Trails(answers, streak)
    /\ \A i \in 1..Len(answers) - 1 : ~Ends(answers, i)
    /\ ~stopped => \A i \in 1..Len(answers) : ~Ends(answers, i)
    /\ stopped => cancelled \/ (answers # <<>> /\ Ends(answers, Len(answers)))
    /\ notTried # {} => stopped

LEMMA CountingKept ==
  ASSUME DeleteInv, Counting, [Next]_vars
  PROVE  Counting'
<1>1. CASE Single
  BY <1>1 DEF Single, Counting
<1>2. CASE Batch
  <2>1. UNCHANGED <<n, cancelled, streak, stopped, answers, notTried>>
    BY <1>2 DEF Batch
  <2> QED BY <2>1 DEF Counting
<1>3. CASE DeleteNext
  <2>1. PICK a \in CallAnswers :
          streak' = Streak(streak, a) /\ stopped' = Halts(streak, a) /\ answers' = Append(answers, a)
    BY <1>3 DEF DeleteNext
  <2>2. ~stopped /\ n > 1 /\ UNCHANGED <<n, cancelled, notTried>>
    BY <1>3 DEF DeleteNext, StopsHere, DeleteInv, Progress
  <2>3. /\ answers \in Seq(CallAnswers) /\ Trails(answers, streak) /\ notTried = {}
        /\ \A i \in 1..Len(answers) : ~Ends(answers, i)
    BY <2>2 DEF Counting, DeleteInv, DeleteTypeOK
  <2> DEFINE l == Len(answers)
  <2>4. l \in Nat /\ answers' \in Seq(CallAnswers) /\ Len(answers') = l + 1 /\ Trails(answers', streak')
    BY <2>1, <2>3, TrailsFurther, LenProperties
  <2>5. (Ends(answers', l + 1) <=> stopped') /\ \A i \in 1..l : ~Ends(answers', i)
    BY <2>1, <2>3, TrailsFurther
  <2> HIDE DEF l
  <2>6. \A i \in 1..(l + 1) - 1 : ~Ends(answers', i)
    BY <2>4, <2>5
  <2>7. ~stopped' => \A i \in 1..l + 1 : ~Ends(answers', i)
    <3>1. \A i \in 1..l + 1 : (i \in 1..l) \/ (i = l + 1)
      BY <2>4
    <3> QED BY <2>5, <3>1
  <2>8. answers' # <<>>
    <3>1. Len(<<>>) = 0 /\ Len(answers') # 0
      BY <2>4, EmptySeq
    <3> QED BY <3>1
  <2> QED BY <2>2, <2>3, <2>4, <2>5, <2>6, <2>7, <2>8 DEF Counting
<1>4. CASE NotAttempted
  <2>1. (stopped \/ cancelled) /\ stopped' /\ UNCHANGED <<n, cancelled, streak, answers>>
    BY <1>4 DEF NotAttempted, StopsHere
  <2> QED BY <2>1 DEF Counting
<1>5. CASE SumUp \/ UNCHANGED vars
  BY <1>5 DEF Counting, SumUp, vars, record
<1>6. CASE Cancel \/ \E id \in there : OtherDeletes(id)
  <2>1. UNCHANGED <<n, streak, stopped, answers, notTried>> /\ (cancelled => cancelled')
    BY <1>6 DEF Cancel, OtherDeletes, record
  <2> QED BY <2>1 DEF Counting
<1> QED BY <1>1, <1>2, <1>3, <1>4, <1>5, <1>6 DEF Next, Returned

(* StopsWhenItShould: for lists of any length the per-id run goes on as    *)
(* long as the server itself answers, stops at the first answer that would *)
(* repeat, and leaves ids out for no other reason (bulk_stop.go:38-44).    *)
THEOREM StopsInTime == Spec => []StopsWhenItShould
<1>1. Init => Counting
  <2> SUFFICES ASSUME Init PROVE Counting
    OBVIOUS
  <2>1. answers = <<>> /\ Len(<<>>) = 0 /\ streak = 0 /\ ~stopped /\ notTried = {}
    BY EmptySeq DEF Init
  <2> QED BY <2>1 DEF Counting, Trails
<1>2. DeleteInv /\ Counting /\ [Next]_vars => Counting'
  BY CountingKept
<1>3. Counting => StopsWhenItShould
  BY DEF Counting, StopsWhenItShould, EndsLoop, SharedCause, Streaks, Ends
<1> QED BY <1>1, <1>2, <1>3, DeleteInvariant, PTL DEF Spec
=============================================================================
