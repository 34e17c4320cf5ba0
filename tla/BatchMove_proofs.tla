-------------------------- MODULE BatchMove_proofs --------------------------
(* The guard of BatchMove refuses on every doubt it can see, and an        *)
(* accepted move is reported, for any posts and lists of any length.       *)
EXTENDS BatchMove, SequenceTheorems, TLAPS

(* The posts whose read was no reason to refuse: they are driven, or were  *)
(* taken for it.                                                           *)
Fit == {p \in Posts : state[p] = "driven"} \cup misled

(* What the call knows in each phase. *)
Guarding ==
  phase = "guard" =>
    /\ posted = "none" /\ moved = {} /\ unfit = {} /\ entries = <<>>
    /\ streak < MaxConsecutiveServerErrors
    /\ alone /\ refused = {} => \A i \in 1..at - 1 : list[i] \in Fit

Moving ==
  phase = "move" =>
    /\ posted = "none" /\ moved = {} /\ unfit = {} /\ entries = <<>>
    /\ alone => \A i \in 1..Len(list) : list[i] \in Fit

Dating ==
  phase = "dates" =>
    /\ posted = "ok"
    /\ Len(entries) = at - 1
    /\ reads = <<>> => streak = 0

Ended ==
  /\ phase = "done" <=> verdict # "none"
  /\ verdict = "ok" => posted = "ok" /\ Len(entries) = Len(list)
  /\ verdict = "refused" => posted = "none" /\ moved = {}
  /\ verdict = "error" => posted # "ok"

MovedWell ==
  alone => /\ unfit \subseteq misled
           /\ posted = "ok" => ToSet(list) \ moved \subseteq misled

MoveInv == MoveTypeOK /\ Guarding /\ Moving /\ Dating /\ Ended /\ MovedWell

-----------------------------------------------------------------------------
LEMMA ListsAreSequences ==
  ASSUME NEW S, NEW k \in Nat, NEW s \in [1..k -> S]
  PROVE  s \in Seq(S) /\ Len(s) = k
<1>1. s \in Seq(S)
  BY SeqDef
<1> QED
  BY <1>1, LenProperties

LEMMA InitInv == Init => MoveInv
<1> SUFFICES ASSUME Init PROVE MoveInv
  OBVIOUS
<1>1. PICK k \in 1..MaxLength : list \in [1..k -> Posts]
  BY DEF Init
<1>2. list \in Seq(Posts) /\ Len(list) \in 1..MaxLength
  BY <1>1, ListsAreSequences, MoveAssumption DEF MoveAssumption
<1>3. streak \in 0..MaxConsecutiveServerErrors /\ streak < MaxConsecutiveServerErrors
  BY DEF Init, MaxConsecutiveServerErrors
<1>4. reads \in Seq(CallAnswers) /\ entries \in Seq(Entries)
  BY DEF Init
<1>5. at \in 1..Len(list) + 1 /\ 1..at - 1 = {}
  BY <1>2, MoveAssumption DEF Init, MoveAssumption
<1>6. MoveTypeOK
  BY <1>2, <1>3, <1>4, <1>5 DEF Init, MoveTypeOK
<1>7. Guarding
  BY <1>3, <1>5 DEF Init, Guarding
<1>8. Moving /\ Dating /\ Ended /\ MovedWell
  BY DEF Init, Moving, Dating, Ended, MovedWell
<1> QED
  BY <1>6, <1>7, <1>8 DEF MoveInv

(* One read extends the record of the loop and BulkStop's counter. *)
LEMMA ReadIsTyped ==
  ASSUME MoveInv, NEW a \in CallAnswers, Read(a), streak < MaxConsecutiveServerErrors
  PROVE  /\ reads' \in Seq(CallAnswers) /\ reads' # <<>>
         /\ streak' \in 0..MaxConsecutiveServerErrors
         /\ ~Halts(streak, a) => streak' < MaxConsecutiveServerErrors
<1>1. /\ reads \in Seq(CallAnswers) /\ reads' = Append(reads, a)
      /\ streak \in 0..MaxConsecutiveServerErrors
  BY DEF MoveInv, MoveTypeOK, Read
<1>2. reads' \in Seq(CallAnswers) /\ Len(reads') = Len(reads) + 1
  BY <1>1
<1>3. reads' # <<>>
  BY <1>1, <1>2
<1>4. streak' \in {0, streak + 1} /\ streak' = Streak(streak, a)
  BY DEF Read, Streak
<1>5. ~Halts(streak, a) => ~(Streak(streak, a) >= MaxConsecutiveServerErrors)
  BY DEF Halts
<1> QED
  BY <1>1, <1>2, <1>3, <1>4, <1>5 DEF MaxConsecutiveServerErrors

-----------------------------------------------------------------------------
LEMMA GuardReadKeeps == ASSUME MoveInv, GuardRead PROVE MoveInv'
<1>1. PICK a \in CallAnswers, sees \in EditReads \cup {NotRead} :
        /\ ReadAnswer(list[at], a, sees)
        /\ Read(a)
        /\ misled' = IF Misleads(list[at], sees) THEN misled \cup {list[at]} ELSE misled
        /\ IF Halts(streak, a)
             THEN Finish("refused") /\ UNCHANGED <<at, refused>>
             ELSE /\ at' = at + 1
                  /\ refused' = IF IsRefused(sees) THEN refused \cup {at} ELSE refused
                  /\ UNCHANGED <<phase, verdict>>
  BY DEF GuardRead
<1>2. /\ phase = "guard" /\ at <= Len(list) /\ at \in 1..Len(list)
      /\ Len(list) \in Nat
      /\ UNCHANGED <<alone, list, state, moved, unfit, posted, entries>>
  BY DEF GuardRead, world, MoveInv, MoveTypeOK
<1>3. /\ posted = "none" /\ moved = {} /\ unfit = {} /\ entries = <<>>
      /\ streak < MaxConsecutiveServerErrors /\ verdict = "none"
      /\ alone /\ refused = {} => \A i \in 1..at - 1 : list[i] \in Fit
  BY <1>2 DEF MoveInv, Guarding, Ended
<1>4. /\ reads' \in Seq(CallAnswers)
      /\ streak' \in 0..MaxConsecutiveServerErrors
      /\ ~Halts(streak, a) => streak' < MaxConsecutiveServerErrors
  BY <1>1, <1>3, ReadIsTyped
<1>5. list[at] \in ToSet(list) /\ list[at] \in Posts
  BY <1>2 DEF MoveInv, MoveTypeOK, ToSet
<1>6. misled \subseteq misled' /\ misled' \subseteq ToSet(list)
  BY <1>1, <1>5 DEF MoveInv, MoveTypeOK
<1>7. Fit \subseteq Fit'
  BY <1>2, <1>6 DEF Fit
<1>8. CASE Halts(streak, a)
  <2>1. phase' = "done" /\ verdict' = "refused" /\ at' = at /\ refused' = refused
    BY <1>1, <1>8 DEF Finish
  <2>2. MoveTypeOK'
    BY <1>2, <1>4, <1>6, <2>1 DEF MoveInv, MoveTypeOK
  <2>3. Guarding' /\ Moving' /\ Dating' /\ Ended' /\ MovedWell'
    BY <1>2, <1>3, <2>1 DEF Guarding, Moving, Dating, Ended, MovedWell
  <2> QED
    BY <2>2, <2>3 DEF MoveInv
<1>9. CASE ~Halts(streak, a)
  <2>1. /\ at' = at + 1 /\ phase' = phase /\ verdict' = verdict
        /\ refused' = IF IsRefused(sees) THEN refused \cup {at} ELSE refused
    BY <1>1, <1>9
  <2>2. at' \in 1..Len(list) + 1 /\ refused' \subseteq 1..Len(list)
    BY <1>2, <2>1 DEF MoveInv, MoveTypeOK
  <2>3. MoveTypeOK'
    BY <1>2, <1>4, <1>6, <2>1, <2>2 DEF MoveInv, MoveTypeOK
  <2>4. ASSUME alone, refused' = {} PROVE \A i \in 1..at : list[i] \in Fit'
    <3>1. refused = {} /\ sees.id # "other" /\ sees.when = "driven"
      BY <2>1, <2>4 DEF IsRefused
    <3>2. sees.id \in {"own", "none"}
      <4>1. sees \in EditReads \/ sees = NotRead
        BY <1>1
      <4> QED
        BY <3>1, <4>1 DEF EditReads, NotRead
    <3>3. ASSUME sees.id = "own" PROVE list[at] \in Fit'
      <4>1. ReadAnswer(list[at], a, sees) /\ sees # NotRead
        BY <1>1, <3>3 DEF NotRead
      <4>2. sees.when = "driven" /\ sees.when \in {state[list[at]], "pages"}
        BY <3>1, <3>3, <4>1 DEF ReadAnswer
      <4>3. state[list[at]] = "driven"
        BY <4>2
      <4> QED
        BY <1>2, <1>5, <4>3 DEF Fit
    <3>4. ASSUME sees.id = "none" PROVE list[at] \in Fit'
      <4>1. state[list[at]] = "driven" \/ Misleads(list[at], sees)
        BY <3>1, <3>4 DEF Misleads
      <4>2. state[list[at]] = "driven" \/ list[at] \in misled'
        BY <1>1, <4>1
      <4> QED
        BY <1>2, <1>5, <4>2 DEF Fit
    <3>5. list[at] \in Fit' /\ \A i \in 1..at - 1 : list[i] \in Fit'
      BY <1>3, <1>7, <2>4, <3>1, <3>2, <3>3, <3>4
    <3> QED
      BY <1>2, <3>5
  <2>5. Guarding'
    <3>1. at' - 1 = at
      BY <1>2, <2>1
    <3> QED
      BY <1>2, <1>3, <1>4, <1>9, <2>4, <3>1 DEF Guarding
  <2>6. Moving' /\ Dating' /\ Ended' /\ MovedWell'
    BY <1>2, <1>3, <2>1 DEF Moving, Dating, Ended, MovedWell
  <2> QED
    BY <2>3, <2>5, <2>6 DEF MoveInv
<1> QED
  BY <1>8, <1>9

LEMMA GuardEndsKeeps == ASSUME MoveInv, GuardEnds PROVE MoveInv'
<1>1. /\ phase = "guard" /\ at > Len(list)
      /\ \/ refused # {} /\ phase' = "done" /\ verdict' = "refused"
         \/ refused = {} /\ phase' = "move" /\ verdict' = verdict
      /\ UNCHANGED <<alone, list, state, moved, unfit, misled, at, streak, refused, reads,
                     posted, entries>>
  BY DEF GuardEnds, Finish, world
<1>2. MoveTypeOK'
  BY <1>1 DEF MoveInv, MoveTypeOK
<1>3. at - 1 = Len(list)
  BY <1>1 DEF MoveInv, MoveTypeOK
<1>4. Guarding' /\ Moving' /\ Dating'
  BY <1>1, <1>3 DEF MoveInv, Guarding, Moving, Dating, Fit
<1>5. Ended' /\ MovedWell'
  BY <1>1 DEF MoveInv, Guarding, Ended, MovedWell
<1> QED
  BY <1>2, <1>4, <1>5 DEF MoveInv

LEMMA MoveKeeps == ASSUME MoveInv, Move PROVE MoveInv'
<1>1. PICK a \in CallAnswers, done \in SUBSET Posts :
        /\ MoveAnswer(a, done)
        /\ moved' = done
        /\ unfit' = {p \in done : state[p] # "driven"}
        /\ state' = [p \in Posts |-> IF p \in done THEN "driven" ELSE state[p]]
        /\ posted' = a
        /\ \/ a = "ok" /\ phase' = "dates" /\ at' = 1 /\ streak' = 0 /\ reads' = <<>>
              /\ UNCHANGED verdict
           \/ a # "ok" /\ Finish("error") /\ UNCHANGED <<at, streak, reads>>
  BY DEF Move
<1>2. phase = "move" /\ UNCHANGED <<alone, list, misled, refused, entries>>
  BY DEF Move
<1>3. /\ entries = <<>> /\ Len(entries) = 0 /\ verdict = "none"
      /\ alone => \A i \in 1..Len(list) : list[i] \in Fit
  BY <1>2 DEF MoveInv, Moving, Ended
<1>4. /\ list \in Seq(Posts) /\ Len(list) \in Nat
      /\ ToSet(list) = {list[i] : i \in 1..Len(list)}
  BY DEF MoveInv, MoveTypeOK, ToSet
<1>5. done \subseteq ToSet(list)
  BY <1>1 DEF MoveAnswer
<1>6. alone => \A p \in ToSet(list) : state[p] = "driven" \/ p \in misled
  BY <1>3, <1>4 DEF Fit
<1>7. alone => unfit' \subseteq misled
  BY <1>1, <1>5, <1>6
<1>8. alone /\ a = "ok" => ToSet(list) \ done \subseteq misled
  BY <1>1, <1>6 DEF MoveAnswer
<1>9. MoveTypeOK'
  <2>1. state' \in [Posts -> States]
    BY <1>1 DEF MoveInv, MoveTypeOK, States
  <2>2. moved' \subseteq ToSet(list') /\ unfit' \subseteq moved'
    BY <1>1, <1>2, <1>5
  <2>3. /\ at' \in 1..Len(list) + 1 /\ streak' \in 0..MaxConsecutiveServerErrors
        /\ reads' \in Seq(CallAnswers)
    <3>1. <<>> \in Seq(CallAnswers) /\ 0 \in 0..MaxConsecutiveServerErrors
      BY DEF MaxConsecutiveServerErrors
    <3>2. /\ at \in 1..Len(list) + 1 /\ streak \in 0..MaxConsecutiveServerErrors
          /\ reads \in Seq(CallAnswers)
      BY DEF MoveInv, MoveTypeOK
    <3>3. 1 \in 1..Len(list) + 1
      BY <1>4
    <3>4. \/ at' = 1 /\ streak' = 0 /\ reads' = <<>>
          \/ at' = at /\ streak' = streak /\ reads' = reads
      BY <1>1
    <3> QED
      BY <3>1, <3>2, <3>3, <3>4
  <2>4. phase' \in {"dates", "done"} /\ verdict' \in {"none", "error"}
    BY <1>1, <1>3 DEF Finish
  <2>5. posted' \in CallAnswers \cup {"none"}
    BY <1>1
  <2> QED
    BY <1>2, <2>1, <2>2, <2>3, <2>4, <2>5 DEF MoveInv, MoveTypeOK
<1>10. Guarding' /\ Moving' /\ Dating'
  BY <1>1, <1>2, <1>3 DEF Guarding, Moving, Dating, Finish
<1>11. Ended'
  BY <1>1, <1>3 DEF Ended, Finish
<1>12. MovedWell'
  BY <1>1, <1>2, <1>7, <1>8 DEF MovedWell
<1> QED
  BY <1>9, <1>10, <1>11, <1>12 DEF MoveInv

(* One more entry. *)
LEMMA EnterKeeps ==
  ASSUME MoveInv, phase = "dates", at <= Len(list), NEW e \in Entries, Enter(e),
         UNCHANGED <<world, misled, phase, refused, posted, verdict>>,
         reads' \in Seq(CallAnswers), reads' = <<>> => streak' = 0,
         streak' \in 0..MaxConsecutiveServerErrors
  PROVE  MoveInv'
<1>1. /\ UNCHANGED <<alone, list, state, moved, unfit, misled, phase, refused, posted, verdict>>
      /\ entries' = Append(entries, e) /\ at' = at + 1
  BY DEF world, Enter
<1>2. entries \in Seq(Entries) /\ Len(entries) = at - 1 /\ at \in 1..Len(list) /\ Len(list) \in Nat
  BY DEF MoveInv, MoveTypeOK, Dating
<1>3. entries' \in Seq(Entries) /\ Len(entries') = at' - 1 /\ at' \in 1..Len(list) + 1
  BY <1>1, <1>2
<1>4. MoveTypeOK'
  BY <1>1, <1>3 DEF MoveInv, MoveTypeOK
<1>5. Guarding' /\ Moving' /\ Dating'
  BY <1>1, <1>3 DEF MoveInv, Guarding, Moving, Dating
<1>6. Ended' /\ MovedWell'
  BY <1>1 DEF MoveInv, Ended, MovedWell
<1> QED
  BY <1>4, <1>5, <1>6 DEF MoveInv

LEMMA DateReadKeeps == ASSUME MoveInv, DateRead PROVE MoveInv'
<1>1. /\ phase = "dates" /\ at <= Len(list) /\ ~StopsHere
      /\ UNCHANGED <<world, misled, phase, refused, posted, verdict>>
  BY DEF DateRead
<1>2. PICK a \in CallAnswers, e \in Entries : Read(a) /\ Enter(e)
  BY DEF DateRead, Entries
<1>3. streak < MaxConsecutiveServerErrors
  <2>1. CASE reads = <<>>
    BY <1>1, <2>1 DEF MoveInv, Dating, MaxConsecutiveServerErrors
  <2>2. CASE reads # <<>>
    <3>1. ~(streak >= MaxConsecutiveServerErrors) /\ streak \in 0..MaxConsecutiveServerErrors
      BY <1>1, <2>2 DEF StopsHere, MoveInv, MoveTypeOK
    <3> QED
      BY <3>1 DEF MaxConsecutiveServerErrors
  <2> QED
    BY <2>1, <2>2
<1>4. reads' \in Seq(CallAnswers) /\ reads' # <<>> /\ streak' \in 0..MaxConsecutiveServerErrors
  BY <1>2, <1>3, ReadIsTyped
<1> QED
  BY <1>1, <1>2, <1>4, EnterKeeps

LEMMA DateNotAttemptedKeeps == ASSUME MoveInv, DateNotAttempted PROVE MoveInv'
<1>1. /\ phase = "dates" /\ at <= Len(list) /\ Enter("not attempted")
      /\ "not attempted" \in Entries
      /\ UNCHANGED <<world, misled, phase, refused, posted, verdict>>
      /\ UNCHANGED <<streak, reads>>
  BY DEF DateNotAttempted, Entries
<1>2. /\ reads' \in Seq(CallAnswers) /\ (reads' = <<>> => streak' = 0)
      /\ streak' \in 0..MaxConsecutiveServerErrors
  BY <1>1 DEF MoveInv, MoveTypeOK, Dating
<1> QED
  BY <1>1, <1>2, EnterKeeps

LEMMA DatesEndKeeps == ASSUME MoveInv, DatesEnd PROVE MoveInv'
<1>1. /\ phase = "dates" /\ at > Len(list) /\ phase' = "done" /\ verdict' = "ok"
      /\ UNCHANGED <<alone, list, state, moved, unfit, misled, at, streak, refused, reads,
                     posted, entries>>
  BY DEF DatesEnd, Finish, world
<1>2. Len(entries) = Len(list) /\ posted = "ok"
  BY <1>1 DEF MoveInv, MoveTypeOK, Dating
<1>3. MoveTypeOK'
  BY <1>1 DEF MoveInv, MoveTypeOK
<1>4. Guarding' /\ Moving' /\ Dating' /\ Ended' /\ MovedWell'
  BY <1>1, <1>2 DEF MoveInv, Guarding, Moving, Dating, Ended, MovedWell
<1> QED
  BY <1>3, <1>4 DEF MoveInv

LEMMA OtherChangesKeeps ==
  ASSUME MoveInv, NEW post \in Posts, NEW s \in States, OtherChanges(post, s)
  PROVE  MoveInv'
<1>1. /\ ~alone /\ state' = [state EXCEPT ![post] = s]
      /\ UNCHANGED <<alone, list, moved, unfit, misled, phase, at, streak, refused, reads,
                     posted, entries, verdict>>
  BY DEF OtherChanges
<1>2. state' \in [Posts -> States]
  BY <1>1 DEF MoveInv, MoveTypeOK
<1>3. MoveTypeOK'
  BY <1>1, <1>2 DEF MoveInv, MoveTypeOK
<1>4. Guarding' /\ Moving' /\ Dating' /\ Ended' /\ MovedWell'
  BY <1>1 DEF MoveInv, Guarding, Moving, Dating, Ended, MovedWell
<1> QED
  BY <1>3, <1>4 DEF MoveInv

LEMMA NextKeeps == ASSUME MoveInv, [Next]_vars PROVE MoveInv'
<1>1. CASE GuardRead
  BY <1>1, GuardReadKeeps
<1>2. CASE GuardEnds
  BY <1>2, GuardEndsKeeps
<1>3. CASE Move
  BY <1>3, MoveKeeps
<1>4. CASE DateRead
  BY <1>4, DateReadKeeps
<1>5. CASE DateNotAttempted
  BY <1>5, DateNotAttemptedKeeps
<1>6. CASE DatesEnd
  BY <1>6, DatesEndKeeps
<1>7. CASE \E post \in Posts, s \in States : OtherChanges(post, s)
  BY <1>7, OtherChangesKeeps
<1>8. CASE UNCHANGED vars
  BY <1>8 DEF vars, world, MoveInv, MoveTypeOK, Guarding, Moving, Dating, Ended, MovedWell, Fit
<1> QED
  BY <1>1, <1>2, <1>3, <1>4, <1>5, <1>6, <1>7, <1>8 DEF Next, Returned

LEMMA MoveInvariant == Spec => []MoveInv
  BY InitInv, NextKeeps, PTL DEF Spec

-----------------------------------------------------------------------------
(* The variables of a move keep their types for lists of any length.       *)
THEOREM MoveTypeCorrect == Spec => []MoveTypeOK
<1>1. MoveInv => MoveTypeOK
  BY DEF MoveInv
<1> QED
  BY <1>1, MoveInvariant, PTL

(* The guard fails closed on all it can see: a refused batch moved         *)
(* nothing, and a post no schedule drove is moved only if another client   *)
(* changed it after the guard had read it, or the guard was answered with  *)
(* the state of a driven post that carried no id (posts.go:664-692).       *)
THEOREM GuardFailsClosed == Spec => []OnlyDrivenPostsMove
<1>1. MoveInv => OnlyDrivenPostsMove
  BY DEF MoveInv, Ended, MovedWell, OnlyDrivenPostsMove
<1> QED
  BY <1>1, MoveInvariant, PTL

(* A move the server accepted is returned as a success with one entry for  *)
(* each id, whatever reading the dates met, and all posts have moved but   *)
(* one that was gone and that the guard took for another                   *)
(* (posts.go:615-659).                                                     *)
THEOREM AcceptedIsReported == Spec => []AcceptedMoveIsReported
<1>1. MoveInv => AcceptedMoveIsReported
  BY DEF MoveInv, MoveTypeOK, Ended, MovedWell, AcceptedMoveIsReported
<1> QED
  BY <1>1, MoveInvariant, PTL

-----------------------------------------------------------------------------
(* BulkStop's counter is the number of server errors the answers end with, *)
(* so that what it stops at can be read off the answers.                   *)
Trails(s, k) ==
  /\ k \in 0..Len(s)
  /\ \A j \in 1..Len(s) : j > Len(s) - k => s[j] = "server error"
  /\ k < Len(s) => s[Len(s) - k] # "server error"

Ends(s, i) ==
  \/ s[i] \in {"rate limited", "barred", "no answer", "unreadable"}
  \/ i > 2 /\ \A j \in i - 2..i : s[j] = "server error"

LEMMA EndsAtTheLimit ==
  ASSUME NEW s \in Seq(CallAnswers), Len(s) > 0, NEW k, Trails(s, k)
  PROVE  Ends(s, Len(s)) <=> ~IsServerAnswer(s[Len(s)]) \/ k >= MaxConsecutiveServerErrors
<1> DEFINE l == Len(s)
<1>1. l \in Nat \ {0} /\ k \in 0..l /\ s[l] \in CallAnswers
  <2>1. l \in Nat
    BY LenProperties
  <2>2. l \in 1..Len(s) /\ l # 0
    BY <2>1
  <2>3. s[l] \in CallAnswers
    BY <2>2, ElementOfSeq
  <2> QED BY <2>1, <2>2, <2>3 DEF Trails
<1>2. /\ \A j \in 1..l : j > l - k => s[j] = "server error"
      /\ k < l => s[l - k] # "server error"
  BY DEF Trails
<1> HIDE DEF l
<1>3. s[l] \in {"rate limited", "barred", "no answer", "unreadable"} <=> ~IsServerAnswer(s[l])
  BY <1>1 DEF IsServerAnswer, CallAnswers
<1>4. ASSUME k >= 3 PROVE l > 2 /\ \A j \in l - 2..l : s[j] = "server error"
  <2>1. l > 2 /\ \A j \in l - 2..l : j \in 1..l /\ j > l - k
    BY <1>1, <1>4
  <2>2. ASSUME NEW j \in l - 2..l PROVE s[j] = "server error"
    BY <1>2, <2>1
  <2> QED BY <2>1, <2>2
<1>5. ASSUME k < 3, l > 2 PROVE \E j \in l - 2..l : s[j] # "server error"
  <2>1. k < l /\ l - k \in l - 2..l
    BY <1>1, <1>5
  <2> QED BY <1>2, <2>1
<1>6. k >= 3 \/ k < 3
  BY <1>1
<1>7. Ends(s, l) <=> ~IsServerAnswer(s[l]) \/ k >= 3
  BY <1>1, <1>3, <1>4, <1>5, <1>6 DEF Ends
<1> QED BY <1>7 DEF l, MaxConsecutiveServerErrors

LEMMA TrailsMeans ==
  ASSUME NEW s, NEW l, Len(s) = l, NEW k, k \in 0..l,
         \A j \in 1..l : j > l - k => s[j] = "server error",
         k < l => s[l - k] # "server error"
  PROVE  Trails(s, k)
BY DEF Trails

LEMMA TrailsFurther ==
  ASSUME NEW s \in Seq(CallAnswers), NEW k, Trails(s, k), NEW a \in CallAnswers
  PROVE  /\ Append(s, a) \in Seq(CallAnswers) /\ Len(Append(s, a)) = Len(s) + 1
         /\ Trails(Append(s, a), Streak(k, a))
         /\ Ends(Append(s, a), Len(s) + 1) <=> Halts(k, a)
         /\ \A i \in 1..Len(s) : Ends(Append(s, a), i) <=> Ends(s, i)
<1> DEFINE t == Append(s, a)
           l == Len(s)
<1>1. l \in Nat /\ k \in 0..l /\ t \in Seq(CallAnswers) /\ Len(t) = l + 1
  BY LenProperties, AppendProperties DEF Trails
<1>2. t[l + 1] = a /\ \A j \in 1..l : t[j] = s[j]
  BY AppendProperties
<1>3. /\ \A j \in 1..l : j > l - k => s[j] = "server error"
      /\ k < l => s[l - k] # "server error"
  BY DEF Trails
<1> HIDE DEF t, l
<1>4. Trails(t, Streak(k, a))
  <2>1. CASE a = "server error"
    <3>0. Streak(k, a) = k + 1
      BY <2>1 DEF Streak
    <3>1. k + 1 \in 0..l + 1
      BY <1>1
    <3>2. ASSUME NEW j \in 1..l + 1, j > (l + 1) - (k + 1) PROVE t[j] = "server error"
      <4>1. CASE j = l + 1
        BY <1>2, <2>1, <4>1
      <4>2. CASE j # l + 1
        <5>1. j \in 1..l /\ j > l - k
          BY <1>1, <3>2, <4>2
        <5> QED BY <1>2, <1>3, <5>1
      <4> QED BY <4>1, <4>2
    <3>3. ASSUME k + 1 < l + 1 PROVE t[(l + 1) - (k + 1)] # "server error"
      <4>1. k < l /\ l - k \in 1..l /\ (l + 1) - (k + 1) = l - k
        BY <1>1, <3>3
      <4> QED BY <1>2, <1>3, <4>1
    <3>4. Trails(t, k + 1)
      <4> DEFINE m == l + 1
                 i == k + 1
      <4>1. Len(t) = m /\ i \in 0..m
        BY <1>1, <3>1
      <4>2. \A j \in 1..m : j > m - i => t[j] = "server error"
        BY <3>2
      <4>3. i < m => t[m - i] # "server error"
        BY <3>3
      <4> HIDE DEF m, i
      <4>4. Trails(t, i)
        BY <4>1, <4>2, <4>3, TrailsMeans
      <4> QED BY <4>4 DEF i
    <3> QED BY <3>0, <3>4
  <2>2. CASE a # "server error"
    <3>1. Streak(k, a) = 0
      BY <2>2 DEF Streak
    <3>2. 0 \in 0..l + 1 /\ \A j \in 1..l + 1 : ~(j > (l + 1) - 0)
      BY <1>1
    <3>3. (l + 1) - 0 = l + 1
      BY <1>1
    <3>4. Trails(t, 0)
      <4> DEFINE m == l + 1
      <4>1. Len(t) = m /\ 0 \in 0..m /\ \A j \in 1..m : j > m - 0 => t[j] = "server error"
        BY <1>1, <3>2
      <4>2. t[m - 0] # "server error"
        BY <1>2, <2>2, <3>3
      <4> HIDE DEF m
      <4> QED BY <4>1, <4>2, TrailsMeans
    <3> QED BY <3>1, <3>4
  <2> QED BY <2>1, <2>2
<1>5. Ends(t, l + 1) <=> Halts(k, a)
  BY <1>1, <1>2, <1>4, EndsAtTheLimit DEF Halts
<1>6. ASSUME NEW i \in 1..l PROVE Ends(t, i) <=> Ends(s, i)
  <2>1. t[i] = s[i]
    BY <1>2
  <2>2. ASSUME i > 2 PROVE \A j \in i - 2..i : t[j] = s[j]
    <3>1. \A j \in i - 2..i : j \in 1..l
      BY <1>1, <2>2
    <3> QED BY <1>2, <3>1
  <2> QED BY <2>1, <2>2 DEF Ends
<1> QED BY <1>1, <1>4, <1>5, <1>6 DEF t, l

Counting ==
  /\ Trails(reads, streak)
  /\ \A i \in 1..Len(reads) - 1 : ~Ends(reads, i)
  /\ phase = "guard" => \A i \in 1..Len(reads) : ~Ends(reads, i)
  /\ \A i \in DOMAIN entries : entries[i] = "not attempted" => Len(reads) > 0 /\ Ends(reads, Len(reads))

(* Both loops stop where the answers so far end. *)
LEMMA StopsMeansEnds ==
  ASSUME MoveInv, Counting
  PROVE  /\ reads \in Seq(CallAnswers) /\ Len(reads) \in Nat
         /\ StopsHere <=> Len(reads) > 0 /\ Ends(reads, Len(reads))
<1>1. reads \in Seq(CallAnswers) /\ Len(reads) \in Nat /\ (reads # <<>> <=> Len(reads) > 0)
  BY LenProperties, EmptySeq DEF MoveInv, MoveTypeOK
<1>2. Last(reads) = reads[Len(reads)]
  BY DEF Last
<1> QED BY <1>1, <1>2, EndsAtTheLimit DEF StopsHere, Counting

LEMMA ReadCounts ==
  ASSUME MoveInv, Counting, NEW a \in CallAnswers, Read(a), \A i \in 1..Len(reads) : ~Ends(reads, i)
  PROVE  /\ Trails(reads', streak')
         /\ \A i \in 1..Len(reads') - 1 : ~Ends(reads', i)
         /\ ~Halts(streak, a) => \A i \in 1..Len(reads') : ~Ends(reads', i)
<1>1. reads \in Seq(CallAnswers) /\ reads' = Append(reads, a) /\ streak' = Streak(streak, a) /\ Trails(reads, streak)
  BY DEF MoveInv, MoveTypeOK, Read, Counting
<1> DEFINE l == Len(reads)
<1>2. l \in Nat /\ Len(reads') = l + 1 /\ Trails(reads', streak')
  BY <1>1, TrailsFurther, LenProperties
<1>3. (Ends(reads', l + 1) <=> Halts(streak, a)) /\ \A i \in 1..l : ~Ends(reads', i)
  BY <1>1, TrailsFurther
<1> HIDE DEF l
<1>4. \A i \in 1..(l + 1) - 1 : ~Ends(reads', i)
  BY <1>2, <1>3
<1>5. \A i \in 1..l + 1 : (i \in 1..l) \/ (i = l + 1)
  BY <1>2
<1> QED BY <1>2, <1>3, <1>4, <1>5

LEMMA EntryAdds ==
  ASSUME MoveInv, NEW e \in Entries, Enter(e)
  PROVE  \A i \in DOMAIN entries' : entries'[i] = e \/ (i \in DOMAIN entries /\ entries'[i] = entries[i])
<1>1. entries \in Seq(Entries) /\ entries' = Append(entries, e)
  BY DEF MoveInv, MoveTypeOK, Enter
<1> DEFINE l == Len(entries)
<1>2. l \in Nat /\ DOMAIN entries = 1..l /\ DOMAIN entries' = 1..l + 1
  BY <1>1, AppendProperties, LenProperties
<1>3. entries'[l + 1] = e /\ \A i \in 1..l : entries'[i] = entries[i]
  BY <1>1, AppendProperties
<1> HIDE DEF l
<1>4. \A i \in 1..l + 1 : (i \in 1..l) \/ (i = l + 1)
  BY <1>2
<1> QED BY <1>2, <1>3, <1>4

LEMMA CountingKept ==
  ASSUME MoveInv, Counting, [Next]_vars
  PROVE  Counting'
<1>1. CASE GuardRead
  <2>1. PICK a \in CallAnswers : Read(a) /\ (Halts(streak, a) => phase' = "done")
    BY <1>1 DEF GuardRead, Finish
  <2>2. phase = "guard" /\ entries' = entries /\ entries = <<>>
    BY <1>1 DEF GuardRead, MoveInv, Guarding
  <2>3. DOMAIN entries' = {}
    BY <2>2
  <2>4. \A i \in 1..Len(reads) : ~Ends(reads, i)
    BY <2>2 DEF Counting
  <2> QED BY <2>1, <2>3, <2>4, ReadCounts DEF Counting
<1>2. CASE GuardEnds \/ DatesEnd \/ UNCHANGED vars
  BY <1>2 DEF Counting, GuardEnds, DatesEnd, Finish, vars, world
<1>3. CASE Move
  <2>1. entries' = entries /\ entries = <<>> /\ phase = "move" /\ phase' \in {"dates", "done"}
    BY <1>3 DEF Move, MoveInv, Moving, Finish
  <2>2. DOMAIN entries' = {}
    BY <2>1
  <2>3. CASE reads' = <<>> /\ streak' = 0
    <3>1. Len(<<>>) = 0
      BY EmptySeq
    <3>2. Len(reads') = 0 /\ \A i : i \notin 1..0 - 1 /\ i \notin 1..0
      BY <2>3, <3>1
    <3>3. 0 \in 0..0 /\ (\A j \in 1..0 : FALSE) /\ ~(0 < 0)
      OBVIOUS
    <3>4. Trails(<<>>, 0)
      BY <3>1, <3>3, TrailsMeans
    <3>5. Trails(reads', streak')
      BY <2>3, <3>4
    <3> QED BY <2>1, <2>2, <3>2, <3>5 DEF Counting
  <2>4. CASE UNCHANGED <<reads, streak>>
    BY <2>1, <2>2, <2>4 DEF Counting
  <2> QED BY <1>3, <2>3, <2>4 DEF Move
<1>4. CASE DateRead
  <2>1. PICK a \in CallAnswers, e \in {"date", "warned", "unread"} : Read(a) /\ Enter(e)
    BY <1>4 DEF DateRead
  <2>2. phase = "dates" /\ phase' = "dates" /\ ~StopsHere
    BY <1>4 DEF DateRead
  <2>3. ~(Len(reads) > 0 /\ Ends(reads, Len(reads))) /\ Len(reads) \in Nat
    BY <2>2, StopsMeansEnds
  <2>4. \A i \in 1..Len(reads) : ~Ends(reads, i)
    <3> DEFINE l == Len(reads)
    <3>1. l \in Nat /\ \A i \in 1..l - 1 : ~Ends(reads, i)
      BY <2>3 DEF Counting
    <3>2. l > 0 => ~Ends(reads, l)
      BY <2>3
    <3> HIDE DEF l
    <3>3. \A i \in 1..l : (i \in 1..l - 1) \/ (i = l /\ l > 0)
      BY <3>1
    <3> QED BY <3>1, <3>2, <3>3 DEF l
  <2>5. \A i \in DOMAIN entries : entries[i] # "not attempted"
    BY <2>3 DEF Counting
  <2>6. \A i \in DOMAIN entries' : entries'[i] # "not attempted"
    BY <2>1, <2>5, EntryAdds DEF Entries
  <2> QED BY <2>1, <2>2, <2>4, <2>6, ReadCounts DEF Counting
<1>5. CASE DateNotAttempted
  <2>1. StopsHere /\ Enter("not attempted") /\ UNCHANGED <<phase, streak, reads>>
    BY <1>5 DEF DateNotAttempted
  <2> QED BY <2>1, StopsMeansEnds DEF Counting
<1>6. CASE \E post \in Posts, s \in States : OtherChanges(post, s)
  BY <1>6 DEF OtherChanges, Counting
<1> QED BY <1>1, <1>2, <1>3, <1>4, <1>5, <1>6 DEF Next, Returned

(* ReadingStopsInTime: for lists of any length both read loops stop at the *)
(* first answer that would repeat, and no date is left unread without one  *)
(* (bulk_stop.go:37-67, posts.go:624-644, 667-678).                        *)
THEOREM BothLoopsStop == Spec => []ReadingStopsInTime
<1>1. Init => Counting
  <2> SUFFICES ASSUME Init PROVE Counting
    OBVIOUS
  <2>1. reads = <<>> /\ Len(<<>>) = 0 /\ streak = 0 /\ entries = <<>>
    BY EmptySeq DEF Init
  <2>2. DOMAIN entries = {}
    BY <2>1
  <2> QED BY <2>1, <2>2 DEF Counting, Trails
<1>2. MoveInv /\ Counting /\ [Next]_vars => Counting'
  BY CountingKept
<1>3. Counting => ReadingStopsInTime
  BY DEF Counting, ReadingStopsInTime, EndsReading, Ends
<1> QED BY <1>1, <1>2, <1>3, MoveInvariant, PTL DEF Spec
=============================================================================
