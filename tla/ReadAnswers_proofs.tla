------------------------- MODULE ReadAnswers_proofs -------------------------
(***************************************************************************)
(* Two modules about what an answer may be taken for: the confirmation of  *)
(* a stop (StopParse), for any number of jobs, attempts and calls, and a   *)
(* filtered list or a page of a calendar (Queries), for any number of      *)
(* days, reads and changes and any size of a page.                         *)
(***************************************************************************)
EXTENDS StopParse, Queries, FiniteSetTheorems, WellFoundedInduction, TLAPS

(* Jobs are numbered in the order of their start. *)
Numbered ==
  /\ next \in Nat /\ running \in Nat /\ running < next
  /\ stopping \in {0, running}
  /\ \A j \in cancelled : j \in Nat /\ j < next

(* The job that ran when the call began runs on, or has ended. *)
FirstIsKnown == first # 0 => first = running \/ first \in ended

(* A call whose read saw the form has returned without an error, so that   *)
(* no agent calls again; a stop still to be carried out came before.       *)
SeenIsFinal ==
  /\ seenNext \in Nat /\ seenNext <= next
  /\ pc # "done" => result = NoResult
  /\ seenNext # 0 => pc = "done" /\ ~result.error
  /\ (seenNext # 0 /\ ~strayed) => stopping < seenNext

StopInv == Numbered /\ FirstIsKnown /\ SeenIsFinal /\ StoppedWasSeen /\ NewParsesAreLeftAlone

-----------------------------------------------------------------------------
LEMMA InitInv == StopInit => StopInv
<1> SUFFICES ASSUME StopInit PROVE StopInv
  OBVIOUS
<1>1. Numbered
  BY DEF StopInit, Numbered
<1>2. FirstIsKnown /\ SeenIsFinal
  BY <1>1 DEF StopInit, Numbered, FirstIsKnown, SeenIsFinal
<1>3. StoppedWasSeen /\ NewParsesAreLeftAlone
  BY DEF StopInit, NoResult, StoppedWasSeen, NewParsesAreLeftAlone
<1> QED BY <1>1, <1>2, <1>3 DEF StopInv

(* No claim is made before a call returns. *)
LEMMA NoClaim == NoResult.claims # "stopped" /\ ~NoResult.error
BY DEF NoResult

LEMMA OtherUsers ==
  ASSUME StopInv, StartParsing \/ StartRefused \/ JobEnds
  PROVE  StopInv'
<1> USE DEF call
<1>1. CASE StartParsing
  <2>1. Numbered'
    BY <1>1 DEF StartParsing, StopInv, Numbered
  <2>2. FirstIsKnown'
    BY <1>1 DEF StartParsing, StopInv, FirstIsKnown
  <2>3. SeenIsFinal'
    BY <1>1 DEF StartParsing, StopInv, Numbered, SeenIsFinal
  <2>4. StoppedWasSeen' /\ NewParsesAreLeftAlone'
    BY <1>1 DEF StartParsing, StopInv, StoppedWasSeen, NewParsesAreLeftAlone
  <2> QED BY <2>1, <2>2, <2>3, <2>4 DEF StopInv
<1>2. CASE StartRefused
  BY <1>2 DEF StartRefused, StopInv, Numbered, FirstIsKnown, SeenIsFinal, StoppedWasSeen, NewParsesAreLeftAlone
<1>3. CASE JobEnds
  <2>1. /\ running # 0 /\ running' = 0 /\ stopping' = 0 /\ ended' = ended \cup {running}
        /\ cancelled' = cancelled \/ (stopping = running /\ cancelled' = cancelled \cup {running})
        /\ UNCHANGED <<next, tool, pc, calls, tries, result, first, seen, seenNext, late, strayed>>
    BY <1>3 DEF JobEnds
  <2>2. Numbered'
    BY <2>1 DEF StopInv, Numbered
  <2>3. FirstIsKnown'
    BY <2>1 DEF StopInv, FirstIsKnown
  <2>4. SeenIsFinal'
    BY <2>1 DEF StopInv, SeenIsFinal
  <2>5. StoppedWasSeen'
    BY <2>1 DEF StopInv, StoppedWasSeen
  <2>6. NewParsesAreLeftAlone'
    BY <2>1 DEF StopInv, SeenIsFinal, NewParsesAreLeftAlone
  <2> QED BY <2>2, <2>3, <2>4, <2>5, <2>6 DEF StopInv
<1> QED BY <1>1, <1>2, <1>3

LEMMA TheCall ==
  ASSUME StopInv,
         BeginStop \/ StopAccepted \/ StopRefused \/ StopUnanswered \/ ConfirmStop \/ ConfirmFails
  PROVE  StopInv'
<1> USE DEF server, Return
<1>1. CASE BeginStop
  <2>1. /\ seenNext = 0 /\ result' = NoResult /\ pc' = "stop" /\ first' = running
        /\ UNCHANGED <<running, stopping, next, ended, cancelled, seenNext, strayed>>
    BY <1>1, NoClaim DEF BeginStop, StopInv, SeenIsFinal
  <2>2. Numbered' /\ FirstIsKnown'
    BY <2>1 DEF StopInv, Numbered, FirstIsKnown
  <2>3. SeenIsFinal' /\ StoppedWasSeen' /\ NewParsesAreLeftAlone'
    BY <2>1, NoClaim DEF StopInv, SeenIsFinal, StoppedWasSeen, NewParsesAreLeftAlone
  <2> QED BY <2>2, <2>3 DEF StopInv
<1>2. CASE StopAccepted
  <2>1. /\ seenNext = 0 /\ pc' = "confirm" /\ stopping' = running /\ pc = "stop"
        /\ UNCHANGED <<running, next, ended, cancelled, result, first, seen, seenNext, strayed>>
    BY <1>2 DEF StopAccepted, StopArrives, StopInv, SeenIsFinal
  <2>2. Numbered' /\ FirstIsKnown'
    BY <2>1 DEF StopInv, Numbered, FirstIsKnown
  <2>3. SeenIsFinal' /\ StoppedWasSeen' /\ NewParsesAreLeftAlone'
    BY <2>1 DEF StopInv, SeenIsFinal, StoppedWasSeen, NewParsesAreLeftAlone
  <2> QED BY <2>2, <2>3 DEF StopInv
<1>3. CASE StopRefused
  <2>1. /\ seenNext = 0 /\ pc' = "done" /\ result'.claims = "failed"
        /\ UNCHANGED <<running, stopping, next, ended, cancelled, first, seenNext, strayed>>
    BY <1>3 DEF StopRefused, StopInv, SeenIsFinal
  <2>2. Numbered' /\ FirstIsKnown'
    BY <2>1 DEF StopInv, Numbered, FirstIsKnown
  <2>3. SeenIsFinal' /\ StoppedWasSeen' /\ NewParsesAreLeftAlone'
    BY <2>1 DEF StopInv, SeenIsFinal, StoppedWasSeen, NewParsesAreLeftAlone
  <2> QED BY <2>2, <2>3 DEF StopInv
<1>4. CASE StopUnanswered
  <2>1. /\ seenNext = 0 /\ stopping' \in {stopping, running}
        /\ \/ pc' = pc /\ result' = result /\ pc = "stop"
           \/ pc' = "done" /\ result'.claims = "failed"
        /\ UNCHANGED <<running, next, ended, cancelled, first, seen, seenNext, strayed>>
    BY <1>4 DEF StopUnanswered, StopArrives, StopInv, SeenIsFinal
  <2>2. Numbered' /\ FirstIsKnown'
    BY <2>1 DEF StopInv, Numbered, FirstIsKnown
  <2>3. SeenIsFinal' /\ StoppedWasSeen' /\ NewParsesAreLeftAlone'
    BY <2>1 DEF StopInv, SeenIsFinal, StoppedWasSeen, NewParsesAreLeftAlone
  <2> QED BY <2>2, <2>3 DEF StopInv
<1>5. CASE ConfirmStop
  <2>1. PICK s \in Form :
          /\ seen' = s
          /\ seenNext' = IF s = "blank" \/ seenNext # 0 THEN seenNext ELSE next
          /\ result' = IF InProgress(s) THEN StillRunning
                       ELSE [claims |-> "stopped", code |-> 0, error |-> FALSE]
    BY <1>5 DEF ConfirmStop
  <2>2. /\ seenNext = 0 /\ pc' = "done" /\ ~result'.error
        /\ UNCHANGED <<running, stopping, next, ended, cancelled, first, strayed>>
    BY <1>5, <2>1 DEF ConfirmStop, StillRunning, StopInv, SeenIsFinal
  <2>3. Numbered' /\ FirstIsKnown'
    BY <2>2 DEF StopInv, Numbered, FirstIsKnown
  <2>4. seenNext' \in {0, next}
    BY <2>1, <2>2
  <2>5. SeenIsFinal'
    BY <2>2, <2>4 DEF StopInv, Numbered, SeenIsFinal
  <2>6. StoppedWasSeen'
    <3> SUFFICES ASSUME result'.claims = "stopped", s # "blank"
                 PROVE  s = "idle" /\ (first # 0 => first \in ended)
      BY <2>1, <2>2 DEF StoppedWasSeen
    <3>1. ~InProgress(s)
      BY <2>1 DEF StillRunning
    <3>2. s = "idle" /\ running = 0
      BY <3>1 DEF Form, InProgress
    <3> QED BY <3>2 DEF StopInv, FirstIsKnown
  <2>7. NewParsesAreLeftAlone'
    BY <2>2, <2>4 DEF StopInv, Numbered, NewParsesAreLeftAlone
  <2> QED BY <2>3, <2>5, <2>6, <2>7 DEF StopInv
<1>6. CASE ConfirmFails
  <2>1. /\ seenNext = 0 /\ pc' = "done" /\ result'.claims = "unconfirmed"
        /\ UNCHANGED <<running, stopping, next, ended, cancelled, first, seenNext, strayed>>
    BY <1>6 DEF ConfirmFails, StopInv, SeenIsFinal
  <2>2. Numbered' /\ FirstIsKnown'
    BY <2>1 DEF StopInv, Numbered, FirstIsKnown
  <2>3. SeenIsFinal' /\ StoppedWasSeen' /\ NewParsesAreLeftAlone'
    BY <2>1 DEF StopInv, SeenIsFinal, StoppedWasSeen, NewParsesAreLeftAlone
  <2> QED BY <2>2, <2>3 DEF StopInv
<1> QED BY <1>1, <1>2, <1>3, <1>4, <1>5, <1>6

LEMMA Stray == ASSUME StopInv, StopArrivesLate PROVE StopInv'
<1>1. /\ stopping' = running /\ strayed' = TRUE
      /\ UNCHANGED <<running, next, ended, cancelled, pc, result, first, seen, seenNext>>
  BY DEF StopArrivesLate, StopArrives, call
<1>2. Numbered' /\ FirstIsKnown'
  BY <1>1 DEF StopInv, Numbered, FirstIsKnown
<1>3. SeenIsFinal' /\ StoppedWasSeen' /\ NewParsesAreLeftAlone'
  BY <1>1 DEF StopInv, SeenIsFinal, StoppedWasSeen, NewParsesAreLeftAlone
<1> QED BY <1>2, <1>3 DEF StopInv

LEMMA SpecInv == StopSpec => []StopInv
<1>1. ASSUME StopInv, UNCHANGED stopVars PROVE StopInv'
  BY <1>1 DEF stopVars, server, call, StopInv, Numbered, FirstIsKnown, SeenIsFinal, StoppedWasSeen, NewParsesAreLeftAlone
<1>2. StopInv /\ [StopNext]_stopVars => StopInv'
  BY <1>1, OtherUsers, TheCall, Stray DEF StopNext, StopReturned
<1> QED BY InitInv, <1>2, PTL DEF StopSpec

(* "stopped" is only said of a parse that was seen idle, and the job that  *)
(* ran when the call began has ended, whatever started since.              *)
THEOREM StoppedIsSeen == StopSpec => []StoppedWasSeen
<1>1. StopInv => StoppedWasSeen
  BY DEF StopInv
<1> QED BY <1>1, SpecInv, PTL

(* An agent that repeats failed calls stops no parse that began after a    *)
(* call of its own saw the form, if no request of before strays.           *)
THEOREM LaterParsesLive == StopSpec => []NewParsesAreLeftAlone
<1>1. StopInv => NewParsesAreLeftAlone
  BY DEF StopInv
<1> QED BY <1>1, SpecInv, PTL
-----------------------------------------------------------------------------
(* Queries: where the reader of a calendar stands.                         *)
QueriesTypeOK ==
  /\ booked \subseteq Days
  /\ at \subseteq Days
  /\ query \in [from : Nat, to : Nat, page : Nat]
  /\ walk \in [next : Nat \ {0}, days : SUBSET Days, still : BOOLEAN]

(* The number of a page, of which 0 is another name for the first. *)
PageNo(q) == IF q.page = 0 THEN 1 ELSE q.page

(* A recovery has read the pages before its next one, and of a queue that  *)
(* stood still all days on them.                                           *)
ReadSoFar(q, days, pages) == {d \in InWindow(q, days) : Place(d, InWindow(q, days)) < pages * PerPage}

WalkIsOnTrack ==
  walk.next > 1 =>
    /\ PageNo(query) = walk.next - 1
    /\ walk.still => at = booked /\ walk.days = ReadSoFar(query, at, walk.next - 1)

QueriesInv == QueriesTypeOK /\ WalkIsOnTrack /\ QueueAnswersAreWhole
-----------------------------------------------------------------------------
(* Days and their places *)

LEMMA LeastDay ==
  ASSUME NEW S, S \subseteq Nat, S # {}
  PROVE  Min(S) \in S /\ \A d \in S : Min(S) <= d
<1> DEFINE R == OpToRel(<, Nat)
<1>1. IsWellFoundedOn(R, Nat)
  BY NatLessThanWellFounded
<1>2. \A a, b \in Nat : a < b => <<a, b>> \in R
  BY DEF OpToRel
<1> HIDE DEF R
<1>3. PICK m \in S : \A d \in S : <<d, m>> \notin R
  BY <1>1, WFMin
<1>4. \A d \in S : m <= d
  <2> SUFFICES ASSUME NEW d \in S PROVE m <= d
    OBVIOUS
  <2>1. ~(d < m)
    BY <1>2, <1>3
  <2> QED BY <2>1
<1> QED BY <1>4 DEF Min

LEMMA GreatestDay ==
  ASSUME NEW n \in Nat, NEW S, S \subseteq 1..n, S # {}
  PROVE  Max(S) \in S /\ \A d \in S : d <= Max(S)
<1> DEFINE T == {n - d : d \in S}
<1>1. T \subseteq Nat /\ T # {}
  <2>1. \A d \in S : n - d \in Nat
    OBVIOUS
  <2> QED BY <2>1
<1>2. Min(T) \in T /\ \A t \in T : Min(T) <= t
  BY <1>1, LeastDay
<1>3. PICK m \in S : Min(T) = n - m
  BY <1>2
<1>4. \A d \in S : n - m <= n - d
  BY <1>2, <1>3
<1>5. \A d \in S : m >= d
  BY <1>4
<1>6. \E x \in S : \A y \in S : x >= y
  BY <1>5
<1>7. Max(S) \in S /\ \A y \in S : Max(S) >= y
  BY <1>6 DEF Max
<1> QED BY <1>7

(* The days of a window are counted by their places, from 0 for the first  *)
(* to the last.                                                            *)
LEMMA Places ==
  ASSUME NEW S, S \subseteq Days, LastDay \in Nat
  PROVE  /\ Cardinality(S) \in Nat
         /\ \A d \in S : Place(d, S) \in Nat /\ Place(d, S) < Cardinality(S)
         /\ S # {} => Place(Min(S), S) = 0 /\ Place(Max(S), S) = Cardinality(S) - 1
<1>1. S \subseteq Nat /\ S \subseteq 1..LastDay
  BY DEF Days
<1>2. IsFiniteSet(S) /\ Cardinality(S) \in Nat
  <2>1. IsFiniteSet(1..LastDay)
    BY FS_Interval
  <2>2. S \in SUBSET (1..LastDay)
    BY <1>1
  <2>3. IsFiniteSet(S)
    BY <2>1, <2>2, FS_Subset
  <2> QED BY <2>3, FS_CardinalityType
<1>3. ASSUME NEW d \in S PROVE Place(d, S) \in Nat /\ Place(d, S) < Cardinality(S)
  <2> DEFINE before == {e \in S : e < d}
  <2>1. IsFiniteSet(S \ {d}) /\ Cardinality(S \ {d}) = Cardinality(S) - 1
    BY <1>2, FS_RemoveElement
  <2>2. before \in SUBSET (S \ {d})
    BY <1>1
  <2> HIDE DEF before
  <2>3. IsFiniteSet(before) /\ Cardinality(before) <= Cardinality(S \ {d})
    BY <2>1, <2>2, FS_Subset
  <2>4. Cardinality(before) \in Nat
    BY <2>3, FS_CardinalityType
  <2>5. Place(d, S) = Cardinality(before)
    BY DEF Place, before
  <2> QED BY <1>2, <2>1, <2>3, <2>4, <2>5
<1>4. ASSUME S # {} PROVE Place(Min(S), S) = 0
  <2>1. Min(S) \in S /\ \A d \in S : Min(S) <= d
    BY <1>1, <1>4, LeastDay
  <2>2. PICK m \in S : m = Min(S) /\ \A d \in S : m <= d
    BY <2>1
  <2>3. \A e \in S : ~(e < m)
    BY <1>1, <2>2
  <2>4. {e \in S : e < m} = {}
    BY <2>3
  <2> QED BY <2>2, <2>4, FS_EmptySet DEF Place
<1>5. ASSUME S # {} PROVE Place(Max(S), S) = Cardinality(S) - 1
  <2>1. Max(S) \in S /\ \A d \in S : d <= Max(S)
    BY <1>1, <1>5, GreatestDay
  <2>2. PICK m \in S : m = Max(S) /\ \A d \in S : d <= m
    BY <2>1
  <2>3. \A e \in S : e < m <=> e # m
    BY <1>1, <2>2
  <2>4. {e \in S : e < m} = S \ {m}
    BY <2>3
  <2>5. Cardinality(S \ {m}) = Cardinality(S) - 1
    BY <1>2, FS_RemoveElement
  <2> QED BY <2>2, <2>4, <2>5 DEF Place
<1> QED BY <1>2, <1>3, <1>4, <1>5

(* Where a page ends the next one begins. *)
LEMMA PageEnds ==
  ASSUME NEW n \in Nat \ {0}, NEW p \in Nat
  PROVE  (n - 1) * p \in Nat /\ n * p = (n - 1) * p + p
<1>1. n - 1 \in Nat
  OBVIOUS
<1>2. PICK m \in Nat : m = n - 1
  BY <1>1
<1>3. n = m + 1
  BY <1>2
<1>4. (m + 1) * p = m * p + p /\ m * p \in Nat
  OBVIOUS
<1> QED BY <1>2, <1>3, <1>4
-----------------------------------------------------------------------------
(* Queries: one answer of the calendar. *)
CalendarQueries == [from : Nat, to : Nat, page : Nat]

LEMMA WindowDays ==
  ASSUME NEW q, NEW b, b \subseteq Days
  PROVE  /\ InWindow(q, b) \subseteq b
         /\ InWindow(q, b) \subseteq Days
         /\ PageOf(q, InWindow(q, b)) \subseteq InWindow(q, b)
         /\ q.from = 0 /\ q.to = 0 => InWindow(q, b) = b
BY DEF InWindow, PageOf

(* A page holds the days whose places are on it; one with nothing after it *)
(* ends behind the last day.                                               *)
LEMMA PagePlaces ==
  ASSUME NEW q \in CalendarQueries, NEW S, S \subseteq Days
  PROVE  /\ PageNo(q) \in Nat \ {0} /\ (PageNo(q) - 1) * PerPage \in Nat
         /\ PageNo(q) * PerPage = (PageNo(q) - 1) * PerPage + PerPage
         /\ \A d \in S : d \in PageOf(q, S) <=>
              /\ (PageNo(q) - 1) * PerPage <= Place(d, S)
              /\ Place(d, S) < PageNo(q) * PerPage
         /\ ~HasMore(q, S) => Cardinality(S) <= PageNo(q) * PerPage
<1>1. PageNo(q) \in Nat \ {0} /\ LastDay \in Nat /\ PerPage \in Nat
  BY QueriesAssumption DEF PageNo, CalendarQueries, QueriesAssumption
<1>2. (PageNo(q) - 1) * PerPage \in Nat /\ PageNo(q) * PerPage = (PageNo(q) - 1) * PerPage + PerPage
  BY <1>1, PageEnds
<1>3. PICK start \in Nat : start = (PageNo(q) - 1) * PerPage
  BY <1>2
<1>4. (IF q.page = 0 THEN 0 ELSE q.page - 1) = PageNo(q) - 1
  BY DEF PageNo
<1>5. PageOf(q, S) = {d \in S : Place(d, S) \in start..(start + PerPage - 1)}
  BY <1>3, <1>4 DEF PageOf
<1>6. ASSUME NEW d \in S
      PROVE  d \in PageOf(q, S) <=> start <= Place(d, S) /\ Place(d, S) < start + PerPage
  <2>1. Place(d, S) \in Nat
    BY <1>1, Places
  <2>2. Place(d, S) \in start..(start + PerPage - 1) <=> start <= Place(d, S) /\ Place(d, S) < start + PerPage
    BY <1>1, <2>1
  <2> QED BY <1>5, <2>2
<1>7. PICK end \in Nat : end = PageNo(q) * PerPage
  BY <1>1, <1>2
<1>8. ~HasMore(q, S) => Cardinality(S) <= end
  <2>1. Cardinality(S) \in Nat
    BY <1>1, Places
  <2>2. HasMore(q, S) <=> Cardinality(S) > end
    BY <1>7 DEF HasMore, PageNo
  <2> QED BY <2>1, <2>2
<1> QED BY <1>1, <1>2, <1>3, <1>6, <1>7, <1>8

(* Without bounds and on page one the first day of the page is the first   *)
(* day of the queue, and with nothing after it the last one is the last.   *)
LEMMA BoundsOfPageOne ==
  ASSUME NEW q \in CalendarQueries, ~Narrowed(q), NEW b, b \subseteq Days, b # {}
  PROVE  LET days == PageOf(q, InWindow(q, b))
         IN  /\ Min(days) = Min(b)
             /\ ~HasMore(q, InWindow(q, b)) => days = b
<1>1. InWindow(q, b) = b /\ PageNo(q) = 1
  BY WindowDays DEF Narrowed, CalendarQueries, PageNo
<1> DEFINE days == PageOf(q, b)
<1>2. LastDay \in Nat /\ PerPage \in Nat \ {0}
  BY QueriesAssumption DEF QueriesAssumption
<1>3. (PageNo(q) - 1) * PerPage = 0 /\ PageNo(q) * PerPage = PerPage
  BY <1>1, <1>2
<1>4. \A d \in b : d \in days <=> Place(d, b) < PerPage
  <2> SUFFICES ASSUME NEW d \in b PROVE d \in days <=> Place(d, b) < PerPage
    OBVIOUS
  <2>1. Place(d, b) \in Nat
    BY <1>2, Places
  <2> QED BY <1>3, <2>1, PagePlaces
<1>5. b \subseteq Nat /\ days \subseteq b
  BY DEF Days, PageOf
<1>6. Min(b) \in b /\ \A d \in b : Min(b) <= d
  BY <1>5, LeastDay
<1>7. Min(b) \in days
  BY <1>2, <1>4, <1>6, Places
<1>8. Min(days) = Min(b)
  <2> HIDE DEF days
  <2>1. days \subseteq Nat /\ days # {}
    BY <1>5, <1>7
  <2>2. Min(days) \in days /\ \A d \in days : Min(days) <= d
    BY <2>1, LeastDay
  <2>3. PICK m \in b : m = Min(b) /\ m \in days /\ \A d \in b : m <= d
    BY <1>6, <1>7
  <2>4. PICK n \in days : n = Min(days) /\ \A d \in days : n <= d
    BY <2>2
  <2>5. n <= m /\ m <= n /\ m \in Nat /\ n \in Nat
    BY <1>5, <2>3, <2>4
  <2> QED BY <2>3, <2>4, <2>5
<1>9. ASSUME ~HasMore(q, b) PROVE days = b
  <2>1. Cardinality(b) <= PerPage
    BY <1>3, <1>9, PagePlaces
  <2>2. \A d \in b : Place(d, b) < PerPage
    <3> SUFFICES ASSUME NEW d \in b PROVE Place(d, b) < PerPage
      OBVIOUS
    <3>1. Place(d, b) \in Nat /\ Place(d, b) < Cardinality(b) /\ Cardinality(b) \in Nat
      BY <1>2, Places
    <3> QED BY <1>2, <2>1, <3>1
  <2> QED BY <1>4, <1>5, <2>2
<1> QED BY <1>1, <1>8, <1>9

(* An answer that is not flagged shows the last day of its window: its     *)
(* page is not past the end, and nothing comes after it.                   *)
LEMMA LastDayIsShown ==
  ASSUME NEW q \in CalendarQueries, NEW S, S \subseteq Days, S # {}, ~HasMore(q, S),
         q.page = 0 \/ PageOf(q, S) # {}
  PROVE  Max(S) \in PageOf(q, S)
<1>1. LastDay \in Nat /\ PerPage \in Nat \ {0}
  BY QueriesAssumption DEF QueriesAssumption
<1>2. S \subseteq 1..LastDay
  BY DEF Days
<1>3. Max(S) \in S
  BY <1>1, <1>2, GreatestDay
<1>4. Place(Max(S), S) = Cardinality(S) - 1 /\ Cardinality(S) \in Nat
  BY <1>1, Places
<1>5. PICK start \in Nat : start = (PageNo(q) - 1) * PerPage
  BY PagePlaces
<1>6. PICK end \in Nat : end = PageNo(q) * PerPage /\ end = start + PerPage
  BY <1>1, <1>5, PagePlaces
<1>7. Cardinality(S) <= end
  BY <1>6, PagePlaces
<1>8. start <= Cardinality(S) - 1
  <2>1. CASE q.page = 0
    <3>1. start = 0
      BY <1>1, <1>5, <2>1 DEF PageNo
    <3>2. Cardinality(S) # 0
      BY <1>1, <1>3, <1>4, Places
    <3> QED BY <1>4, <3>1, <3>2
  <2>2. CASE PageOf(q, S) # {}
    <3>1. PICK d \in S : d \in PageOf(q, S)
      BY <2>2 DEF PageOf
    <3>2. start <= Place(d, S)
      BY <1>5, <3>1, PagePlaces
    <3>3. Place(d, S) \in Nat /\ Place(d, S) < Cardinality(S)
      BY <1>1, Places
    <3> QED BY <1>4, <3>2, <3>3
  <2> QED BY <2>1, <2>2
<1>9. start <= Place(Max(S), S) /\ Place(Max(S), S) < end
  BY <1>4, <1>7, <1>8
<1> QED BY <1>3, <1>5, <1>6, <1>9, PagePlaces
(* What an answer says of the queue it was read from. *)
LEMMA AnAnswer ==
  ASSUME QueriesTypeOK, NEW q \in CalendarQueries, Answered(q)
  PROVE  LET window == InWindow(q, booked)
         IN  /\ shown'.kind = "answered"
             /\ shown'.days = PageOf(q, window)
             /\ shown'.first # 0 => shown'.first = Min(booked)
             /\ shown'.until # 0 => shown'.until = Max(booked)
             /\ shown'.complete => ~HasMore(q, window)
             /\ shown'.complete /\ window # {} => Max(window) \in shown'.days
<1> DEFINE window == InWindow(q, booked)
           more == HasMore(q, window)
           days == PageOf(q, window)
<1>1. PICK total \in {booked # {}, window # {}}, summary \in BOOLEAN :
         shown' = [kind |-> "answered", days |-> days,
                   first |-> IF summary THEN FirstBookedDay(q, days) ELSE 0,
                   until |-> IF summary THEN BookedUntil(q, days, more) ELSE 0,
                   complete |-> Complete(q, days, more, total)]
  BY DEF Answered
<1>2. booked \subseteq Days /\ window \subseteq booked /\ window \subseteq Days /\ days \subseteq window
  BY WindowDays DEF QueriesTypeOK
<1>3. /\ shown'.kind = "answered" /\ shown'.days = days
      /\ shown'.first = (IF summary THEN FirstBookedDay(q, days) ELSE 0)
      /\ shown'.until = (IF summary THEN BookedUntil(q, days, more) ELSE 0)
      /\ shown'.complete = Complete(q, days, more, total)
  BY <1>1
<1>4. ASSUME shown'.first # 0 PROVE shown'.first = Min(booked)
  <2>1. days # {} /\ ~Narrowed(q) /\ shown'.first = Min(days)
    BY <1>3, <1>4 DEF FirstBookedDay
  <2>2. booked # {}
    BY <1>2, <2>1
  <2> QED BY <1>2, <2>1, <2>2, BoundsOfPageOne
<1>5. ASSUME shown'.until # 0 PROVE shown'.until = Max(booked)
  <2>1. days # {} /\ ~Narrowed(q) /\ ~more /\ shown'.until = Max(days)
    BY <1>3, <1>5 DEF BookedUntil
  <2>2. booked # {}
    BY <1>2, <2>1
  <2>3. days = booked
    BY <1>2, <2>1, <2>2, BoundsOfPageOne
  <2> QED BY <2>1, <2>3
<1>6. ASSUME shown'.complete PROVE ~more /\ ~Overrun(q, days, total)
  BY <1>3, <1>6 DEF Complete
<1>7. ASSUME shown'.complete, window # {} PROVE Max(window) \in days
  <2>1. total
    BY <1>1, <1>2, <1>7
  <2>2. q.page = 0 \/ days # {}
    BY <1>6, <1>7, <2>1 DEF Overrun, CalendarQueries
  <2> QED BY <1>2, <1>6, <1>7, <2>2, LastDayIsShown
<1> QED BY <1>3, <1>4, <1>5, <1>6, <1>7

(* A recovery that has read all pages has read the window. *)
LEMMA AllPagesRead ==
  ASSUME NEW q \in CalendarQueries, NEW b, b \subseteq Days, ~HasMore(q, InWindow(q, b))
  PROVE  ReadSoFar(q, b, PageNo(q)) = InWindow(q, b)
<1> DEFINE window == InWindow(q, b)
<1>1. window \subseteq Days /\ LastDay \in Nat /\ PerPage \in Nat
  BY WindowDays, QueriesAssumption DEF QueriesAssumption
<1>2. PICK end \in Nat : end = PageNo(q) * PerPage
  <2>1. (PageNo(q) - 1) * PerPage \in Nat /\ PageNo(q) * PerPage = (PageNo(q) - 1) * PerPage + PerPage
    BY <1>1, PagePlaces
  <2> QED BY <1>1, <2>1
<1>3. Cardinality(window) <= end
  BY <1>1, <1>2, PagePlaces
<1>4. \A d \in window : Place(d, window) < end
  <2> SUFFICES ASSUME NEW d \in window PROVE Place(d, window) < end
    OBVIOUS
  <2>1. Place(d, window) \in Nat /\ Place(d, window) < Cardinality(window) /\ Cardinality(window) \in Nat
    BY <1>1, Places
  <2> QED BY <1>3, <2>1
<1> QED BY <1>2, <1>4 DEF ReadSoFar

(* The next page is what a recovery lacks of the next stretch. *)
LEMMA OnePageMore ==
  ASSUME NEW q \in CalendarQueries, NEW b, b \subseteq Days
  PROVE  ReadSoFar(q, b, PageNo(q)) = ReadSoFar(q, b, PageNo(q) - 1) \cup PageOf(q, InWindow(q, b))
<1> DEFINE window == InWindow(q, b)
<1>1. window \subseteq Days /\ LastDay \in Nat /\ PerPage \in Nat
  BY WindowDays, QueriesAssumption DEF QueriesAssumption
<1>2. PICK start \in Nat : start = (PageNo(q) - 1) * PerPage
  BY <1>1, PagePlaces
<1>3. PICK end \in Nat : end = PageNo(q) * PerPage /\ end = start + PerPage
  BY <1>1, <1>2, PagePlaces
<1>4. ASSUME NEW d \in window
      PROVE  Place(d, window) < end <=> Place(d, window) < start \/ d \in PageOf(q, window)
  <2>1. Place(d, window) \in Nat
    BY <1>1, Places
  <2>2. d \in PageOf(q, window) <=> start <= Place(d, window) /\ Place(d, window) < end
    BY <1>1, <1>2, <1>3, PagePlaces
  <2> QED BY <1>1, <1>3, <2>1, <2>2
<1>5. PageOf(q, window) \subseteq window
  BY DEF PageOf
<1> QED BY <1>2, <1>3, <1>4, <1>5 DEF ReadSoFar

(* The first page is all there is before the second. *)
LEMMA FirstPage ==
  ASSUME NEW q \in CalendarQueries, q.page \in {0, 1}, NEW b, b \subseteq Days
  PROVE  PageNo(q) = 1 /\ ReadSoFar(q, b, 1) = PageOf(q, InWindow(q, b))
<1> DEFINE window == InWindow(q, b)
<1>1. PageNo(q) = 1
  BY DEF PageNo
<1>2. window \subseteq Days /\ LastDay \in Nat /\ PerPage \in Nat
  BY WindowDays, QueriesAssumption DEF QueriesAssumption
<1>3. \A d \in window : ~(Place(d, window) < 0 * PerPage)
  <2>1. \A d \in window : Place(d, window) \in Nat
    BY <1>2, Places
  <2>2. 0 * PerPage = 0
    BY <1>2
  <2> QED BY <2>1, <2>2
<1>4. ReadSoFar(q, b, 0) = {}
  BY <1>3 DEF ReadSoFar
<1>5. 1 - 1 = 0
  OBVIOUS
<1> QED BY <1>1, <1>4, <1>5, OnePageMore
-----------------------------------------------------------------------------
(* Queries: the steps. *)
LEMMA QueriesInitInv == Init => QueriesInv
<1> SUFFICES ASSUME Init PROVE QueriesInv
  OBVIOUS
<1>1. QueriesTypeOK
  BY DEF Init, QueriesTypeOK, NoQuery, NoWalk
<1>2. WalkIsOnTrack
  BY DEF Init, WalkIsOnTrack, NoWalk
<1>3. QueueAnswersAreWhole
  BY DEF Init, QueueAnswersAreWhole, NotShown
<1> QED BY <1>1, <1>2, <1>3 DEF QueriesInv

(* An answer that gives up nothing and begins no recovery. *)
LEMMA NothingShown ==
  ASSUME QueriesInv, booked' = booked, at' \subseteq Days, query' \in CalendarQueries,
         walk' = NoWalk, shown'.kind # "answered"
  PROVE  QueriesInv'
<1>1. QueriesTypeOK'
  BY DEF QueriesInv, QueriesTypeOK, NoWalk, CalendarQueries
<1>2. WalkIsOnTrack' /\ QueueAnswersAreWhole'
  BY DEF WalkIsOnTrack, QueueAnswersAreWhole, NoWalk
<1> QED BY <1>1, <1>2 DEF QueriesInv

(* An answer, and a recovery that has read all pages up to it or none. *)
LEMMA SomethingShown ==
  ASSUME QueriesInv, NEW q \in CalendarQueries, query' = q, Answered(q), booked' = booked, at' = booked,
         walk' \in [next : Nat \ {0}, days : SUBSET Days, still : BOOLEAN],
         walk'.next > 1 =>
           /\ PageNo(q) = walk'.next - 1
           /\ walk'.still => walk'.days = ReadSoFar(q, booked, PageNo(q))
  PROVE  QueriesInv'
<1>t. QueriesTypeOK /\ booked \subseteq Days
  BY DEF QueriesInv, QueriesTypeOK
<1> DEFINE window == InWindow(q, booked)
<1>1. /\ shown'.kind = "answered"
      /\ shown'.first # 0 => shown'.first = Min(booked)
      /\ shown'.until # 0 => shown'.until = Max(booked)
      /\ shown'.complete => ~HasMore(q, window)
      /\ shown'.complete /\ window # {} => Max(window) \in shown'.days
  BY <1>t, AnAnswer
<1>2. QueriesTypeOK'
  BY <1>t DEF QueriesTypeOK, CalendarQueries
<1>3. WalkIsOnTrack'
  BY DEF WalkIsOnTrack
<1>4. ASSUME shown'.complete, walk'.next > 1, walk'.still PROVE walk'.days = window
  <2>1. ~HasMore(q, window)
    BY <1>1, <1>4
  <2> QED BY <1>t, <1>4, <2>1, AllPagesRead
<1>5. QueueAnswersAreWhole'
  BY <1>1, <1>4 DEF QueueAnswersAreWhole
<1> QED BY <1>2, <1>3, <1>5 DEF QueriesInv

LEMMA AskCalendarInv == ASSUME QueriesInv, AskCalendar PROVE QueriesInv'
<1>t. QueriesTypeOK /\ booked \subseteq Days /\ LastDay \in Nat /\ MaxPage \in Nat
  BY QueriesAssumption DEF QueriesInv, QueriesTypeOK, QueriesAssumption
<1>1. PICK q \in CalendarQueries : query' = q
  <2>1. PICK from \in Days \cup {0}, to \in Days \cup {0}, page \in 0..MaxPage :
          query' = [from |-> from, to |-> to, page |-> page]
    BY DEF AskCalendar
  <2>2. from \in Nat /\ to \in Nat /\ page \in Nat
    BY <1>t DEF Days
  <2> QED BY <2>1, <2>2 DEF CalendarQueries
<1>2. /\ Answered(q) \/ Failed
      /\ walk' = IF q.page \in {0, 1} /\ shown'.kind = "answered"
                 THEN [next |-> 2, days |-> shown'.days, still |-> TRUE] ELSE NoWalk
      /\ at' = booked /\ booked' = booked
  BY <1>1 DEF AskCalendar
<1>3. CASE Failed
  <2>1. shown'.kind = "failed"
    BY <1>3 DEF Failed, NotShown
  <2> QED BY <1>1, <1>2, <1>t, <2>1, NothingShown
<1>4. CASE Answered(q)
  <2>1. shown'.kind = "answered" /\ shown'.days = PageOf(q, InWindow(q, booked)) /\ shown'.days \subseteq Days
    BY <1>t, <1>4, AnAnswer, WindowDays
  <2>2. CASE q.page \in {0, 1}
    <3>1. walk' = [next |-> 2, days |-> shown'.days, still |-> TRUE]
      BY <1>2, <2>1, <2>2
    <3>2. PageNo(q) = 1 /\ shown'.days = ReadSoFar(q, booked, PageNo(q))
      BY <1>t, <2>1, <2>2, FirstPage
    <3>3. /\ walk' \in [next : Nat \ {0}, days : SUBSET Days, still : BOOLEAN]
          /\ walk'.next = 2 /\ walk'.days = shown'.days
      BY <2>1, <3>1
    <3>4. PageNo(q) = walk'.next - 1 /\ walk'.days = ReadSoFar(q, booked, PageNo(q))
      BY <3>2, <3>3
    <3> QED BY <1>1, <1>2, <1>4, <3>3, <3>4, SomethingShown
  <2>3. CASE q.page \notin {0, 1}
    <3>1. walk' = NoWalk
      BY <1>2, <2>3
    <3> QED BY <1>1, <1>2, <1>4, <3>1, SomethingShown DEF NoWalk
  <2> QED BY <2>2, <2>3
<1> QED BY <1>2, <1>3, <1>4

LEMMA AskNextPageInv == ASSUME QueriesInv, AskNextPage PROVE QueriesInv'
<1>t. QueriesTypeOK /\ booked \subseteq Days /\ walk \in [next : Nat \ {0}, days : SUBSET Days, still : BOOLEAN]
  BY DEF QueriesInv, QueriesTypeOK
<1>1. /\ walk.next > 1 /\ query' = [query EXCEPT !.page = walk.next]
      /\ at' = booked /\ booked' = booked
      /\ \/ Answered(query') /\ walk' = [walk EXCEPT !.next = @ + 1, !.days = @ \cup shown'.days]
         \/ Failed /\ walk' = NoWalk
  BY DEF AskNextPage
<1>2. PICK q \in CalendarQueries : query' = q /\ q.from = query.from /\ q.to = query.to /\ q.page = walk.next
  BY <1>t, <1>1 DEF QueriesTypeOK, CalendarQueries
<1>3. CASE Failed /\ walk' = NoWalk
  <2>1. shown'.kind = "failed"
    BY <1>3 DEF Failed, NotShown
  <2> QED BY <1>1, <1>2, <1>3, <1>t, <2>1, NothingShown
<1>4. CASE Answered(q) /\ walk' = [walk EXCEPT !.next = @ + 1, !.days = @ \cup shown'.days]
  <2>1. shown'.days = PageOf(q, InWindow(q, booked)) /\ shown'.days \subseteq Days
    BY <1>t, <1>4, AnAnswer, WindowDays
  <2>2. /\ walk'.next = walk.next + 1 /\ walk'.days = walk.days \cup shown'.days /\ walk'.still = walk.still
        /\ walk' \in [next : Nat \ {0}, days : SUBSET Days, still : BOOLEAN]
    <3>1. /\ walk.next + 1 \in Nat \ {0} /\ walk.days \cup shown'.days \in SUBSET Days
          /\ walk.still \in BOOLEAN
      BY <1>t, <2>1
    <3>2. walk' = [next |-> walk.next + 1, days |-> walk.days \cup shown'.days, still |-> walk.still]
      BY <1>t, <1>4
    <3> QED BY <3>1, <3>2
  <2>3. PageNo(q) = walk.next /\ PageNo(q) = walk'.next - 1
    BY <1>t, <1>1, <1>2, <2>2 DEF PageNo
  <2>4. ASSUME walk'.still PROVE walk'.days = ReadSoFar(q, booked, PageNo(q))
    <3>1. at = booked /\ walk.days = ReadSoFar(query, at, walk.next - 1)
      BY <1>1, <2>2, <2>4 DEF QueriesInv, WalkIsOnTrack
    <3>2. InWindow(q, booked) = InWindow(query, booked)
      BY <1>2 DEF InWindow
    <3>3. walk.days = ReadSoFar(q, booked, PageNo(q) - 1)
      BY <2>3, <3>1, <3>2 DEF ReadSoFar
    <3> QED BY <1>t, <2>1, <2>2, <3>3, OnePageMore
  <2> QED BY <1>1, <1>2, <1>4, <2>2, <2>3, <2>4, SomethingShown
<1> QED BY <1>1, <1>2, <1>3, <1>4

(* A change of the queue marks the recovery under way, and no answer given. *)
LEMMA QueueChangesInv == ASSUME QueriesInv, QueueChanges PROVE QueriesInv'
<1>1. /\ booked' \subseteq Days /\ walk' = [walk EXCEPT !.still = FALSE]
      /\ UNCHANGED <<query, shown, at>>
  BY DEF QueriesInv, QueriesTypeOK, QueueChanges
<1>2. /\ walk'.next = walk.next /\ walk'.days = walk.days /\ ~walk'.still
      /\ walk' \in [next : Nat \ {0}, days : SUBSET Days, still : BOOLEAN]
  BY <1>1 DEF QueriesInv, QueriesTypeOK
<1>3. QueriesTypeOK'
  BY <1>1, <1>2 DEF QueriesInv, QueriesTypeOK
<1>4. WalkIsOnTrack'
  BY <1>1, <1>2 DEF QueriesInv, WalkIsOnTrack
<1>5. QueueAnswersAreWhole'
  BY <1>1, <1>2 DEF QueriesInv, QueueAnswersAreWhole
<1> QED BY <1>3, <1>4, <1>5 DEF QueriesInv

LEMMA QueriesInvariant == Spec => []QueriesInv
<1>1. QueriesInv /\ [Next]_vars => QueriesInv'
  <2> SUFFICES ASSUME QueriesInv, [Next]_vars PROVE QueriesInv'
    OBVIOUS
  <2>1. ASSUME UNCHANGED <<booked, query, shown, at, walk>> PROVE QueriesInv'
    BY <2>1 DEF QueriesInv, QueriesTypeOK, WalkIsOnTrack, QueueAnswersAreWhole
  <2>2. ASSUME AskCalendarWrongly PROVE QueriesInv'
    <3>1. /\ booked' = booked /\ at' = {} /\ query' = NoQuery /\ walk' = NoWalk
          /\ shown' = [NotShown EXCEPT !.kind = "refused"]
      BY <2>2 DEF AskCalendarWrongly
    <3>2. shown'.kind # "answered" /\ query' \in CalendarQueries
      BY <3>1 DEF NotShown, NoQuery, CalendarQueries
    <3> QED BY <3>1, <3>2, NothingShown
  <2>3. AskList \/ Returned \/ UNCHANGED vars => QueriesInv'
    BY <2>1 DEF AskList, Returned, vars
  <2> QED BY <2>2, <2>3, AskCalendarInv, AskNextPageInv, QueueChangesInv DEF Next
<1> QED BY QueriesInitInv, <1>1, PTL DEF Spec

(* What a queue answer names as the first and last day of the schedule is, *)
(* an answer without a warning shows the last day of its window, and the   *)
(* pages a recovery has read up to such an answer are the whole window of  *)
(* a queue that stood still - for any queue, window and size of a page     *)
(* (schedule_queue.go; issue #106).                                        *)
THEOREM QueueAnswersWhole == Spec => []QueueAnswersAreWhole
<1>1. QueriesInv => QueueAnswersAreWhole
  BY DEF QueriesInv
<1> QED BY <1>1, QueriesInvariant, PTL

-----------------------------------------------------------------------------
(* Filters: whatever the endpoint, an accepted filter is sent, and in a    *)
(* form the server applies but for a key or a date that nobody looks at.   *)
LEMMA AcceptedIsApplied ==
  ASSUME NEW e, NEW asked \in Askable(e), ~Refuses(e, asked), NEW a \in asked
  PROVE  /\ a \in Sent(e, asked)
         /\ a \in Applied(e, Sent(e, asked)) \/ a.value \in {"unknown", "malformed"}
<1>1. PICK n \in Names(e) : a \in [name : {n}, value : Given(e, n)]
  BY DEF Askable
<1>2. a.name = n /\ a.value \in Given(e, n)
  BY <1>1
<1>3. /\ n \notin e.phantom /\ a.value # "several"
      /\ ~(n \in e.numbers /\ a.value = "negative")
  BY <1>2 DEF Refuses
<1>4. a.value \in {"good", "unknown", "malformed"}
  BY <1>2, <1>3 DEF Given
<1>5. a.value = "malformed" => n \in e.texts \cup e.dates
  BY <1>2 DEF Given
<1>6. a \in Sent(e, asked)
  BY <1>2, <1>4, <1>5 DEF Sent
<1>7. a.value = "good" => a \in Applied(e, Sent(e, asked))
  BY <1>2, <1>3, <1>6 DEF Applied
<1> QED BY <1>4, <1>6, <1>7

(* An answered list was asked for with all filters given and was filtered  *)
(* by all whose value the server knows, at every endpoint with filters     *)
(* (posts.go:53-103, posts_search.go:51-198; issues #63, #67, #73).        *)
THEOREM FiltersApplied == Spec => []FiltersWereApplied
<1>1. Init => FiltersWereApplied
  BY DEF Init, NoList, FiltersWereApplied
<1>2. FiltersWereApplied /\ [Next]_vars => FiltersWereApplied'
  <2> SUFFICES ASSUME FiltersWereApplied, [Next]_vars PROVE FiltersWereApplied'
    OBVIOUS
  <2>1. ASSUME list' = NoList PROVE FiltersWereApplied'
    BY <2>1 DEF NoList, FiltersWereApplied
  <2>2. ASSUME AskList PROVE FiltersWereApplied'
    <3>1. PICK e \in Lists : ReadList(e)
      BY <2>2 DEF AskList
    <3>2. PICK asked \in Askable(e) :
            \/ list' = [NoList EXCEPT !.kind = "refused", !.asked = asked]
            \/ list' = [NoList EXCEPT !.kind = "failed", !.asked = asked, !.sent = Sent(e, asked)]
            \/ /\ ~Refuses(e, asked)
               /\ list' = [kind |-> "answered", asked |-> asked, sent |-> Sent(e, asked),
                           applied |-> Applied(e, Sent(e, asked))]
      BY <3>1 DEF ReadList
    <3>3. CASE list'.kind = "answered"
      <4>1. /\ ~Refuses(e, asked) /\ list'.asked = asked /\ list'.sent = Sent(e, asked)
            /\ list'.applied = Applied(e, Sent(e, asked))
        <5>1. list' # [NoList EXCEPT !.kind = "refused", !.asked = asked]
          BY <3>3 DEF NoList
        <5>2. list' # [NoList EXCEPT !.kind = "failed", !.asked = asked, !.sent = Sent(e, asked)]
          BY <3>3 DEF NoList
        <5> QED BY <3>2, <5>1, <5>2
      <4>2. Sent(e, asked) \subseteq asked
        BY DEF Sent
      <4>3. asked \subseteq Sent(e, asked)
        BY <4>1, AcceptedIsApplied
      <4>4. \A a \in asked : a \in Applied(e, Sent(e, asked)) \/ a.value \in {"unknown", "malformed"}
        BY <4>1, AcceptedIsApplied
      <4> QED BY <4>1, <4>2, <4>3, <4>4 DEF FiltersWereApplied
    <3> QED BY <3>3 DEF FiltersWereApplied
  <2>3. AskCalendar \/ AskCalendarWrongly \/ AskNextPage => FiltersWereApplied'
    BY <2>1 DEF AskCalendar, AskCalendarWrongly, AskNextPage
  <2>4. QueueChanges \/ Returned \/ UNCHANGED vars => FiltersWereApplied'
    BY DEF QueueChanges, Returned, vars, FiltersWereApplied
  <2> QED BY <2>2, <2>3, <2>4 DEF Next
<1> QED BY <1>1, <1>2, PTL DEF Spec
=============================================================================
