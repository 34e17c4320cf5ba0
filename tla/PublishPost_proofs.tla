------------------------- MODULE PublishPost_proofs -------------------------
(***************************************************************************)
(* Proofs about PublishPost, for any number of clients, any page size and  *)
(* any number of pages and posts.                                          *)
(***************************************************************************)
EXTENDS PublishPost, SequenceTheorems, FiniteSetTheorems, TLAPS

-----------------------------------------------------------------------------
(* Sequences: inserting and removing one row.                              *)

LEMMA InsertAtFacts ==
  ASSUME NEW S, NEW s \in Seq(S), NEW i \in 1..Len(s) + 1, NEW e \in S
  PROVE  /\ InsertAt(s, i, e) \in Seq(S)
         /\ Len(InsertAt(s, i, e)) = Len(s) + 1
         /\ InsertAt(s, i, e)[i] = e
         /\ \A j \in 1..Len(s) : InsertAt(s, i, e)[IF j < i THEN j ELSE j + 1] = s[j]
<1> DEFINE front == SubSeq(s, 1, i - 1)
           back == SubSeq(s, i, Len(s))
<1>0. Len(s) \in Nat /\ \A j \in 1..Len(s) : s[j] \in S
  BY LenProperties, ElementOfSeq
<1>1. front \in Seq(S) /\ Len(front) = i - 1 /\ \A j \in 1..i - 1 : front[j] = s[j]
  <2>1. i - 1 \in Int /\ \A j \in 1..i - 1 : s[j] \in S
    BY <1>0
  <2>2. /\ front \in Seq(S)
        /\ Len(front) = IF 1 <= i - 1 THEN (i - 1) - 1 + 1 ELSE 0
        /\ \A j \in 1..(i - 1) - 1 + 1 : front[j] = s[1 + j - 1]
    BY <2>1, SubSeqProperties
  <2> QED BY <2>2, <1>0
<1>2. back \in Seq(S) /\ Len(back) = Len(s) - i + 1 /\ \A j \in 1..Len(s) - i + 1 : back[j] = s[i + j - 1]
  <2>1. i \in Int /\ Len(s) \in Int /\ \A j \in i..Len(s) : s[j] \in S
    BY <1>0
  <2>2. /\ back \in Seq(S)
        /\ Len(back) = IF i <= Len(s) THEN Len(s) - i + 1 ELSE 0
        /\ \A j \in 1..Len(s) - i + 1 : back[j] = s[i + j - 1]
    BY <2>1, SubSeqProperties
  <2> QED BY <2>2, <1>0
<1>3. /\ <<e>> \in Seq(S) /\ Len(<<e>>) = 1 /\ <<e>>[1] = e
  OBVIOUS
<1> DEFINE left == front \o <<e>>
<1>4. /\ left \in Seq(S) /\ Len(left) = i
      /\ \A j \in 1..i : left[j] = IF j <= i - 1 THEN front[j] ELSE <<e>>[j - (i - 1)]
  <2> HIDE DEF front
  <2>1. /\ left \in Seq(S)
        /\ Len(left) = Len(front) + Len(<<e>>)
        /\ \A j \in 1..Len(front) + Len(<<e>>) :
             left[j] = IF j <= Len(front) THEN front[j] ELSE <<e>>[j - Len(front)]
    BY <1>1, <1>3, ConcatProperties
  <2> QED BY <2>1, <1>1, <1>3
<1> DEFINE all == left \o back
<1>5. /\ all \in Seq(S) /\ Len(all) = Len(s) + 1
      /\ \A j \in 1..Len(s) + 1 : all[j] = IF j <= i THEN left[j] ELSE back[j - i]
  <2> HIDE DEF left, back
  <2>1. /\ all \in Seq(S)
        /\ Len(all) = Len(left) + Len(back)
        /\ \A j \in 1..Len(left) + Len(back) :
             all[j] = IF j <= Len(left) THEN left[j] ELSE back[j - Len(left)]
    BY <1>2, <1>4, ConcatProperties
  <2> QED BY <2>1, <1>0, <1>2, <1>4
<1>6. all[i] = e
  <2> HIDE DEF all, left, front
  <2> QED BY <1>0, <1>3, <1>4, <1>5
<1>7. \A j \in 1..Len(s) : all[IF j < i THEN j ELSE j + 1] = s[j]
  <2> HIDE DEF all, left, front, back
  <2> SUFFICES ASSUME NEW j \in 1..Len(s) PROVE all[IF j < i THEN j ELSE j + 1] = s[j]
    OBVIOUS
  <2>1. CASE j < i
    BY <2>1, <1>0, <1>1, <1>4, <1>5
  <2>2. CASE ~(j < i)
    <3>1. j + 1 \in 1..Len(s) + 1 /\ ~(j + 1 <= i) /\ (j + 1) - i \in 1..Len(s) - i + 1
      BY <2>2, <1>0
    <3>2. all[j + 1] = back[(j + 1) - i]
      BY <3>1, <1>5
    <3>3. back[(j + 1) - i] = s[i + ((j + 1) - i) - 1] /\ i + ((j + 1) - i) - 1 = j
      BY <3>1, <1>0, <1>2
    <3> QED BY <2>2, <3>2, <3>3
  <2> QED BY <2>1, <2>2
<1> QED BY <1>5, <1>6, <1>7 DEF InsertAt

LEMMA RemoveAtType ==
  ASSUME NEW S, NEW s \in Seq(S), NEW i \in 1..Len(s)
  PROVE  RemoveAt(s, i) \in Seq(S)
<1>0. Len(s) \in Nat /\ \A j \in 1..Len(s) : s[j] \in S
  BY LenProperties, ElementOfSeq
<1>1. SubSeq(s, 1, i - 1) \in Seq(S)
  <2>1. 1 \in Int /\ i - 1 \in Int /\ \A j \in 1..i - 1 : s[j] \in S
    BY <1>0
  <2> QED BY <2>1, SubSeqProperties
<1>2. SubSeq(s, i + 1, Len(s)) \in Seq(S)
  <2>1. i + 1 \in Int /\ Len(s) \in Int /\ \A j \in i + 1..Len(s) : s[j] \in S
    BY <1>0
  <2> QED BY <2>1, SubSeqProperties
<1> QED BY <1>1, <1>2, ConcatProperties DEF RemoveAt

-----------------------------------------------------------------------------
(* The walk: the rows of one page.                                         *)

LEMMA PageOffset ==
  ASSUME NEW p \in Nat \ {0}
  PROVE  /\ (p - 1) * PageSize \in Nat
         /\ p * PageSize = (p - 1) * PageSize + PageSize
         /\ (p + 1) - 1 = p
         /\ p + 1 \in Nat \ {0}
BY PublishAssumption DEF PublishAssumption

LEMMA PageRowsFacts ==
  ASSUME NEW S, queue \in Seq(S), NEW p \in Nat \ {0}
  PROVE  /\ PageRows(p) \in Seq(S)
         /\ \A i \in 1..Len(queue) :
              /\ i > (p - 1) * PageSize
              /\ IsHasMore(p) => i <= p * PageSize
              => queue[i] \in ToSet(PageRows(p))
<1> DEFINE from == (p - 1) * PageSize
           to == IF IsHasMore(p) THEN p * PageSize ELSE Len(queue)
<1>1. /\ Len(queue) \in Nat /\ from \in Nat /\ PageSize \in Nat \ {0} /\ p * PageSize = from + PageSize
      /\ \A i \in 1..Len(queue) : queue[i] \in S
  BY PageOffset, LenProperties, ElementOfSeq, PublishAssumption DEF PublishAssumption
<1>2. to \in Nat /\ to <= Len(queue) /\ from + 1 \in Nat
  BY <1>1 DEF IsHasMore
<1>3. PageRows(p) = SubSeq(queue, from + 1, to)
  BY DEF PageRows
<1> HIDE DEF from, to
<1>4. /\ SubSeq(queue, from + 1, to) \in Seq(S)
      /\ Len(SubSeq(queue, from + 1, to)) = IF from + 1 <= to THEN to - (from + 1) + 1 ELSE 0
      /\ \A i \in 1..to - (from + 1) + 1 : SubSeq(queue, from + 1, to)[i] = queue[from + 1 + i - 1]
  <2>1. from + 1 \in Int /\ to \in Int /\ \A i \in from + 1..to : queue[i] \in S
    BY <1>1, <1>2
  <2> QED BY <2>1, SubSeqProperties
<1>5. ASSUME NEW i \in 1..Len(queue), i > from, i <= to
      PROVE  queue[i] \in ToSet(PageRows(p))
  <2> DEFINE s == SubSeq(queue, from + 1, to)
  <2>1. DOMAIN s = 1..Len(s)
    BY <1>4, LenProperties
  <2> HIDE DEF s
  <2>2. i - from \in 1..Len(s) /\ s[i - from] = queue[i]
    <3>1. Len(s) = to - from
      BY <1>1, <1>2, <1>4, <1>5 DEF s
    <3>2. i - from \in 1..to - (from + 1) + 1 /\ from + 1 + (i - from) - 1 = i
      BY <1>1, <1>2, <1>5
    <3> QED BY <3>1, <3>2, <1>1, <1>2, <1>4 DEF s
  <2> QED BY <2>1, <2>2, <1>3 DEF s, ToSet
<1>6. ASSUME NEW i \in 1..Len(queue), IsHasMore(p) => i <= p * PageSize
      PROVE  i <= to
  BY <1>1, <1>6 DEF to
<1> QED BY <1>3, <1>4, <1>5, <1>6 DEF from

LEMMA ToSetOfConcat ==
  ASSUME NEW S, NEW s \in Seq(S), NEW t \in Seq(S)
  PROVE  /\ s \o t \in Seq(S)
         /\ ToSet(s \o t) = ToSet(s) \cup ToSet(t)
         /\ ToSet(s) \subseteq S
<1>1. /\ s \o t \in Seq(S) /\ Len(s \o t) = Len(s) + Len(t)
      /\ \A i \in 1..Len(s) + Len(t) : (s \o t)[i] = IF i <= Len(s) THEN s[i] ELSE t[i - Len(s)]
  BY ConcatProperties
<1>2. /\ Len(s) \in Nat /\ Len(t) \in Nat
      /\ DOMAIN s = 1..Len(s) /\ DOMAIN t = 1..Len(t) /\ DOMAIN (s \o t) = 1..Len(s) + Len(t)
  BY <1>1, LenProperties
<1>3. ToSet(s) \subseteq ToSet(s \o t)
  BY <1>1, <1>2 DEF ToSet
<1>4. ToSet(t) \subseteq ToSet(s \o t)
  <2> SUFFICES ASSUME NEW j \in 1..Len(t) PROVE t[j] \in ToSet(s \o t)
    BY <1>2 DEF ToSet
  <2>1. /\ Len(s) + j \in 1..Len(s) + Len(t) /\ ~(Len(s) + j <= Len(s)) /\ (Len(s) + j) - Len(s) = j
    BY <1>2
  <2>2. (s \o t)[Len(s) + j] = t[j]
    BY <1>1, <2>1
  <2> QED BY <1>2, <2>1, <2>2 DEF ToSet
<1>5. ToSet(s \o t) \subseteq ToSet(s) \cup ToSet(t)
  <2> SUFFICES ASSUME NEW j \in 1..Len(s) + Len(t) PROVE (s \o t)[j] \in ToSet(s) \cup ToSet(t)
    BY <1>2 DEF ToSet
  <2>1. CASE j <= Len(s)
    BY <1>1, <1>2, <2>1 DEF ToSet
  <2>2. CASE ~(j <= Len(s))
    <3>1. j - Len(s) \in 1..Len(t)
      BY <1>2, <2>2
    <3> QED BY <1>1, <1>2, <2>2, <3>1 DEF ToSet
  <2> QED BY <2>1, <2>2
<1>6. ToSet(s) \subseteq S
  BY <1>2, ElementOfSeq DEF ToSet
<1> QED BY <1>1, <1>3, <1>4, <1>5, <1>6

-----------------------------------------------------------------------------
(* The recovery: what fillBatchSlotsBySnapshotDiff makes of two walks.     *)

LEMMA LeastExists ==
  ASSUME NEW S \in SUBSET Nat, S # {}
  PROVE  FirstOf(S) \in S
<1> DEFINE R == OpToRel(<, Nat)
<1>1. \E x \in S : \A y \in S : ~(<<y, x>> \in R)
  <2> HIDE DEF R
  <2>1. IsWellFoundedOn(R, Nat)
    BY NatLessThanWellFounded DEF R
  <2> QED BY <2>1, WFMin
<1>2. \E x \in S : \A y \in S : x <= y
  <2>1. PICK x \in S : \A y \in S : ~(<<y, x>> \in R)
    BY <1>1
  <2>2. \A y \in S : ~(y < x)
    BY <2>1 DEF OpToRel
  <2> QED BY <2>2
<1> QED BY <1>2 DEF FirstOf

LEMMA FreshFacts ==
  ASSUME NEW all \in Seq(PostIds), NEW seen
  PROVE  /\ FreshRows(all, seen) \in SUBSET Nat
         /\ IsFiniteSet(FreshRows(all, seen))
         /\ {all[i] : i \in FreshRows(all, seen)} = ToSet(all) \ seen
         /\ \A i \in FreshRows(all, seen) : all[i] \in PostIds
<1>1. /\ Len(all) \in Nat /\ DOMAIN all = 1..Len(all) /\ \A i \in 1..Len(all) : all[i] \in PostIds
  BY LenProperties, ElementOfSeq
<1>2. IsFiniteSet(1..Len(all))
  BY <1>1, FS_Interval
<1>3. FreshRows(all, seen) \in SUBSET (1..Len(all))
  BY DEF FreshRows
<1>4. IsFiniteSet(FreshRows(all, seen))
  BY <1>2, <1>3, FS_Subset
<1>5. {all[i] : i \in FreshRows(all, seen)} = ToSet(all) \ seen
  BY <1>1 DEF FreshRows, ToSet
<1> QED BY <1>1, <1>3, <1>4, <1>5

LEMMA ResponseType ==
  ASSUME NEW w \in Nat, NEW i \in Nat, NEW S \in SUBSET PostIds, NEW T \in SUBSET PostIds,
         NEW l \in SUBSET Lookup
  PROVE  [wire |-> w, id |-> i, ids |-> S, slots |-> T, lookup |-> l] \in Responses
BY DEF Responses

(* A slot is recovered only when the two walks differ by one post, and     *)
(* then it is that post's; without a slot there is a reason.               *)
LEMMA RecoveredFacts ==
  ASSUME NEW r \in Responses, NEW all \in Seq(PostIds), NEW seen,
         NEW offsetKnown \in BOOLEAN,
         NEW R, R = Recovered(r, all, seen, offsetKnown)
  PROVE  /\ R \in Responses
         /\ R.wire = r.wire
         /\ r.wire # 0 => R.id = r.id
         /\ R.lookup = {} => R.slots # {}
         /\ r.slots = {} /\ R.slots # {} =>
              \E x : /\ ToSet(all) \ seen = {x}
                     /\ R.slots = {x}
                     /\ R.ids = {x}
                     /\ IF r.wire = 0 THEN R.id = x ELSE r.wire = x
<1> DEFINE fresh == FreshRows(all, seen)
           created == {all[i] : i \in fresh}
           first == all[FirstOf(fresh)]
           id == IF r.wire = 0 /\ fresh # {} THEN first ELSE r.id
<1>1. /\ fresh \in SUBSET Nat /\ IsFiniteSet(fresh) /\ created = ToSet(all) \ seen
      /\ \A i \in fresh : all[i] \in PostIds
  BY FreshFacts
<1>2. created \subseteq PostIds
  BY <1>1
<1>3. fresh # {} => FirstOf(fresh) \in fresh
  BY <1>1, LeastExists
<1>4. id \in Nat
  BY <1>1, <1>3 DEF Responses, PostIds
<1>5. R = CASE ~CountGuard(fresh) ->
                 [r EXCEPT !.ids = created, !.id = id, !.lookup = {"count"}]
            [] CountGuard(fresh) /\ ~WireIdCheck(r.wire, created) ->
                 [r EXCEPT !.ids = created, !.lookup = {"mismatch"}]
            [] OTHER ->
                 [r EXCEPT !.ids = created, !.id = id,
                           !.slots = created,
                           !.lookup = IF offsetKnown THEN {} ELSE {"offset"}]
  BY DEF Recovered
<1>6. r = [wire |-> r.wire, id |-> r.id, ids |-> r.ids, slots |-> r.slots, lookup |-> r.lookup]
  BY DEF Responses
<1>n. r.wire \in Nat /\ r.id \in Nat /\ r.slots \in SUBSET PostIds
  BY DEF Responses
<1>7. CASE ~CountGuard(fresh)
  <2> HIDE DEF id, created, fresh
  <2>1. R = [wire |-> r.wire, id |-> id, ids |-> created, slots |-> r.slots, lookup |-> {"count"}]
    BY <1>5, <1>6, <1>7
  <2>2. r.wire # 0 => id = r.id
    BY DEF id
  <2>3. {"count"} \in SUBSET Lookup /\ r.slots \in SUBSET PostIds /\ created \in SUBSET PostIds
    BY <1>2, <1>n DEF Lookup
  <2>4. R \in Responses
    <3>1. [wire |-> r.wire, id |-> id, ids |-> created, slots |-> r.slots, lookup |-> {"count"}] \in Responses
      BY <1>4, <1>n, <2>3, ResponseType
    <3> QED BY <2>1, <3>1
  <2>5. R.wire = r.wire /\ R.id = id /\ R.slots = r.slots /\ R.lookup # {}
    BY <2>1
  <2> QED BY <2>2, <2>4, <2>5
<1>8. CASE CountGuard(fresh) /\ ~WireIdCheck(r.wire, created)
  <2> DEFINE same == r.id
  <2> HIDE DEF id, created, fresh
  <2>1. R = [wire |-> r.wire, id |-> same, ids |-> created, slots |-> r.slots, lookup |-> {"mismatch"}]
    BY <1>5, <1>6, <1>8
  <2>2. {"mismatch"} \in SUBSET Lookup /\ r.slots \in SUBSET PostIds /\ created \in SUBSET PostIds
    BY <1>2, <1>n DEF Lookup
  <2>3. same \in Nat /\ same = r.id
    BY <1>n
  <2> HIDE DEF same
  <2>4. R \in Responses
    <3>1. [wire |-> r.wire, id |-> same, ids |-> created, slots |-> r.slots, lookup |-> {"mismatch"}] \in Responses
      BY <1>n, <2>2, <2>3, ResponseType
    <3> QED BY <2>1, <3>1
  <2>5. R.wire = r.wire /\ R.id = same /\ R.slots = r.slots /\ R.lookup # {}
    BY <2>1
  <2> QED BY <2>3, <2>4, <2>5
<1>9. CASE CountGuard(fresh) /\ WireIdCheck(r.wire, created)
  <2>1. PICK i : fresh = {i}
    BY <1>1, <1>9, FS_Singleton DEF CountGuard, Sent
  <2>2. created = {all[i]} /\ first = all[i]
    BY <1>3, <2>1
  <2>3. IF r.wire = 0 THEN id = all[i] ELSE id = r.id /\ r.wire = all[i]
    BY <1>9, <2>1, <2>2 DEF WireIdCheck
  <2> HIDE DEF id, created, fresh
  <2>4. R = [wire |-> r.wire, id |-> id, ids |-> created, slots |-> created,
             lookup |-> IF offsetKnown THEN {} ELSE {"offset"}]
    BY <1>5, <1>6, <1>9
  <2>5. R \in Responses
    <3>1. (IF offsetKnown THEN {} ELSE {"offset"}) \in SUBSET Lookup /\ created \in SUBSET PostIds
      BY <1>2, <1>n DEF Lookup
    <3>2. [wire |-> r.wire, id |-> id, ids |-> created, slots |-> created,
           lookup |-> IF offsetKnown THEN {} ELSE {"offset"}] \in Responses
      BY <1>4, <1>n, <3>1, ResponseType
    <3> QED BY <2>4, <3>2
  <2> QED BY <1>1, <2>2, <2>3, <2>4, <2>5
<1> QED BY <1>7, <1>8, <1>9

-----------------------------------------------------------------------------
(* The type invariant.                                                     *)

(* No id is seen before the server gave it: the lists, the walks and the   *)
(* snapshots hold ids of posts that were created.                          *)
IdsExist ==
  /\ queue \in Seq(Ids)
  /\ hidden \subseteq Ids
  /\ rows \in [Clients -> Seq(Ids)]
  /\ before \in [Clients -> SUBSET Ids]

TypeInv == TypeOK /\ IdsExist

LEMMA IdsFacts ==
  ASSUME TypeOK
  PROVE  Len(posts) \in Nat /\ Ids \subseteq PostIds
BY LenProperties DEF TypeOK, Ids, PostIds

(* Storing a post gives it the next id and changes no other post.          *)
LEMMA StoreFacts ==
  ASSUME TypeInv, NEW maker \in Makers, NEW onSchedule \in BOOLEAN, Store(maker, onSchedule)
  PROVE  /\ quiet' = quiet
         /\ posts' \in Seq(Makers)
         /\ Ids' = Ids \cup {Len(posts) + 1}
         /\ Len(posts) + 1 \in PostIds \ Ids
         /\ \A i \in Ids : posts'[i] = posts[i]
         /\ posts'[Len(posts) + 1] = maker
         /\ queue' \in Seq(Ids')
         /\ hidden' \subseteq Ids'
<1> DEFINE id == Len(posts) + 1
<1>1. Len(posts) \in Nat /\ Ids \subseteq PostIds /\ posts \in Seq(Makers)
  BY IdsFacts DEF TypeInv, TypeOK
<1>2. posts' = Append(posts, maker) /\ quiet' = quiet
  BY DEF Store
<1>3. /\ posts' \in Seq(Makers) /\ Len(posts') = Len(posts) + 1
      /\ \A i \in 1..Len(posts) : posts'[i] = posts[i]
      /\ posts'[Len(posts) + 1] = maker
  BY <1>1, <1>2, AppendProperties
<1>4. Ids' = Ids \cup {id} /\ id \in PostIds \ Ids
  BY <1>1, <1>3 DEF Ids, PostIds
<1>5. queue \in Seq(Ids') /\ hidden \subseteq Ids' /\ id \in Ids'
  BY <1>4, SeqMonotonic DEF TypeInv, IdsExist
<1>6. queue' \in Seq(Ids') /\ hidden' \subseteq Ids'
  <2>1. CASE /\ \E i \in 1..Len(queue) + 1 : queue' = InsertAt(queue, i, id)
             /\ UNCHANGED hidden
    BY <2>1, <1>5, InsertAtFacts
  <2>2. CASE hidden' = hidden \cup {id} /\ UNCHANGED queue
    BY <2>2, <1>5
  <2>3. CASE UNCHANGED <<queue, hidden>>
    BY <2>3, <1>5
  <2> QED BY <2>1, <2>2, <2>3 DEF Store
<1> QED BY <1>2, <1>3, <1>4, <1>6 DEF Ids

(* What has the right type, and seen no id too early, is well typed.       *)
LEMMA WellTyped ==
  ASSUME /\ posts' \in Seq(Makers) /\ quiet' \in BOOLEAN
         /\ queue' \in Seq(Ids') /\ hidden' \subseteq Ids'
         /\ rows' \in [Clients -> Seq(Ids')] /\ before' \in [Clients -> SUBSET Ids']
         /\ pc' \in [Clients -> PCs] /\ input' \in [Clients -> Inputs]
         /\ page' \in [Clients -> Nat \ {0}] /\ beforeErr' \in [Clients -> BOOLEAN]
         /\ resp' \in [Clients -> Responses] /\ outcome' \in [Clients -> Outcomes]
  PROVE  TypeInv'
<1>1. Ids' \subseteq PostIds
  <2>1. Len(posts') \in Nat
    BY LenProperties
  <2> QED BY <2>1 DEF Ids, PostIds
<1>2. queue' \in Seq(PostIds) /\ \A c \in Clients : rows'[c] \in Seq(PostIds)
  BY <1>1, SeqMonotonic
<1>3. rows' \in [Clients -> Seq(PostIds)]
  BY <1>2
<1>4. hidden' \in SUBSET PostIds
  BY <1>1
<1>5. before' \in [Clients -> SUBSET PostIds]
  BY <1>1
<1> QED BY <1>2, <1>3, <1>4, <1>5 DEF TypeInv, TypeOK, IdsExist

(* New posts do not disturb what the clients have seen.                    *)
LEMMA SeenStays ==
  ASSUME TypeInv, Ids \subseteq Ids'
  PROVE  /\ queue \in Seq(Ids') /\ hidden \subseteq Ids'
         /\ rows \in [Clients -> Seq(Ids')] /\ before \in [Clients -> SUBSET Ids']
<1>1. queue \in Seq(Ids') /\ \A c \in Clients : rows[c] \in Seq(Ids')
  BY SeqMonotonic DEF TypeInv, IdsExist
<1>2. rows \in [Clients -> Seq(Ids')]
  BY <1>1 DEF TypeInv, IdsExist
<1>3. before \in [Clients -> SUBSET Ids']
  BY DEF TypeInv, IdsExist
<1> QED BY <1>1, <1>2, <1>3 DEF TypeInv, IdsExist

LEMMA SeenUnchanged ==
  ASSUME UNCHANGED posts
  PROVE  Ids' = Ids
BY DEF Ids

LEMMA ReturnTyped ==
  ASSUME TypeInv, NEW c \in Clients, NEW r \in Responses, NEW o \in Outcomes, Return(c, r, o),
         posts' \in Seq(Makers), quiet' = quiet, input' = input, Ids \subseteq Ids',
         queue' \in Seq(Ids'), hidden' \subseteq Ids'
  PROVE  TypeInv'
<1>1. rows' \in [Clients -> Seq(Ids')]
  <2>1. <<>> \in Seq(Ids')
    BY EmptySeq
  <2> QED BY <2>1, SeenStays DEF Return
<1>2. before' \in [Clients -> SUBSET Ids']
  BY SeenStays DEF Return
<1>3. pc' \in [Clients -> PCs] /\ page' \in [Clients -> Nat \ {0}] /\ beforeErr' \in [Clients -> BOOLEAN]
  BY DEF Return, TypeInv, TypeOK, PCs
<1>4. resp' \in [Clients -> Responses] /\ outcome' \in [Clients -> Outcomes]
  BY DEF Return, TypeInv, TypeOK
<1>5. quiet' \in BOOLEAN /\ input' \in [Clients -> Inputs]
  BY DEF TypeInv, TypeOK
<1> QED BY <1>1, <1>2, <1>3, <1>4, <1>5, WellTyped

LEMMA WalkTyped ==
  ASSUME TypeInv, NEW c \in Clients, pc[c] \in {"before", "after"}
  PROVE  /\ PageRows(page[c]) \in Seq(Ids) /\ rows[c] \in Seq(Ids) /\ page[c] \in Nat \ {0}
         /\ Collected(c) \in Seq(Ids) /\ Collected(c) \in Seq(PostIds)
         /\ ToSet(Collected(c)) = ToSet(rows[c]) \cup ToSet(PageRows(page[c]))
         /\ ToSet(Collected(c)) \subseteq Ids
<1>1. page[c] \in Nat \ {0} /\ queue \in Seq(Ids) /\ rows[c] \in Seq(Ids)
  BY DEF TypeInv, TypeOK, IdsExist
<1>2. PageRows(page[c]) \in Seq(Ids)
  BY <1>1, PageRowsFacts
<1>3. /\ Collected(c) \in Seq(Ids)
      /\ ToSet(Collected(c)) = ToSet(rows[c]) \cup ToSet(PageRows(page[c]))
  BY <1>1, <1>2, ToSetOfConcat DEF Collected
<1>4. ToSet(Collected(c)) \subseteq Ids
  BY <1>3, ToSetOfConcat
<1>5. Collected(c) \in Seq(PostIds)
  BY <1>3, IdsFacts, SeqMonotonic DEF TypeInv
<1> QED BY <1>1, <1>2, <1>3, <1>4, <1>5

LEMMA NewResponse ==
  ASSUME NEW w \in Nat, NEW l \in SUBSET Lookup
  PROVE  /\ NoResponse \in Responses
         /\ [NoResponse EXCEPT !.wire = w, !.id = w] =
              [wire |-> w, id |-> w, ids |-> {}, slots |-> {}, lookup |-> {}]
         /\ [NoResponse EXCEPT !.wire = w, !.id = w] \in Responses
         /\ [[NoResponse EXCEPT !.wire = w, !.id = w] EXCEPT !.lookup = l] =
              [wire |-> w, id |-> w, ids |-> {}, slots |-> {}, lookup |-> l]
         /\ [[NoResponse EXCEPT !.wire = w, !.id = w] EXCEPT !.lookup = l] \in Responses
<1>1. {} \in SUBSET PostIds /\ {} \in SUBSET Lookup /\ 0 \in Nat
  OBVIOUS
<1>2. /\ [wire |-> w, id |-> w, ids |-> {}, slots |-> {}, lookup |-> {}] \in Responses
      /\ [wire |-> w, id |-> w, ids |-> {}, slots |-> {}, lookup |-> l] \in Responses
      /\ NoResponse \in Responses
  BY <1>1, ResponseType DEF NoResponse
<1> DEFINE none == NoResponse
<1>3. none = [wire |-> 0, id |-> 0, ids |-> {}, slots |-> {}, lookup |-> {}]
  BY DEF NoResponse
<1> HIDE DEF none
<1>4. [none EXCEPT !.wire = w, !.id = w] =
        [wire |-> w, id |-> w, ids |-> {}, slots |-> {}, lookup |-> {}]
  <2> DEFINE half == [none EXCEPT !.wire = w]
  <2>1. half = [wire |-> w, id |-> 0, ids |-> {}, slots |-> {}, lookup |-> {}]
    BY <1>3
  <2> HIDE DEF half
  <2>2. [half EXCEPT !.id = w] = [wire |-> w, id |-> w, ids |-> {}, slots |-> {}, lookup |-> {}]
    BY <2>1
  <2> QED BY <2>2 DEF half
<1> DEFINE named == [none EXCEPT !.wire = w, !.id = w]
<1>5. named = [wire |-> w, id |-> w, ids |-> {}, slots |-> {}, lookup |-> {}]
  BY <1>4
<1> HIDE DEF named
<1>6. [named EXCEPT !.lookup = l] =
        [wire |-> w, id |-> w, ids |-> {}, slots |-> {}, lookup |-> l]
  BY <1>5
<1> QED BY <1>2, <1>4, <1>6 DEF none, named

LEMMA LookupTyped ==
  ASSUME NEW r \in Responses, NEW l \in SUBSET Lookup
  PROVE  /\ [r EXCEPT !.lookup = l] \in Responses
         /\ [r EXCEPT !.lookup = l].wire = r.wire
         /\ [r EXCEPT !.lookup = l].id = r.id
         /\ [r EXCEPT !.lookup = l].slots = r.slots
         /\ [r EXCEPT !.lookup = l].lookup = l
BY DEF Responses

LEMMA VerdictFacts ==
  ASSUME NEW r
  PROVE  /\ Verdict(r) \in Outcomes
         /\ Verdict(r) \in {"noId", "ok"}
         /\ Verdict(r) = "noId" => r.ids = {} /\ r.lookup = {}
BY DEF Verdict, Outcomes

LEMMA TypeInit == Init => TypeInv
<1> SUFFICES ASSUME Init PROVE TypeInv
  OBVIOUS
<1>1. Initial \in Nat /\ posts = [i \in 1..Initial |-> Stranger] /\ Stranger \in Makers
  BY PublishAssumption DEF Init, PublishAssumption, Makers
<1>2. posts \in Seq(Makers) /\ Len(posts) = Initial
  BY <1>1
<1>3. Ids = 1..Initial /\ Ids \subseteq PostIds
  BY <1>1, <1>2 DEF Ids, PostIds
<1>4. queue \in Seq(Ids)
  BY <1>1, <1>3 DEF Init
<1>5. queue \in Seq(PostIds)
  BY <1>3, <1>4, SeqMonotonic
<1>6. /\ rows \in [Clients -> Seq(Ids)] /\ rows \in [Clients -> Seq(PostIds)]
      /\ before \in [Clients -> SUBSET Ids] /\ before \in [Clients -> SUBSET PostIds]
  BY EmptySeq DEF Init
<1>7. resp \in [Clients -> Responses]
  BY NewResponse DEF Init
<1>8. pc \in [Clients -> PCs] /\ outcome \in [Clients -> Outcomes]
  BY DEF Init, PCs, Outcomes
<1> QED BY <1>2, <1>4, <1>5, <1>6, <1>7, <1>8 DEF Init, TypeInv, TypeOK, IdsExist

LEMMA TypeStep == TypeInv /\ [Next]_vars => TypeInv'
<1> SUFFICES ASSUME TypeInv, [Next]_vars PROVE TypeInv'
  OBVIOUS
<1>t. TypeOK /\ IdsExist
  BY DEF TypeInv
<1>1. ASSUME UNCHANGED posts, UNCHANGED <<pc, input, page, rows, before, beforeErr, resp, outcome>>,
             quiet' = quiet, queue' \in Seq(Ids), hidden' \subseteq Ids
      PROVE  TypeInv'
  BY <1>1, <1>t, SeenUnchanged, WellTyped DEF TypeOK, IdsExist
<1>2. ASSUME StrangerCreates PROVE TypeInv'
  <2>1. Stranger \in Makers
    BY DEF Makers
  <2>2. /\ posts' \in Seq(Makers) /\ quiet' = quiet
        /\ Ids \subseteq Ids' /\ queue' \in Seq(Ids') /\ hidden' \subseteq Ids'
    BY <1>2, <2>1, StoreFacts DEF StrangerCreates
  <2> QED BY <1>2, <1>t, <2>2, SeenStays, WellTyped DEF StrangerCreates, TypeOK
<1>3. ASSUME NEW id \in hidden, BecomesListed(id) PROVE TypeInv'
  <2>1. id \in Ids /\ queue \in Seq(Ids)
    BY <1>t DEF IdsExist
  <2>2. queue' \in Seq(Ids)
    BY <1>3, <2>1, InsertAtFacts DEF BecomesListed
  <2> QED BY <1>1, <1>3, <1>t, <2>2 DEF BecomesListed, IdsExist
<1>4. ASSUME NEW i \in 1..Len(queue), LeavesSchedule(i) PROVE TypeInv'
  <2>1. queue' \in Seq(Ids)
    BY <1>4, <1>t, RemoveAtType DEF LeavesSchedule, IdsExist
  <2> QED BY <1>1, <1>4, <1>t, <2>1 DEF LeavesSchedule, IdsExist
<1>5. ASSUME NEW c \in Clients, NEW r \in Responses, NEW o \in Outcomes, Return(c, r, o),
             UNCHANGED <<server, input>>
      PROVE  TypeInv'
  BY <1>5, <1>t, SeenUnchanged, ReturnTyped DEF server, TypeOK, IdsExist
<1>6. ASSUME NEW c \in Clients, Refuse(c) PROVE TypeInv'
  BY <1>5, <1>6, NewResponse DEF Refuse, Outcomes
<1>7. ASSUME NEW c \in Clients, Accept(c) PROVE TypeInv'
  <2>1. pc' \in [Clients -> PCs]
    BY <1>7, <1>t DEF Accept, BeginWalk, TypeOK, PCs
  <2>2. page' \in [Clients -> Nat \ {0}] /\ rows' \in [Clients -> Seq(Ids)]
    BY <1>7, <1>t, EmptySeq DEF Accept, BeginWalk, TypeOK, IdsExist
  <2> QED BY <1>7, <1>t, <2>1, <2>2, SeenUnchanged, WellTyped DEF Accept, server, TypeOK, IdsExist
<1>8. ASSUME NEW c \in Clients, NextPage(c) PROVE TypeInv'
  <2>1. rows' \in [Clients -> Seq(Ids)] /\ page' \in [Clients -> Nat \ {0}]
    BY <1>8, <1>t, WalkTyped, PageOffset DEF NextPage, TypeOK, IdsExist
  <2> QED BY <1>8, <1>t, <2>1, SeenUnchanged, WellTyped DEF NextPage, server, TypeOK, IdsExist
<1>9. ASSUME NEW c \in Clients, BeforeTaken(c) PROVE TypeInv'
  <2>1. before' \in [Clients -> SUBSET Ids]
    BY <1>9, <1>t, WalkTyped DEF BeforeTaken, WalkEnds, IdsExist
  <2>2. pc' \in [Clients -> PCs]
    BY <1>9, <1>t DEF BeforeTaken, TypeOK, PCs
  <2> QED BY <1>9, <1>t, <2>1, <2>2, SeenUnchanged, WellTyped DEF BeforeTaken, server, TypeOK, IdsExist
<1>10. ASSUME NEW c \in Clients, BeforeFails(c) PROVE TypeInv'
  <2>1. pc' \in [Clients -> PCs] /\ beforeErr' \in [Clients -> BOOLEAN]
    BY <1>10, <1>t DEF BeforeFails, TypeOK, PCs
  <2> QED BY <1>10, <1>t, <2>1, SeenUnchanged, WellTyped DEF BeforeFails, server, TypeOK, IdsExist
<1>11. ASSUME NEW c \in Clients, Store(c, input[c].bySchedule)
       PROVE  /\ posts' \in Seq(Makers) /\ quiet' = quiet
              /\ Ids \subseteq Ids' /\ queue' \in Seq(Ids') /\ hidden' \subseteq Ids'
  <2>1. c \in Makers /\ input[c].bySchedule \in BOOLEAN
    BY <1>t DEF Makers, TypeOK, Inputs
  <2> QED BY <1>11, <2>1, StoreFacts
<1>12. ASSUME NEW c \in Clients, PostAnswered(c) PROVE TypeInv'
  <2>1. PICK wire \in {0, Len(posts) + 1} :
          LET r == [NoResponse EXCEPT !.wire = wire, !.id = wire] IN
            \/ /\ BeginWalk(c, "after")
               /\ resp' = [resp EXCEPT ![c] = r]
               /\ UNCHANGED <<outcome, before, beforeErr>>
            \/ LET failed == [r EXCEPT !.lookup = {"before"}] IN Return(c, failed, Verdict(failed))
            \/ Return(c, r, Verdict(r))
    BY <1>12 DEF PostAnswered
  <2> DEFINE r == [NoResponse EXCEPT !.wire = wire, !.id = wire]
             failed == [r EXCEPT !.lookup = {"before"}]
  <2>2. r \in Responses /\ failed \in Responses
    <3>1. wire \in Nat /\ {"before"} \in SUBSET Lookup
      BY IdsFacts DEF TypeInv, Lookup
    <3> QED BY <3>1, NewResponse
  <2>3. Verdict(r) \in Outcomes /\ Verdict(failed) \in Outcomes
    BY VerdictFacts
  <2>4. input' = input /\ Store(c, input[c].bySchedule)
    BY <1>12 DEF PostAnswered
  <2> HIDE DEF r, failed
  <2>5. CASE Return(c, r, Verdict(r))
    BY <1>11, <2>2, <2>3, <2>4, <2>5, ReturnTyped
  <2>6. CASE Return(c, failed, Verdict(failed))
    BY <1>11, <2>2, <2>3, <2>4, <2>6, ReturnTyped
  <2>7. CASE BeginWalk(c, "after") /\ resp' = [resp EXCEPT ![c] = r] /\ UNCHANGED <<outcome, before, beforeErr>>
    <3>1. pc' \in [Clients -> PCs] /\ page' \in [Clients -> Nat \ {0}]
      BY <1>t, <2>7 DEF BeginWalk, TypeOK, PCs
    <3>2. resp' \in [Clients -> Responses]
      BY <1>t, <2>2, <2>7 DEF TypeOK
    <3>3. rows' \in [Clients -> Seq(Ids')]
      BY <1>11, <2>4, <2>7, SeenStays, EmptySeq DEF BeginWalk
    <3> QED BY <1>11, <1>t, <2>4, <2>7, <3>1, <3>2, <3>3, SeenStays, WellTyped DEF TypeOK
  <2> QED BY <2>1, <2>5, <2>6, <2>7 DEF r, failed
<1>13. ASSUME NEW c \in Clients, PostRefused(c) PROVE TypeInv'
  BY <1>5, <1>13, NewResponse DEF PostRefused, Outcomes
<1>14. ASSUME NEW c \in Clients, PostAnswerLost(c) PROVE TypeInv'
  <2>1. NoResponse \in Responses /\ "failed" \in Outcomes
    BY NewResponse DEF Outcomes
  <2> QED BY <1>11, <1>14, <2>1, ReturnTyped DEF PostAnswerLost
<1>15. ASSUME NEW c \in Clients, AfterTaken(c) PROVE TypeInv'
  <2>1. PICK offsetKnown \in BOOLEAN :
          LET r == Recovered(resp[c], Collected(c), before[c], offsetKnown) IN Return(c, r, Verdict(r))
    BY <1>15 DEF AfterTaken
  <2> DEFINE r == Recovered(resp[c], Collected(c), before[c], offsetKnown)
  <2>2. resp[c] \in Responses /\ Collected(c) \in Seq(PostIds)
    BY <1>15, <1>t, WalkTyped DEF AfterTaken, WalkEnds, TypeOK
  <2> HIDE DEF r
  <2>3. r \in Responses
    BY <2>2, RecoveredFacts DEF r
  <2>4. Verdict(r) \in Outcomes
    BY VerdictFacts
  <2>5. Return(c, r, Verdict(r)) /\ UNCHANGED <<server, input>>
    BY <1>15, <2>1 DEF AfterTaken, r
  <2> QED BY <1>5, <2>3, <2>4, <2>5
<1>16. ASSUME NEW c \in Clients, AfterFails(c) PROVE TypeInv'
  <2> DEFINE r == [resp[c] EXCEPT !.lookup = {"after"}]
  <2>1. Return(c, r, Verdict(r)) /\ UNCHANGED <<server, input>>
    BY <1>16 DEF AfterFails
  <2>2. r \in Responses
    BY <1>t, LookupTyped DEF TypeOK, Lookup
  <2> HIDE DEF r
  <2>3. Verdict(r) \in Outcomes
    BY VerdictFacts
  <2> QED BY <1>5, <2>1, <2>2, <2>3
<1>17. ASSUME UNCHANGED vars PROVE TypeInv'
  BY <1>1, <1>17, <1>t DEF vars, server, IdsExist
<1> QED BY <1>2, <1>3, <1>4, <1>6, <1>7, <1>8, <1>9, <1>10, <1>12, <1>13, <1>14, <1>15, <1>16, <1>17
      DEF Next, Environment, Step, AllReturned

LEMMA TypeInvariant == Spec => []TypeInv
BY TypeInit, TypeStep, PTL DEF Spec

(* Every variable keeps its type, and no walk or snapshot of any client    *)
(* ever holds an id before the server gave it, whatever pages the walks    *)
(* were at when posts came and went (posts_search.go:797-867).             *)
THEOREM TypeCorrect == Spec => []TypeOK
BY TypeInvariant, PTL DEF TypeInv

-----------------------------------------------------------------------------
(* One call: what it made and what it returns.                             *)

LEMMA MadeByUnchanged ==
  ASSUME UNCHANGED posts
  PROVE  \A c : MadeBy(c)' = MadeBy(c)
BY DEF MadeBy, Ids

LEMMA MadeByStore ==
  ASSUME TypeInv, NEW maker \in Makers, NEW b \in BOOLEAN, Store(maker, b), NEW c
  PROVE  MadeBy(c)' = IF c = maker THEN MadeBy(c) \cup {Len(posts) + 1} ELSE MadeBy(c)
BY StoreFacts DEF MadeBy

LEMMA ClientIsMaker ==
  ASSUME TypeInv, NEW c \in Clients
  PROVE  c \in Makers /\ c # Stranger /\ input[c].bySchedule \in BOOLEAN
BY PublishAssumption DEF PublishAssumption, TypeInv, TypeOK, Inputs, Makers

(* The arguments and local variables of a call.                            *)
SameCall(c) ==
  /\ pc'[c] = pc[c] /\ input'[c] = input[c] /\ page'[c] = page[c] /\ rows'[c] = rows[c]
  /\ before'[c] = before[c] /\ beforeErr'[c] = beforeErr[c]
  /\ resp'[c] = resp[c] /\ outcome'[c] = outcome[c]

LEMMA ReturnFacts ==
  ASSUME TypeInv, NEW d \in Clients, NEW r, NEW o, Return(d, r, o)
  PROVE  /\ pc'[d] = "done" /\ resp'[d] = r /\ outcome'[d] = o
         /\ \A c \in Clients \ {d} : input' = input => SameCall(c)
BY DEF Return, SameCall, TypeInv, TypeOK

LEMMA BeginWalkFacts ==
  ASSUME TypeInv, NEW d \in Clients, NEW which, BeginWalk(d, which)
  PROVE  /\ pc'[d] = which /\ page'[d] = 1 /\ rows'[d] = <<>>
         /\ \A c \in Clients \ {d} : pc'[c] = pc[c] /\ page'[c] = page[c] /\ rows'[c] = rows[c]
BY DEF BeginWalk, TypeInv, TypeOK

(* A step of one client is its own: only the posts are shared.             *)
LEMMA OtherCall ==
  ASSUME TypeInv, NEW c \in Clients, NEW d \in Clients, c # d, Step(d)
  PROVE  SameCall(c) /\ MadeBy(c)' = MadeBy(c)
<1>t. TypeOK
  BY DEF TypeInv
<1>1. ASSUME NEW r, NEW o, Return(d, r, o), input' = input
      PROVE  SameCall(c)
  BY <1>1, ReturnFacts
<1>2. ASSUME Store(d, input[d].bySchedule)
      PROVE  MadeBy(c)' = MadeBy(c)
  BY <1>2, ClientIsMaker, MadeByStore
<1>3. CASE Refuse(d)
  BY <1>1, <1>3, MadeByUnchanged DEF Refuse, server
<1>4. CASE Accept(d)
  BY <1>4, BeginWalkFacts, MadeByUnchanged DEF Accept, SameCall, server
<1>5. CASE NextPage(d)
  BY <1>5, <1>t, MadeByUnchanged DEF NextPage, SameCall, server, TypeOK
<1>6. CASE BeforeTaken(d)
  BY <1>6, <1>t, MadeByUnchanged DEF BeforeTaken, SameCall, server, TypeOK
<1>7. CASE BeforeFails(d)
  BY <1>7, <1>t, MadeByUnchanged DEF BeforeFails, SameCall, server, TypeOK
<1>8. CASE PostAnswered(d)
  <2>1. \/ \E r, o : Return(d, r, o)
        \/ /\ BeginWalk(d, "after")
           /\ \E r : resp' = [resp EXCEPT ![d] = r]
           /\ UNCHANGED <<outcome, before, beforeErr>>
    BY <1>8 DEF PostAnswered
  <2>2. input' = input /\ MadeBy(c)' = MadeBy(c)
    BY <1>2, <1>8 DEF PostAnswered
  <2>3. CASE \E r, o : Return(d, r, o)
    BY <1>1, <2>2, <2>3
  <2>4. CASE /\ BeginWalk(d, "after")
             /\ \E r : resp' = [resp EXCEPT ![d] = r]
             /\ UNCHANGED <<outcome, before, beforeErr>>
    BY <1>t, <2>2, <2>4, BeginWalkFacts DEF SameCall, TypeOK
  <2> QED BY <2>1, <2>2, <2>3, <2>4
<1>9. CASE PostRefused(d)
  BY <1>1, <1>9, MadeByUnchanged DEF PostRefused, server
<1>10. CASE PostAnswerLost(d)
  BY <1>1, <1>2, <1>10 DEF PostAnswerLost
<1>11. CASE AfterTaken(d)
  <2>1. \E r, o : Return(d, r, o)
    BY <1>11 DEF AfterTaken
  <2> QED BY <1>1, <1>11, <2>1, MadeByUnchanged DEF AfterTaken, server
<1>12. CASE AfterFails(d)
  <2>1. \E r, o : Return(d, r, o)
    BY <1>12 DEF AfterFails
  <2> QED BY <1>1, <1>12, <2>1, MadeByUnchanged DEF AfterFails, server
<1> QED BY <1>3, <1>4, <1>5, <1>6, <1>7, <1>8, <1>9, <1>10, <1>11, <1>12 DEF Step

(* The environment touches no call, and makes posts only for the stranger. *)
LEMMA EnvironmentCall ==
  ASSUME TypeInv, NEW c \in Clients, Environment \/ UNCHANGED vars
  PROVE  SameCall(c) /\ MadeBy(c)' = MadeBy(c)
<1>1. CASE StrangerCreates
  <2>1. Stranger \in Makers /\ Store(Stranger, TRUE)
    BY <1>1 DEF Makers, StrangerCreates
  <2>2. MadeBy(c)' = MadeBy(c)
    BY <2>1, ClientIsMaker, MadeByStore
  <2> QED BY <1>1, <2>2 DEF StrangerCreates, SameCall
<1>2. CASE \E id \in hidden : BecomesListed(id)
  BY <1>2, MadeByUnchanged DEF BecomesListed, SameCall
<1>3. CASE \E i \in 1..Len(queue) : LeavesSchedule(i)
  BY <1>3, MadeByUnchanged DEF LeavesSchedule, SameCall
<1>4. CASE UNCHANGED vars
  BY <1>4, MadeByUnchanged DEF vars, server, SameCall
<1> QED BY <1>1, <1>2, <1>3, <1>4 DEF Environment

(* Where a call stands: it has made its post exactly when the POST is      *)
(* behind it, and a post the server named is the one it made.              *)
CallOK(c) ==
  /\ pc[c] \in {"idle", "before", "post"} => MadeBy(c) = {}
  /\ pc[c] \in {"before", "after"} => input[c].bySchedule
  /\ pc[c] = "after" => MadeBy(c) # {}
  /\ pc[c] # "done" => outcome[c] = "none" /\ resp[c].slots = {}
  /\ \A i, j \in MadeBy(c) : i = j
  /\ outcome[c] \in {"ok", "noId"} => MadeBy(c) # {}
  /\ outcome[c] = "refused" => MadeBy(c) = {}
  /\ resp[c].wire # 0 =>
       /\ resp[c].wire \in MadeBy(c)
       /\ resp[c].id = resp[c].wire
       /\ resp[c].slots \subseteq {resp[c].wire}
  /\ input[c].bySchedule =>
       /\ outcome[c] # "noId"
       /\ outcome[c] = "ok" => resp[c].slots # {} \/ resp[c].lookup # {}

CallInv == \A c \in Clients : CallOK(c)

LEMMA SameCallOK ==
  ASSUME NEW c, CallOK(c), SameCall(c), MadeBy(c)' = MadeBy(c)
  PROVE  CallOK(c)'
BY DEF CallOK, SameCall

LEMMA StepCallOK ==
  ASSUME TypeInv, NEW c \in Clients, CallOK(c), Step(c)
  PROVE  CallOK(c)'
<1>t. TypeOK
  BY DEF TypeInv
<1>1. ASSUME NEW r, NEW o, Return(c, r, o), input' = input
      PROVE  pc'[c] = "done" /\ resp'[c] = r /\ outcome'[c] = o /\ input'[c] = input[c]
  BY <1>1, ReturnFacts
<1>2. ASSUME Store(c, input[c].bySchedule)
      PROVE  MadeBy(c)' = MadeBy(c) \cup {Len(posts) + 1}
  BY <1>2, ClientIsMaker, MadeByStore
<1>n. /\ NoResponse.wire = 0 /\ NoResponse.slots = {} /\ NoResponse.lookup = {}
  BY DEF NoResponse
<1>3. CASE Refuse(c)
  <2>1. MadeBy(c)' = MadeBy(c) /\ MadeBy(c) = {}
    BY <1>3, MadeByUnchanged DEF Refuse, server, CallOK
  <2> QED BY <1>1, <1>3, <1>n, <2>1 DEF Refuse, CallOK
<1>4. CASE Accept(c)
  <2>1. /\ pc'[c] = (IF input[c].bySchedule THEN "before" ELSE "post")
        /\ input' = input /\ resp' = resp /\ outcome' = outcome
        /\ MadeBy(c)' = MadeBy(c)
        /\ pc[c] = "idle"
    BY <1>4, BeginWalkFacts, MadeByUnchanged DEF Accept, server
  <2>2. pc'[c] \in {"before", "post"} /\ (pc'[c] = "before" => input[c].bySchedule)
    BY <2>1
  <2> QED BY <2>1, <2>2 DEF CallOK
<1>5. CASE NextPage(c)
  BY <1>5, MadeByUnchanged DEF NextPage, server, CallOK
<1>6. CASE BeforeTaken(c)
  <2>1. pc[c] = "before" /\ pc'[c] = "post" /\ input' = input /\ resp' = resp /\ outcome' = outcome
    BY <1>6, <1>t DEF BeforeTaken, WalkEnds, TypeOK
  <2>2. MadeBy(c)' = MadeBy(c)
    BY <1>6, MadeByUnchanged DEF BeforeTaken, server
  <2> QED BY <2>1, <2>2 DEF CallOK
<1>7. CASE BeforeFails(c)
  <2>1. pc[c] = "before" /\ pc'[c] = "post" /\ input' = input /\ resp' = resp /\ outcome' = outcome
    BY <1>7, <1>t DEF BeforeFails, TypeOK
  <2>2. MadeBy(c)' = MadeBy(c)
    BY <1>7, MadeByUnchanged DEF BeforeFails, server
  <2> QED BY <2>1, <2>2 DEF CallOK
<1>8. CASE PostAnswered(c)
  <2>1. /\ pc[c] = "post" /\ input' = input
        /\ MadeBy(c)' = {Len(posts) + 1}
        /\ Len(posts) \in Nat
    BY <1>2, <1>8, IdsFacts DEF PostAnswered, CallOK, TypeInv
  <2>2. PICK wire \in {0, Len(posts) + 1} :
          LET r == [NoResponse EXCEPT !.wire = wire, !.id = wire] IN
            \/ /\ input[c].bySchedule
               /\ BeginWalk(c, "after")
               /\ resp' = [resp EXCEPT ![c] = r]
               /\ outcome' = outcome
            \/ /\ input[c].bySchedule
               /\ LET failed == [r EXCEPT !.lookup = {"before"}] IN Return(c, failed, Verdict(failed))
            \/ /\ ~input[c].bySchedule
               /\ Return(c, r, Verdict(r))
    BY <1>8 DEF PostAnswered
  <2> DEFINE r == [NoResponse EXCEPT !.wire = wire, !.id = wire]
             failed == [r EXCEPT !.lookup = {"before"}]
  <2>3. /\ r.wire = wire /\ r.id = wire /\ r.slots = {} /\ r.lookup = {}
        /\ failed.wire = wire /\ failed.id = wire /\ failed.slots = {} /\ failed.lookup = {"before"}
    <3>1. wire \in Nat /\ {"before"} \in SUBSET Lookup
      BY <2>1 DEF Lookup
    <3>2. r = [wire |-> wire, id |-> wire, ids |-> {}, slots |-> {}, lookup |-> {}]
      BY <3>1, NewResponse
    <3>3. failed = [wire |-> wire, id |-> wire, ids |-> {}, slots |-> {}, lookup |-> {"before"}]
      BY <3>1, NewResponse
    <3> HIDE DEF r, failed
    <3> QED BY <3>2, <3>3
  <2>4. Verdict(r) \in {"noId", "ok"} /\ Verdict(failed) = "ok"
    BY <2>3 DEF Verdict
  <2> HIDE DEF r, failed
  <2>5. CASE input[c].bySchedule /\ BeginWalk(c, "after") /\ resp' = [resp EXCEPT ![c] = r] /\ outcome' = outcome
    <3>1. pc'[c] = "after" /\ resp'[c] = r /\ outcome'[c] = "none"
      BY <1>t, <2>1, <2>5, BeginWalkFacts DEF TypeOK, CallOK
    <3> QED BY <2>1, <2>3, <2>5, <3>1 DEF CallOK
  <2>6. CASE input[c].bySchedule /\ Return(c, failed, Verdict(failed))
    <3>1. pc'[c] = "done" /\ resp'[c] = failed /\ outcome'[c] = "ok"
      BY <1>1, <2>1, <2>4, <2>6
    <3> QED BY <2>1, <2>3, <3>1 DEF CallOK
  <2>7. CASE ~input[c].bySchedule /\ Return(c, r, Verdict(r))
    <3>1. pc'[c] = "done" /\ resp'[c] = r /\ outcome'[c] \in {"noId", "ok"}
      BY <1>1, <2>1, <2>4, <2>7
    <3> QED BY <2>1, <2>3, <2>7, <3>1 DEF CallOK
  <2> QED BY <2>2, <2>5, <2>6, <2>7 DEF r, failed
<1>9. CASE PostRefused(c)
  <2>1. MadeBy(c)' = MadeBy(c) /\ MadeBy(c) = {}
    BY <1>9, MadeByUnchanged DEF PostRefused, server, CallOK
  <2> QED BY <1>1, <1>9, <1>n, <2>1 DEF PostRefused, CallOK
<1>10. CASE PostAnswerLost(c)
  <2>1. MadeBy(c)' = {Len(posts) + 1}
    BY <1>2, <1>10 DEF PostAnswerLost, CallOK
  <2> QED BY <1>1, <1>10, <1>n, <2>1 DEF PostAnswerLost, CallOK
<1>11. CASE AfterTaken(c)
  <2>1. PICK offsetKnown \in BOOLEAN :
          LET r == Recovered(resp[c], Collected(c), before[c], offsetKnown) IN Return(c, r, Verdict(r))
    BY <1>11 DEF AfterTaken
  <2> DEFINE r == Recovered(resp[c], Collected(c), before[c], offsetKnown)
  <2>2. pc[c] = "after" /\ input' = input /\ MadeBy(c)' = MadeBy(c)
    BY <1>11, MadeByUnchanged DEF AfterTaken, WalkEnds, server
  <2>3. resp[c] \in Responses /\ Collected(c) \in Seq(PostIds) /\ resp[c].slots = {}
    BY <1>t, <2>2, WalkTyped DEF TypeOK, CallOK
  <2> HIDE DEF r
  <2>4. /\ r.wire = resp[c].wire
        /\ resp[c].wire # 0 => r.id = resp[c].id
        /\ r.lookup = {} => r.slots # {}
        /\ r.slots # {} => \E x : /\ r.slots = {x} /\ r.ids = {x}
                                  /\ resp[c].wire # 0 => resp[c].wire = x
    <3> DEFINE q == resp[c]
               all == Collected(c)
    <3> HIDE DEF q, all
    <3>1. q \in Responses /\ all \in Seq(PostIds) /\ q.slots = {}
      BY <2>3 DEF q, all
    <3>2. r = Recovered(q, all, before[c], offsetKnown)
      BY DEF r, q, all
    <3>3. /\ r.wire = q.wire
          /\ q.wire # 0 => r.id = q.id
          /\ r.lookup = {} => r.slots # {}
          /\ r.slots # {} => \E x : /\ ToSet(all) \ before[c] = {x}
                                    /\ r.slots = {x}
                                    /\ r.ids = {x}
                                    /\ IF q.wire = 0 THEN r.id = x ELSE q.wire = x
      BY <3>1, <3>2, RecoveredFacts
    <3> QED BY <3>3 DEF q
  <2>5. Verdict(r) = "ok"
    BY <2>4 DEF Verdict
  <2>6. pc'[c] = "done" /\ resp'[c] = r /\ outcome'[c] = "ok"
    BY <1>1, <2>1, <2>2, <2>5 DEF r
  <2>7. r.wire # 0 => r.slots \subseteq {r.wire}
    BY <2>4
  <2> QED BY <2>2, <2>4, <2>6, <2>7 DEF CallOK
<1>12. CASE AfterFails(c)
  <2> DEFINE r == [resp[c] EXCEPT !.lookup = {"after"}]
  <2>1. pc[c] = "after" /\ input' = input /\ MadeBy(c)' = MadeBy(c) /\ Return(c, r, Verdict(r))
    BY <1>12, MadeByUnchanged DEF AfterFails, server
  <2>2. r.wire = resp[c].wire /\ r.id = resp[c].id /\ r.slots = resp[c].slots /\ r.lookup = {"after"}
    BY <1>t, LookupTyped DEF TypeOK, Lookup
  <2> HIDE DEF r
  <2>3. pc'[c] = "done" /\ resp'[c] = r /\ outcome'[c] = "ok"
    BY <1>1, <2>1, <2>2 DEF Verdict
  <2> QED BY <2>1, <2>2, <2>3 DEF CallOK
<1> QED BY <1>3, <1>4, <1>5, <1>6, <1>7, <1>8, <1>9, <1>10, <1>11, <1>12 DEF Step

LEMMA CallInit == Init => CallInv
<1> SUFFICES ASSUME Init, NEW c \in Clients PROVE CallOK(c)
  BY DEF CallInv
<1>1. MadeBy(c) = {}
  <2>1. Initial \in Nat /\ posts = [i \in 1..Initial |-> Stranger] /\ c # Stranger
    BY PublishAssumption DEF Init, PublishAssumption
  <2>2. Len(posts) = Initial
    BY <2>1
  <2> QED BY <2>1, <2>2 DEF MadeBy, Ids
<1>2. resp[c] = NoResponse /\ pc[c] = "idle" /\ outcome[c] = "none"
  BY DEF Init
<1>3. NoResponse.wire = 0 /\ NoResponse.slots = {}
  BY DEF NoResponse
<1> QED BY <1>1, <1>2, <1>3 DEF CallOK

LEMMA CallStep == TypeInv /\ CallInv /\ [Next]_vars => CallInv'
<1> SUFFICES ASSUME TypeInv, CallInv, [Next]_vars, NEW c \in Clients PROVE CallOK(c)'
  BY DEF CallInv
<1>1. CallOK(c)
  BY DEF CallInv
<1>2. CASE Environment \/ UNCHANGED vars
  BY <1>1, <1>2, EnvironmentCall, SameCallOK
<1>3. ASSUME NEW d \in Clients, Step(d) PROVE CallOK(c)'
  <2>1. CASE c = d
    BY <1>1, <1>3, <2>1, StepCallOK
  <2>2. CASE c # d
    BY <1>1, <1>3, <2>2, OtherCall, SameCallOK
  <2> QED BY <2>1, <2>2
<1> QED BY <1>2, <1>3 DEF Next, AllReturned

LEMMA CallInvariant == Spec => []CallInv
BY CallInit, CallStep, TypeInvariant, PTL DEF Spec

(* No call makes two posts, one that says ok or lacks an id made one, and  *)
(* a refused one made none (success_gate.go:121-130).                      *)
THEOREM OnePost == Spec => []OnePostPerCall
<1>1. CallInv => OnePostPerCall
  BY DEF CallInv, CallOK, OnePostPerCall
<1> QED BY <1>1, CallInvariant, PTL

(* A post the server named is what the call returns, and no other post's   *)
(* slot, however the walks were disturbed (schedule_slots.go:171-200).     *)
THEOREM SlotsAreMine == Spec => []SlotIsMine
<1>1. CallInv => SlotIsMine
  BY DEF CallInv, CallOK, SlotIsMine, MadeBy
<1> QED BY <1>1, CallInvariant, PTL

(* On the schedule path an answered create returns ok with a slot or with  *)
(* the reason it has none (schedule_slots.go:61-63).                       *)
THEOREM RecoveryIsHarmless == Spec => []RecoveryNeverFailsTheCreate
<1>1. CallInv => RecoveryNeverFailsTheCreate
  BY DEF CallInv, CallOK, RecoveryNeverFailsTheCreate, Returned
<1> QED BY <1>1, CallInvariant, PTL

-----------------------------------------------------------------------------
(* Why the count guard is enough on a quiet schedule: rows only move down  *)
(* the list, so a walk that starts with the post on it cannot miss it,     *)
(* however many rows are inserted between its pages.                       *)

(* The second walk has the row, or has it still ahead.                     *)
Ahead(c, id) ==
  \/ id \in ToSet(rows[c])
  \/ \E i \in 1..Len(queue) : queue[i] = id /\ i > (page[c] - 1) * PageSize

GuardOK(c) ==
  /\ before[c] \cap MadeBy(c) = {}
  /\ pc[c] = "after" => \A id \in MadeBy(c) : Ahead(c, id)
  /\ resp[c].slots # {} =>
       /\ resp[c].id \in MadeBy(c)
       /\ resp[c].ids = {resp[c].id}
       /\ resp[c].slots = {resp[c].id}

GuardInv == quiet => \A c \in Clients : GuardOK(c)

(* What a step of a quiet schedule may do to the list.                     *)
QueueGrows ==
  \/ queue' = queue
  \/ \E i \in 1..Len(queue) + 1, id \in PostIds : queue' = InsertAt(queue, i, id)

LEMMA GrowthMovesDown ==
  ASSUME TypeInv, QueueGrows, NEW i \in 1..Len(queue)
  PROVE  \E j \in 1..Len(queue') : j >= i /\ queue'[j] = queue[i]
<1>1. queue \in Seq(PostIds) /\ Len(queue) \in Nat
  BY LenProperties DEF TypeInv, TypeOK
<1>2. CASE queue' = queue
  BY <1>1, <1>2
<1>3. CASE \E k \in 1..Len(queue) + 1, id \in PostIds : queue' = InsertAt(queue, k, id)
  <2>1. PICK k \in 1..Len(queue) + 1, id \in PostIds : queue' = InsertAt(queue, k, id)
    BY <1>3
  <2>2. Len(queue') = Len(queue) + 1 /\ queue'[IF i < k THEN i ELSE i + 1] = queue[i]
    BY <1>1, <2>1, InsertAtFacts
  <2> DEFINE j == IF i < k THEN i ELSE i + 1
  <2>3. j \in 1..Len(queue') /\ j >= i
    BY <1>1, <2>2
  <2> QED BY <2>2, <2>3
<1> QED BY <1>2, <1>3 DEF QueueGrows

LEMMA StoreGrows ==
  ASSUME TypeInv, quiet, NEW maker, NEW b \in BOOLEAN, Store(maker, b)
  PROVE  /\ QueueGrows
         /\ b => \E i \in 1..Len(queue) + 1 : queue' = InsertAt(queue, i, Len(posts) + 1)
<1>1. Len(posts) + 1 \in PostIds
  BY IdsFacts DEF TypeInv, PostIds
<1> QED BY <1>1 DEF Store, QueueGrows

LEMMA QuietStays ==
  ASSUME [Next]_vars
  PROVE  quiet' = quiet
BY DEF Next, Environment, StrangerCreates, BecomesListed, LeavesSchedule, Store, Step, Refuse, Accept,
       NextPage, BeforeTaken, BeforeFails, PostAnswered, PostRefused, PostAnswerLost, AfterTaken,
       AfterFails, AllReturned, server, vars

LEMMA QuietGrows ==
  ASSUME TypeInv, quiet, [Next]_vars
  PROVE  QueueGrows
<1>1. CASE StrangerCreates
  BY <1>1, StoreGrows DEF StrangerCreates
<1>2. ASSUME NEW id \in hidden, BecomesListed(id)
      PROVE  QueueGrows
  BY <1>2 DEF BecomesListed, QueueGrows, TypeInv, TypeOK
<1>3. ASSUME NEW i \in 1..Len(queue), LeavesSchedule(i)
      PROVE  QueueGrows
  BY <1>3 DEF LeavesSchedule
<1>4. ASSUME NEW c \in Clients, Store(c, input[c].bySchedule)
      PROVE  QueueGrows
  BY <1>4, ClientIsMaker, StoreGrows
<1>5. ASSUME NEW c \in Clients, Step(c)
      PROVE  QueueGrows
  <2>1. CASE PostAnswered(c) \/ PostAnswerLost(c)
    BY <1>4, <2>1 DEF PostAnswered, PostAnswerLost
  <2>2. CASE ~(PostAnswered(c) \/ PostAnswerLost(c))
    BY <1>5, <2>2 DEF Step, Refuse, Accept, NextPage, BeforeTaken, BeforeFails, PostRefused, AfterTaken,
                      AfterFails, server, QueueGrows
  <2> QED BY <2>1, <2>2
<1>6. CASE UNCHANGED vars
  BY <1>6 DEF vars, server, QueueGrows
<1> QED BY <1>1, <1>2, <1>3, <1>5, <1>6 DEF Next, Environment, AllReturned

LEMMA AheadStays ==
  ASSUME TypeInv, QueueGrows, NEW c \in Clients, rows'[c] = rows[c], page'[c] = page[c],
         NEW id, Ahead(c, id)
  PROVE  Ahead(c, id)'
<1>1. page[c] \in Nat \ {0} /\ (page[c] - 1) * PageSize \in Nat /\ Len(queue) \in Nat
  BY PageOffset, LenProperties DEF TypeInv, TypeOK
<1>2. CASE id \in ToSet(rows[c])
  BY <1>2 DEF Ahead
<1>3. CASE \E i \in 1..Len(queue) : queue[i] = id /\ i > (page[c] - 1) * PageSize
  <2>1. PICK i \in 1..Len(queue) : queue[i] = id /\ i > (page[c] - 1) * PageSize
    BY <1>3
  <2>2. PICK j \in 1..Len(queue') : j >= i /\ queue'[j] = queue[i]
    BY GrowthMovesDown
  <2>3. j > (page[c] - 1) * PageSize
    BY <1>1, <2>1, <2>2
  <2> QED BY <2>1, <2>2, <2>3 DEF Ahead
<1> QED BY <1>2, <1>3 DEF Ahead

(* One page further, or at the end.                                        *)
LEMMA AheadOfWalk ==
  ASSUME TypeInv, NEW c \in Clients, pc[c] \in {"before", "after"}, NEW id, Ahead(c, id)
  PROVE  \/ id \in ToSet(Collected(c))
         \/ IsHasMore(page[c]) /\ \E i \in 1..Len(queue) : queue[i] = id /\ i > page[c] * PageSize
<1>1. page[c] \in Nat \ {0} /\ queue \in Seq(PostIds)
  BY DEF TypeInv, TypeOK
<1>2. ToSet(Collected(c)) = ToSet(rows[c]) \cup ToSet(PageRows(page[c]))
  BY WalkTyped
<1>3. Len(queue) \in Nat /\ page[c] * PageSize \in Nat
  <2>1. page[c] * PageSize = (page[c] - 1) * PageSize + PageSize /\ (page[c] - 1) * PageSize \in Nat
    BY <1>1, PageOffset
  <2> QED BY <1>1, <2>1, LenProperties, PublishAssumption DEF PublishAssumption
<1>4. ASSUME NEW i \in 1..Len(queue), queue[i] = id, i > (page[c] - 1) * PageSize,
             ~(IsHasMore(page[c]) /\ i > page[c] * PageSize)
      PROVE  id \in ToSet(PageRows(page[c]))
  <2>1. IsHasMore(page[c]) => i <= page[c] * PageSize
    BY <1>3, <1>4
  <2> QED BY <1>1, <1>4, <2>1, PageRowsFacts
<1> QED BY <1>2, <1>4 DEF Ahead

LEMMA StepGuardOK ==
  ASSUME TypeInv, quiet, NEW c \in Clients, CallOK(c), GuardOK(c), QueueGrows, Step(c)
  PROVE  GuardOK(c)'
<1>t. TypeOK /\ IdsExist
  BY DEF TypeInv
<1>n. NoResponse.slots = {}
  BY DEF NoResponse
<1>1. ASSUME NEW r, NEW o, Return(c, r, o),
             r.slots # {} => r.id \in MadeBy(c)' /\ r.ids = {r.id} /\ r.slots = {r.id}
      PROVE  GuardOK(c)'
  <2>1. pc'[c] = "done" /\ resp'[c] = r
    BY <1>1, ReturnFacts
  <2>2. before'[c] = {}
    BY <1>1, <1>t DEF Return, TypeOK
  <2> QED BY <1>1, <2>1, <2>2 DEF GuardOK
<1>2. CASE Refuse(c)
  BY <1>1, <1>2, <1>n DEF Refuse
<1>3. CASE Accept(c)
  <2>1. pc'[c] # "after" /\ before' = before /\ resp' = resp /\ MadeBy(c)' = MadeBy(c)
    BY <1>3, BeginWalkFacts, MadeByUnchanged DEF Accept, server
  <2> QED BY <2>1 DEF GuardOK
<1>4. CASE NextPage(c)
  <2>1. /\ pc' = pc /\ before' = before /\ resp' = resp /\ MadeBy(c)' = MadeBy(c) /\ queue' = queue
        /\ rows'[c] = Collected(c) /\ page'[c] = page[c] + 1
        /\ pc[c] \in {"before", "after"}
    BY <1>4, <1>t, MadeByUnchanged DEF NextPage, server, TypeOK
  <2>2. (page[c] + 1) - 1 = page[c]
    BY <1>t, PageOffset DEF TypeOK
  <2>3. ASSUME NEW id, Ahead(c, id) PROVE Ahead(c, id)'
    BY <2>1, <2>2, <2>3, AheadOfWalk DEF Ahead
  <2> QED BY <2>1, <2>3 DEF GuardOK
<1>5. CASE BeforeTaken(c)
  <2>1. pc'[c] = "post" /\ resp' = resp /\ MadeBy(c)' = MadeBy(c) /\ pc[c] = "before"
    BY <1>5, <1>t, MadeByUnchanged DEF BeforeTaken, WalkEnds, server, TypeOK
  <2> QED BY <2>1 DEF GuardOK, CallOK
<1>6. CASE BeforeFails(c)
  <2>1. pc'[c] = "post" /\ before' = before /\ resp' = resp /\ MadeBy(c)' = MadeBy(c)
    BY <1>6, <1>t, MadeByUnchanged DEF BeforeFails, server, TypeOK
  <2> QED BY <2>1 DEF GuardOK
<1>7. CASE PostAnswered(c)
  <2>0. PICK id : id = Len(posts) + 1
    OBVIOUS
  <2>1. /\ Store(c, input[c].bySchedule) /\ input[c].bySchedule \in BOOLEAN /\ c \in Makers
        /\ pc[c] = "post"
    BY <1>7, ClientIsMaker DEF PostAnswered
  <2>2. MadeBy(c)' = {id}
    BY <2>0, <2>1, MadeByStore DEF CallOK
  <2>3. id \in PostIds \ Ids
    BY <2>0, <2>1, StoreFacts
  <2>4. PICK wire \in {0, Len(posts) + 1} :
          LET r == [NoResponse EXCEPT !.wire = wire, !.id = wire] IN
            \/ /\ input[c].bySchedule
               /\ BeginWalk(c, "after")
               /\ resp' = [resp EXCEPT ![c] = r]
               /\ before' = before
            \/ LET failed == [r EXCEPT !.lookup = {"before"}] IN Return(c, failed, Verdict(failed))
            \/ Return(c, r, Verdict(r))
    BY <1>7 DEF PostAnswered
  <2> DEFINE r == [NoResponse EXCEPT !.wire = wire, !.id = wire]
             failed == [r EXCEPT !.lookup = {"before"}]
  <2>5. r.slots = {} /\ failed.slots = {}
    <3>1. wire \in Nat /\ {"before"} \in SUBSET Lookup
      BY <2>0, <2>3 DEF Lookup, PostIds
    <3>2. r = [wire |-> wire, id |-> wire, ids |-> {}, slots |-> {}, lookup |-> {}]
      BY <3>1, NewResponse
    <3>3. failed = [wire |-> wire, id |-> wire, ids |-> {}, slots |-> {}, lookup |-> {"before"}]
      BY <3>1, NewResponse
    <3> HIDE DEF r, failed
    <3> QED BY <3>2, <3>3
  <2> HIDE DEF r, failed
  <2>6. CASE Return(c, r, Verdict(r))
    BY <1>1, <2>5, <2>6
  <2>7. CASE Return(c, failed, Verdict(failed))
    BY <1>1, <2>5, <2>7
  <2>8. CASE input[c].bySchedule /\ BeginWalk(c, "after") /\ resp' = [resp EXCEPT ![c] = r] /\ before' = before
    <3>1. PICK i \in 1..Len(queue) + 1 : queue' = InsertAt(queue, i, id)
      BY <2>0, <2>1, <2>8, StoreGrows
    <3>2. Len(queue') = Len(queue) + 1 /\ queue'[i] = id
      BY <1>t, <2>3, <3>1, InsertAtFacts DEF TypeOK
    <3>3. page'[c] = 1 /\ (1 - 1) * PageSize = 0
      BY <2>8, BeginWalkFacts, PublishAssumption DEF PublishAssumption
    <3>4. Ahead(c, id)'
      BY <3>2, <3>3 DEF Ahead
    <3>5. before[c] \subseteq Ids /\ resp'[c] = r /\ before'[c] = before[c]
      BY <1>t, <2>8 DEF TypeOK, IdsExist
    <3> QED BY <2>2, <2>3, <2>5, <3>4, <3>5 DEF GuardOK
  <2> QED BY <2>4, <2>6, <2>7, <2>8 DEF r, failed
<1>8. CASE PostRefused(c)
  BY <1>1, <1>8, <1>n DEF PostRefused
<1>9. CASE PostAnswerLost(c)
  BY <1>1, <1>9, <1>n DEF PostAnswerLost
<1>10. CASE AfterTaken(c)
  <2> DEFINE q == resp[c]
             all == Collected(c)
  <2>1. PICK offsetKnown \in BOOLEAN :
          LET r == Recovered(resp[c], Collected(c), before[c], offsetKnown) IN Return(c, r, Verdict(r))
    BY <1>10 DEF AfterTaken
  <2> DEFINE r == Recovered(q, all, before[c], offsetKnown)
  <2>2. pc[c] = "after" /\ MadeBy(c)' = MadeBy(c) /\ ~IsHasMore(page[c]) /\ Return(c, r, Verdict(r))
    BY <1>10, <2>1, MadeByUnchanged DEF AfterTaken, WalkEnds, server
  <2>3. /\ q \in Responses /\ all \in Seq(PostIds) /\ q.slots = {}
        /\ q.wire # 0 => q.id = q.wire
    BY <1>t, <2>2, WalkTyped DEF TypeOK, CallOK
  <2>4. PICK id : id \in MadeBy(c)
    BY <2>2 DEF CallOK
  <2>5. id \in ToSet(all) \ before[c]
    BY <2>2, <2>4, AheadOfWalk DEF GuardOK
  <2> HIDE DEF q, all
  <2>6. /\ q.wire # 0 => r.id = q.id
        /\ r.slots # {} => \E x : /\ ToSet(all) \ before[c] = {x}
                                  /\ r.slots = {x}
                                  /\ r.ids = {x}
                                  /\ IF q.wire = 0 THEN r.id = x ELSE q.wire = x
    <3> HIDE DEF r
    <3>1. r = Recovered(q, all, before[c], offsetKnown)
      BY DEF r
    <3> QED BY <2>3, <3>1, RecoveredFacts
  <2> HIDE DEF r
  <2>7. r.slots # {} => r.id = id /\ r.ids = {id} /\ r.slots = {id}
    BY <2>3, <2>5, <2>6
  <2> QED BY <1>1, <2>2, <2>4, <2>7
<1>11. CASE AfterFails(c)
  <2> DEFINE r == [resp[c] EXCEPT !.lookup = {"after"}]
  <2>1. pc[c] = "after" /\ Return(c, r, Verdict(r))
    BY <1>11 DEF AfterFails
  <2>2. r.slots = resp[c].slots /\ resp[c].slots = {}
    BY <1>t, <2>1, LookupTyped DEF TypeOK, Lookup, CallOK
  <2> HIDE DEF r
  <2> QED BY <1>1, <2>1, <2>2
<1> QED BY <1>2, <1>3, <1>4, <1>5, <1>6, <1>7, <1>8, <1>9, <1>10, <1>11 DEF Step

LEMMA GuardInvariant == Spec => []GuardInv
<1>1. Init => GuardInv
  <2> SUFFICES ASSUME Init, NEW c \in Clients PROVE GuardOK(c)
    BY DEF GuardInv
  <2>1. before[c] = {} /\ pc[c] = "idle" /\ resp[c] = NoResponse
    BY DEF Init
  <2> QED BY <2>1 DEF GuardOK, NoResponse
<1>2. TypeInv /\ CallInv /\ GuardInv /\ [Next]_vars => GuardInv'
  <2> SUFFICES ASSUME TypeInv, CallInv, GuardInv, [Next]_vars, quiet', NEW c \in Clients
               PROVE  GuardOK(c)'
    BY DEF GuardInv
  <2>1. quiet /\ QueueGrows
    <3>1. quiet
      BY QuietStays
    <3> QED BY <3>1, QuietGrows
  <2>2. CallOK(c) /\ GuardOK(c)
    BY <2>1 DEF CallInv, GuardInv
  <2>3. ASSUME SameCall(c), MadeBy(c)' = MadeBy(c) PROVE GuardOK(c)'
    <3>1. ASSUME NEW id, Ahead(c, id) PROVE Ahead(c, id)'
      BY <2>1, <2>3, <3>1, AheadStays DEF SameCall
    <3> QED BY <2>2, <2>3, <3>1 DEF GuardOK, SameCall
  <2>4. CASE Environment \/ UNCHANGED vars
    BY <2>3, <2>4, EnvironmentCall
  <2>5. ASSUME NEW d \in Clients, Step(d) PROVE GuardOK(c)'
    <3>1. CASE c = d
      BY <2>1, <2>2, <2>5, <3>1, StepGuardOK
    <3>2. CASE c # d
      BY <2>3, <2>5, <3>2, OtherCall
    <3> QED BY <3>1, <3>2
  <2> QED BY <2>4, <2>5 DEF Next, AllReturned
<1> QED BY <1>1, <1>2, TypeInvariant, CallInvariant, PTL DEF Spec

(* On a quiet schedule the slot, the id and the ids that are recovered are *)
(* the caller's own post, for any number of clients and any page size,     *)
(* although no walk is atomic (schedule_slots.go:152-168).                 *)
THEOREM CountGuardIsEnough == Spec => []CountGuardSuffices
<1>1. GuardInv => CountGuardSuffices
  BY DEF GuardInv, GuardOK, CountGuardSuffices
<1> QED BY <1>1, GuardInvariant, PTL
=============================================================================
