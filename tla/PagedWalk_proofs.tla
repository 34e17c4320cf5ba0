-------------------------- MODULE PagedWalk_proofs --------------------------
(***************************************************************************)
(* Proofs about PagedWalk, for lists of any length, any page size and any  *)
(* number of pages, changes and wrong answers.                             *)
(***************************************************************************)
EXTENDS PagedWalk, SequenceTheorems, FiniteSetTheorems, TLAPS

-----------------------------------------------------------------------------
(* Sequences of rows.                                                      *)

LEMMA SetOfConcat ==
  ASSUME NEW S, NEW s \in Seq(S), NEW t \in Seq(S)
  PROVE  /\ s \o t \in Seq(S)
         /\ SetOf(s \o t) = SetOf(s) \cup SetOf(t)
         /\ SetOf(s) \subseteq S
<1>1. /\ s \o t \in Seq(S) /\ Len(s \o t) = Len(s) + Len(t)
      /\ \A i \in 1..Len(s) + Len(t) : (s \o t)[i] = IF i <= Len(s) THEN s[i] ELSE t[i - Len(s)]
  BY ConcatProperties
<1>2. /\ Len(s) \in Nat /\ Len(t) \in Nat
      /\ DOMAIN s = 1..Len(s) /\ DOMAIN t = 1..Len(t) /\ DOMAIN (s \o t) = 1..Len(s) + Len(t)
  BY <1>1, LenProperties
<1>3. SetOf(s) \subseteq SetOf(s \o t)
  BY <1>1, <1>2 DEF SetOf
<1>4. ASSUME NEW j \in 1..Len(t) PROVE t[j] \in SetOf(s \o t)
  <2>1. Len(s) + j \in 1..Len(s) + Len(t) /\ ~(Len(s) + j <= Len(s)) /\ (Len(s) + j) - Len(s) = j
    BY <1>2
  <2>2. (s \o t)[Len(s) + j] = t[j]
    BY <1>1, <2>1
  <2> QED BY <1>2, <2>1, <2>2 DEF SetOf
<1>5. ASSUME NEW j \in 1..Len(s) + Len(t) PROVE (s \o t)[j] \in SetOf(s) \cup SetOf(t)
  <2>1. CASE j <= Len(s)
    BY <1>1, <1>2, <2>1 DEF SetOf
  <2>2. CASE ~(j <= Len(s))
    <3>1. j - Len(s) \in 1..Len(t)
      BY <1>2, <2>2
    <3> QED BY <1>1, <1>2, <2>2, <3>1 DEF SetOf
  <2> QED BY <2>1, <2>2
<1>6. SetOf(s) \subseteq S
  BY <1>2, ElementOfSeq DEF SetOf
<1>7. SetOf(t) \subseteq SetOf(s \o t)
  BY <1>2, <1>4 DEF SetOf
<1>8. SetOf(s \o t) \subseteq SetOf(s) \cup SetOf(t)
  BY <1>2, <1>5 DEF SetOf
<1> QED BY <1>1, <1>3, <1>6, <1>7, <1>8

(* A row is listed once. *)
Once(s) == \A i, j \in 1..Len(s) : s[i] = s[j] => i = j

LEMMA CountFacts ==
  ASSUME NEW s \in Seq(RowIds)
  PROVE  /\ SetOf(s) \subseteq RowIds
         /\ IsFiniteSet(SetOf(s))
         /\ Unique(s) \in 0..Rows
         /\ Unique(s) = Cardinality(SetOf(s))
         /\ Once(s) => Len(s) = Unique(s)
<1>1. Len(s) \in Nat /\ DOMAIN s = 1..Len(s) /\ \A i \in 1..Len(s) : s[i] \in RowIds
  BY LenProperties, ElementOfSeq
<1>2. SetOf(s) \subseteq RowIds
  BY <1>1 DEF SetOf
<1>3. IsFiniteSet(RowIds) /\ Cardinality(RowIds) = Rows
  BY FS_Interval, WalkAssumption DEF WalkAssumption, RowIds
<1>4. IsFiniteSet(SetOf(s)) /\ Cardinality(SetOf(s)) <= Rows
  BY <1>2, <1>3, FS_Subset
<1>5. Cardinality(SetOf(s)) \in Nat
  BY <1>4, FS_CardinalityType
<1>6. ASSUME Once(s) PROVE Len(s) = Cardinality(SetOf(s))
  <2>1. s \in [1..Len(s) -> SetOf(s)]
    <3>1. s \in [1..Len(s) -> RowIds]
      BY <1>1, LenProperties
    <3> QED BY <1>1, <3>1 DEF SetOf
  <2>2. s \in Surjection(1..Len(s), SetOf(s))
    BY <1>1, <2>1 DEF Surjection, SetOf
  <2>3. s \in Injection(1..Len(s), SetOf(s))
    BY <1>6, <2>1 DEF Injection, IsInjective, Once
  <2>4. IsFiniteSet(1..Len(s)) /\ Cardinality(1..Len(s)) = Len(s)
    <3>1. Cardinality(1..Len(s)) = IF 1 > Len(s) THEN 0 ELSE Len(s) - 1 + 1
      BY <1>1, FS_Interval
    <3>2. IsFiniteSet(1..Len(s))
      BY <1>1, FS_Interval
    <3> QED BY <1>1, <3>1, <3>2
  <2> QED BY <2>2, <2>3, <2>4, FS_Surjection
<1> QED BY <1>2, <1>4, <1>5, <1>6, WalkAssumption DEF WalkAssumption, Unique

(* Two finite sets of rows, one inside the other and as large. *)
LEMMA SameSize ==
  ASSUME NEW T \in SUBSET RowIds, NEW s \in Seq(RowIds), SetOf(s) \subseteq T,
         Unique(s) >= Cardinality(T)
  PROVE  SetOf(s) = T
<1>1. IsFiniteSet(T)
  <2>1. IsFiniteSet(RowIds)
    BY FS_Interval, WalkAssumption DEF WalkAssumption, RowIds
  <2> QED BY <2>1, FS_Subset
<1>2. Cardinality(SetOf(s)) <= Cardinality(T) /\ (Cardinality(T) = Cardinality(SetOf(s)) => T = SetOf(s))
  BY <1>1, FS_Subset
<1>3. Cardinality(T) \in Nat /\ Unique(s) \in Nat /\ Unique(s) = Cardinality(SetOf(s))
  BY <1>1, FS_CardinalityType, CountFacts
<1> QED BY <1>2, <1>3

LEMMA SubSize ==
  ASSUME NEW T, NEW s \in Seq(RowIds), T \subseteq SetOf(s)
  PROVE  Unique(s) >= Cardinality(T) /\ Cardinality(T) \in Nat
BY CountFacts, FS_Subset, FS_CardinalityType

LEMMA EnterFacts ==
  ASSUME NEW S, NEW s \in Seq(S), NEW e \in S
  PROVE  /\ <<e>> \o s \in Seq(S)
         /\ Len(<<e>> \o s) = Len(s) + 1
         /\ (<<e>> \o s)[1] = e
         /\ \A i \in 1..Len(s) : (<<e>> \o s)[i + 1] = s[i]
         /\ SetOf(<<e>> \o s) = SetOf(s) \cup {e}
<1>1. <<e>> \in Seq(S) /\ Len(<<e>>) = 1 /\ <<e>>[1] = e /\ SetOf(<<e>>) = {e}
  <2>1. <<e>> \in Seq(S) /\ Len(<<e>>) = 1 /\ <<e>>[1] = e
    OBVIOUS
  <2>2. DOMAIN <<e>> = 1..1
    BY <2>1, LenProperties
  <2>3. \A i \in 1..1 : i = 1
    OBVIOUS
  <2> QED BY <2>1, <2>2, <2>3 DEF SetOf
<1>2. Len(s) \in Nat
  BY LenProperties
<1> DEFINE t == <<e>>
<1>3. /\ t \o s \in Seq(S) /\ Len(t \o s) = Len(t) + Len(s)
      /\ \A i \in 1..Len(t) + Len(s) : (t \o s)[i] = IF i <= Len(t) THEN t[i] ELSE s[i - Len(t)]
  <2> HIDE DEF t
  <2> QED BY <1>1, ConcatProperties DEF t
<1>4. SetOf(t) = {e} /\ t \in Seq(S) /\ Len(t) = 1 /\ t[1] = e
  BY <1>1
<1> HIDE DEF t
<1>7. SetOf(t \o s) = SetOf(t) \cup SetOf(s)
  BY <1>4, SetOfConcat
<1>5. \A i \in 1..Len(s) : (t \o s)[i + 1] = s[i]
  <2> SUFFICES ASSUME NEW i \in 1..Len(s) PROVE (t \o s)[i + 1] = s[i]
    OBVIOUS
  <2>1. i + 1 \in 1..1 + Len(s) /\ ~(i + 1 <= 1) /\ (i + 1) - 1 = i
    BY <1>2
  <2> QED BY <1>3, <1>4, <2>1
<1>6. (t \o s)[1] = e
  BY <1>2, <1>3, <1>4
<1>8. /\ t \o s \in Seq(S) /\ Len(t \o s) = Len(s) + 1
      /\ SetOf(t \o s) = SetOf(s) \cup {e}
  BY <1>2, <1>3, <1>4, <1>7
<1> QED BY <1>5, <1>6, <1>8 DEF t

LEMMA LeaveFacts ==
  ASSUME NEW S, NEW s \in Seq(S), NEW i \in 1..Len(s)
  PROVE  LET t == SubSeq(s, 1, i - 1) \o SubSeq(s, i + 1, Len(s))
         IN
         /\ t \in Seq(S)
         /\ Len(t) = Len(s) - 1
         /\ \A j \in 1..Len(s) - 1 : t[j] = s[IF j < i THEN j ELSE j + 1]
<1>0. Len(s) \in Nat /\ \A j \in 1..Len(s) : s[j] \in S
  BY LenProperties, ElementOfSeq
<1> DEFINE l == SubSeq(s, 1, i - 1)
           r == SubSeq(s, i + 1, Len(s))
           t == l \o r
<1>1. l \in Seq(S) /\ Len(l) = i - 1 /\ \A j \in 1..i - 1 : l[j] = s[j]
  <2>1. 1 \in Int /\ i - 1 \in Int /\ \A j \in 1..i - 1 : s[j] \in S
    BY <1>0
  <2>2. /\ l \in Seq(S)
        /\ Len(l) = IF 1 <= i - 1 THEN (i - 1) - 1 + 1 ELSE 0
        /\ \A j \in 1..(i - 1) - 1 + 1 : l[j] = s[1 + j - 1]
    BY <2>1, SubSeqProperties
  <2>3. (i - 1) - 1 + 1 = i - 1 /\ \A j \in 1..i - 1 : 1 + j - 1 = j
    BY <1>0
  <2> HIDE DEF l
  <2> QED BY <2>2, <2>3, <1>0
<1>2. r \in Seq(S) /\ Len(r) = Len(s) - i /\ \A j \in 1..Len(s) - i : r[j] = s[i + j]
  <2>1. i + 1 \in Int /\ Len(s) \in Int /\ \A j \in i + 1..Len(s) : s[j] \in S
    BY <1>0
  <2>2. /\ r \in Seq(S)
        /\ Len(r) = IF i + 1 <= Len(s) THEN Len(s) - (i + 1) + 1 ELSE 0
        /\ \A j \in 1..Len(s) - (i + 1) + 1 : r[j] = s[i + 1 + j - 1]
    BY <2>1, SubSeqProperties
  <2> HIDE DEF r
  <2>4. Len(r) = Len(s) - i
    BY <2>2, <1>0
  <2>5. ASSUME NEW j \in 1..Len(s) - i PROVE r[j] = s[i + j]
    <3>1. j \in 1..Len(s) - (i + 1) + 1 /\ i + 1 + j - 1 = i + j
      BY <1>0
    <3>2. r[j] = s[i + 1 + j - 1]
      BY <2>2, <3>1
    <3> QED BY <3>1, <3>2
  <2> QED BY <2>2, <2>4, <2>5
<1>3. /\ t \in Seq(S) /\ Len(t) = Len(l) + Len(r)
      /\ \A j \in 1..Len(l) + Len(r) : t[j] = IF j <= Len(l) THEN l[j] ELSE r[j - Len(l)]
  <2> HIDE DEF l, r
  <2>2. /\ l \o r \in Seq(S) /\ Len(l \o r) = Len(l) + Len(r)
        /\ \A j \in 1..Len(l) + Len(r) : (l \o r)[j] = IF j <= Len(l) THEN l[j] ELSE r[j - Len(l)]
    BY <1>1, <1>2, ConcatProperties
  <2> QED BY <2>2
<1> HIDE DEF l, r, t
<1>4. ASSUME NEW j \in 1..Len(s) - 1 PROVE t[j] = s[IF j < i THEN j ELSE j + 1]
  <2>1. CASE j < i
    <3>1. j \in 1..Len(l) + Len(r) /\ j <= Len(l) /\ j \in 1..i - 1
      BY <2>1, <1>0, <1>1, <1>2
    <3>2. t[j] = l[j] /\ l[j] = s[j]
      BY <3>1, <1>1, <1>3
    <3> QED BY <2>1, <3>2
  <2>2. CASE ~(j < i)
    <3>1. j \in 1..Len(l) + Len(r) /\ ~(j <= Len(l)) /\ j - Len(l) \in 1..Len(s) - i /\ i + (j - Len(l)) = j + 1
      BY <2>2, <1>0, <1>1, <1>2
    <3>2. t[j] = r[j - Len(l)] /\ r[j - Len(l)] = s[i + (j - Len(l))]
      BY <3>1, <1>2, <1>3
    <3> QED BY <2>2, <3>1, <3>2
  <2> QED BY <2>1, <2>2
<1>5. Len(t) = Len(s) - 1
  <2>1. Len(t) = Len(l) + Len(r) /\ Len(l) = i - 1 /\ Len(r) = Len(s) - i
    BY <1>1, <1>2, <1>3
  <2>2. Len(s) \in Nat /\ i \in Nat
    BY <1>0
  <2> QED BY <2>1, <2>2
<1> QED BY <1>3, <1>4, <1>5 DEF l, r, t

-----------------------------------------------------------------------------
(* Pages.                                                                  *)

LEMMA OffsetFacts ==
  /\ Offset(1) = 0
  /\ \A p \in Nat : Offset(p) \in Nat
  /\ \A p \in Nat \ {0} : Offset(p + 1) = Offset(p) + PageSize
<1>1. PageSize \in Nat \ {0}
  BY WalkAssumption DEF WalkAssumption
<1>2. Offset(1) = 0
  BY <1>1 DEF Offset
<1>3. ASSUME NEW p \in Nat PROVE Offset(p) \in Nat
  <2>1. CASE p = 0
    BY <2>1 DEF Offset
  <2>2. CASE p # 0
    <3>1. p - 1 \in Nat
      BY <2>2
    <3>2. (p - 1) * PageSize \in Nat
      BY <1>1, <3>1
    <3> QED BY <2>2, <3>2 DEF Offset
  <2> QED BY <2>1, <2>2
<1>4. ASSUME NEW p \in Nat \ {0} PROVE Offset(p + 1) = Offset(p) + PageSize
  <2>1. Offset(p + 1) = p * PageSize /\ Offset(p) = (p - 1) * PageSize
    BY DEF Offset
  <2>2. p * PageSize = (p - 1) * PageSize + PageSize
    BY <1>1
  <2> QED BY <2>1, <2>2
<1> QED BY <1>2, <1>3, <1>4

(* A page is a part of the list, and holds every row in its window.        *)
LEMMA WindowFacts ==
  ASSUME coll \in Seq(RowIds), NEW p \in Nat
  PROVE  /\ Window(p) \in Seq(RowIds)
         /\ SetOf(Window(p)) \subseteq SetOf(coll)
         /\ \A i \in 1..Len(coll) :
              Offset(p) < i /\ i <= Offset(p) + PageSize => coll[i] \in SetOf(Window(p))
<1> DEFINE from == Offset(p) + 1
           to == Smaller(Offset(p) + PageSize, Len(coll))
           w == SubSeq(coll, from, to)
<1>1. /\ Len(coll) \in Nat /\ DOMAIN coll = 1..Len(coll) /\ \A i \in 1..Len(coll) : coll[i] \in RowIds
      /\ Offset(p) \in Nat /\ PageSize \in Nat
  BY OffsetFacts, LenProperties, ElementOfSeq, WalkAssumption DEF WalkAssumption
<1>2. from \in Int /\ to \in Int /\ to <= Len(coll) /\ from >= 1
  BY <1>1 DEF Smaller
<1>3. \A i \in 1..Len(coll) : i <= Offset(p) + PageSize => i <= to
  BY <1>1 DEF Smaller
<1>4. \A i \in 1..Len(coll) : Offset(p) < i => from <= i
  BY <1>1
<1>w. Window(p) = w
  BY DEF Window
<1> HIDE DEF from, to
<1>5. /\ w \in Seq(RowIds)
      /\ Len(w) = IF from <= to THEN to - from + 1 ELSE 0
      /\ \A i \in 1..to - from + 1 : w[i] = coll[from + i - 1]
  <2>1. \A i \in from..to : coll[i] \in RowIds
    BY <1>1, <1>2
  <2> QED BY <1>2, <2>1, SubSeqProperties
<1> HIDE DEF w
<1>6. DOMAIN w = 1..Len(w) /\ Len(w) \in Nat
  BY <1>5, LenProperties
<1>7. ASSUME NEW i \in 1..Len(w) PROVE w[i] \in SetOf(coll)
  <2>1. i \in 1..to - from + 1 /\ from + i - 1 \in 1..Len(coll)
    BY <1>2, <1>5, <1>6, <1>1
  <2>2. w[i] = coll[from + i - 1]
    BY <1>5, <2>1
  <2> QED BY <1>1, <2>1, <2>2 DEF SetOf
<1>8. ASSUME NEW i \in 1..Len(coll), from <= i, i <= to PROVE coll[i] \in SetOf(w)
  <2>1. i - from + 1 \in 1..to - from + 1 /\ from + (i - from + 1) - 1 = i
    BY <1>2, <1>8
  <2>2. w[i - from + 1] = coll[i]
    BY <1>5, <2>1
  <2>3. i - from + 1 \in 1..Len(w)
    BY <1>2, <1>5, <1>8
  <2> QED BY <1>6, <2>2, <2>3 DEF SetOf
<1>9. SetOf(w) \subseteq SetOf(coll)
  BY <1>6, <1>7 DEF SetOf
<1> QED BY <1>3, <1>4, <1>5, <1>8, <1>9, <1>w

LEMMA AnswerFacts ==
  ASSUME coll \in Seq(RowIds), got \in Seq(RowIds), NEW p \in Nat, NEW a \in Answers(p),
         Len(coll) \in 0..Rows
  PROVE  /\ a.rows \in Seq(RowIds)
         /\ SetOf(a.rows) \subseteq SetOf(coll)
         /\ a.total \in 0..Rows
         /\ a.more \in BOOLEAN
         /\ Wrong(p, a) \subseteq {"rows", "total", "more"}
         /\ "rows" \notin Wrong(p, a) => a.rows = Window(p)
         /\ "total" \notin Wrong(p, a) => a.total = Len(coll)
         /\ "more" \notin Wrong(p, a) => a.more = (Offset(p) + PageSize < Len(coll))
<1>1. /\ a.rows \in {Window(p)} \cup {Window(q) : q \in {p - 1} \ {-1, 0}}
      /\ a.total \in {Len(coll), Smaller(Rows, Unique(got \o Window(p)))}
      /\ a.more \in BOOLEAN
  BY DEF Answers
<1>2. PICK q \in Nat : a.rows = Window(q)
  BY <1>1
<1>3. a.rows \in Seq(RowIds) /\ SetOf(a.rows) \subseteq SetOf(coll)
  BY <1>2, WindowFacts
<1>4. a.total \in 0..Rows
  <2>1. Window(p) \in Seq(RowIds)
    BY WindowFacts
  <2>2. got \o Window(p) \in Seq(RowIds)
    BY <2>1, ConcatProperties
  <2>3. Unique(got \o Window(p)) \in 0..Rows
    BY <2>2, CountFacts
  <2> QED BY <1>1, <2>3, WalkAssumption DEF Smaller, WalkAssumption
<1> QED BY <1>1, <1>3, <1>4 DEF Wrong

LEMMA ReaderFacts ==
  ASSUME NEW r \in Readers
  PROVE  /\ r.list.rule \in {"equal", "first"}
         /\ r.list.windowed => r # Doctor
         /\ r.shows \in {"all", "repeated", "failures"}
         /\ r.cutCode \in 0..2
         /\ r # Doctor => r.shows # "failures"
         /\ r # Doctor /\ r.list.rule = "first" => r.shows = "all"
         /\ r = Doctor => r.list.rule = "first" /\ r.shows = "failures"
<1> DEFINE AllLists == {PagesList, AccountsList, ProjectsList, SchedulesList, ProxiesList, WatermarksList,
                        SourceResourcesList, CrossPostingsList, NotificationsList, PostsList, SearchPostsList}
<1>1. \A l \in AllLists : l.rule \in {"equal", "first"}
  BY DEF PagesList, AccountsList, ProjectsList, SchedulesList, ProxiesList, WatermarksList,
         SourceResourcesList, CrossPostingsList, NotificationsList, PostsList, SearchPostsList
<1>2. SchedulesList.rule = "equal" /\ NotificationsList.rule = "first" /\ ~NotificationsList.windowed
  BY DEF SchedulesList, NotificationsList
<1>3. /\ CliSchedulesRepeated.list = SchedulesList /\ CliSchedulesRepeated.shows = "repeated"
      /\ CliSchedulesRepeated.cutCode = 2
  BY DEF CliSchedulesRepeated, Command
<1>4. Doctor.list = NotificationsList /\ Doctor.shows = "failures" /\ Doctor.cutCode = 2
  BY DEF Doctor, Command
<1>5. \A l \in AllLists : /\ Command(l).list = l /\ Command(l).shows = "all" /\ Command(l).cutCode = 2
                          /\ Tool(l).list = l /\ Tool(l).shows = "all" /\ Tool(l).cutCode = 0
  BY DEF Command, Tool
<1>6. \/ \E l \in AllLists : r = Command(l) \/ r = Tool(l)
      \/ r = CliSchedulesRepeated
      \/ r = Doctor
  BY DEF Readers, CliPages, CliAccounts, CliNotifications, CliProxies, CliWatermarks, CliPosts,
   CliSearchPosts, CliSourceResources, CliProjects, CliSchedules, CliCrossPostings, McpCrossPostings,
   McpAccounts, McpPages, McpPosts, McpProjects, McpSchedules, McpWatermarks,
   McpProxies, McpNotifications, McpSearchPosts, McpSourceResources
<1> HIDE DEF AllLists
<1>7. CASE \E l \in AllLists : r = Command(l) \/ r = Tool(l)
  <2>1. r.shows = "all" /\ r.cutCode \in 0..2 /\ r.list \in AllLists
    BY <1>5, <1>7
  <2>2. r # Doctor
    BY <1>4, <2>1
  <2> QED BY <1>1, <2>1, <2>2
<1>8. CASE r = CliSchedulesRepeated
  BY <1>2, <1>3, <1>4, <1>8
<1>9. CASE r = Doctor
  BY <1>2, <1>4, <1>9
<1> QED BY <1>6, <1>7, <1>8, <1>9

-----------------------------------------------------------------------------
(* The invariant.                                                          *)

(* Page 1 has been read and the walk is not given up. *)
Begun == (pc = "walk" /\ page > 1) \/ pc \in {"judge", "pages"}

ListOK ==
  /\ coll \in Seq(1..next - 1)
  /\ Once(coll)
  /\ next >= Old + 1

Stages ==
  /\ pc = "walk" => page >= 1
  /\ pc = "walk" /\ page = 1 => got = <<>>
  /\ cut => pc \in {"judge", "done"}
  /\ pc = "judge" /\ cut => reader.list.windowed
  /\ pc = "pages" => reader = Doctor
  /\ pc \in {"walk", "judge"} => ~short
  /\ pc # "done" => result = NoResult

(* What was read so far, and what the server still has. *)
Counted ==
  Begun =>
    /\ <<1, "total">> \notin lies => firstTotal = Cardinality(atFirst)
    /\ ~Lied({"total"}) => lastTotal = Cardinality(atLast)
    /\ ~Entered => SetOf(got) \cup SetOf(coll) \subseteq atFirst
    /\ gone = {} => SetOf(got) \subseteq SetOf(coll)
    /\ pc # "walk" /\ ~cut => atLast = SetOf(coll)
    /\ pc = "pages" => short = ~(Unique(got) >= firstTotal)

(* A row of the first page's list is read, or is past the pages read. *)
Ahead(r) == \E i \in 1..Len(coll) : i > Offset(page) /\ coll[i] = r

NothingSlipsBy ==
  (Begun /\ gone = {} /\ lies = {} /\ ~cut) =>
    \A r \in atFirst : r \in SetOf(got) \/ (pc = "walk" /\ Ahead(r))

WalkInv == WalkTypeOK /\ ListOK /\ Stages /\ Counted /\ NothingSlipsBy

ResultType ==
  [claims : {"nothing", "whole", "page", "cut", "report", "error"},
   code : 0..2, more : BOOLEAN, warned : BOOLEAN, rows : SUBSET RowIds]

-----------------------------------------------------------------------------
LEMMA InitInv == Init => WalkInv
<1> SUFFICES ASSUME Init PROVE WalkInv
  OBVIOUS
<1> USE WalkAssumption DEF WalkAssumption
<1>1. PICK S \in SUBSET (1..Old) : coll \in NewestFirst(S)
  BY DEF Init
<1>2. coll \in [1..Cardinality(S) -> S] /\ \A i, j \in DOMAIN coll : i < j => coll[i] > coll[j]
  BY <1>1 DEF NewestFirst
<1>3. Cardinality(S) \in Nat
  <2>1. IsFiniteSet(1..Old)
    BY FS_Interval
  <2> QED BY <2>1, FS_Subset, FS_CardinalityType
<1>4. coll \in Seq(S) /\ Len(coll) = Cardinality(S) /\ DOMAIN coll = 1..Len(coll)
  <2>1. coll \in Seq(S)
    BY <1>2, <1>3, SeqDef
  <2> QED BY <1>2, <1>3, <2>1, LenProperties
<1>5. coll \in Seq(1..next - 1) /\ coll \in Seq(RowIds)
  <2>1. S \subseteq 1..next - 1 /\ S \subseteq RowIds
    BY DEF Init, RowIds
  <2>2. coll \in [1..Cardinality(S) -> 1..next - 1] /\ coll \in [1..Cardinality(S) -> RowIds]
    BY <1>2, <2>1
  <2>3. \A T : coll \in [1..Cardinality(S) -> T] => coll \in Seq(T)
    BY <1>3, SeqDef
  <2> QED BY <2>2, <2>3
<1>6. Once(coll)
  <2>1. \A i \in 1..Len(coll) : coll[i] \in Int
    <3>1. \A i \in 1..Len(coll) : coll[i] \in S
      BY <1>2, <1>4
    <3>2. \A x \in S : x \in Int
      OBVIOUS
    <3> QED BY <3>1, <3>2
  <2>2. Len(coll) \in Nat
    BY <1>3, <1>4
  <2> QED BY <1>2, <1>4, <2>1, <2>2 DEF Once
<1>7. ListOK
  BY <1>5, <1>6 DEF Init, ListOK
<1>8. page \in 0..MaxPages /\ pc \in {"one", "walk"} /\ (pc = "walk" => page = 1)
  BY DEF Init
<1>9. result = NoResult /\ NoResult \in ResultType
  BY DEF Init, NoResult, ResultType
<1>10. got \in Seq(RowIds)
  BY DEF Init
<1>11. WalkTypeOK
  <2>1. reader \in Readers /\ next \in 1..Rows + 1
    BY DEF Init
  <2>2. /\ firstTotal \in 0..Rows /\ lastTotal \in 0..Rows /\ cut \in BOOLEAN /\ short \in BOOLEAN
        /\ atFirst \subseteq RowIds /\ atLast \subseteq RowIds /\ gone \subseteq RowIds
        /\ lies \subseteq (0..MaxPages) \X {"rows", "total", "more"}
    <3>1. 0 \in 0..Rows
      OBVIOUS
    <3> QED BY <3>1 DEF Init
  <2> HIDE DEF WalkAssumption
  <2> QED BY <1>5, <1>8, <1>9, <1>10, <2>1, <2>2 DEF WalkTypeOK, ResultType
<1>12. ~Begun
  BY <1>8 DEF Begun
<1>13. Stages
  BY <1>8, <1>9 DEF Stages, Init
<1> QED BY <1>7, <1>11, <1>12, <1>13 DEF WalkInv, Counted, NothingSlipsBy

(* The length of the list, and how many rows it holds. *)
LEMMA ListCount ==
  ASSUME WalkTypeOK, ListOK
  PROVE  /\ Len(coll) \in 0..Rows
         /\ Len(coll) = Cardinality(SetOf(coll))
         /\ SetOf(coll) \subseteq RowIds
BY CountFacts DEF WalkTypeOK, ListOK

-----------------------------------------------------------------------------
(* Steps that leave the walk alone after it has ended. *)

(* Nothing the invariant says about the list and the walk is touched. *)
LEMMA EndedStep ==
  ASSUME WalkInv, result' \in ResultType, pc' = "done",
         UNCHANGED <<reader, coll, next, page, firstTotal, lastTotal, gone>>,
         got' \in Seq(RowIds), cut' \in BOOLEAN, short' \in BOOLEAN,
         lies' \subseteq (0..MaxPages) \X {"rows", "total", "more"},
         atFirst' \subseteq RowIds, atLast' \subseteq RowIds
  PROVE  WalkInv'
<1>1. WalkTypeOK'
  BY DEF WalkInv, WalkTypeOK, ResultType
<1>2. ListOK'
  BY DEF WalkInv, ListOK, Once
<1>3. ~Begun'
  BY DEF Begun
<1>4. Stages'
  BY DEF Stages
<1> QED BY <1>1, <1>2, <1>3, <1>4 DEF WalkInv, Counted, NothingSlipsBy

LEMMA FailType ==
  ASSUME Fail PROVE result' \in ResultType /\ result'.claims = "error" /\ pc' = "done"
<1>1. result' = [claims |-> "error", code |-> 1, more |-> FALSE, warned |-> FALSE, rows |-> {}]
  BY DEF Fail, NoResult
<1>2. /\ "error" \in {"nothing", "whole", "page", "cut", "report", "error"}
      /\ 1 \in 0..2 /\ FALSE \in BOOLEAN /\ {} \in SUBSET RowIds
  OBVIOUS
<1>3. result' \in ResultType
  BY <1>1, <1>2 DEF ResultType
<1>4. result'.claims = "error"
  BY <1>1
<1> QED BY <1>3, <1>4 DEF Fail

LEMMA ShownType ==
  ASSUME WalkTypeOK
  PROVE  /\ Shown(reader) \subseteq SetOf(got)
         /\ SetOf(got) \subseteq RowIds
         /\ reader.shows = "all" => Shown(reader) = SetOf(got)
         /\ reader.shows = "repeated" => Shown(reader) = SetOf(got) \cap Repeated
         /\ reader.shows = "failures" => Shown(reader) = SetOf(got) \cap (Failed \cup Undated)
<1>1. reader.shows \in {"all", "repeated", "failures"}
  BY ReaderFacts DEF WalkTypeOK
<1>2. SetOf(got) \subseteq RowIds
  BY CountFacts DEF WalkTypeOK
<1> QED BY <1>1, <1>2 DEF Shown

LEMMA RowEntersInv == ASSUME WalkInv, RowEnters PROVE WalkInv'
<1> USE DEF RowEnters, BetweenPages, walk, past
<1>1. /\ coll \in Seq(1..next - 1) /\ coll \in Seq(RowIds) /\ next \in RowIds /\ Once(coll)
      /\ next \in Nat /\ next >= Old + 1 /\ Len(coll) \in Nat /\ next <= Rows
  <2>1. coll \in Seq(1..next - 1) /\ coll \in Seq(RowIds) /\ Once(coll) /\ next >= Old + 1
        /\ next \in 1..Rows + 1 /\ next <= Rows
    BY DEF WalkInv, WalkTypeOK, ListOK
  <2>2. next \in Nat /\ next \in 1..Rows
    BY <2>1, WalkAssumption DEF WalkAssumption
  <2> QED BY <2>1, <2>2, LenProperties DEF RowIds
<1>2. /\ coll' \in Seq(RowIds) /\ Len(coll') = Len(coll) + 1 /\ coll'[1] = next
      /\ \A i \in 1..Len(coll) : coll'[i + 1] = coll[i]
      /\ SetOf(coll') = SetOf(coll) \cup {next}
  <2>1. coll' = <<next>> \o coll
    OBVIOUS
  <2> HIDE DEF RowEnters
  <2> QED BY <1>1, <2>1, EnterFacts
<1>3. coll' \in Seq(1..next' - 1)
  <2>1. coll \in Seq(1..next) /\ next \in 1..next /\ next' - 1 = next
    <3>1. 1..next - 1 \subseteq 1..next
      BY <1>1
    <3>2. \A i \in 1..Len(coll) : coll[i] \in 1..next - 1
      BY <1>1, ElementOfSeq
    <3>3. coll \in [1..Len(coll) -> 1..next]
      BY <1>1, <3>1, <3>2, LenProperties
    <3>4. coll \in Seq(1..next)
      BY <1>1, <3>3, SeqDef
    <3>5. next' = next + 1
      OBVIOUS
    <3>6. next \in 1..next /\ next' - 1 = next
      BY <1>1, <3>5 DEF RowIds
    <3> QED BY <3>4, <3>6
  <2>2. coll' = <<next>> \o coll
    OBVIOUS
  <2>3. coll' \in Seq(1..next)
    BY <2>1, <2>2, EnterFacts
  <2> QED BY <2>1, <2>3
<1>4. Once(coll')
  <2>1. \A i \in 1..Len(coll) : coll[i] # next
    <3>1. \A i \in 1..Len(coll) : coll[i] \in 1..next - 1
      BY <1>1, ElementOfSeq
    <3> QED BY <1>1, <3>1
  <2>2. \A i \in 1..Len(coll') : i # 1 => i - 1 \in 1..Len(coll) /\ coll'[i] = coll[i - 1]
    <3> SUFFICES ASSUME NEW i \in 1..Len(coll'), i # 1
                 PROVE  i - 1 \in 1..Len(coll) /\ coll'[i] = coll[i - 1]
      OBVIOUS
    <3>1. i - 1 \in 1..Len(coll) /\ (i - 1) + 1 = i
      BY <1>1, <1>2
    <3> QED BY <1>2, <3>1
  <2> SUFFICES ASSUME NEW i \in 1..Len(coll'), NEW j \in 1..Len(coll'), coll'[i] = coll'[j]
               PROVE  i = j
    BY DEF Once
  <2>3. CASE i = 1 \/ j = 1
    BY <1>2, <2>1, <2>2, <2>3
  <2>4. CASE i # 1 /\ j # 1
    <3>1. i - 1 = j - 1
      BY <1>1, <2>2, <2>4 DEF Once
    <3> QED BY <1>1, <1>2, <3>1
  <2> QED BY <2>3, <2>4
<1>5. ListOK'
  <2>1. next' = next + 1
    OBVIOUS
  <2>2. next' >= Old + 1
    BY <1>1, <2>1, WalkAssumption DEF WalkAssumption
  <2> HIDE DEF RowEnters
  <2> QED BY <1>3, <1>4, <2>2 DEF ListOK
<1>6. WalkTypeOK'
  <2>1. next' \in 1..Rows + 1
    BY <1>1, WalkAssumption DEF WalkAssumption
  <2> QED BY <1>2, <2>1 DEF WalkInv, WalkTypeOK
<1>7. Stages'
  BY DEF WalkInv, Stages
<1>8. Begun /\ pc = "walk" /\ Entered'
  BY <1>1, WalkAssumption DEF Begun, Entered, WalkAssumption
<1>9. Counted'
  BY <1>2, <1>8 DEF WalkInv, Counted, Begun, Lied
<1>10. NothingSlipsBy'
  <2> SUFFICES ASSUME gone = {}, lies = {}, ~cut, NEW r \in atFirst, r \notin SetOf(got)
               PROVE  Ahead(r)'
    BY <1>8 DEF NothingSlipsBy
  <2>1. PICK i \in 1..Len(coll) : i > Offset(page) /\ coll[i] = r
    BY <1>8 DEF WalkInv, NothingSlipsBy, Ahead
  <2>2. Offset(page) \in Nat /\ Offset(page)' = Offset(page)
    BY OffsetFacts DEF WalkInv, WalkTypeOK, Offset
  <2>3. i + 1 \in 1..Len(coll') /\ i + 1 > Offset(page)' /\ coll'[i + 1] = r
    BY <1>1, <1>2, <2>1, <2>2
  <2> QED BY <2>3 DEF Ahead
<1> QED BY <1>5, <1>6, <1>7, <1>9, <1>10 DEF WalkInv

LEMMA RowLeavesInv == ASSUME WalkInv, RowLeaves PROVE WalkInv'
<1>1. PICK i \in DOMAIN coll :
        /\ coll' = SubSeq(coll, 1, i - 1) \o SubSeq(coll, i + 1, Len(coll))
        /\ gone' = gone \cup {coll[i]}
  BY DEF RowLeaves
<1>2. /\ coll \in Seq(RowIds) /\ coll \in Seq(1..next - 1) /\ Once(coll) /\ Len(coll) \in Nat
      /\ DOMAIN coll = 1..Len(coll)
  BY LenProperties DEF WalkInv, WalkTypeOK, ListOK
<1>3. /\ coll' \in Seq(RowIds) /\ Len(coll') = Len(coll) - 1
      /\ \A j \in 1..Len(coll) - 1 : coll'[j] = coll[IF j < i THEN j ELSE j + 1]
  <2> DEFINE t == SubSeq(coll, 1, i - 1) \o SubSeq(coll, i + 1, Len(coll))
  <2>1. i \in 1..Len(coll) /\ coll' = t
    BY <1>1, <1>2
  <2>2. /\ t \in Seq(RowIds) /\ Len(t) = Len(coll) - 1
        /\ \A j \in 1..Len(coll) - 1 : t[j] = coll[IF j < i THEN j ELSE j + 1]
    BY <1>2, <2>1, LeaveFacts
  <2> HIDE DEF t
  <2> QED BY <2>1, <2>2
<1>4. coll' \in Seq(1..next - 1)
  <2>1. i \in 1..Len(coll)
    BY <1>2
  <2>2. SubSeq(coll, 1, i - 1) \o SubSeq(coll, i + 1, Len(coll)) \in Seq(1..next - 1)
    BY <1>2, <2>1, LeaveFacts
  <2> QED BY <1>1, <2>2
<1>5. coll[i] \in RowIds /\ i \in 1..Len(coll)
  BY <1>1, <1>2, ElementOfSeq
<1>u. /\ UNCHANGED <<reader, pc, next, page, got, firstTotal, lastTotal, cut, short, result, atFirst, atLast, lies>>
      /\ pc = "walk" /\ page > 1
  BY DEF RowLeaves, walk, past, BetweenPages
<1>6. \A j \in 1..Len(coll') : /\ (IF j < i THEN j ELSE j + 1) \in 1..Len(coll)
                               /\ coll'[j] = coll[IF j < i THEN j ELSE j + 1]
  BY <1>2, <1>3, <1>5
<1>7. Once(coll')
  <2> SUFFICES ASSUME NEW j \in 1..Len(coll'), NEW k \in 1..Len(coll'), coll'[j] = coll'[k]
               PROVE  j = k
    BY DEF Once
  <2>1. (IF j < i THEN j ELSE j + 1) = (IF k < i THEN k ELSE k + 1)
    BY <1>2, <1>6 DEF Once
  <2> QED BY <1>2, <1>3, <1>5, <2>1
<1>8. SetOf(coll') \subseteq SetOf(coll)
  <2>1. DOMAIN coll' = 1..Len(coll')
    BY <1>3, LenProperties
  <2> QED BY <1>2, <1>6, <2>1 DEF SetOf
<1>9. ListOK'
  BY <1>4, <1>7, <1>u DEF WalkInv, ListOK
<1>10. WalkTypeOK'
  BY <1>1, <1>3, <1>5, <1>u DEF WalkInv, WalkTypeOK
<1>11. Stages'
  BY <1>u DEF WalkInv, Stages
<1>12. gone' # {}
  BY <1>1
<1>13. Counted'
  BY <1>8, <1>12, <1>u DEF WalkInv, Counted, Begun, Lied, Entered
<1>14. NothingSlipsBy'
  BY <1>12 DEF NothingSlipsBy
<1> QED BY <1>9, <1>10, <1>11, <1>13, <1>14 DEF WalkInv

(* One page of the walk. *)
LEMMA ReadPageInv == ASSUME WalkInv, ReadPage PROVE WalkInv'
<1>1. PICK a \in Answers(page) :
       /\ lies' = lies \cup ({page} \X Wrong(page, a))
       /\ got' = got \o a.rows
       /\ firstTotal' = IF page = 1 THEN a.total ELSE firstTotal
       /\ lastTotal' = a.total
       /\ atFirst' = IF page = 1 THEN SetOf(coll) ELSE atFirst
       /\ atLast' = SetOf(coll)
       /\ \/ /\ ~WalkGoesOn(a)
             /\ pc' = "judge"
             /\ UNCHANGED <<page, result>>
          \/ /\ WalkGoesOn(a)
             /\ ~GivesUp
             /\ page' = page + 1
             /\ UNCHANGED <<pc, result>>
          \/ /\ WalkGoesOn(a)
             /\ GivesUp
             /\ result' = [NoResult EXCEPT !.claims = "error", !.code = 1]
             /\ pc' = "done"
             /\ UNCHANGED page
  BY DEF ReadPage
<1>u. pc = "walk" /\ UNCHANGED <<reader, coll, next, cut, short, gone>>
  BY DEF ReadPage
<1>2. /\ WalkTypeOK /\ ListOK /\ Stages /\ Counted /\ NothingSlipsBy
      /\ page \in 1..MaxPages /\ page \in Nat \ {0}
      /\ coll \in Seq(RowIds) /\ got \in Seq(RowIds)
  <2>1. page \in 0..MaxPages /\ page >= 1
    BY <1>u DEF WalkInv, WalkTypeOK, Stages
  <2> QED BY <2>1, WalkAssumption DEF WalkInv, WalkTypeOK, WalkAssumption
<1>3. Len(coll) \in 0..Rows /\ Len(coll) = Cardinality(SetOf(coll)) /\ SetOf(coll) \subseteq RowIds
  BY <1>2, ListCount
<1>4. /\ a.rows \in Seq(RowIds)
      /\ SetOf(a.rows) \subseteq SetOf(coll)
      /\ a.total \in 0..Rows
      /\ a.more \in BOOLEAN
      /\ Wrong(page, a) \subseteq {"rows", "total", "more"}
      /\ "rows" \notin Wrong(page, a) => a.rows = Window(page)
      /\ "total" \notin Wrong(page, a) => a.total = Len(coll)
      /\ "more" \notin Wrong(page, a) => a.more = (Offset(page) + PageSize < Len(coll))
  BY <1>2, <1>3, AnswerFacts
<1>5. got' \in Seq(RowIds) /\ SetOf(got') = SetOf(got) \cup SetOf(a.rows)
  BY <1>1, <1>2, <1>4, SetOfConcat
<1>6. /\ lies' \subseteq (0..MaxPages) \X {"rows", "total", "more"}
      /\ firstTotal' \in 0..Rows /\ lastTotal' \in 0..Rows
      /\ atFirst' \subseteq RowIds /\ atLast' \subseteq RowIds
  BY <1>1, <1>2, <1>3, <1>4 DEF WalkTypeOK
<1>7. page = 1 => got = <<>> /\ SetOf(got) = {}
  BY <1>2, <1>u DEF Stages, SetOf
<1>8. ListOK'
  BY <1>2, <1>u DEF ListOK
<1>9. CASE pc' = "done"
  <2>1. result' = [NoResult EXCEPT !.claims = "error", !.code = 1]
    BY <1>1, <1>9, <1>u
  <2>2. result' \in ResultType
    BY <1>9, <2>1, FailType DEF Fail
  <2>3. WalkTypeOK'
    <3>1. page' = page
      BY <1>1, <1>9, <1>u
    <3> QED BY <1>2, <1>5, <1>6, <1>9, <1>u, <2>2, <3>1 DEF WalkTypeOK, ResultType
  <2>4. ~Begun' /\ Stages'
    BY <1>9, <1>2, <1>u DEF Begun, Stages
  <2> QED BY <1>8, <2>3, <2>4 DEF WalkInv, Counted, NothingSlipsBy
<1>10. CASE pc' # "done"
  <2>1. \/ pc' = "judge" /\ page' = page /\ ~a.more
        \/ pc' = "walk" /\ page' = page + 1 /\ page' \in 1..MaxPages /\ a.more
    <3>1. CASE ~WalkGoesOn(a) /\ pc' = "judge" /\ UNCHANGED <<page, result>>
      BY <3>1, <1>4 DEF WalkGoesOn
    <3>2. CASE WalkGoesOn(a) /\ ~GivesUp /\ page' = page + 1 /\ UNCHANGED <<pc, result>>
      <4>1. page # MaxPages /\ page' = page + 1
        BY <3>2 DEF GivesUp
      <4>2. page' \in 1..MaxPages
        BY <1>2, <4>1, WalkAssumption DEF WalkAssumption
      <4> QED BY <3>2, <4>2, <1>u DEF WalkGoesOn
    <3> QED BY <1>1, <1>10, <3>1, <3>2
  <2>2. result' = result
    BY <1>1, <1>10
  <2>3. Begun' /\ page' \in 0..MaxPages /\ page' >= 1
    BY <2>1, <1>2 DEF Begun
  <2>4. WalkTypeOK'
    BY <1>2, <1>5, <1>6, <1>u, <2>1, <2>2, <2>3 DEF WalkTypeOK
  <2>5. Stages'
    BY <1>2, <1>u, <2>1, <2>2 DEF Stages
  <2>6. <<1, "total">> \notin lies' => firstTotal' = Cardinality(atFirst')
    <3> SUFFICES ASSUME <<1, "total">> \notin lies' PROVE firstTotal' = Cardinality(atFirst')
      OBVIOUS
    <3>1. CASE page = 1
      <4>1. "total" \notin Wrong(page, a)
        BY <1>1, <3>1
      <4> QED BY <1>1, <1>3, <1>4, <3>1, <4>1
    <3>2. CASE page # 1
      <4>1. Begun /\ <<1, "total">> \notin lies
        BY <1>1, <1>2, <1>u, <3>2 DEF Begun
      <4> QED BY <1>1, <1>2, <3>2, <4>1 DEF Counted
    <3> QED BY <3>1, <3>2
  <2>7. ~Lied({"total"})' => lastTotal' = Cardinality(atLast')
    <3> SUFFICES ASSUME ~Lied({"total"})' PROVE lastTotal' = Cardinality(atLast')
      OBVIOUS
    <3>1. "total" \notin Wrong(page, a)
      <4> SUFFICES ASSUME "total" \in Wrong(page, a) PROVE FALSE
        OBVIOUS
      <4>1. <<page, "total">> \in lies'
        BY <1>1
      <4> QED BY <4>1 DEF Lied
    <3> QED BY <1>1, <1>3, <1>4, <3>1
  <2>8. ~Entered' => SetOf(got') \cup SetOf(coll') \subseteq atFirst'
    <3> SUFFICES ASSUME ~Entered PROVE SetOf(got') \cup SetOf(coll') \subseteq atFirst'
      BY <1>u DEF Entered
    <3>1. CASE page = 1
      BY <1>1, <1>4, <1>5, <1>7, <1>u, <3>1
    <3>2. CASE page # 1
      <4>1. Begun
        BY <1>2, <1>u, <3>2 DEF Begun
      <4> QED BY <1>1, <1>2, <1>4, <1>5, <1>u, <3>2, <4>1 DEF Counted
    <3> QED BY <3>1, <3>2
  <2>9. gone' = {} => SetOf(got') \subseteq SetOf(coll')
    <3>1. CASE page = 1
      BY <1>4, <1>5, <1>7, <1>u, <3>1
    <3>2. CASE page # 1
      <4>1. Begun
        BY <1>2, <1>u, <3>2 DEF Begun
      <4> QED BY <1>2, <1>4, <1>5, <1>u, <4>1 DEF Counted
    <3> QED BY <3>1, <3>2
  <2>10. Counted'
    BY <1>1, <1>u, <2>1, <2>6, <2>7, <2>8, <2>9 DEF Counted
  <2>11. NothingSlipsBy'
    <3> SUFFICES ASSUME gone' = {}, lies' = {}, NEW r \in atFirst', r \notin SetOf(got')
                 PROVE  pc' = "walk" /\ Ahead(r)'
      BY DEF NothingSlipsBy
    <3>1. Wrong(page, a) = {} /\ lies = {}
      <4>1. ASSUME NEW f \in Wrong(page, a) PROVE FALSE
        <5>1. <<page, f>> \in {page} \X Wrong(page, a)
          OBVIOUS
        <5>2. {page} \X Wrong(page, a) \subseteq lies'
          BY <1>1
        <5> QED BY <5>1, <5>2
      <4> QED BY <1>1, <4>1
    <3>2. a.rows = Window(page) /\ a.more = (Offset(page) + PageSize < Len(coll))
      BY <1>4, <3>1
    <3>3. ~cut
      BY <1>2, <1>u DEF Stages
    <3>4. PICK i \in 1..Len(coll) : i > Offset(page) /\ coll[i] = r
      <4>1. CASE page = 1
        <5>1. r \in SetOf(coll)
          BY <1>1, <4>1
        <5>2. Offset(page) = 0 /\ DOMAIN coll = 1..Len(coll)
          BY <1>2, <4>1, OffsetFacts, LenProperties
        <5> QED BY <5>1, <5>2 DEF SetOf
      <4>2. CASE page # 1
        <5>1. Begun
          BY <1>2, <1>u, <4>2 DEF Begun
        <5>2. r \in atFirst /\ r \notin SetOf(got) /\ gone = {}
          BY <1>1, <1>5, <1>u, <4>2
        <5> QED BY <1>2, <3>1, <3>3, <5>1, <5>2 DEF NothingSlipsBy, Ahead
      <4> QED BY <4>1, <4>2
    <3>5. ~(i <= Offset(page) + PageSize)
      <4>1. i <= Offset(page) + PageSize => r \in SetOf(Window(page))
        BY <1>2, <3>4, WindowFacts
      <4> QED BY <1>5, <3>2, <4>1
    <3>6. Offset(page) \in Nat /\ Offset(page + 1) = Offset(page) + PageSize /\ PageSize \in Nat
      BY <1>2, OffsetFacts, WalkAssumption DEF WalkAssumption
    <3>7. i > Offset(page + 1) /\ Len(coll) > Offset(page) + PageSize
      BY <1>3, <3>5, <3>6
    <3>8. pc' = "walk" /\ page' = page + 1
      BY <2>1, <3>2, <3>6, <3>7, <1>3
    <3>9. Offset(page)' = Offset(page + 1)
      BY <3>8 DEF Offset
    <3> QED BY <1>u, <3>4, <3>7, <3>8, <3>9 DEF Ahead
  <2> QED BY <1>8, <2>4, <2>5, <2>10, <2>11 DEF WalkInv
<1> QED BY <1>9, <1>10

LEMMA PageFailsInv == ASSUME WalkInv, PageFails PROVE WalkInv'
<1>1. result' \in ResultType /\ pc' = "done"
  BY FailType DEF PageFails
<1>2. UNCHANGED <<reader, coll, next, page, got, firstTotal, lastTotal, cut, short, atFirst, atLast, gone, lies>>
  BY DEF PageFails, walk, past
<1> QED BY <1>1, <1>2, EndedStep DEF WalkInv, WalkTypeOK

LEMMA WindowRefusedInv == ASSUME WalkInv, WindowRefused PROVE WalkInv'
<1>1. /\ UNCHANGED <<reader, coll, next, page, got, firstTotal, lastTotal, short, result, atFirst, atLast, gone, lies>>
      /\ pc = "walk" /\ pc' = "judge" /\ cut' = TRUE /\ reader.list.windowed /\ got # <<>>
  BY DEF WindowRefused, past
<1>2. WalkTypeOK'
  BY <1>1 DEF WalkInv, WalkTypeOK
<1>3. ListOK'
  BY <1>1 DEF WalkInv, ListOK
<1>4. Stages'
  BY <1>1 DEF WalkInv, Stages
<1>5. Begun
  <2>1. page \in 0..MaxPages /\ page >= 1 /\ page # 1
    BY <1>1 DEF WalkInv, WalkTypeOK, Stages
  <2> QED BY <1>1, <2>1, WalkAssumption DEF Begun, WalkAssumption
<1>6. Counted'
  BY <1>1, <1>5 DEF WalkInv, Counted, Lied, Entered
<1>7. NothingSlipsBy'
  BY <1>1 DEF NothingSlipsBy
<1> QED BY <1>2, <1>3, <1>4, <1>6, <1>7 DEF WalkInv

LEMMA JudgeWholeInv == ASSUME WalkInv, JudgeWhole PROVE WalkInv'
<1>1. result' = [NoResult EXCEPT !.claims = "whole", !.rows = Shown(reader)] /\ pc' = "done"
  BY DEF JudgeWhole
<1>2. UNCHANGED <<reader, coll, next, page, got, firstTotal, lastTotal, cut, short, atFirst, atLast, gone, lies>>
  BY DEF JudgeWhole, walk, past
<1>3. Shown(reader) \in SUBSET RowIds
  BY ShownType DEF WalkInv
<1>4. result' \in ResultType
  <2>1. result' = [claims |-> "whole", code |-> 0, more |-> FALSE, warned |-> FALSE, rows |-> Shown(reader)]
    BY <1>1 DEF NoResult
  <2> QED BY <1>3, <2>1 DEF ResultType
<1> QED BY <1>1, <1>2, <1>4, EndedStep DEF WalkInv, WalkTypeOK

LEMMA JudgeShortInv == ASSUME WalkInv, JudgeShort PROVE WalkInv'
<1>1. result' \in ResultType /\ pc' = "done"
  BY FailType DEF JudgeShort
<1>2. UNCHANGED <<reader, coll, next, page, got, firstTotal, lastTotal, cut, short, atFirst, atLast, gone, lies>>
  BY DEF JudgeShort, walk, past
<1> QED BY <1>1, <1>2, EndedStep DEF WalkInv, WalkTypeOK

LEMMA CutResultFacts ==
  ASSUME WalkTypeOK
  PROVE  /\ CutResult \in ResultType
         /\ CutResult = [claims |-> "cut", code |-> reader.cutCode, more |-> TRUE, warned |-> TRUE,
                         rows |-> SetOf(got)]
<1>1. CutResult = [claims |-> "cut", code |-> reader.cutCode, more |-> TRUE, warned |-> TRUE,
                   rows |-> SetOf(got)]
  <2> DEFINE c == reader.cutCode
             R == SetOf(got)
  <2>1. CutResult = [NoResult EXCEPT !.claims = "cut", !.code = c, !.more = TRUE, !.warned = TRUE, !.rows = R]
    BY DEF CutResult
  <2> HIDE DEF c, R
  <2>2. CutResult = [claims |-> "cut", code |-> c, more |-> TRUE, warned |-> TRUE, rows |-> R]
    BY <2>1 DEF NoResult
  <2> QED BY <2>2 DEF c, R
<1>2. reader.cutCode \in 0..2 /\ SetOf(got) \in SUBSET RowIds
  BY ReaderFacts, ShownType DEF WalkTypeOK
<1> QED BY <1>1, <1>2 DEF ResultType

LEMMA JudgeCutInv == ASSUME WalkInv, JudgeCut PROVE WalkInv'
<1>1. result' = CutResult /\ pc' = "done"
  BY DEF JudgeCut
<1>2. UNCHANGED <<reader, coll, next, page, got, firstTotal, lastTotal, cut, short, atFirst, atLast, gone, lies>>
  BY DEF JudgeCut, walk, past
<1> QED BY <1>1, <1>2, CutResultFacts, EndedStep DEF WalkInv, WalkTypeOK

LEMMA ReadOnePageInv == ASSUME WalkInv, ReadOnePage PROVE WalkInv'
<1>1. PICK a \in Answers(page) :
        /\ lies' = {page} \X Wrong(page, a)
        /\ got' = a.rows
        /\ result' = [NoResult EXCEPT !.claims = "page", !.more = a.more, !.rows = SetOf(a.rows),
                                       !.warned = a.more /\ ~reader.tool]
  BY DEF ReadOnePage
<1>2. pc' = "done" /\ UNCHANGED <<reader, coll, next, page, firstTotal, lastTotal, cut, short, atFirst, atLast, gone>>
  BY DEF ReadOnePage
<1>3. /\ page \in 0..MaxPages /\ page \in Nat /\ coll \in Seq(RowIds) /\ got \in Seq(RowIds)
      /\ Len(coll) \in 0..Rows /\ SetOf(coll) \subseteq RowIds
  <2>1. page \in 0..MaxPages
    BY DEF WalkInv, WalkTypeOK
  <2> QED BY <2>1, ListCount, WalkAssumption DEF WalkInv, WalkTypeOK, WalkAssumption
<1>4. /\ a.rows \in Seq(RowIds) /\ SetOf(a.rows) \subseteq RowIds /\ a.more \in BOOLEAN
      /\ Wrong(page, a) \subseteq {"rows", "total", "more"}
  BY <1>3, AnswerFacts
<1>5. result' \in ResultType
  <2> DEFINE w == a.more /\ ~reader.tool
             m == a.more
             R == SetOf(a.rows)
  <2>1. w \in BOOLEAN /\ m \in BOOLEAN /\ R \in SUBSET RowIds
    BY <1>4
  <2>2. result' = [NoResult EXCEPT !.claims = "page", !.more = m, !.rows = R, !.warned = w]
    BY <1>1
  <2> HIDE DEF w, m, R
  <2>3. result' = [claims |-> "page", code |-> 0, more |-> m, warned |-> w, rows |-> R]
    BY <2>2 DEF NoResult
  <2> QED BY <2>1, <2>3 DEF ResultType
<1>6. lies' \subseteq (0..MaxPages) \X {"rows", "total", "more"}
  BY <1>1, <1>3, <1>4
<1> QED BY <1>1, <1>2, <1>4, <1>5, <1>6, EndedStep DEF WalkInv, WalkTypeOK

LEMMA DoctorNotificationsInv == ASSUME WalkInv, DoctorNotifications PROVE WalkInv'
<1>1. /\ UNCHANGED <<reader, coll, next, page, got, firstTotal, lastTotal, cut, result, atFirst, atLast, gone, lies>>
      /\ pc = "judge" /\ pc' = "pages" /\ reader = Doctor /\ short' = ~LooksWhole(reader)
  BY DEF DoctorNotifications, past
<1>2. LooksWhole(reader) = (Unique(got) >= firstTotal)
  <2>1. reader.list.rule = "first"
    BY <1>1, ReaderFacts DEF WalkInv, WalkTypeOK
  <2> QED BY <2>1 DEF LooksWhole, FirstTotalHolds
<1>3. WalkTypeOK'
  BY <1>1, <1>2 DEF WalkInv, WalkTypeOK
<1>4. ListOK'
  BY <1>1 DEF WalkInv, ListOK
<1>5. ~cut
  BY <1>1, ReaderFacts DEF WalkInv, WalkTypeOK, Stages
<1>6. Stages'
  BY <1>1, <1>5 DEF WalkInv, Stages
<1>7. Counted'
  BY <1>1, <1>2 DEF WalkInv, Counted, Begun, Lied, Entered
<1>8. NothingSlipsBy'
  BY <1>1 DEF WalkInv, NothingSlipsBy, Begun
<1> QED BY <1>3, <1>4, <1>6, <1>7, <1>8 DEF WalkInv

LEMMA DoctorReportsInv == ASSUME WalkInv, DoctorReports PROVE WalkInv'
<1>1. PICK b \in BOOLEAN :
        /\ short' = (short \/ b)
        /\ result' = [NoResult EXCEPT !.claims = "report", !.code = IF Signs(short \/ b) THEN 1 ELSE 0,
                                      !.warned = short \/ b, !.rows = Shown(reader)]
  BY DEF DoctorReports
<1>2. pc' = "done" /\ UNCHANGED <<reader, coll, next, page, got, firstTotal, lastTotal, cut, atFirst, atLast, gone, lies>>
  BY DEF DoctorReports, past
<1>3. result' \in ResultType
  <2> DEFINE w == short \/ b
             c == IF Signs(short \/ b) THEN 1 ELSE 0
             R == Shown(reader)
  <2>1. w \in BOOLEAN /\ c \in 0..2 /\ R \in SUBSET RowIds
    BY ShownType DEF WalkInv, WalkTypeOK
  <2>2. result' = [NoResult EXCEPT !.claims = "report", !.code = c, !.warned = w, !.rows = R]
    BY <1>1
  <2> HIDE DEF w, c, R
  <2>3. result' = [claims |-> "report", code |-> c, more |-> FALSE, warned |-> w, rows |-> R]
    BY <2>2 DEF NoResult
  <2> QED BY <2>1, <2>3 DEF ResultType
<1>4. short' \in BOOLEAN
  BY <1>1 DEF WalkInv, WalkTypeOK
<1> QED BY <1>2, <1>3, <1>4, EndedStep DEF WalkInv, WalkTypeOK

LEMMA NextInv == WalkInv /\ [Next]_vars => WalkInv'
<1> SUFFICES ASSUME WalkInv, [Next]_vars PROVE WalkInv'
  OBVIOUS
<1>1. CASE RowEnters BY <1>1, RowEntersInv
<1>2. CASE RowLeaves BY <1>2, RowLeavesInv
<1>3. CASE ReadPage BY <1>3, ReadPageInv
<1>4. CASE PageFails BY <1>4, PageFailsInv
<1>5. CASE WindowRefused BY <1>5, WindowRefusedInv
<1>6. CASE JudgeWhole BY <1>6, JudgeWholeInv
<1>7. CASE JudgeShort BY <1>7, JudgeShortInv
<1>8. CASE JudgeCut BY <1>8, JudgeCutInv
<1>9. CASE ReadOnePage BY <1>9, ReadOnePageInv
<1>10. CASE DoctorNotifications BY <1>10, DoctorNotificationsInv
<1>11. CASE DoctorReports BY <1>11, DoctorReportsInv
<1>12. CASE UNCHANGED vars
  <2>1. UNCHANGED <<reader, pc, coll, next, page, got, firstTotal, lastTotal, cut, short, result,
                    atFirst, atLast, gone, lies>>
    BY <1>12 DEF vars, walk, past
  <2>2. WalkTypeOK'
    BY <2>1 DEF WalkInv, WalkTypeOK
  <2>3. ListOK' /\ Stages'
    BY <2>1 DEF WalkInv, ListOK, Stages
  <2>4. Counted'
    BY <2>1 DEF WalkInv, Counted, Begun, Lied, Entered
  <2>5. NothingSlipsBy'
    <3>1. \A r : Ahead(r)' = Ahead(r)
      BY <2>1 DEF Ahead, Offset
    <3> QED BY <2>1, <3>1 DEF WalkInv, NothingSlipsBy, Begun
  <2> QED BY <2>2, <2>3, <2>4, <2>5 DEF WalkInv
<1> QED
  BY <1>1, <1>2, <1>3, <1>4, <1>5, <1>6, <1>7, <1>8, <1>9, <1>10, <1>11, <1>12 DEF Next, Returned

-----------------------------------------------------------------------------
(* What a reader may conclude.                                             *)

(* The rows read by a walk that looks whole are all those of page 1, when  *)
(* nothing came after it and its total was right.                          *)
LEMMA WholeWhenQuiet ==
  ASSUME WalkInv, Begun, ~Entered, <<1, "total">> \notin lies, Unique(got) >= firstTotal
  PROVE  SetOf(got) = atFirst
<1>1. got \in Seq(RowIds) /\ atFirst \in SUBSET RowIds
  BY DEF WalkInv, WalkTypeOK
<1>2. SetOf(got) \subseteq atFirst /\ firstTotal = Cardinality(atFirst)
  BY DEF WalkInv, Counted
<1> QED BY <1>1, <1>2, SameSize

(* The rows read by a walk that the equality rule accepts are those of the *)
(* list at its last page, when none has left it.                           *)
LEMMA WholeWhenEqual ==
  ASSUME WalkInv, pc = "judge", ~cut, gone = {}, ~Lied({"total"}), Unique(got) = lastTotal
  PROVE  SetOf(got) = atLast
<1>1. got \in Seq(RowIds) /\ atLast \in SUBSET RowIds
  BY DEF WalkInv, WalkTypeOK
<1>2. SetOf(got) \subseteq atLast /\ lastTotal = Cardinality(atLast)
  BY DEF WalkInv, Counted, Begun
<1>3. Unique(got) >= Cardinality(atLast)
  <2>1. Unique(got) \in Nat
    BY <1>1, CountFacts, WalkAssumption DEF WalkAssumption
  <2> QED BY <1>2, <2>1
<1> QED BY <1>1, <1>2, <1>3, SameSize

Sound == TruncationIsRefused /\ EqualityIsExact /\ CutIsNeverWhole /\ QuietDoctorMeansNoFailures

LEMMA SoundWithoutClaim ==
  ASSUME result.claims \notin {"whole", "report"}, ~(pc = "done" /\ cut)
  PROVE  Sound
BY DEF Sound, TruncationIsRefused, EqualityIsExact, CutIsNeverWhole, QuietDoctorMeansNoFailures

LEMMA JudgeWholeSound == ASSUME WalkInv, JudgeWhole PROVE Sound'
<1>1. result' = [NoResult EXCEPT !.claims = "whole", !.rows = Shown(reader)]
  BY DEF JudgeWhole
<1>2. /\ UNCHANGED <<reader, coll, next, page, got, firstTotal, lastTotal, cut, short, atFirst, atLast, gone, lies>>
      /\ pc = "judge" /\ reader # Doctor /\ ~cut /\ LooksWhole(reader)
  BY DEF JudgeWhole, walk, past
<1>3. result'.claims = "whole" /\ result'.rows = Shown(reader)
  BY <1>1 DEF NoResult
<1>4. reader \in Readers /\ reader.shows \in {"all", "repeated"}
  BY <1>2, ReaderFacts DEF WalkInv, WalkTypeOK
<1>5. TruncationIsRefused'
  <2> SUFFICES ASSUME reader.list.rule = "first", ~Entered, <<1, "total">> \notin lies
               PROVE  atFirst \subseteq result'.rows
    BY <1>2 DEF TruncationIsRefused, Entered
  <2>1. Unique(got) >= firstTotal
    BY <1>2 DEF LooksWhole, FirstTotalHolds
  <2>2. SetOf(got) = atFirst
    BY <1>2, <2>1, WholeWhenQuiet DEF Begun
  <2>3. reader.shows = "all"
    BY <1>2, <1>4, ReaderFacts
  <2> QED BY <1>3, <2>2, <2>3, ShownType DEF WalkInv
<1>6. EqualityIsExact'
  <2> SUFFICES ASSUME reader.list.rule = "equal", gone = {}, ~Lied({"total"})
               PROVE  result'.rows = IF reader.shows = "repeated" THEN atLast \cap Repeated ELSE atLast
    BY <1>2 DEF EqualityIsExact, Lied
  <2>1. Unique(got) = lastTotal
    BY <1>2 DEF LooksWhole, EqualityHolds
  <2>2. SetOf(got) = atLast
    BY <1>2, <2>1, WholeWhenEqual
  <2> QED BY <1>3, <1>4, <2>2, ShownType DEF WalkInv
<1>7. CutIsNeverWhole' /\ QuietDoctorMeansNoFailures'
  BY <1>2, <1>3 DEF CutIsNeverWhole, QuietDoctorMeansNoFailures
<1> QED BY <1>5, <1>6, <1>7 DEF Sound

LEMMA DoctorReportsSound == ASSUME WalkInv, DoctorReports PROVE Sound'
<1>1. PICK b \in BOOLEAN :
        result' = [NoResult EXCEPT !.claims = "report", !.code = IF Signs(short \/ b) THEN 1 ELSE 0,
                                   !.warned = short \/ b, !.rows = Shown(reader)]
  BY DEF DoctorReports
<1>2. pc = "pages" /\ UNCHANGED <<reader, next, got, firstTotal, cut, atFirst, atLast, gone, lies>>
  BY DEF DoctorReports, past
<1>3. result'.claims = "report" /\ result'.code = IF Signs(short \/ b) THEN 1 ELSE 0
  <2> DEFINE w == short \/ b
             c == IF Signs(short \/ b) THEN 1 ELSE 0
             R == Shown(reader)
  <2>1. result' = [NoResult EXCEPT !.claims = "report", !.code = c, !.warned = w, !.rows = R]
    BY <1>1
  <2> HIDE DEF w, c, R
  <2>2. result'.claims = "report" /\ result'.code = c
    BY <2>1 DEF NoResult
  <2> QED BY <2>2 DEF c
<1>4. ~cut
  BY <1>2 DEF WalkInv, Stages
<1>5. QuietDoctorMeansNoFailures'
  <2> SUFFICES ASSUME result'.code = 0, ~Entered, <<1, "total">> \notin lies
               PROVE  atFirst \cap (Failed \cup Undated) = {}
    BY <1>2 DEF QuietDoctorMeansNoFailures, Entered
  <2>1. ~Signs(short \/ b)
    BY <1>3
  <2>2. SetOf(got) \cap (Failed \cup Undated) = {} /\ ~short
    BY <2>1 DEF Signs
  <2>3. Unique(got) >= firstTotal
    BY <1>2, <2>2 DEF WalkInv, Counted, Begun
  <2>4. SetOf(got) = atFirst
    BY <1>2, <2>3, WholeWhenQuiet DEF Begun
  <2> QED BY <2>2, <2>4
<1>6. TruncationIsRefused' /\ EqualityIsExact' /\ CutIsNeverWhole'
  BY <1>2, <1>3, <1>4 DEF TruncationIsRefused, EqualityIsExact, CutIsNeverWhole
<1> QED BY <1>5, <1>6 DEF Sound

LEMMA JudgeCutSound == ASSUME WalkInv, JudgeCut PROVE Sound'
<1>1. result' = CutResult /\ UNCHANGED <<reader, got>>
  BY DEF JudgeCut, walk
<1>2. /\ result'.claims = "cut" /\ result'.more /\ result'.warned
      /\ result'.code = reader.cutCode /\ result'.rows = SetOf(got)
  BY <1>1, CutResultFacts DEF WalkInv
<1>3. TruncationIsRefused' /\ EqualityIsExact' /\ QuietDoctorMeansNoFailures'
  BY <1>2 DEF TruncationIsRefused, EqualityIsExact, QuietDoctorMeansNoFailures
<1>4. CutIsNeverWhole'
  BY <1>1, <1>2 DEF CutIsNeverWhole
<1> QED BY <1>3, <1>4 DEF Sound

LEMMA NextSound == ASSUME WalkInv, WalkInv', Sound, [Next]_vars PROVE Sound'
<1>1. CASE pc' # "done"
  <2>1. result' = NoResult
    BY <1>1 DEF WalkInv, Stages
  <2>2. result'.claims = "nothing"
    BY <2>1 DEF NoResult
  <2> QED BY <1>1, <2>2 DEF Sound, TruncationIsRefused, EqualityIsExact, CutIsNeverWhole, QuietDoctorMeansNoFailures
<1>2. CASE pc = "done"
  <2>1. UNCHANGED vars
    BY <1>2 DEF Next, Returned, RowEnters, RowLeaves, BetweenPages, ReadPage, PageFails, WindowRefused, JudgeWhole,
      JudgeShort, JudgeCut, ReadOnePage, DoctorNotifications, DoctorReports
  <2> QED
    BY <2>1 DEF vars, walk, past, Sound, TruncationIsRefused, EqualityIsExact, CutIsNeverWhole,
      QuietDoctorMeansNoFailures, Entered, Lied
<1>3. CASE pc # "done" /\ pc' = "done"
  <2> DEFINE Silent == result'.claims \notin {"whole", "report"} /\ ~cut'
  <2>0. Silent => Sound'
    BY DEF Sound, TruncationIsRefused, EqualityIsExact, CutIsNeverWhole, QuietDoctorMeansNoFailures
  <2>1. CASE ReadPage
    <3>1. Fail
      BY <2>1, <1>3 DEF ReadPage, Fail
    <3>2. ~cut'
      BY <2>1 DEF ReadPage, WalkInv, Stages
    <3> QED BY <2>0, <3>1, <3>2, FailType
  <2>2. CASE PageFails
    <3>1. ~cut'
      BY <2>2 DEF PageFails, WalkInv, Stages, walk
    <3> QED BY <2>0, <2>2, <3>1, FailType DEF PageFails
  <2>3. CASE JudgeShort
    <3>1. ~cut'
      BY <2>3 DEF JudgeShort, walk
    <3> QED BY <2>0, <2>3, <3>1, FailType DEF JudgeShort
  <2>4. CASE ReadOnePage
    <3>1. PICK a \in Answers(page) :
            result' = [NoResult EXCEPT !.claims = "page", !.more = a.more, !.rows = SetOf(a.rows),
                                       !.warned = a.more /\ ~reader.tool]
      BY <2>4 DEF ReadOnePage
    <3>2. result'.claims = "page"
      BY <3>1 DEF NoResult
    <3>3. ~cut'
      BY <2>4 DEF ReadOnePage, WalkInv, Stages
    <3> QED BY <2>0, <3>2, <3>3
  <2>5. ~(RowEnters \/ RowLeaves \/ WindowRefused \/ DoctorNotifications \/ Returned \/ UNCHANGED vars)
    BY <1>3 DEF RowEnters, RowLeaves, BetweenPages, WindowRefused, DoctorNotifications, Returned, vars
  <2> QED
    BY <2>1, <2>2, <2>3, <2>4, <2>5, JudgeWholeSound, JudgeCutSound, DoctorReportsSound DEF Next
<1> QED BY <1>1, <1>2, <1>3

LEMMA InitSound == Init => Sound
<1> SUFFICES ASSUME Init PROVE Sound
  OBVIOUS
<1>1. result.claims = "nothing" /\ cut = FALSE
  BY DEF Init, NoResult
<1> QED BY <1>1, SoundWithoutClaim

(* On a list that only grows and an honest server the walk has every row   *)
(* of the first page's list and is accepted.                               *)
LEMMA WalkInvMeansWhole == WalkInv => BusyListIsReadWhole
<1> SUFFICES ASSUME WalkInv, gone = {}, lies = {}, ~cut, reader.list.rule = "first",
                    pc \in {"judge", "pages"}
             PROVE  atFirst \subseteq SetOf(got) /\ ~short /\ LooksWhole(reader)
  BY DEF BusyListIsReadWhole
<1>1. atFirst \subseteq SetOf(got)
  BY DEF WalkInv, NothingSlipsBy, Begun
<1>2. got \in Seq(RowIds)
  BY DEF WalkInv, WalkTypeOK
<1>3. firstTotal = Cardinality(atFirst)
  BY DEF WalkInv, Counted, Begun
<1>4. Unique(got) >= firstTotal
  BY <1>1, <1>2, <1>3, SubSize
<1>5. LooksWhole(reader)
  BY <1>4 DEF LooksWhole, FirstTotalHolds
<1>6. ~short
  BY <1>4 DEF WalkInv, Stages, Counted, Begun
<1> QED BY <1>1, <1>5, <1>6

-----------------------------------------------------------------------------
(* The theorems.                                                           *)

LEMMA SpecInv == Spec => [](WalkInv /\ Sound)
<1>1. Init => WalkInv /\ Sound
  BY InitInv, InitSound
<1>2. WalkInv /\ Sound /\ [Next]_vars => WalkInv' /\ Sound'
  BY NextInv, NextSound
<1> QED BY <1>1, <1>2, PTL DEF Spec

(* No walk reads more than maxListAllPages pages, the list holds a row     *)
(* once, and every variable keeps its type, for lists of any length.       *)
THEOREM WalkTypeCorrect == Spec => []WalkTypeOK
<1>1. WalkInv => WalkTypeOK
  BY DEF WalkInv
<1> QED BY <1>1, SpecInv, PTL

(* A list that only grows while it is walked is read whole and accepted,   *)
(* for any page size and any number of rows that enter between two pages.  *)
THEOREM BusyListsAreWhole == Spec => []BusyListIsReadWhole
BY SpecInv, WalkInvMeansWhole, PTL

(* The first-total rule accepts no walk that misses a row of page 1's list *)
(* when nothing came after page 1.                                         *)
THEOREM TruncatedListsAreRefused == Spec => []TruncationIsRefused
<1>1. Sound => TruncationIsRefused
  BY DEF Sound
<1> QED BY <1>1, SpecInv, PTL

(* The equality rule accepts exactly the list of the last page, when       *)
(* nothing left.                                                           *)
THEOREM EqualListsAreExact == Spec => []EqualityIsExact
<1>1. Sound => EqualityIsExact
  BY DEF Sound
<1> QED BY <1>1, SpecInv, PTL

(* A capped walk is answered as capped, whatever was read. *)
THEOREM CutsAreSaid == Spec => []CutIsNeverWhole
<1>1. Sound => CutIsNeverWhole
  BY DEF Sound
<1> QED BY <1>1, SpecInv, PTL

(* The doctor's exit code 0 means that page 1's log held no failure. *)
THEOREM QuietDoctorIsRight == Spec => []QuietDoctorMeansNoFailures
<1>1. Sound => QuietDoctorMeansNoFailures
  BY DEF Sound
<1> QED BY <1>1, SpecInv, PTL
=============================================================================
