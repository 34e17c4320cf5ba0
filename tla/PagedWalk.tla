----------------------------- MODULE PagedWalk -----------------------------
(***************************************************************************)
(* One command or tool reads one list of the API, whole or a single page,  *)
(* while rows enter at the head of the list and leave anywhere (offset     *)
(* paging over a list that is sorted newest first), and while the server   *)
(* may serve the wrong rows, a wrong total, a wrong is_has_more, or an     *)
(* error.  A walk asks for pages 1, 2, ... until the server says there is  *)
(* no more, and the reader then judges whether it was whole.               *)
(***************************************************************************)
EXTENDS Lists, Sequences

CONSTANTS
  Old,       \* bound: the list holds some of the rows 1..Old at first
  Rows,      \* bound: row ids are 1..Rows, a new row has the next id
  PageSize,  \* rows_limit
  MaxPages,  \* maxListAllPages
  MaxLies,   \* bound: wrong fields in the server's answers
  MaxGone,   \* bound: rows that leave while the list is read
  Repeated,  \* schedules with is_posts_repeated
  Failed,    \* notifications of failures dated inside the --since window
  Undated    \* notifications of failures whose date cannot be parsed

ASSUME WalkAssumption ==
  /\ Old \in Nat
  /\ Rows \in Nat /\ Rows >= Old
  /\ PageSize \in Nat \ {0}
  /\ MaxPages \in Nat \ {0}
  /\ MaxLies \in Nat
  /\ MaxGone \in Nat
  /\ Repeated \subseteq 1..Rows
  /\ Failed \subseteq 1..Rows
  /\ Undated \subseteq 1..Rows \ Failed

VARIABLES
  reader,     \* who reads
  pc,         \* "one" page or "walk"; then "judge", "pages" (doctor), "done"
  coll,       \* the list on the server, newest first
  next,       \* the id of the next row
  page,       \* the page to ask for
  got,        \* the rows served so far, in order
  firstTotal, \* total_rows of page 1
  lastTotal,  \* total_rows of the last page
  cut,        \* the server refused the next page: the walk is capped
  short,      \* doctor: the walk is incomplete
  result,     \* what the reader answered
  atFirst,    \* the rows on the server when page 1 was read
  atLast,     \* the rows on the server when the last page was read
  gone,       \* the rows that left since page 1 was read
  lies        \* the wrong fields so far: <<page, field>>

walk == <<page, got, firstTotal, lastTotal, cut, short>>
past == <<atFirst, atLast, gone, lies>>
vars == <<reader, pc, coll, next, walk, result, past>>

RowIds == 1..Rows
NoResult == [claims |-> "nothing", code |-> 0, more |-> FALSE, warned |-> FALSE,
             rows |-> {}]

SetOf(s) == {s[i] : i \in DOMAIN s}
Unique(s) == Cardinality(SetOf(s))
Smaller(a, b) == IF a < b THEN a ELSE b

WalkTypeOK ==
  /\ reader \in Readers
  /\ pc \in {"one", "walk", "judge", "pages", "done"}
  /\ coll \in Seq(RowIds)
  /\ next \in 1..Rows + 1
  /\ page \in 0..MaxPages
  /\ got \in Seq(RowIds)
  /\ firstTotal \in 0..Rows
  /\ lastTotal \in 0..Rows
  /\ cut \in BOOLEAN
  /\ short \in BOOLEAN
  /\ result \in [claims : {"nothing", "whole", "page", "cut", "report", "error"},
                 code : 0..2, more : BOOLEAN, warned : BOOLEAN, rows : SUBSET RowIds]
  /\ atFirst \subseteq RowIds
  /\ atLast \subseteq RowIds
  /\ gone \subseteq RowIds
  /\ lies \subseteq (0..MaxPages) \X {"rows", "total", "more"}

(* The newest first lists of the rows in a set of ids: there is one. *)
NewestFirst(S) ==
  {s \in [1..Cardinality(S) -> S] : \A i, j \in DOMAIN s : i < j => s[i] > s[j]}

Init ==
  /\ reader \in Readers
  /\ pc \in IF reader.shows = "all" THEN {"one", "walk"} ELSE {"walk"}
  /\ coll \in UNION {NewestFirst(S) : S \in SUBSET (1..Old)}
  /\ next = Old + 1
  /\ page \in IF pc = "one" THEN {0, 1, 2} \cap (0..MaxPages) ELSE {1}
  /\ got = <<>>
  /\ firstTotal = 0
  /\ lastTotal = 0
  /\ cut = FALSE
  /\ short = FALSE
  /\ result = NoResult
  /\ atFirst = {}
  /\ atLast = {}
  /\ gone = {}
  /\ lies = {}

-----------------------------------------------------------------------------
(* The server *)

(* A request without a page is one for page 1. *)
Offset(p) == IF p = 0 THEN 0 ELSE (p - 1) * PageSize
Window(p) == SubSeq(coll, Offset(p) + 1, Smaller(Offset(p) + PageSize, Len(coll)))

(* A wrong answer holds the rows of the page before, counts only what it   *)
(* has served, or is wrong about what follows.                             *)
Answers(p) ==
  [rows : {Window(p)} \cup {Window(q) : q \in {p - 1} \ {-1, 0}},
   total : {Len(coll), Smaller(Rows, Unique(got \o Window(p)))},
   more : BOOLEAN]

Wrong(p, a) ==
  {f \in {"rows", "total", "more"} :
     \/ f = "rows" /\ a.rows # Window(p)
     \/ f = "total" /\ a.total # Len(coll)
     \/ f = "more" /\ a.more # (Offset(p) + PageSize < Len(coll))}

(* Rows enter and leave between two pages of a walk. *)
BetweenPages == pc = "walk" /\ page > 1

RowEnters ==
  /\ BetweenPages
  /\ next <= Rows
  /\ coll' = <<next>> \o coll
  /\ next' = next + 1
  /\ UNCHANGED <<reader, pc, walk, result, past>>

RowLeaves ==
  /\ BetweenPages
  /\ Cardinality(gone) < MaxGone
  /\ \E i \in DOMAIN coll :
       /\ coll' = SubSeq(coll, 1, i - 1) \o SubSeq(coll, i + 1, Len(coll))
       /\ gone' = gone \cup {coll[i]}
  /\ UNCHANGED <<reader, pc, next, walk, result, atFirst, atLast, lies>>

-----------------------------------------------------------------------------
(* The walk *)

(* Broken: a walk that has as many rows as the first page promised ends.   *)
WalkGoesOnForTotal(a) == a.more /\ (page > 1 => Len(got \o a.rows) < firstTotal)

WalkGoesOn(a) == a.more

(* Broken: the bound is checked one page late. *)
GivesUpLate == page > MaxPages

(* page > maxListAllPages would hold for the next page.                    *)
GivesUp == page = MaxPages

(* One page of ListAll...: its rows are appended, its total is kept, and   *)
(* the walk ends when the server says there is no more.                    *)
ReadPage ==
  /\ pc = "walk"
  /\ \E a \in Answers(page) :
       /\ Cardinality(lies) + Cardinality(Wrong(page, a)) <= MaxLies
       /\ lies' = lies \cup ({page} \X Wrong(page, a))
       /\ got' = got \o a.rows
       /\ firstTotal' = IF page = 1 THEN a.total ELSE firstTotal
       /\ lastTotal' = a.total
       /\ atFirst' = IF page = 1 THEN SetOf(coll) ELSE atFirst
       /\ atLast' = SetOf(coll)
       /\ \/ /\ ~WalkGoesOn(a)
             /\ pc' = "judge"
             /\ UNCHANGED <<page, result>>
          \/ /\ WalkGoesOn(a)
             /\ ~GivesUp
             /\ page' = page + 1
             /\ UNCHANGED <<pc, result>>
          \/ /\ WalkGoesOn(a)
             /\ GivesUp
             /\ result' = [NoResult EXCEPT !.claims = "error", !.code = 1]
             /\ pc' = "done"
             /\ UNCHANGED page
  /\ UNCHANGED <<reader, coll, next, cut, short, gone>>

Fail ==
  /\ result' = [NoResult EXCEPT !.claims = "error", !.code = 1]
  /\ pc' = "done"

(* Any failed request ends the walk with its error. *)
PageFails ==
  /\ pc \in {"one", "walk", "pages"}
  /\ Fail
  /\ UNCHANGED <<reader, coll, next, walk, past>>

(* ListAllSearchPostsWithFirstAndLastTotal: the server refuses the page as *)
(* past its window, and what was read is kept.  With nothing read it is    *)
(* an error as any other, as it is for the other lists.                    *)
WindowRefused ==
  /\ pc = "walk"
  /\ reader.list.windowed
  /\ got # <<>>
  /\ cut' = TRUE
  /\ pc' = "judge"
  /\ UNCHANGED <<reader, coll, next, page, got, firstTotal, lastTotal, short, result, past>>

-----------------------------------------------------------------------------
(* The reader *)

LooksWhole(r) ==
  IF r.list.rule = "equal"
  THEN EqualityHolds(Len(got), Unique(got), lastTotal)
  ELSE FirstTotalHolds(Unique(got), firstTotal, lastTotal)

Shown(r) ==
  CASE r.shows = "all" -> SetOf(got)
    [] r.shows = "repeated" -> SetOf(got) \cap Repeated
    [] r.shows = "failures" -> SetOf(got) \cap (Failed \cup Undated)

(* The commands and tools with --all, and schedules list --repeated.       *)
JudgeWhole ==
  /\ pc = "judge"
  /\ reader # Doctor
  /\ ~cut
  /\ LooksWhole(reader)
  /\ result' = [NoResult EXCEPT !.claims = "whole", !.rows = Shown(reader)]
  /\ pc' = "done"
  /\ UNCHANGED <<reader, coll, next, walk, past>>

JudgeShort ==
  /\ pc = "judge"
  /\ reader # Doctor
  /\ ~cut
  /\ ~LooksWhole(reader)
  /\ Fail
  /\ UNCHANGED <<reader, coll, next, walk, past>>

(* Broken: the envelope of a whole walk is reused for a capped one. *)
CutResultAsWhole ==
  [NoResult EXCEPT
     !.claims = IF FirstTotalHolds(Unique(got), firstTotal, lastTotal) THEN "whole" ELSE "cut",
     !.code = reader.cutCode, !.warned = TRUE, !.rows = SetOf(got)]

(* NewCappedAllListEnvelope: no count is checked and is_has_more is TRUE.  *)
CutResult ==
  [NoResult EXCEPT !.claims = "cut", !.code = reader.cutCode, !.more = TRUE, !.warned = TRUE,
                   !.rows = SetOf(got)]

JudgeCut ==
  /\ pc = "judge"
  /\ cut
  /\ result' = CutResult
  /\ pc' = "done"
  /\ UNCHANGED <<reader, coll, next, walk, past>>

(* One page: it is answered as served; a command warns when there is more. *)
ReadOnePage ==
  /\ pc = "one"
  /\ \E a \in Answers(page) :
       /\ Cardinality(Wrong(page, a)) <= MaxLies
       /\ lies' = {page} \X Wrong(page, a)
       /\ got' = a.rows
       /\ result' = [NoResult EXCEPT !.claims = "page", !.more = a.more, !.rows = SetOf(a.rows),
                                      !.warned = a.more /\ ~reader.tool]
  /\ pc' = "done"
  /\ UNCHANGED <<reader, coll, next, page, firstTotal, lastTotal, cut, short, atFirst, atLast, gone>>

(* RunDoctor, the notifications: a short walk is noted and goes on.        *)
DoctorNotifications ==
  /\ pc = "judge"
  /\ reader = Doctor
  /\ short' = ~LooksWhole(reader)
  /\ pc' = "pages"
  /\ UNCHANGED <<reader, coll, next, page, got, firstTotal, lastTotal, cut, result, past>>

(* Broken: only the groups of dated failures count as a sign. *)
SignsOfGroups(incomplete) == SetOf(got) \cap Failed # {}

(* runDoctor's three signs. *)
Signs(incomplete) ==
  \/ SetOf(got) \cap Failed # {}
  \/ SetOf(got) \cap Undated # {}
  \/ incomplete

(* RunDoctor, the pages: a walk of the same kind, whole or short; then the *)
(* report, which runDoctor prints and turns into the exit code.            *)
DoctorReports ==
  /\ pc = "pages"
  /\ \E pagesShort \in BOOLEAN :
       /\ short' = (short \/ pagesShort)
       /\ result' = [NoResult EXCEPT
                       !.claims = "report",
                       !.code = IF Signs(short \/ pagesShort) THEN 1 ELSE 0,
                       !.warned = short \/ pagesShort,
                       !.rows = Shown(reader)]
  /\ pc' = "done"
  /\ UNCHANGED <<reader, coll, next, page, got, firstTotal, lastTotal, cut, past>>

Returned ==
  /\ pc = "done"
  /\ UNCHANGED vars

Next ==
  \/ RowEnters
  \/ RowLeaves
  \/ ReadPage
  \/ PageFails
  \/ WindowRefused
  \/ JudgeWhole
  \/ JudgeShort
  \/ JudgeCut
  \/ ReadOnePage
  \/ DoctorNotifications
  \/ DoctorReports
  \/ Returned

Spec == Init /\ [][Next]_vars

-----------------------------------------------------------------------------
(* Properties *)

Lied(fields) == \E l \in lies : l[2] \in fields
Entered == next > Old + 1

(* A list that only grows while it is walked, on an honest server, is      *)
(* never called truncated by the first-total rule, and no row that was     *)
(* there at the first page is missing from it (projects.go, the benign     *)
(* mid-walk insert of NewAllListEnvelopeHighChurn).                        *)
BusyListIsReadWhole ==
  (gone = {} /\ lies = {} /\ ~cut /\ reader.list.rule = "first") =>
    /\ pc \in {"judge", "pages"} => atFirst \subseteq SetOf(got) /\ ~short
    /\ pc = "judge" => LooksWhole(reader)

(* A list into which nothing came after page 1, read whole by the rule of  *)
(* a busy list, misses nothing that page 1 promised: whatever left, was    *)
(* served twice or announced as the end in the meantime.                   *)
TruncationIsRefused ==
  (result.claims = "whole" /\ reader.list.rule = "first" /\ ~Entered
     /\ <<1, "total">> \notin lies) => atFirst \subseteq result.rows

(* A list from which nothing left, accepted by the equality rule, is the   *)
(* list as it was at the last page, row for row, however pages shifted or  *)
(* were served twice; schedules list --repeated then shows every repeated  *)
(* schedule.                                                               *)
EqualityIsExact ==
  (result.claims = "whole" /\ reader.list.rule = "equal" /\ gone = {} /\ ~Lied({"total"})) =>
    result.rows = IF reader.shows = "repeated" THEN atLast \cap Repeated ELSE atLast

(* A walk the server's window cut is never passed off as whole, and its    *)
(* rows are given: a command exits 2, a tool warns, both say there is more.*)
CutIsNeverWhole ==
  (pc = "done" /\ cut) =>
    /\ result.claims = "cut"
    /\ result.more
    /\ result.rows = SetOf(got)
    /\ result.warned
    /\ result.code = reader.cutCode

(* doctor exits 0 only on a log without failures: with nothing new in the  *)
(* log since page 1 no failure it held, dated or not, goes unreported.     *)
QuietDoctorMeansNoFailures ==
  (result.claims = "report" /\ result.code = 0 /\ ~Entered /\ <<1, "total">> \notin lies) =>
    atFirst \cap (Failed \cup Undated) = {}
=============================================================================
