------------------------------- MODULE Queries -------------------------------
(***************************************************************************)
(* One user reads: filtered lists, and the queue of one schedule, while    *)
(* posts enter and leave it.  A read is one request, so the hazard is not  *)
(* a torn read but an answer taken for more than it is: a list that was    *)
(* not filtered, a calendar cut to its first page, a window's bounds taken *)
(* for the schedule's, a page past the end taken for the end.              *)
(***************************************************************************)
EXTENDS Filters, FiniteSetsExt, Integers

CONSTANTS
  LastDay,  \* bound: the days are 1..LastDay
  PerPage,  \* bound: days in one answer of the calendar
  Reads,    \* bound: calendar reads
  MaxPage,  \* bound: the page a read starts at
  Changes   \* bound: posts that enter or leave the queue

ASSUME QueriesAssumption ==
  /\ LastDay \in Nat /\ PerPage \in Nat \ {0} /\ Reads \in Nat /\ MaxPage \in Nat /\ Changes \in Nat

VARIABLES
  booked,   \* days with posts
  changes,  \* changes so far
  reads,    \* calendar reads so far
  list,     \* the list query, if the last read was one: what was asked, what was
            \* sent and what the answer is sure to have applied
  query,    \* the last calendar query
  shown,    \* what came back of it
  at,       \* booked, when it was answered
  walk      \* the recovery of a cut calendar: its next page, the days read
            \* and whether the queue stood still

vars == <<booked, changes, reads, list, query, shown, at, walk>>

Days == 1..LastDay

NoList == [kind |-> "none", asked |-> {}, sent |-> {}, applied |-> {}]
NoQuery == [from |-> 0, to |-> 0, page |-> 0]
NotShown == [kind |-> "none", days |-> {}, first |-> 0, until |-> 0, complete |-> FALSE]
NoWalk == [next |-> 1, days |-> {}, still |-> TRUE]

Init ==
  /\ booked \in SUBSET Days
  /\ changes = 0
  /\ reads = 0
  /\ list = NoList
  /\ query = NoQuery
  /\ shown = NotShown
  /\ at = {}
  /\ walk = NoWalk

-----------------------------------------------------------------------------
(* Filtered lists *)

Lists == {ListPosts, ListSearchPosts, ListAccounts, ListPages, ListProjects, ListSchedules,
          ListWatermarks, ListNotifications, ListCrossPostings, ListProxies, ListSourceResources}

(* Up to two filters at once. *)
Askable(e) ==
  LET given == UNION {[name : {n}, value : Given(e, n)] : n \in Names(e)}
  IN {{a, b} : a \in given, b \in given}

(* The request is refused before it leaves, fails, or is answered. *)
ReadList(e) ==
  \E asked \in Askable(e) :
    \/ list' = [NoList EXCEPT !.kind = "refused", !.asked = asked] /\ Refuses(e, asked)
    \/ /\ ~Refuses(e, asked)
       /\ \/ list' = [NoList EXCEPT !.kind = "failed", !.asked = asked, !.sent = Sent(e, asked)]
          \/ list' = [kind |-> "answered", asked |-> asked, sent |-> Sent(e, asked),
                      applied |-> Applied(e, Sent(e, asked))]

AskList ==
  /\ reads = 0
  /\ changes = 0
  /\ \E e \in Lists : ReadList(e)
  /\ UNCHANGED <<booked, changes, reads, query, shown, at, walk>>

-----------------------------------------------------------------------------
(* The queue of a schedule *)

(* A post is put on a free day, or the last post of a day leaves. *)
QueueChanges ==
  /\ changes < Changes
  /\ \E d \in Days : booked' = IF d \in booked THEN booked \ {d} ELSE booked \cup {d}
  /\ changes' = changes + 1
  /\ walk' = [walk EXCEPT !.still = FALSE]
  /\ UNCHANGED <<reads, list, query, shown, at>>

(* The days of the window, and those of its page (0 reads as page 1). *)
InWindow(q, days) == {d \in days : (q.from # 0 => q.from <= d) /\ (q.to # 0 => d <= q.to)}

Place(d, days) == Cardinality({e \in days : e < d})

PageOf(q, days) ==
  LET first == (IF q.page = 0 THEN 0 ELSE q.page - 1) * PerPage
  IN {d \in days : Place(d, days) \in first..(first + PerPage - 1)}

(* Whether the page is not the last one of its window. *)
HasMore(q, days) ==
  Cardinality(days) > (IF q.page = 0 THEN 1 ELSE q.page) * PerPage

Narrowed(q) == q.from # 0 \/ q.to # 0 \/ q.page > 1

(* A page past the end: total_rows counts the queue (or the window; the    *)
(* server does not say), whatever the page.                                *)
Overrun(q, days, total) == q.page > 0 /\ days = {} /\ total

(* buildScheduleQueueSummary: the keys in the order of their dates (every  *)
(* key is a date; one that is not would sort after them).                  *)
FirstBookedDay(q, days) == IF days # {} /\ ~Narrowed(q) THEN Min(days) ELSE 0

(* Broken: the last day of page one is taken for the last day (issue #106). *)
BookedUntilOfPage(q, days, more) == IF days # {} /\ ~Narrowed(q) THEN Max(days) ELSE 0

BookedUntil(q, days, more) == IF days # {} /\ ~Narrowed(q) /\ ~more THEN Max(days) ELSE 0

(* runScheduleQueue and hooppy_list_schedule_posts: exit code 0, or no     *)
(* warning.                                                                *)
Complete(q, days, more, total) == ~Overrun(q, days, total) /\ ~more

(* The answer to q: a summary, or the raw envelope for --json and MCP.     *)
Answered(q) ==
  \E total \in {booked # {}, InWindow(q, booked) # {}}, summary \in BOOLEAN :
    LET window == InWindow(q, booked)
        more == HasMore(q, window)
        days == PageOf(q, window)
    IN shown' = [kind |-> "answered", days |-> days,
                 first |-> IF summary THEN FirstBookedDay(q, days) ELSE 0,
                 until |-> IF summary THEN BookedUntil(q, days, more) ELSE 0,
                 complete |-> Complete(q, days, more, total)]

Failed == shown' = [NotShown EXCEPT !.kind = "failed"]

(* Any window and page: schedule 0, a negative page and a date *)
(* that is not dd.mm.yyyy are refused.                                     *)
AskCalendar ==
  /\ reads < Reads
  /\ \E from, to \in Days \cup {0}, page \in 0..MaxPage : query' = [from |-> from, to |-> to, page |-> page]
  /\ \/ Answered(query') \/ Failed
  /\ walk' = IF query'.page \in {0, 1} /\ shown'.kind = "answered"
             THEN [next |-> 2, days |-> shown'.days, still |-> TRUE] ELSE NoWalk
  /\ at' = booked
  /\ reads' = reads + 1
  /\ list' = NoList
  /\ UNCHANGED <<booked, changes>>

AskCalendarWrongly ==
  /\ reads < Reads
  /\ \E asked \in {{[name |-> n, value |-> v]} : n \in Names(ListSchedulePosts), v \in Values} :
       Refuses(ListSchedulePosts, asked)
  /\ shown' = [NotShown EXCEPT !.kind = "refused"]
  /\ query' = NoQuery
  /\ walk' = NoWalk
  /\ at' = {}
  /\ reads' = reads + 1
  /\ list' = NoList
  /\ UNCHANGED <<booked, changes>>

(* The recovery the warning names: the next page of the same window. *)
AskNextPage ==
  /\ reads < Reads
  /\ shown.kind = "answered"
  /\ ~shown.complete
  /\ walk.next > 1
  /\ query' = [query EXCEPT !.page = walk.next]
  /\ \/ /\ Answered(query')
        /\ walk' = [walk EXCEPT !.next = @ + 1, !.days = @ \cup shown'.days]
     \/ Failed /\ walk' = NoWalk
  /\ at' = booked
  /\ reads' = reads + 1
  /\ list' = NoList
  /\ UNCHANGED <<booked, changes>>

Returned ==
  /\ reads = Reads
  /\ UNCHANGED vars

Next ==
  \/ AskList
  \/ QueueChanges
  \/ AskCalendar
  \/ AskCalendarWrongly
  \/ AskNextPage
  \/ Returned

Spec == Init /\ [][Next]_vars

-----------------------------------------------------------------------------
(* Properties *)

(* A list that was answered was asked for with every filter given: none    *)
(* was dropped by the client, none was one the server ignores (issues #63, *)
(* #67, #73).  So it applied them all, but for a value that the client     *)
(* does not check and sends as it is: a key the server does not know gives *)
(* an unfiltered list (posts_search.go:44-48, posts.go:47-50), and what it *)
(* makes of a date it cannot read is open.                                 *)
FiltersWereApplied ==
  list.kind = "answered" =>
    /\ list.sent = list.asked
    /\ \A a \in list.asked : a \in list.applied \/ a.value \in {"unknown", "malformed"}

(* What a queue answer lets its reader conclude (issue #106).  The days it *)
(* names as the schedule's first and last are those of the whole queue; an *)
(* answer that is not flagged shows the last day of the window that was    *)
(* asked; and the pages a recovery has read up to such an answer are the   *)
(* whole window if the queue stood still.                                  *)
QueueAnswersAreWhole ==
  shown.kind = "answered" =>
    /\ shown.first # 0 => shown.first = Min(at)
    /\ shown.until # 0 => shown.until = Max(at)
    /\ shown.complete =>
         LET window == InWindow(query, at)
         IN /\ window # {} => Max(window) \in shown.days
            /\ (walk.next > 1 /\ walk.still) => walk.days = window
=============================================================================
