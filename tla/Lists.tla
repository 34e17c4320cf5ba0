------------------------------- MODULE Lists -------------------------------
(***************************************************************************)
(* The lists of the API that can be read whole ("--all" on the command     *)
(* line, "all" in a tool), the rule that decides whether such a read is    *)
(* complete, and the commands and tools that read them.  Nothing here has  *)
(* state; PagedWalk reads one of these lists page by page.                 *)
(***************************************************************************)
EXTENDS Integers, FiniteSets

(* How the end of a walk is judged.   "equal" lists hardly change while     *)
(* they are read; "first" lists do, and are judged by the total of page 1. *)
(* A list is windowed when the server refuses pages past a fixed offset    *)
(* and the walk keeps what it has.                                         *)
(* Broken: rows served twice count twice. *)
EqualityOnRows(served, unique, lastTotal) == served = lastTotal

(* NewAllListEnvelope. *)
EqualityHolds(served, unique, lastTotal) == unique = lastTotal

(* Broken: judged by the total of the last page. *)
FirstTotalOfLastPage(unique, firstTotal, lastTotal) == unique >= lastTotal

(* NewAllListEnvelopeHighChurn and RunDoctor. *)
FirstTotalHolds(unique, firstTotal, lastTotal) == unique >= firstTotal

(* The library's walks: ListAll...WithTotal and ...WithFirstAndLastTotal.  *)
PagesList == [rows |-> "pages", rule |-> "equal", windowed |-> FALSE]
AccountsList == [rows |-> "accounts", rule |-> "equal", windowed |-> FALSE]
ProjectsList == [rows |-> "projects", rule |-> "equal", windowed |-> FALSE]
SchedulesList == [rows |-> "schedules", rule |-> "equal", windowed |-> FALSE]
ProxiesList == [rows |-> "proxies", rule |-> "equal", windowed |-> FALSE]
WatermarksList == [rows |-> "watermarks", rule |-> "equal", windowed |-> FALSE]
SourceResourcesList == [rows |-> "sourceResources", rule |-> "equal", windowed |-> FALSE]
CrossPostingsList == [rows |-> "crossPostings", rule |-> "equal", windowed |-> FALSE]
NotificationsList == [rows |-> "notifications", rule |-> "first", windowed |-> FALSE]
PostsList == [rows |-> "posts", rule |-> "first", windowed |-> FALSE]
SearchPostsList == [rows |-> "searchPosts", rule |-> "first", windowed |-> TRUE]

(* A command exits 2 when the window cut its walk, a tool answers with a   *)
(* warning; both give the rows.                                            *)
Command(list) == [list |-> list, tool |-> FALSE, cutCode |-> 2, shows |-> "all"]
Tool(list) == [list |-> list, tool |-> TRUE, cutCode |-> 0, shows |-> "all"]

CliPages == Command(PagesList)
CliAccounts == Command(AccountsList)
CliNotifications == Command(NotificationsList)
CliProxies == Command(ProxiesList)
CliWatermarks == Command(WatermarksList)
CliPosts == Command(PostsList)
CliSearchPosts == Command(SearchPostsList)
CliSourceResources == Command(SourceResourcesList)
CliProjects == Command(ProjectsList)
CliSchedules == Command(SchedulesList)
CliCrossPostings == Command(CrossPostingsList)
(* schedules list --repeated: the rows that carry is_posts_repeated.       *)
CliSchedulesRepeated == [Command(SchedulesList) EXCEPT !.shows = "repeated"]

McpAccounts == Tool(AccountsList)
McpPages == Tool(PagesList)
McpPosts == Tool(PostsList)
McpProjects == Tool(ProjectsList)
McpSchedules == Tool(SchedulesList)
McpWatermarks == Tool(WatermarksList)
McpProxies == Tool(ProxiesList)
McpNotifications == Tool(NotificationsList)
McpSearchPosts == Tool(SearchPostsList)
McpSourceResources == Tool(SourceResourcesList)
McpCrossPostings == Tool(CrossPostingsList)

(* hooppy doctor reads the notifications, then the pages.                  *)
Doctor == [Command(NotificationsList) EXCEPT !.shows = "failures"]

Readers ==
  {CliPages, CliAccounts, CliNotifications, CliProxies, CliWatermarks, CliPosts,
   CliSearchPosts, CliSourceResources, CliProjects, CliSchedules, CliSchedulesRepeated,
   CliCrossPostings, McpCrossPostings,
   McpAccounts, McpPages, McpPosts, McpProjects, McpSchedules, McpWatermarks,
   McpProxies, McpNotifications, McpSearchPosts, McpSourceResources, Doctor}
=============================================================================
