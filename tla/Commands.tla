------------------------------ MODULE Commands ------------------------------
(***************************************************************************)
(* The operations that change one object of the service, and the commands  *)
(* of hooppy and tools of hooppy-mcp that run them.  Nothing here has      *)
(* state; Editors runs two of these commands on one object.                *)
(***************************************************************************)
EXTENDS FiniteSets

(* The fields of an object, as far as an edit can tell them apart; "rest"  *)
(* is what no edit command names (times, captions, attachments, ...).      *)
PostFields == {"text", "when", "schedule", "targets", "rest"}
ScheduleFields == {"name", "mode", "state", "delete", "rest"}
FieldsOf(kind) ==
  CASE kind = "post" -> PostFields
    [] kind = "schedule" -> ScheduleFields
    [] OTHER -> {"name", "rest"}

(* What an operation does: "create" an object, "delete" it, "patch" it     *)
(* (the server keeps the fields not named), "overwrite" it (the fields not *)
(* named are reset), or "edit" it (read the whole state, change the fields *)
(* named, write the whole state).  resends: a failure is retried.          *)
(* Broken: a create is declared retryable. *)
CreationResent(kind) == [kind |-> kind, does |-> "create", gives |-> {}, resends |-> TRUE]

(* doPOST never retries. *)
Creation(kind) == [kind |-> kind, does |-> "create", gives |-> {}, resends |-> FALSE]
Removal(kind) == [kind |-> kind, does |-> "delete", gives |-> {}, resends |-> TRUE]
Overwrite(kind, fields) == [kind |-> kind, does |-> "overwrite", gives |-> fields, resends |-> TRUE]
(* A command that refuses its own input sends nothing. *)
Refusal(kind) == [kind |-> kind, does |-> "refuse", gives |-> {}, resends |-> FALSE]

-----------------------------------------------------------------------------
(* The library *)

CreatePost == Creation("post")
CreatePostWithMode == Creation("post")
UpdatePost == Overwrite("post", {"text", "when", "targets"})
UpdatePostText == [kind |-> "post", does |-> "edit", gives |-> {"text"}, resends |-> TRUE]
DeletePost == Removal("post")
MovePost == [kind |-> "post", does |-> "patch", gives |-> {"schedule"}, resends |-> FALSE]

CreateProject == Creation("project")
UpdateProject == [kind |-> "project", does |-> "patch", gives |-> {"name"}, resends |-> TRUE]
DeleteProject == Removal("project")

(* SchedulePayload.Validate: manual needs pages, by project needs one.     *)
Valid(payload) ==
  \/ payload.how = 1 /\ payload.pages
  \/ payload.how = 2 /\ payload.project
NewSchedulePayload == [how |-> 1, pages |-> FALSE, project |-> FALSE]
CreateSchedule(payload) == IF Valid(payload) THEN Creation("schedule") ELSE Refusal("schedule")

(* The partial writer: kept in the library, run by no command. *)
UpdateSchedule == Overwrite("schedule", {"name", "mode", "state"})
UpdateScheduleFromEdit(fields) ==
  [kind |-> "schedule", does |-> "edit", gives |-> fields, resends |-> FALSE]
DeleteSchedule == Removal("schedule")

CreateWatermark == Creation("watermark")
UpdateWatermark == Overwrite("watermark", {"name"})
DeleteWatermark == Removal("watermark")
CreateProxy == Creation("proxy")
UpdateProxy == Overwrite("proxy", {"name"})
DeleteProxy == Removal("proxy")
DisconnectPage == Removal("page")

-----------------------------------------------------------------------------
(* ops.UpdateSchedule, the shared layer: the fields given, those of them   *)
(* that are out of range (a blank name, a state outside 1..3, a negative   *)
(* day, an hour outside 0..23), and the id.                                *)
EditInputs == [id : {0, 1}, given : SUBSET {"name", "state", "delete"}, bad : SUBSET {"name", "state", "delete"}]
OverridesOf(in) == in.given
EditSchedule(in) ==
  IF \/ in.id = 0
     \/ in.given \cap in.bad # {}
     \/ OverridesOf(in) = {}
  THEN Refusal("schedule")
  ELSE UpdateScheduleFromEdit(OverridesOf(in))

(* hooppy_create_post: where the post is to go, in the order of the switch.*)
PostTargets == [project : BOOLEAN, schedules : BOOLEAN, date : BOOLEAN, pages : BOOLEAN]
NoTarget(t) ==
  \/ t.project /\ ~t.schedules
  \/ ~t.project /\ ~t.schedules /\ ~t.date /\ ~t.pages
CreatePostTo(t) == IF NoTarget(t) THEN Refusal("post") ELSE CreatePost

(* posts update: the text only, or published now to the pages of --to.     *)
UpdateInputs == [textOnly : BOOLEAN, to : BOOLEAN]
PostsUpdate(in) ==
  IF in.textOnly THEN UpdatePostText ELSE IF in.to THEN UpdatePost ELSE Refusal("post")

(* posts crosspost: the mode must be one of the fifteen.                   *)
PostsCrosspost(valid) == IF valid THEN CreatePostWithMode ELSE Refusal("post")

-----------------------------------------------------------------------------
(* The commands and tools: what each may run, over all its inputs.         *)
Named(name, ops) == [name |-> name, ops |-> ops]

CliPosts ==
  {Named("posts_create", {CreatePost}),
   Named("posts_delete", {DeletePost}),
   Named("posts_move", {MovePost}),
   Named("posts_update", {PostsUpdate(in) : in \in UpdateInputs}),
   Named("posts_crosspost", {PostsCrosspost(valid) : valid \in BOOLEAN})}
CliProjects ==
  {Named("projects_create", {CreateProject}),
   Named("projects_update", {UpdateProject}),
   Named("projects_delete", {DeleteProject})}
CliSchedules ==
  {Named("schedules_create", {CreateSchedule(NewSchedulePayload)}),
   Named("schedules_update", {EditSchedule(in) : in \in EditInputs}),
   Named("schedules_delete", {DeleteSchedule})}
CliWatermarks ==
  {Named("watermarks_create", {CreateWatermark}),
   Named("watermarks_update", {UpdateWatermark}),
   Named("watermarks_delete", {DeleteWatermark})}
CliProxies ==
  {Named("proxies_create", {CreateProxy}),
   Named("proxies_update", {UpdateProxy}),
   Named("proxies_delete", {DeleteProxy})}
CliPages == {Named("pages_disconnect", {DisconnectPage})}

McpCreatePost == Named("hooppy_create_post", {CreatePostTo(t) : t \in PostTargets})
McpUpdatePost == Named("hooppy_update_post", {UpdatePost})
McpUpdatePostText == Named("hooppy_update_post_text", {UpdatePostText})
McpDeletePost == Named("hooppy_delete_post", {DeletePost})
McpMovePost == Named("hooppy_move_post", {MovePost})
McpCreateProject == Named("hooppy_create_project", {CreateProject})
McpUpdateProject == Named("hooppy_update_project", {UpdateProject})
McpDeleteProject == Named("hooppy_delete_project", {DeleteProject})
McpCreateSchedule == Named("hooppy_create_schedule", {CreateSchedule(NewSchedulePayload)})
McpUpdateSchedule == Named("hooppy_update_schedule", {EditSchedule(in) : in \in EditInputs})
McpDeleteSchedule == Named("hooppy_delete_schedule", {DeleteSchedule})
McpCreateWatermark == Named("hooppy_create_watermark", {CreateWatermark})
McpUpdateWatermark == Named("hooppy_update_watermark", {UpdateWatermark})
McpDeleteWatermark == Named("hooppy_delete_watermark", {DeleteWatermark})
McpCreateProxy == Named("hooppy_create_proxy", {CreateProxy})
McpUpdateProxy == Named("hooppy_update_proxy", {UpdateProxy})
McpDeleteProxy == Named("hooppy_delete_proxy", {DeleteProxy})
McpDisconnectPage == Named("hooppy_disconnect_page", {DisconnectPage})

(* A program of its own that calls the library. *)
PartialWriter == Named("UpdateSchedule", {UpdateSchedule})

CommandsOn(kind) ==
  CASE kind = "post" ->
         CliPosts \cup {McpCreatePost, McpUpdatePost, McpUpdatePostText, McpDeletePost, McpMovePost}
    [] kind = "schedule" ->
         CliSchedules \cup {McpCreateSchedule, McpUpdateSchedule, McpDeleteSchedule, PartialWriter}
    [] kind = "project" -> CliProjects \cup {McpCreateProject, McpUpdateProject, McpDeleteProject}
    [] kind = "watermark" ->
         CliWatermarks \cup {McpCreateWatermark, McpUpdateWatermark, McpDeleteWatermark}
    [] kind = "proxy" -> CliProxies \cup {McpCreateProxy, McpUpdateProxy, McpDeleteProxy}
    [] kind = "page" -> CliPages \cup {McpDisconnectPage}

Kinds == {"post", "schedule", "project", "watermark", "proxy", "page"}
=============================================================================
