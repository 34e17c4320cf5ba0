--------------------------- MODULE Editors_proofs ---------------------------
(***************************************************************************)
(* Proofs about Editors, for any number of editors and attempts.           *)
(***************************************************************************)
EXTENDS Editors, FiniteSetTheorems, TLAPS

-----------------------------------------------------------------------------
(* The operations.                                                         *)

OpOf(k, o) ==
  /\ o.kind = k
  /\ o.does \in {"create", "delete", "patch", "overwrite", "edit", "refuse"}
  /\ o.gives \subseteq FieldsOf(k)
  /\ o.resends \in BOOLEAN
  /\ o.does = "create" => ~o.resends
  /\ o.does \in {"create", "delete", "refuse"} => o.gives = {}
  /\ o.does = "edit" =>
       \/ k = "post" /\ o.gives = {"text"}
       \/ k = "schedule" /\ o.gives \subseteq {"name", "state", "delete"}
  /\ o.does = "patch" =>
       \/ k = "post" /\ o.gives = {"schedule"}
       \/ k = "project" /\ o.gives = {"name"}
  /\ o.does = "overwrite" /\ k = "schedule" => {"name", "mode"} \subseteq o.gives

LEMMA SimpleOps ==
  ASSUME NEW k \in Kinds
  PROVE  OpOf(k, Creation(k)) /\ OpOf(k, Removal(k)) /\ OpOf(k, Refusal(k))
BY DEF OpOf, Creation, Removal, Refusal

LEMMA PostOps ==
  /\ OpOf("post", UpdatePost) /\ OpOf("post", UpdatePostText) /\ OpOf("post", MovePost)
  /\ OpOf("project", UpdateProject) /\ OpOf("schedule", UpdateSchedule)
  /\ OpOf("watermark", UpdateWatermark) /\ OpOf("proxy", UpdateProxy)
BY DEF OpOf, UpdatePost, UpdatePostText, MovePost, UpdateProject, UpdateSchedule, UpdateWatermark,
       UpdateProxy, Overwrite, FieldsOf, PostFields, ScheduleFields

LEMMA ScheduleOps ==
  /\ \A in \in EditInputs : OpOf("schedule", EditSchedule(in))
  /\ OpOf("schedule", CreateSchedule(NewSchedulePayload))
<1>1. ASSUME NEW in \in EditInputs PROVE OpOf("schedule", EditSchedule(in))
  <2>1. in.given \subseteq {"name", "state", "delete"}
    BY DEF EditInputs
  <2>2. OpOf("schedule", UpdateScheduleFromEdit(in.given))
    BY <2>1 DEF OpOf, UpdateScheduleFromEdit, FieldsOf, ScheduleFields
  <2>3. OpOf("schedule", Refusal("schedule"))
    BY SimpleOps DEF Kinds
  <2> QED BY <2>2, <2>3 DEF EditSchedule, OverridesOf
<1>2. OpOf("schedule", CreateSchedule(NewSchedulePayload))
  BY SimpleOps DEF CreateSchedule, Kinds
<1> QED BY <1>1, <1>2

LEMMA CommandOps ==
  ASSUME NEW k \in Kinds, NEW c \in CommandsOn(k), NEW o \in c.ops
  PROVE  OpOf(k, o)
<1> USE SimpleOps, PostOps, ScheduleOps DEF Kinds, Named
<1>1. CASE k = "post"
  <2>1. c \in CliPosts \cup {McpCreatePost, McpUpdatePost, McpUpdatePostText, McpDeletePost, McpMovePost}
    BY <1>1 DEF CommandsOn
  <2>2. o \in {Creation("post"), Removal("post"), Refusal("post"), UpdatePost, UpdatePostText, MovePost}
    BY <2>1 DEF CliPosts, McpCreatePost, McpUpdatePost, McpUpdatePostText, McpDeletePost, McpMovePost,
      CreatePost, CreatePostTo, CreatePostWithMode, DeletePost, PostsUpdate, PostsCrosspost
  <2> QED BY <1>1, <2>2
<1>2. CASE k = "schedule"
  <2>1. c \in CliSchedules \cup {McpCreateSchedule, McpUpdateSchedule, McpDeleteSchedule, PartialWriter}
    BY <1>2 DEF CommandsOn
  <2>2. \/ o \in {CreateSchedule(NewSchedulePayload), Removal("schedule"), UpdateSchedule}
        \/ \E in \in EditInputs : o = EditSchedule(in)
    BY <2>1 DEF CliSchedules, McpCreateSchedule, McpUpdateSchedule, McpDeleteSchedule, PartialWriter, DeleteSchedule
  <2> QED BY <1>2, <2>2
<1>3. CASE k = "project"
  <2>1. c \in CliProjects \cup {McpCreateProject, McpUpdateProject, McpDeleteProject}
    BY <1>3 DEF CommandsOn
  <2>2. o \in {Creation("project"), Removal("project"), UpdateProject}
    BY <2>1 DEF CliProjects, McpCreateProject, McpUpdateProject, McpDeleteProject, CreateProject, DeleteProject
  <2> QED BY <1>3, <2>2
<1>4. CASE k = "watermark"
  <2>1. c \in CliWatermarks \cup {McpCreateWatermark, McpUpdateWatermark, McpDeleteWatermark}
    BY <1>4 DEF CommandsOn
  <2>2. o \in {Creation("watermark"), Removal("watermark"), UpdateWatermark}
    BY <2>1 DEF CliWatermarks, McpCreateWatermark, McpUpdateWatermark, McpDeleteWatermark, CreateWatermark, DeleteWatermark
  <2> QED BY <1>4, <2>2
<1>5. CASE k = "proxy"
  <2>1. c \in CliProxies \cup {McpCreateProxy, McpUpdateProxy, McpDeleteProxy}
    BY <1>5 DEF CommandsOn
  <2>2. o \in {Creation("proxy"), Removal("proxy"), UpdateProxy}
    BY <2>1 DEF CliProxies, McpCreateProxy, McpUpdateProxy, McpDeleteProxy, CreateProxy, DeleteProxy
  <2> QED BY <1>5, <2>2
<1>6. CASE k = "page"
  <2>1. c \in CliPages \cup {McpDisconnectPage}
    BY <1>6 DEF CommandsOn
  <2>2. o = Removal("page")
    BY <2>1 DEF CliPages, McpDisconnectPage, DisconnectPage
  <2> QED BY <1>6, <2>2
<1> QED BY <1>1, <1>2, <1>3, <1>4, <1>5, <1>6

-----------------------------------------------------------------------------
(* The invariant.                                                          *)

(* A request of e is under way, or may still arrive. *)
Sending(e) == pc[e] = "send" \/ \E r \in late : r.who = e

BodyType(b) == DOMAIN b \subseteq Fields /\ \A f \in DOMAIN b : b[f] \in Values

Typed ==
  /\ kind \in Kinds
  /\ DOMAIN cmd = Editors
  /\ DOMAIN op = Editors /\ \A e \in Editors : OpOf(kind, op[e])
  /\ pc \in [Editors -> {"idle", "read", "send", "done"}]
  /\ DOMAIN body = Editors /\ \A e \in Editors : BodyType(body[e])
  /\ tries \in [Editors -> 0..Attempts]
  /\ code \in [Editors -> {-1, 0, 1}]
  /\ there \in BOOLEAN
  /\ store \in [Fields -> Values]
  /\ wanted \in [Fields -> Values]
  /\ made \in [Editors -> Nat]
  /\ overlap \in BOOLEAN
  /\ wrong \subseteq {"partial", "other", "unnamed"}

(* How far a command is, and what that says of the request it sends.       *)
Staged ==
  /\ \A e \in Editors :
       /\ pc[e] \in {"idle", "read"} => tries[e] = 0
       /\ pc[e] = "send" => tries[e] < Attempts
       /\ pc[e] = "idle" => op[e].does = "refuse"
       /\ pc[e] = "read" => op[e].does = "edit"
       /\ pc[e] \in {"read", "send"} => op[e] \in cmd[e].ops
       /\ pc[e] # "done" => code[e] = -1
       /\ pc[e] # "idle" /\ op[e].does # "edit" => body[e] = Payload(op[e], e)
       /\ pc[e] = "send" => op[e].does # "refuse"
  /\ \A r \in late :
       /\ r.who \in Editors
       /\ r.op = op[r.who]
       /\ r.body = body[r.who]
       /\ pc[r.who] \in {"send", "done"}
       /\ r.op.does # "refuse"

Anonymous == kind = "post" /\ "unnamed" \in wrong

Aimed(s) == IF s["when"] = "driven" THEN s["schedule"] # Zero ELSE s["targets"] # Zero

(* The state an edit is about to write. *)
WholeBodies ==
  \A e \in Editors : Sending(e) /\ op[e].does = "edit" =>
    /\ ~Anonymous => \A f \in DOMAIN body[e] : body[e][f] # Foreign
    /\ kind = "schedule" =>
         {"name", "mode"} \subseteq DOMAIN body[e] /\ body[e]["name"] # Zero /\ body[e]["mode"] # Zero
    /\ kind = "post" => DOMAIN body[e] = Fields /\ Aimed(body[e])

(* A create has one attempt: under way, lost for good, late, or acted.     *)
OneEach ==
  \A e \in Editors :
    /\ pc[e] = "idle" => made[e] = 0 /\ \A r \in late : r.who # e
    /\ op[e].does = "create" =>
         /\ pc[e] = "send" => made[e] = 0 /\ \A r \in late : r.who # e
         /\ made[e] <= 1
         /\ made[e] = 1 => \A r \in late : r.who # e
         /\ \A r, s \in late : r.who = e /\ s.who = e => r = s
         /\ code[e] = 0 => made[e] = 1

EditInv == Typed /\ Staged /\ WholeBodies /\ OneEach /\ NothingForeignIsWritten /\ NeverLeftWithoutTarget

-----------------------------------------------------------------------------
LEMMA Distinct ==
  /\ Old # Zero /\ Foreign # Old /\ Foreign # Zero
  /\ "own" \notin {Old, Zero, Foreign} /\ "driven" \notin {Old, Zero, Foreign}
  /\ \A e \in Editors : e \notin {Old, Zero, Foreign, "own", "driven"}
  /\ Attempts \in Nat \ {0}
BY EditorsAssumption DEF EditorsAssumption

LEMMA PayloadFacts ==
  ASSUME kind \in Kinds, NEW e \in Editors, NEW o, OpOf(kind, o)
  PROVE  /\ DOMAIN Payload(o, e) = o.gives
         /\ BodyType(Payload(o, e))
         /\ \A f \in o.gives : Payload(o, e)[f] \notin {Foreign, Zero}
         /\ o.does \in {"edit", "patch"} => \A f \in o.gives : Payload(o, e)[f] = e
<1>1. DOMAIN Payload(o, e) = o.gives /\ o.gives \subseteq Fields
  BY DEF Payload, OpOf, Fields
<1>2. \A f \in o.gives : Payload(o, e)[f] = IF f = "when" THEN "own" ELSE IF f = "mode" THEN Old ELSE e
  BY DEF Payload
<1>3. \A f \in o.gives : Payload(o, e)[f] \in Values
  BY <1>2 DEF Values
<1>4. \A f \in o.gives : Payload(o, e)[f] \notin {Foreign, Zero}
  BY <1>2, Distinct
<1>5. o.does \in {"edit", "patch"} => \A f \in o.gives : f # "when" /\ f # "mode"
  BY DEF OpOf
<1> QED BY <1>1, <1>2, <1>3, <1>4, <1>5 DEF BodyType

LEMMA InitInv == Init => EditInv
<1> SUFFICES ASSUME Init PROVE EditInv
  OBVIOUS
<1>0. Attempts \in Nat \ {0}
  BY Distinct
<1>1. store \in FreshStates(kind) /\ kind \in Kinds
  BY DEF Init
<1>2. store \in [Fields -> Values] /\ \A f \in Fields : store[f] # Foreign
  <2>1. CASE kind = "post"
    BY <1>1, <2>1, Distinct DEF FreshStates, Fields, FieldsOf, Values
  <2>2. CASE kind # "post"
    BY <1>1, <2>2, Distinct DEF FreshStates, Fields, Values
  <2> QED BY <2>1, <2>2
<1>3. kind = "schedule" => store["name"] # Zero /\ store["mode"] # Zero
  BY <1>1, Distinct DEF FreshStates, FieldsOf, ScheduleFields
<1>4. kind = "post" => Aimed(store)
  BY <1>1, Distinct DEF FreshStates, PostFields, Aimed
<1>5. \A e \in Editors : OpOf(kind, op[e]) /\ op[e].does = "refuse" /\ BodyType(body[e])
  <2>1. OpOf(kind, Refusal(kind)) /\ Refusal(kind).does = "refuse"
    BY <1>1, SimpleOps DEF Refusal
  <2>2. BodyType(NoBody)
    BY DEF BodyType, NoBody
  <2> QED BY <2>1, <2>2 DEF Init
<1>6. Typed
  <2>1. kind \in Kinds /\ DOMAIN cmd = Editors /\ DOMAIN op = Editors /\ DOMAIN body = Editors
    BY DEF Init
  <2>2. pc \in [Editors -> {"idle", "read", "send", "done"}] /\ code \in [Editors -> {-1, 0, 1}]
    BY DEF Init
  <2>3. tries \in [Editors -> 0..Attempts] /\ made \in [Editors -> Nat]
    BY <1>0 DEF Init
  <2>4. there \in BOOLEAN /\ overlap \in BOOLEAN /\ wrong \subseteq {"partial", "other", "unnamed"}
    BY DEF Init
  <2>5. wanted \in [Fields -> Values]
    BY <1>2 DEF Init
  <2> QED BY <1>2, <1>5, <2>1, <2>2, <2>3, <2>4, <2>5 DEF Typed
<1>7. Staged
  BY <1>0, <1>5 DEF Init, Staged
<1>8. WholeBodies /\ OneEach
  BY <1>5 DEF Init, WholeBodies, OneEach, Sending
<1>9. NothingForeignIsWritten
  BY <1>2, <1>3 DEF NothingForeignIsWritten
<1>10. NeverLeftWithoutTarget
  BY <1>4 DEF NeverLeftWithoutTarget, Aimed
<1> QED BY <1>6, <1>7, <1>8, <1>9, <1>10 DEF EditInv

(* What one request does to the server. *)
LEMMA Arrival ==
  ASSUME Typed, Staged, WholeBodies, NothingForeignIsWritten, NeverLeftWithoutTarget,
         kind' = kind, op' = op, wrong' = wrong,
         NEW e \in Editors, Sending(e), Arrives(e, op[e], body[e])
  PROVE  /\ there' \in BOOLEAN /\ store' \in [Fields -> Values]
         /\ IF op[e].does = "create" THEN made' = [made EXCEPT ![e] = @ + 1] ELSE made' = made
         /\ NothingForeignIsWritten' /\ NeverLeftWithoutTarget'
<1>1. OpOf(kind, op[e]) /\ BodyType(body[e]) /\ store \in [Fields -> Values] /\ there \in BOOLEAN /\ kind \in Kinds
  BY DEF Typed
<1>2. op[e].does # "refuse" /\ (op[e].does # "edit" => body[e] = Payload(op[e], e))
  BY DEF Sending, Staged
<1>3. Fields' = Fields /\ (Anonymous' <=> Anonymous) /\ (Overwrites' <=> Overwrites)
  BY DEF Fields, Anonymous, Overwrites
<1>4. CASE op[e].does \in {"create", "delete"}
  <2>1. store' = store /\ there' \in BOOLEAN
    BY <1>1, <1>4 DEF Arrives
  <2>2. IF op[e].does = "create" THEN made' = [made EXCEPT ![e] = @ + 1] ELSE made' = made
    BY <1>4 DEF Arrives
  <2> QED BY <1>1, <1>3, <2>1, <2>2 DEF NothingForeignIsWritten, NeverLeftWithoutTarget
<1>5. CASE op[e].does \notin {"create", "delete"}
  <2>1. made' = made /\ there' = there /\ store' = IF there THEN Written(op[e], body[e]) ELSE store
    BY <1>5 DEF Arrives
  <2>2. CASE ~there
    BY <1>1, <1>3, <1>5, <2>1, <2>2 DEF NothingForeignIsWritten, NeverLeftWithoutTarget
  <2>3. CASE there
    <3>1. store' = [f \in Fields |-> IF f \in DOMAIN body[e] THEN body[e][f]
                                     ELSE IF op[e].does = "patch" THEN store[f] ELSE Zero]
      BY <2>1, <2>3 DEF Written
    <3>2. store' \in [Fields -> Values]
      BY <1>1, <3>1 DEF BodyType, Values
    <3>3. CASE op[e].does = "edit"
      <4>1. /\ ~Anonymous => \A f \in DOMAIN body[e] : body[e][f] # Foreign
            /\ kind = "schedule" =>
                 {"name", "mode"} \subseteq DOMAIN body[e] /\ body[e]["name"] # Zero /\ body[e]["mode"] # Zero
            /\ kind = "post" => DOMAIN body[e] = Fields /\ Aimed(body[e])
        BY <3>3 DEF WholeBodies
      <4>2. \A f \in Fields : store'[f] = IF f \in DOMAIN body[e] THEN body[e][f] ELSE Zero
        BY <3>1, <3>3
      <4>3. NothingForeignIsWritten'
        <5>1. ~Anonymous => \A f \in Fields : store'[f] # Foreign
          BY <4>1, <4>2, Distinct
        <5>2. kind = "schedule" => store'["name"] # Zero /\ store'["mode"] # Zero
          BY <4>1, <4>2, <1>1 DEF BodyType
        <5> QED BY <1>3, <5>1, <5>2 DEF NothingForeignIsWritten, Anonymous
      <4>4. NeverLeftWithoutTarget'
        <5>1. kind = "post" => Aimed(store')
          <6> SUFFICES ASSUME kind = "post" PROVE Aimed(store')
            OBVIOUS
          <6>1. {"when", "schedule", "targets"} \subseteq Fields
            BY DEF Fields, FieldsOf, PostFields
          <6>2. /\ store'["when"] = body[e]["when"] /\ store'["schedule"] = body[e]["schedule"]
                /\ store'["targets"] = body[e]["targets"]
            BY <4>1, <4>2, <6>1
          <6> QED BY <4>1, <6>2 DEF Aimed
        <5> QED BY <5>1 DEF NeverLeftWithoutTarget, Aimed
      <4> QED BY <2>1, <3>2, <3>3, <4>3, <4>4, <1>1
    <3>4. CASE op[e].does \in {"patch", "overwrite"}
      <4>1. body[e] = Payload(op[e], e)
        BY <1>2, <3>4
      <4>2. /\ DOMAIN body[e] = op[e].gives
            /\ \A f \in op[e].gives : body[e][f] \notin {Foreign, Zero}
        BY <1>1, <4>1, PayloadFacts
      <4>3. \A f \in Fields :
              store'[f] = IF f \in op[e].gives THEN body[e][f] ELSE IF op[e].does = "patch" THEN store[f] ELSE Zero
        BY <3>1, <4>2
      <4>4. NothingForeignIsWritten'
        <5>1. ~Anonymous => \A f \in Fields : store'[f] # Foreign
          BY <4>2, <4>3, Distinct DEF NothingForeignIsWritten, Anonymous
        <5>2. kind = "schedule" => op[e].does = "overwrite" /\ {"name", "mode"} \subseteq op[e].gives
          BY <1>1, <3>4 DEF OpOf
        <5>3. kind = "schedule" => {"name", "mode"} \subseteq Fields
          BY DEF Fields, FieldsOf, ScheduleFields
        <5>4. kind = "schedule" => store'["name"] # Zero /\ store'["mode"] # Zero
          BY <4>2, <4>3, <5>2, <5>3
        <5> QED BY <1>3, <5>1, <5>4 DEF NothingForeignIsWritten, Anonymous
      <4>5. NeverLeftWithoutTarget'
        <5>1. CASE op[e].does = "overwrite"
          BY <5>1, <1>3 DEF Overwrites, NeverLeftWithoutTarget
        <5>2. CASE op[e].does = "patch"
          <6> SUFFICES ASSUME kind = "post", ~Overwrites PROVE Aimed(store')
            BY <1>3 DEF NeverLeftWithoutTarget, Aimed
          <6>1. op[e].gives = {"schedule"}
            BY <1>1, <5>2 DEF OpOf
          <6>2. {"when", "schedule", "targets"} \subseteq Fields
            BY DEF Fields, FieldsOf, PostFields
          <6>3. /\ store'["when"] = store["when"] /\ store'["targets"] = store["targets"]
                /\ store'["schedule"] # Zero
            BY <4>2, <4>3, <5>2, <6>1, <6>2
          <6> QED BY <6>3 DEF NeverLeftWithoutTarget, Aimed
        <5> QED BY <3>4, <5>1, <5>2
      <4> QED BY <2>1, <3>2, <3>4, <4>4, <4>5, <1>1
    <3> QED BY <1>1, <1>2, <1>5, <3>3, <3>4 DEF OpOf
  <2> QED BY <2>2, <2>3
<1> QED BY <1>4, <1>5

-----------------------------------------------------------------------------
(* The steps.  A request that is sent, or that arrives late, starts nothing*)
(* new.                                                                    *)
LEMMA Afterwards ==
  ASSUME EditInv, UNCHANGED <<kind, cmd, op, body, overlap, wrong>>,
         pc' \in [Editors -> {"idle", "read", "send", "done"}],
         tries' \in [Editors -> 0..Attempts], code' \in [Editors -> {-1, 0, 1}],
         there' \in BOOLEAN, store' \in [Fields -> Values], wanted' \in [Fields -> Values],
         made' \in [Editors -> Nat],
         Staged', OneEach', NothingForeignIsWritten', NeverLeftWithoutTarget',
         \A x \in Editors : Sending(x)' => Sending(x)
  PROVE  EditInv'
<1>1. Fields' = Fields /\ (Anonymous' <=> Anonymous)
  BY DEF Fields, Anonymous
<1>2. Typed'
  <2>1. kind' \in Kinds /\ DOMAIN cmd' = Editors /\ overlap' \in BOOLEAN /\ wrong' \subseteq {"partial", "other", "unnamed"}
    BY DEF EditInv, Typed
  <2>2. DOMAIN op' = Editors /\ (\A e \in Editors : OpOf(kind, op[e])')
    BY DEF EditInv, Typed, OpOf
  <2>3. DOMAIN body' = Editors /\ (\A e \in Editors : BodyType(body[e])')
    BY <1>1 DEF EditInv, Typed, BodyType, Values
  <2> QED BY <1>1, <2>1, <2>2, <2>3 DEF Typed, Values
<1>3. WholeBodies'
  BY <1>1 DEF EditInv, WholeBodies, Aimed
<1> QED BY <1>2, <1>3 DEF EditInv

LEMMA SendingFacts ==
  ASSUME EditInv, NEW e \in Editors, pc[e] = "send"
  PROVE  /\ Sending(e) /\ tries[e] \in Nat /\ tries[e] < Attempts /\ code[e] = -1
         /\ op[e].does # "refuse" /\ OpOf(kind, op[e])
         /\ op[e].does = "create" => made[e] = 0 /\ \A r \in late : r.who # e
BY Distinct DEF EditInv, Typed, Staged, OneEach, Sending

LEMMA AnsweredInv == ASSUME EditInv, NEW e \in Editors, Answered(e) PROVE EditInv'
<1>1. pc[e] = "send" /\ Arrives(e, op[e], body[e])
  BY DEF Answered
<1>2. UNCHANGED <<kind, cmd, op, body, late, overlap, wrong>>
  BY DEF Answered
<1>3. /\ tries' = [tries EXCEPT ![e] = @ + 1] /\ pc' = [pc EXCEPT ![e] = "done"]
      /\ code' = [code EXCEPT ![e] = 0]
  BY DEF Answered, Return
<1>4. Sending(e) /\ tries[e] \in Nat /\ tries[e] < Attempts /\ OpOf(kind, op[e])
      /\ (op[e].does = "create" => made[e] = 0 /\ \A r \in late : r.who # e)
  BY <1>1, SendingFacts
<1>5. /\ there' \in BOOLEAN /\ store' \in [Fields -> Values]
      /\ IF op[e].does = "create" THEN made' = [made EXCEPT ![e] = @ + 1] ELSE made' = made
      /\ NothingForeignIsWritten' /\ NeverLeftWithoutTarget'
  BY <1>1, <1>2, <1>4, Arrival DEF EditInv
<1>6. pc' \in [Editors -> {"idle", "read", "send", "done"}]
  BY <1>3 DEF EditInv, Typed
<1>7. tries' \in [Editors -> 0..Attempts]
  BY <1>3, <1>4, Distinct DEF EditInv, Typed
<1>8. code' \in [Editors -> {-1, 0, 1}]
  BY <1>3 DEF EditInv, Typed
<1>9. made' \in [Editors -> Nat]
  BY <1>5 DEF EditInv, Typed
<1>10. wanted' \in [Fields -> Values]
  <2>1. BodyType(Payload(op[e], e)) /\ kind \in Kinds
    BY <1>4, PayloadFacts DEF EditInv, Typed
  <2> QED BY <2>1 DEF Answered, EditInv, Typed, BodyType
<1>11. Staged'
  BY <1>1, <1>2, <1>3, <1>4 DEF EditInv, Typed, Staged, Payload
<1>12. OneEach'
  BY <1>1, <1>2, <1>3, <1>4, <1>5 DEF EditInv, Typed, OneEach
<1>13. \A x \in Editors : Sending(x)' => Sending(x)
  BY <1>1, <1>2, <1>3 DEF Sending, EditInv, Typed
<1> QED BY <1>2, <1>5, <1>6, <1>7, <1>8, <1>9, <1>10, <1>11, <1>12, <1>13, Afterwards

LEMMA AnsweredWithoutIdInv == ASSUME EditInv, NEW e \in Editors, AnsweredWithoutId(e) PROVE EditInv'
<1>1. pc[e] = "send" /\ Arrives(e, op[e], body[e]) /\ op[e].does = "create"
  BY DEF AnsweredWithoutId
<1>2. UNCHANGED <<kind, cmd, op, body, late, wanted, overlap, wrong>>
  BY DEF AnsweredWithoutId, history
<1>3. /\ tries' = [tries EXCEPT ![e] = @ + 1] /\ pc' = [pc EXCEPT ![e] = "done"]
      /\ code' = [code EXCEPT ![e] = 1]
  BY DEF AnsweredWithoutId, Return
<1>4. Sending(e) /\ tries[e] \in Nat /\ tries[e] < Attempts /\ made[e] = 0 /\ \A r \in late : r.who # e
  BY <1>1, SendingFacts
<1>5. /\ there' \in BOOLEAN /\ store' \in [Fields -> Values]
      /\ made' = [made EXCEPT ![e] = @ + 1]
      /\ NothingForeignIsWritten' /\ NeverLeftWithoutTarget'
  BY <1>1, <1>2, <1>4, Arrival DEF EditInv
<1>6. pc' \in [Editors -> {"idle", "read", "send", "done"}]
  BY <1>3 DEF EditInv, Typed
<1>7. tries' \in [Editors -> 0..Attempts]
  BY <1>3, <1>4, Distinct DEF EditInv, Typed
<1>8. code' \in [Editors -> {-1, 0, 1}]
  BY <1>3 DEF EditInv, Typed
<1>9. made' \in [Editors -> Nat] /\ wanted' \in [Fields -> Values]
  BY <1>2, <1>5 DEF EditInv, Typed
<1>10. Staged'
  BY <1>1, <1>2, <1>3, <1>4 DEF EditInv, Typed, Staged, Payload
<1>11. OneEach'
  BY <1>1, <1>2, <1>3, <1>4, <1>5 DEF EditInv, Typed, OneEach
<1>12. \A x \in Editors : Sending(x)' => Sending(x)
  BY <1>1, <1>2, <1>3 DEF Sending, EditInv, Typed
<1> QED BY <1>2, <1>5, <1>6, <1>7, <1>8, <1>9, <1>10, <1>11, <1>12, Afterwards

(* A command that ends without touching the server. *)
LEMMA EndsInv ==
  ASSUME EditInv, NEW e \in Editors, pc[e] \in {"read", "send"}, Return(e, 1),
         UNCHANGED <<kind, cmd, op, body, there, store, made, late, wanted, overlap, wrong>>,
         \/ tries' = tries
         \/ pc[e] = "send" /\ tries' = [tries EXCEPT ![e] = @ + 1]
  PROVE  EditInv'
<1>1. pc' = [pc EXCEPT ![e] = "done"] /\ code' = [code EXCEPT ![e] = 1]
  BY DEF Return
<1>2. pc' \in [Editors -> {"idle", "read", "send", "done"}]
  BY <1>1 DEF EditInv, Typed
<1>3. tries' \in [Editors -> 0..Attempts]
  BY SendingFacts, Distinct DEF EditInv, Typed
<1>4. code' \in [Editors -> {-1, 0, 1}]
  BY <1>1 DEF EditInv, Typed
<1>5. there' \in BOOLEAN /\ store' \in [Fields -> Values] /\ wanted' \in [Fields -> Values] /\ made' \in [Editors -> Nat]
  BY DEF EditInv, Typed
<1>6. NothingForeignIsWritten' /\ NeverLeftWithoutTarget'
  BY DEF EditInv, NothingForeignIsWritten, NeverLeftWithoutTarget, Fields, Overwrites
<1>7. Staged'
  BY <1>1 DEF EditInv, Typed, Staged, Payload
<1>8. OneEach'
  BY <1>1 DEF EditInv, Typed, OneEach
<1>9. \A x \in Editors : Sending(x)' => Sending(x)
  BY <1>1 DEF Sending, EditInv, Typed
<1> QED BY <1>2, <1>3, <1>4, <1>5, <1>6, <1>7, <1>8, <1>9, Afterwards

LEMMA ReadFailsInv == ASSUME EditInv, NEW e \in Editors, ReadFails(e) PROVE EditInv'
BY EndsInv DEF ReadFails, server, history

LEMMA RefusedInv == ASSUME EditInv, NEW e \in Editors, RefusedByServer(e) PROVE EditInv'
BY EndsInv DEF RefusedByServer, server, history

LEMMA LateInv == ASSUME EditInv, LateArrives PROVE EditInv'
<1>1. PICK r \in late : Arrives(r.who, r.op, r.body) /\ late' = late \ {r}
  BY DEF LateArrives
<1>2. UNCHANGED <<kind, cmd, op, pc, body, tries, code, wanted, overlap, wrong>>
  BY DEF LateArrives, calls, history
<1> DEFINE e == r.who
<1>3. e \in Editors /\ r.op = op[e] /\ r.body = body[e] /\ pc[e] \in {"send", "done"}
  BY DEF EditInv, Staged
<1>4. Sending(e)
  BY DEF Sending
<1> HIDE DEF e
<1>5. r.who = e
  BY DEF e
<1>6. Arrives(e, op[e], body[e])
  BY <1>1, <1>3, <1>5
<1>7. /\ there' \in BOOLEAN /\ store' \in [Fields -> Values]
      /\ IF op[e].does = "create" THEN made' = [made EXCEPT ![e] = @ + 1] ELSE made' = made
      /\ NothingForeignIsWritten' /\ NeverLeftWithoutTarget'
  BY <1>2, <1>3, <1>4, <1>6, Arrival DEF EditInv
<1>8. /\ pc' \in [Editors -> {"idle", "read", "send", "done"}] /\ tries' \in [Editors -> 0..Attempts]
      /\ code' \in [Editors -> {-1, 0, 1}] /\ wanted' \in [Fields -> Values]
  BY <1>2 DEF EditInv, Typed, Fields, Values
<1>9. made' \in [Editors -> Nat]
  BY <1>7 DEF EditInv, Typed
<1>10. Staged'
  BY <1>1, <1>2 DEF EditInv, Staged, Payload
<1>11. OneEach'
  <2>1. CASE op[e].does # "create"
    BY <1>1, <1>2, <1>7, <2>1 DEF EditInv, OneEach
  <2>2. CASE op[e].does = "create"
    <3>1. pc[e] = "done" /\ made[e] = 0 /\ code[e] # 0 /\ (\A q \in late : q.who = e => q = r)
      BY <1>3, <1>5, <2>2 DEF EditInv, OneEach, Typed
    <3>2. \A q \in late' : q \in late /\ q.who # e
      BY <1>1, <3>1
    <3> QED BY <1>2, <1>3, <1>7, <2>2, <3>1, <3>2 DEF EditInv, OneEach, Typed
  <2> QED BY <2>1, <2>2
<1>12. \A x \in Editors : Sending(x)' => Sending(x)
  BY <1>1, <1>2 DEF Sending
<1> QED BY <1>2, <1>7, <1>8, <1>9, <1>10, <1>11, <1>12, Afterwards

LEMMA UnansweredInv == ASSUME EditInv, NEW e \in Editors, Unanswered(e) PROVE EditInv'
<1>1. pc[e] = "send"
  BY DEF Unanswered
<1>2. UNCHANGED <<kind, cmd, op, body, wanted, overlap, wrong>>
  BY DEF Unanswered, history
<1>3. tries' = [tries EXCEPT ![e] = @ + 1]
  BY DEF Unanswered
<1>4. Sending(e) /\ tries[e] \in Nat /\ tries[e] < Attempts /\ OpOf(kind, op[e]) /\ op[e].does # "refuse"
      /\ (op[e].does = "create" => made[e] = 0 /\ \A r \in late : r.who # e)
  BY <1>1, SendingFacts
<1>5. \/ op[e].resends /\ tries[e] + 1 < Attempts /\ pc' = pc /\ code' = code
      \/ pc' = [pc EXCEPT ![e] = "done"] /\ code' = [code EXCEPT ![e] = 1]
  BY DEF Unanswered, MayResend, Return
<1>6. pc' \in [Editors -> {"idle", "read", "send", "done"}]
  BY <1>5 DEF EditInv, Typed
<1>7. tries' \in [Editors -> 0..Attempts]
  BY <1>3, <1>4, Distinct DEF EditInv, Typed
<1>8. code' \in [Editors -> {-1, 0, 1}]
  BY <1>5 DEF EditInv, Typed
<1>9. wanted' \in [Fields -> Values]
  BY <1>2 DEF EditInv, Typed, Fields
<1> DEFINE n == [who |-> e, op |-> op[e], body |-> body[e], attempt |-> tries[e]]
<1>10. n.who = e /\ n.op = op[e] /\ n.body = body[e]
  OBVIOUS
<1>11. \/ late' = late /\ Arrives(e, op[e], body[e])
       \/ late' = late /\ UNCHANGED <<there, store, made>>
       \/ late' = late \cup {n} /\ UNCHANGED <<there, store, made>>
  BY DEF Unanswered, server
<1> HIDE DEF n
<1>12. \/ IF op[e].does = "create" THEN made' = [made EXCEPT ![e] = @ + 1] /\ late' = late ELSE made' = made
       \/ made' = made
  BY <1>2, <1>4, <1>11, Arrival DEF EditInv
<1>13. there' \in BOOLEAN /\ store' \in [Fields -> Values] /\ NothingForeignIsWritten' /\ NeverLeftWithoutTarget'
  <2>1. CASE Arrives(e, op[e], body[e])
    BY <1>2, <1>4, <2>1, Arrival DEF EditInv
  <2>2. CASE UNCHANGED <<there, store, made>>
    BY <1>2, <2>2 DEF EditInv, Typed, NothingForeignIsWritten, NeverLeftWithoutTarget, Fields, Overwrites
  <2> QED BY <1>11, <2>1, <2>2
<1>14. made' \in [Editors -> Nat]
  BY <1>12 DEF EditInv, Typed
<1>15. late' = late \/ late' = late \cup {n}
  BY <1>11
<1>16. Staged'
  <2>1. \A x \in Editors : Payload(op[x], x)' = Payload(op[x], x)
    BY <1>2 DEF Payload
  <2>2. \A x \in Editors :
          /\ pc[x] \in {"idle", "read"} => tries[x] = 0
          /\ pc[x] = "send" => tries[x] < Attempts
          /\ pc[x] = "idle" => op[x].does = "refuse"
          /\ pc[x] = "read" => op[x].does = "edit"
          /\ pc[x] \in {"read", "send"} => op[x] \in cmd[x].ops
          /\ pc[x] # "done" => code[x] = -1
          /\ pc[x] # "idle" /\ op[x].does # "edit" => body[x] = Payload(op[x], x)
          /\ pc[x] = "send" => op[x].does # "refuse"
    BY DEF EditInv, Staged
  <2>3. \A x \in Editors :
          /\ pc'[x] \in {"idle", "read"} => tries'[x] = 0
          /\ pc'[x] = "send" => tries'[x] < Attempts
          /\ pc'[x] = "idle" => op'[x].does = "refuse"
          /\ pc'[x] = "read" => op'[x].does = "edit"
          /\ pc'[x] \in {"read", "send"} => op'[x] \in cmd'[x].ops
          /\ pc'[x] # "done" => code'[x] = -1
          /\ pc'[x] # "idle" /\ op'[x].does # "edit" => body'[x] = Payload(op[x], x)'
          /\ pc'[x] = "send" => op'[x].does # "refuse"
    <3> SUFFICES ASSUME NEW x \in Editors
                 PROVE  /\ pc'[x] \in {"idle", "read"} => tries'[x] = 0
                        /\ pc'[x] = "send" => tries'[x] < Attempts
                        /\ pc'[x] = "idle" => op'[x].does = "refuse"
                        /\ pc'[x] = "read" => op'[x].does = "edit"
                        /\ pc'[x] \in {"read", "send"} => op'[x] \in cmd'[x].ops
                        /\ pc'[x] # "done" => code'[x] = -1
                        /\ pc'[x] # "idle" /\ op'[x].does # "edit" => body'[x] = Payload(op[x], x)'
                        /\ pc'[x] = "send" => op'[x].does # "refuse"
      OBVIOUS
    <3>1. CASE x = e
      BY <1>1, <1>2, <1>3, <1>4, <1>5, <2>1, <2>2, <3>1 DEF EditInv, Typed
    <3>2. CASE x # e
      BY <1>2, <1>3, <1>5, <2>1, <2>2, <3>2 DEF EditInv, Typed
    <3> QED BY <3>1, <3>2
  <2>4. pc'[e] \in {"send", "done"} /\ \A x \in Editors : x # e => pc'[x] = pc[x]
    BY <1>1, <1>5 DEF EditInv, Typed
  <2>5. \A r \in late' : /\ r.who \in Editors /\ r.op = op'[r.who] /\ r.body = body'[r.who]
                         /\ pc'[r.who] \in {"send", "done"} /\ r.op.does # "refuse"
    BY <1>2, <1>4, <1>10, <1>15, <2>4 DEF EditInv, Staged
  <2> QED BY <2>3, <2>5 DEF Staged
<1>17. OneEach'
  <2>1. \A x \in Editors : x # e => /\ pc'[x] = pc[x] /\ code'[x] = code[x] /\ made'[x] = made[x] /\ op'[x] = op[x]
                                    /\ \A r \in late' : r.who = x => r \in late
    BY <1>2, <1>5, <1>10, <1>12, <1>15 DEF EditInv, Typed
  <2>2. pc'[e] # "idle" /\ op'[e] = op[e]
    BY <1>1, <1>2, <1>5 DEF EditInv, Typed
  <2>3. op[e].does = "create" =>
          /\ pc'[e] = "done" /\ code'[e] = 1
          /\ \/ made'[e] = 1 /\ late' = late
             \/ made'[e] = 0
    BY <1>4, <1>5, <1>12 DEF OpOf, EditInv, Typed
  <2>4. op[e].does = "create" => \A r \in late' : r.who = e => r = n
    BY <1>4, <1>15
  <2> QED BY <1>4, <2>1, <2>2, <2>3, <2>4 DEF EditInv, OneEach
<1>18. \A x \in Editors : Sending(x)' => Sending(x)
  BY <1>1, <1>4, <1>5, <1>10, <1>15 DEF Sending, EditInv, Typed
<1> QED BY <1>2, <1>6, <1>7, <1>8, <1>9, <1>13, <1>14, <1>16, <1>17, <1>18, Afterwards

LEMMA StartInv == ASSUME EditInv, NEW e \in Editors, Start(e) PROVE EditInv'
<1>1. pc[e] = "idle" /\ UNCHANGED <<kind, tries, there, store, made, late, wanted, wrong>>
  BY DEF Start, server
<1>2. PICK c \in CommandsOn(kind), o \in UNION {d.ops : d \in CommandsOn(kind)} :
        /\ o \in c.ops
        /\ cmd' = [cmd EXCEPT ![e] = c]
        /\ op' = [op EXCEPT ![e] = o]
        /\ body' = [body EXCEPT ![e] = IF o.does = "edit" THEN NoBody ELSE Payload(o, e)]
        /\ pc' = [pc EXCEPT ![e] = CASE o.does = "refuse" -> "done"
                                     [] o.does = "edit" -> "read"
                                     [] OTHER -> "send"]
        /\ code' = [code EXCEPT ![e] = IF o.does = "refuse" THEN 1 ELSE @]
        /\ overlap' = (overlap \/ (o.does # "refuse" /\ \E other \in Editors \ {e} : Open(other)))
  BY DEF Start
<1>3. OpOf(kind, o) /\ kind \in Kinds
  BY <1>2, CommandOps DEF EditInv, Typed
<1>4. Fields' = Fields /\ Values' = Values /\ (Anonymous' <=> Anonymous)
  BY <1>1 DEF Fields, Values, Anonymous
<1>5. \A x \in Editors : x # e => /\ cmd'[x] = cmd[x] /\ op'[x] = op[x] /\ pc'[x] = pc[x] /\ body'[x] = body[x]
                                  /\ code'[x] = code[x]
  BY <1>2 DEF EditInv, Typed
<1>6. /\ cmd'[e] = c /\ op'[e] = o /\ body'[e] = IF o.does = "edit" THEN NoBody ELSE Payload(o, e)
      /\ pc'[e] \in {"done", "read", "send"}
      /\ pc'[e] = "done" <=> o.does = "refuse"
      /\ pc'[e] = "read" <=> o.does = "edit"
      /\ code'[e] = IF o.does = "refuse" THEN 1 ELSE -1
  <2>1. code[e] = -1
    BY <1>1 DEF EditInv, Staged
  <2> QED BY <1>2, <2>1 DEF EditInv, Typed
<1>7. tries[e] = 0 /\ made[e] = 0 /\ op[e].does = "refuse" /\ (\A r \in late : r.who # e)
  BY <1>1 DEF EditInv, Staged, OneEach
<1>8. BodyType(body'[e])
  <2>1. BodyType(NoBody)
    BY DEF BodyType, NoBody
  <2> QED BY <1>3, <1>6, <2>1, PayloadFacts
<1>9. Typed'
  <2>1. kind' \in Kinds /\ DOMAIN cmd' = Editors /\ DOMAIN op' = Editors /\ DOMAIN body' = Editors
    BY <1>1, <1>2 DEF EditInv, Typed
  <2>2. \A x \in Editors : OpOf(kind', op'[x]) /\ BodyType(body'[x])
    BY <1>1, <1>3, <1>5, <1>6, <1>8 DEF EditInv, Typed
  <2>3. pc' \in [Editors -> {"idle", "read", "send", "done"}]
    <3>1. \A x \in Editors : pc'[x] \in {"idle", "read", "send", "done"}
      BY <1>5, <1>6 DEF EditInv, Typed
    <3> QED BY <1>2, <3>1 DEF EditInv, Typed
  <2>4. code' \in [Editors -> {-1, 0, 1}]
    BY <1>2 DEF EditInv, Typed
  <2>5. overlap' \in BOOLEAN
    BY <1>2 DEF EditInv, Typed
  <2>6. /\ tries' \in [Editors -> 0..Attempts] /\ there' \in BOOLEAN /\ store' \in [Fields -> Values]
        /\ wanted' \in [Fields -> Values] /\ made' \in [Editors -> Nat] /\ wrong' \subseteq {"partial", "other", "unnamed"}
    BY <1>1 DEF EditInv, Typed
  <2>7. \A b : BodyType(b)' <=> BodyType(b)
    BY <1>4 DEF BodyType
  <2>8. \A x \in Editors : BodyType(body[x])'
    BY <1>4, <2>2 DEF BodyType
  <2>9. \A x \in Editors : OpOf(kind, op[x])'
    BY <2>2 DEF OpOf
  <2> QED BY <1>4, <2>1, <2>3, <2>4, <2>5, <2>6, <2>8, <2>9 DEF Typed
<1>10. \A x \in Editors : Payload(op[x], x)' = Payload(op'[x], x)
  BY DEF Payload
<1>11. Staged'
  <2>1. \A x \in Editors :
          /\ pc'[x] \in {"idle", "read"} => tries'[x] = 0
          /\ pc'[x] = "send" => tries'[x] < Attempts
          /\ pc'[x] = "idle" => op'[x].does = "refuse"
          /\ pc'[x] = "read" => op'[x].does = "edit"
          /\ pc'[x] \in {"read", "send"} => op'[x] \in cmd'[x].ops
          /\ pc'[x] # "done" => code'[x] = -1
          /\ pc'[x] = "send" => op'[x].does # "refuse"
    <3>1. 0 < Attempts
      BY Distinct
    <3> QED BY <1>1, <1>2, <1>5, <1>6, <1>7, <3>1 DEF EditInv, Typed, Staged
  <2>2. \A x \in Editors : pc'[x] # "idle" /\ op'[x].does # "edit" => body'[x] = Payload(op'[x], x)
    BY <1>5, <1>6 DEF EditInv, Staged
  <2>3. \A r \in late' : /\ r.who \in Editors /\ r.op = op'[r.who] /\ r.body = body'[r.who]
                         /\ pc'[r.who] \in {"send", "done"} /\ r.op.does # "refuse"
    BY <1>1, <1>5, <1>7 DEF EditInv, Staged
  <2> QED BY <1>10, <2>1, <2>2, <2>3 DEF Staged
<1>12. WholeBodies'
  <2>1. \A x \in Editors : Sending(x)' /\ op'[x].does = "edit" => x # e /\ Sending(x)
    BY <1>1, <1>5, <1>6, <1>7 DEF Sending
  <2> QED BY <1>1, <1>4, <1>5, <2>1 DEF EditInv, WholeBodies, Aimed
<1>13. OneEach'
  BY <1>1, <1>5, <1>6, <1>7 DEF EditInv, OneEach
<1>14. NothingForeignIsWritten'
  BY <1>1, <1>4 DEF EditInv, NothingForeignIsWritten
<1>15. NeverLeftWithoutTarget'
  <2>1. Overwrites => Overwrites'
    BY <1>5, <1>7 DEF Overwrites
  <2> QED BY <1>1, <2>1 DEF EditInv, NeverLeftWithoutTarget
<1> QED BY <1>9, <1>11, <1>12, <1>13, <1>14, <1>15 DEF EditInv

(* What an answer that is written back says. *)
LEMMA Believed ==
  ASSUME EditInv, NEW e \in Editors, op[e].does = "edit", NEW a \in EditAnswers, Recognisable(a)
  PROVE  LET b == Overlaid(a, op[e], e)
         IN  /\ BodyType(b)
             /\ ~Anonymous /\ a.wrong # "unnamed" => \A f \in DOMAIN b : b[f] # Foreign
             /\ kind = "schedule" =>
                  {"name", "mode"} \subseteq DOMAIN b /\ b["name"] # Zero /\ b["mode"] # Zero
             /\ kind = "post" => DOMAIN b = Fields /\ Aimed(b)
<1> DEFINE s == a.state
           b == Overlaid(a, op[e], e)
<1>1. OpOf(kind, op[e]) /\ kind \in Kinds /\ store \in [Fields -> Values]
  BY DEF EditInv, Typed
<1>2. \/ kind = "post" /\ op[e].gives = {"text"}
      \/ kind = "schedule" /\ op[e].gives \subseteq {"name", "state", "delete"}
  BY <1>1 DEF OpOf
<1>3. /\ DOMAIN s \subseteq Fields
      /\ \/ a.id \in {0, 1} /\ a.wrong = "partial" /\ \A f \in DOMAIN s : s[f] = store[f]
         \/ a.id = 2
         \/ a.id = 0 /\ a.wrong = "unnamed"
      /\ \A f \in DOMAIN s : s[f] \in Values
  <2> DEFINE Partial == [id : {1, 0}, state : {[f \in K |-> store[f]] : K \in SUBSET Fields}, wrong : {"partial"}]
  <2>1. \/ a \in Partial
        \/ a \in [id : {2}, state : {ForeignState}, wrong : {"other"}]
        \/ a \in [id : {0}, state : {ForeignState}, wrong : {"unnamed"}]
    BY DEF EditAnswers
  <2>2. a \in [id : {2}, state : {ForeignState}, wrong : {"other"}] => a.id = 2 /\ a.state = ForeignState
    OBVIOUS
  <2>3. a \in [id : {0}, state : {ForeignState}, wrong : {"unnamed"}] =>
          a.id = 0 /\ a.wrong = "unnamed" /\ a.state = ForeignState
    OBVIOUS
  <2>4. a \in Partial => /\ DOMAIN s \subseteq Fields /\ a.id \in {0, 1} /\ a.wrong = "partial"
                         /\ \A f \in DOMAIN s : s[f] = store[f] /\ s[f] \in Values
    BY <1>1
  <2>5. a.state = ForeignState => DOMAIN s \subseteq Fields /\ \A f \in DOMAIN s : s[f] \in Values
    <3>1. a.state = ForeignState => DOMAIN s = Fields /\ \A f \in Fields : s[f] \in {store[f], Foreign}
      BY DEF ForeignState
    <3> QED BY <1>1, <3>1 DEF Values
  <2>6. \/ a \in Partial
        \/ /\ a.state = ForeignState
           /\ a.id = 2 \/ (a.id = 0 /\ a.wrong = "unnamed")
    BY <2>1, <2>2, <2>3
  <2> HIDE DEF Partial, s
  <2> QED BY <2>4, <2>5, <2>6
<1>4. /\ DOMAIN b = IF kind = "post" THEN Fields ELSE DOMAIN s \cup op[e].gives
      /\ \A f \in DOMAIN b : b[f] = IF f \in op[e].gives THEN e ELSE IF f \in DOMAIN s THEN s[f] ELSE Zero
  BY DEF Overlaid, At
<1>5. op[e].gives \subseteq Fields
  BY <1>1 DEF OpOf, Fields
<1> HIDE DEF s, b
<1>6. BodyType(b)
  BY <1>3, <1>4, <1>5 DEF BodyType, Values
<1>7. a.id # 2 /\ (kind = "schedule" => a.id = 1 /\ {"name", "mode"} \subseteq DOMAIN s)
  BY <1>2 DEF Recognisable, RecognisablePost, RecognisableSchedule, s
<1>8. ~Anonymous => \A f \in Fields : store[f] # Foreign
  BY DEF EditInv, NothingForeignIsWritten, Anonymous
<1>9. ~Anonymous /\ a.wrong # "unnamed" => \A f \in DOMAIN b : b[f] # Foreign
  BY <1>3, <1>4, <1>7, <1>8, Distinct
<1>10. kind = "schedule" => {"name", "mode"} \subseteq DOMAIN b /\ b["name"] # Zero /\ b["mode"] # Zero
  <2> SUFFICES ASSUME kind = "schedule"
               PROVE  {"name", "mode"} \subseteq DOMAIN b /\ b["name"] # Zero /\ b["mode"] # Zero
    OBVIOUS
  <2>1. store["name"] # Zero /\ store["mode"] # Zero
    BY DEF EditInv, NothingForeignIsWritten
  <2>2. s["name"] = store["name"] /\ s["mode"] = store["mode"]
    BY <1>3, <1>7
  <2> QED BY <1>4, <1>7, <2>1, <2>2, Distinct
<1>11. kind = "post" => DOMAIN b = Fields /\ Aimed(b)
  <2> SUFFICES ASSUME kind = "post" PROVE DOMAIN b = Fields /\ Aimed(b)
    OBVIOUS
  <2>1. op[e].gives = {"text"} /\ DOMAIN b = Fields
    BY <1>2, <1>4
  <2>2. {"when", "schedule", "targets"} \subseteq Fields
    BY DEF Fields, FieldsOf, PostFields
  <2>3. b["when"] = At(s, "when") /\ b["schedule"] = At(s, "schedule") /\ b["targets"] = At(s, "targets")
    BY <1>4, <2>1, <2>2 DEF At
  <2>4. RecognisablePost(a)
    BY DEF Recognisable
  <2> QED BY <2>1, <2>3, <2>4 DEF RecognisablePost, Aimed, s
<1> QED BY <1>6, <1>9, <1>10, <1>11 DEF b

LEMMA ReadEditInv == ASSUME EditInv, NEW e \in Editors, ReadEdit(e) PROVE EditInv'
<1>1. pc[e] = "read" /\ UNCHANGED <<kind, cmd, op, tries, there, store, made, late, wanted, overlap>>
  BY DEF ReadEdit, server
<1>2. PICK a \in EditAnswers :
        /\ wrong' = IF Right(a) THEN wrong ELSE wrong \cup {a.wrong}
        /\ \/ /\ Recognisable(a)
              /\ body' = [body EXCEPT ![e] = Overlaid(a, op[e], e)]
              /\ pc' = [pc EXCEPT ![e] = "send"]
              /\ code' = code
           \/ /\ pc' = [pc EXCEPT ![e] = "done"]
              /\ code' = [code EXCEPT ![e] = 1]
              /\ body' = body
  BY DEF ReadEdit, Return
<1>3. /\ op[e].does = "edit" /\ tries[e] = 0 /\ code[e] = -1 /\ op[e] \in cmd[e].ops
      /\ \A r \in late : r.who # e
  BY <1>1 DEF EditInv, Staged
<1>4. Fields' = Fields /\ Values' = Values
  BY <1>1 DEF Fields, Values
<1>5. \A x \in Editors : x # e => pc'[x] = pc[x] /\ body'[x] = body[x] /\ code'[x] = code[x]
  BY <1>2 DEF EditInv, Typed
<1>6. /\ pc'[e] \in {"send", "done"}
      /\ pc'[e] = "send" => /\ Recognisable(a) /\ body'[e] = Overlaid(a, op[e], e) /\ code'[e] = -1
      /\ pc'[e] = "done" => code'[e] = 1 /\ body'[e] = body[e]
  BY <1>2, <1>3 DEF EditInv, Typed
<1>7. a.wrong \in {"partial", "other", "unnamed"}
  BY DEF EditAnswers
<1>8. /\ wrong \subseteq wrong' /\ wrong' \subseteq {"partial", "other", "unnamed"}
      /\ a.wrong = "unnamed" => "unnamed" \in wrong'
  <2>1. a.wrong = "unnamed" => ~Right(a)
    BY DEF EditAnswers, Right
  <2> QED BY <1>2, <1>7, <2>1 DEF EditInv, Typed
<1>9. ~Anonymous' => ~Anonymous /\ (kind = "post" => a.wrong # "unnamed")
  BY <1>1, <1>8 DEF Anonymous
<1>10. BodyType(body'[e])
  BY <1>3, <1>6, Believed DEF EditInv, Typed
<1>11. Typed'
  <2>1. kind' \in Kinds /\ DOMAIN cmd' = Editors /\ DOMAIN op' = Editors /\ DOMAIN body' = Editors
    BY <1>1, <1>2 DEF EditInv, Typed
  <2>2. pc' \in [Editors -> {"idle", "read", "send", "done"}]
    BY <1>2 DEF EditInv, Typed
  <2>3. code' \in [Editors -> {-1, 0, 1}]
    BY <1>2 DEF EditInv, Typed
  <2>4. \A x \in Editors : BodyType(body[x])'
    <3>1. \A x \in Editors : BodyType(body'[x])
      BY <1>5, <1>10 DEF EditInv, Typed
    <3> QED BY <1>4, <3>1 DEF BodyType
  <2>5. \A x \in Editors : OpOf(kind, op[x])'
    BY <1>1 DEF EditInv, Typed, OpOf
  <2>6. /\ tries' \in [Editors -> 0..Attempts] /\ there' \in BOOLEAN /\ store' \in [Fields -> Values]
        /\ wanted' \in [Fields -> Values] /\ made' \in [Editors -> Nat] /\ overlap' \in BOOLEAN
    BY <1>1 DEF EditInv, Typed
  <2> QED BY <1>4, <1>8, <2>1, <2>2, <2>3, <2>4, <2>5, <2>6 DEF Typed
<1>12. Staged'
  <2>1. \A x \in Editors : Payload(op[x], x)' = Payload(op[x], x)
    BY <1>1 DEF Payload
  <2>2. 0 < Attempts
    BY Distinct
  <2>3. \A r \in late' : /\ r.who \in Editors /\ r.op = op'[r.who] /\ r.body = body'[r.who]
                         /\ pc'[r.who] \in {"send", "done"} /\ r.op.does # "refuse"
    BY <1>1, <1>3, <1>5 DEF EditInv, Staged
  <2> QED BY <1>1, <1>3, <1>5, <1>6, <2>1, <2>2, <2>3 DEF EditInv, Staged
<1>13. WholeBodies'
  <2> SUFFICES ASSUME NEW x \in Editors, Sending(x)', op'[x].does = "edit"
               PROVE  /\ ~Anonymous' => \A f \in DOMAIN body'[x] : body'[x][f] # Foreign
                      /\ kind = "schedule" =>
                           {"name", "mode"} \subseteq DOMAIN body'[x] /\ body'[x]["name"] # Zero /\ body'[x]["mode"] # Zero
                      /\ kind = "post" => DOMAIN body'[x] = Fields /\ Aimed(body'[x])
    BY <1>1, <1>4 DEF WholeBodies, Aimed
  <2>1. CASE x # e
    <3>1. Sending(x) /\ op[x].does = "edit" /\ body'[x] = body[x]
      BY <1>1, <1>5, <2>1 DEF Sending
    <3> QED BY <1>9, <3>1 DEF EditInv, WholeBodies
  <2>2. CASE x = e
    <3>1. Recognisable(a) /\ body'[e] = Overlaid(a, op[e], e)
      BY <1>1, <1>3, <1>6, <2>2 DEF Sending
    <3>2. kind # "post" => a.wrong # "unnamed"
      <4>1. kind # "post" => a.id = 1
        BY <3>1 DEF Recognisable, RecognisableSchedule
      <4> QED BY <4>1 DEF EditAnswers
    <3> QED BY <1>3, <1>9, <2>2, <3>1, <3>2, Believed
  <2> QED BY <2>1, <2>2
<1>14. OneEach'
  BY <1>1, <1>3, <1>5, <1>6 DEF EditInv, OneEach
<1>15. NothingForeignIsWritten' /\ NeverLeftWithoutTarget'
  <2>1. NothingForeignIsWritten'
    BY <1>1, <1>4, <1>9 DEF EditInv, NothingForeignIsWritten, Anonymous
  <2>2. NeverLeftWithoutTarget'
    BY <1>1 DEF EditInv, NeverLeftWithoutTarget, Overwrites
  <2> QED BY <2>1, <2>2
<1> QED BY <1>11, <1>12, <1>13, <1>14, <1>15 DEF EditInv

-----------------------------------------------------------------------------
LEMMA StutterInv == ASSUME EditInv, UNCHANGED vars PROVE EditInv'
<1>1. UNCHANGED <<kind, cmd, op, pc, body, tries, code, there, store, made, late, wanted, overlap, wrong>>
  BY DEF vars, calls, server, history
<1>2. Staged' /\ OneEach'
  BY <1>1 DEF EditInv, Staged, OneEach, Payload
<1>3. NothingForeignIsWritten' /\ NeverLeftWithoutTarget'
  BY <1>1 DEF EditInv, NothingForeignIsWritten, NeverLeftWithoutTarget, Fields, Overwrites
<1>4. \A x \in Editors : Sending(x)' => Sending(x)
  BY <1>1 DEF Sending
<1>5. /\ pc' \in [Editors -> {"idle", "read", "send", "done"}]
      /\ tries' \in [Editors -> 0..Attempts] /\ code' \in [Editors -> {-1, 0, 1}]
      /\ there' \in BOOLEAN /\ store' \in [Fields -> Values] /\ wanted' \in [Fields -> Values]
      /\ made' \in [Editors -> Nat]
  BY <1>1 DEF EditInv, Typed
<1> QED BY <1>1, <1>2, <1>3, <1>4, <1>5, Afterwards

(* Every step of any editor, and every late arrival, keeps the invariant.  *)
THEOREM EditInvHolds == Spec => []EditInv
<1>1. Init => EditInv
  BY InitInv
<1>2. EditInv /\ [Next]_vars => EditInv'
  BY StartInv, ReadEditInv, ReadFailsInv, AnsweredInv, AnsweredWithoutIdInv, RefusedInv, UnansweredInv,
     LateInv, StutterInv DEF Next, Returned
<1> QED BY <1>1, <1>2, PTL DEF Spec

(* EditorsTypeOK in every state, for any number of editors and attempts.   *)
THEOREM EditorsTypeCorrect == Spec => []EditorsTypeOK
<1>1. EditInv => EditorsTypeOK
  BY DEF EditInv, Typed, Staged, BodyType, OpOf, EditorsTypeOK
<1> QED BY <1>1, EditInvHolds, PTL

(* NothingForeignIsWritten: no edit stores another object's state or takes *)
(* a schedule's name or mode, unless a post's read came without an id, the *)
(* one case in which the guard has nothing to compare (posts.go:328).      *)
THEOREM ForeignStateStaysOut == Spec => []NothingForeignIsWritten
<1>1. EditInv => NothingForeignIsWritten
  BY DEF EditInv
<1> QED BY <1>1, EditInvHolds, PTL

(* NeverLeftWithoutTarget: a post that is edited keeps where it goes.      *)
THEOREM PostsStayAimed == Spec => []NeverLeftWithoutTarget
<1>1. EditInv => NeverLeftWithoutTarget
  BY DEF EditInv
<1> QED BY <1>1, EditInvHolds, PTL

(* CreatesMakeOne: a create makes at most one object.                      *)
THEOREM OneObjectEach == Spec => []CreatesMakeOne
<1>1. EditInv => CreatesMakeOne
  <2> SUFFICES ASSUME EditInv, NEW e \in Editors, op[e].does = "create"
               PROVE  made[e] + Cardinality({r \in late : r.who = e}) <= 1 /\ (code[e] = 0 => made[e] = 1)
    BY DEF CreatesMakeOne
  <2> DEFINE R == {r \in late : r.who = e}
  <2>1. made[e] \in {0, 1} /\ (made[e] = 1 => R = {}) /\ (\A r, q \in R : r = q) /\ (code[e] = 0 => made[e] = 1)
    BY DEF EditInv, Typed, OneEach
  <2> HIDE DEF R
  <2>2. CASE R = {}
    BY <2>1, <2>2, FS_EmptySet DEF R
  <2>3. CASE R # {}
    <3>1. PICK r : R = {r}
      BY <2>1, <2>3
    <3>2. Cardinality(R) = 1
      BY <3>1, FS_Singleton
    <3> QED BY <2>1, <2>3, <3>2 DEF R
  <2> QED BY <2>2, <2>3
<1> QED BY <1>1, EditInvHolds, PTL

-----------------------------------------------------------------------------
(* Commands that do not overlap.  At most one of them can reach the        *)
(* server; the state it writes back is the server's own but for its fields.*)

Quiet == ~overlap /\ wrong = {} /\ ~Overwrites

Fresh(e) ==
  /\ DOMAIN body[e] = Fields
  /\ \A f \in Fields : body[e][f] = IF f \in op[e].gives THEN e ELSE store[f]

Settled(f) ==
  \/ store[f] = wanted[f]
  \/ \E e \in Editors : code[e] # 0 /\ f \in op[e].gives /\ store[f] = e

KeepInv ==
  Quiet =>
    /\ \A x, y \in Editors : Open(x) /\ Open(y) => x = y
    /\ \A e \in Editors : Sending(e) /\ op[e].does = "edit" => Fresh(e)
    /\ \A e \in Editors : Sending(e) /\ code[e] = 0 => \A f \in op[e].gives : wanted[f] = e
    /\ \A f \in Fields : Settled(f)

LEMMA GivesFacts ==
  ASSUME EditInv, ~Overwrites, NEW e \in Editors
  PROVE  /\ op[e].gives \subseteq Fields
         /\ op[e].gives # {} => op[e].does \in {"edit", "patch"}
         /\ DOMAIN Payload(op[e], e) = op[e].gives
         /\ \A f \in op[e].gives : Payload(op[e], e)[f] = e
<1>1. OpOf(kind, op[e]) /\ kind \in Kinds /\ op[e].does # "overwrite"
  BY DEF EditInv, Typed, Overwrites
<1>2. op[e].gives \subseteq Fields /\ (op[e].gives # {} => op[e].does \in {"edit", "patch"})
  BY <1>1 DEF OpOf, Fields
<1> QED BY <1>1, <1>2, PayloadFacts

(* A request writes the fields its command gives, and no other.            *)
LEMMA Touches ==
  ASSUME EditInv, ~Overwrites, NEW e \in Editors, Sending(e), Arrives(e, op[e], body[e]),
         op[e].does = "edit" => Fresh(e)
  PROVE  \A f \in Fields :
           store'[f] = IF there /\ f \in op[e].gives THEN e ELSE store[f]
<1>1. OpOf(kind, op[e]) /\ op[e].does # "overwrite" /\ store \in [Fields -> Values]
  BY DEF EditInv, Typed, Overwrites
<1>2. op[e].does # "refuse" /\ (op[e].does # "edit" => body[e] = Payload(op[e], e))
  BY DEF EditInv, Sending, Staged
<1>3. CASE op[e].does \in {"create", "delete"}
  <2>1. store' = store /\ op[e].gives = {}
    BY <1>1, <1>3 DEF Arrives, OpOf
  <2> QED BY <2>1
<1>4. CASE op[e].does \in {"edit", "patch"}
  <2>1. store' = IF there THEN Written(op[e], body[e]) ELSE store
    BY <1>4 DEF Arrives
  <2>2. \A f \in Fields : Written(op[e], body[e])[f] =
          IF f \in DOMAIN body[e] THEN body[e][f] ELSE IF op[e].does = "patch" THEN store[f] ELSE Zero
    BY DEF Written
  <2>3. CASE op[e].does = "edit"
    BY <2>1, <2>2, <2>3 DEF Fresh
  <2>4. CASE op[e].does = "patch"
    <3>1. DOMAIN body[e] = op[e].gives /\ \A f \in op[e].gives : body[e][f] = e
      BY <1>2, <2>4, GivesFacts
    <3> QED BY <2>1, <2>2, <2>4, <3>1
  <2> QED BY <1>4, <2>3, <2>4
<1> QED BY <1>1, <1>2, <1>3, <1>4 DEF OpOf

LEMMA QuietStep ==
  ASSUME EditInv, KeepInv, NEW e \in Editors, Open(e),
         UNCHANGED <<kind, op, body, overlap, wrong>>,
         \A x \in Editors : (Open(x)' => Open(x)) /\ (Sending(x)' => Sending(x)),
         store' = store \/ (Sending(e) /\ Arrives(e, op[e], body[e])),
         \A x \in Editors \ {e} : code'[x] = code[x],
         \/ wanted' = wanted /\ (code'[e] = 0 => code[e] = 0)
         \/ /\ wanted' = [f \in Fields |-> IF f \in DOMAIN Payload(op[e], e) THEN Payload(op[e], e)[f] ELSE wanted[f]]
            /\ Sending(e) /\ Arrives(e, op[e], body[e])
            /\ op[e].gives # {} => there
  PROVE  KeepInv'
<1>1. Fields' = Fields /\ (Quiet' => Quiet)
  BY DEF Fields, Quiet, Overwrites
<1> SUFFICES ASSUME Quiet
             PROVE  /\ \A x, y \in Editors : Open(x)' /\ Open(y)' => x = y
                    /\ \A x \in Editors : Sending(x)' /\ op'[x].does = "edit" => Fresh(x)'
                    /\ \A x \in Editors : Sending(x)' /\ code'[x] = 0 => \A f \in op'[x].gives : wanted'[f] = x
                    /\ \A f \in Fields : Settled(f)'
  BY <1>1 DEF KeepInv
<1>2. /\ \A x, y \in Editors : Open(x) /\ Open(y) => x = y
      /\ \A x \in Editors : Sending(x) /\ op[x].does = "edit" => Fresh(x)
      /\ \A x \in Editors : Sending(x) /\ code[x] = 0 => \A f \in op[x].gives : wanted[f] = x
      /\ \A f \in Fields : Settled(f)
      /\ ~Overwrites
  BY DEF KeepInv, Quiet
<1>3. /\ op[e].gives \subseteq Fields /\ DOMAIN Payload(op[e], e) = op[e].gives
      /\ \A f \in op[e].gives : Payload(op[e], e)[f] = e
  BY <1>2, GivesFacts
<1>4. Arrives(e, op[e], body[e]) /\ Sending(e) =>
        \A f \in Fields : store'[f] = IF there /\ f \in op[e].gives THEN e ELSE store[f]
  BY <1>2, Touches
<1>5. \A x \in Editors : Sending(x)' => x = e /\ Sending(e)
  BY <1>2 DEF Sending, Open
<1>6. \A f \in Fields : f \notin op[e].gives => store'[f] = store[f]
  BY <1>4
<1>7. \A x \in Editors : Sending(x)' /\ op'[x].does = "edit" => Fresh(x)'
  <2>1. Sending(e) /\ op[e].does = "edit" =>
          /\ DOMAIN body'[e] = Fields
          /\ \A f \in Fields : body'[e][f] = IF f \in op'[e].gives THEN e ELSE store'[f]
    BY <1>2, <1>6 DEF Fresh
  <2> QED BY <1>1, <1>5, <2>1 DEF Fresh
<1>8. \A x \in Editors : Sending(x)' /\ code'[x] = 0 => \A f \in op'[x].gives : wanted'[f] = x
  BY <1>2, <1>3, <1>5
<1>9. ASSUME NEW f \in Fields PROVE Settled(f)'
  <2>1. CASE wanted' = wanted /\ (code'[e] = 0 => code[e] = 0)
    <3>1. CASE store'[f] = store[f]
      BY <1>2, <2>1, <3>1 DEF Settled
    <3>2. CASE store'[f] # store[f]
      <4>1. Sending(e) /\ f \in op[e].gives /\ store'[f] = e
        BY <1>4, <3>2
      <4>2. code[e] = 0 => wanted[f] = e
        BY <1>2, <4>1
      <4> QED BY <2>1, <4>1, <4>2 DEF Settled
    <3> QED BY <3>1, <3>2
  <2>2. CASE /\ wanted' = [g \in Fields |-> IF g \in DOMAIN Payload(op[e], e) THEN Payload(op[e], e)[g] ELSE wanted[g]]
             /\ Sending(e) /\ Arrives(e, op[e], body[e])
             /\ op[e].gives # {} => there
    <3>1. CASE f \in op[e].gives
      <4>1. store'[f] = e
        BY <1>4, <2>2, <3>1
      <4>2. wanted'[f] = e
        BY <1>3, <2>2, <3>1
      <4> QED BY <4>1, <4>2 DEF Settled
    <3>2. CASE f \notin op[e].gives
      <4>1. store'[f] = store[f] /\ wanted'[f] = wanted[f]
        BY <1>3, <1>6, <2>2, <3>2
      <4> QED BY <1>2, <3>2, <4>1 DEF Settled
    <3> QED BY <3>1, <3>2
  <2> QED BY <2>1, <2>2
<1> QED BY <1>2, <1>7, <1>8, <1>9

LEMMA KeepStart == ASSUME EditInv, KeepInv, NEW e \in Editors, Start(e) PROVE KeepInv'
<1>1. pc[e] = "idle" /\ UNCHANGED <<kind, tries, there, store, made, late, wanted, wrong>>
  BY DEF Start, server
<1>2. PICK c \in CommandsOn(kind), o \in UNION {d.ops : d \in CommandsOn(kind)} :
        /\ op' = [op EXCEPT ![e] = o]
        /\ body' = [body EXCEPT ![e] = IF o.does = "edit" THEN NoBody ELSE Payload(o, e)]
        /\ pc' = [pc EXCEPT ![e] = CASE o.does = "refuse" -> "done"
                                     [] o.does = "edit" -> "read"
                                     [] OTHER -> "send"]
        /\ code' = [code EXCEPT ![e] = IF o.does = "refuse" THEN 1 ELSE @]
        /\ overlap' = (overlap \/ (o.does # "refuse" /\ \E other \in Editors \ {e} : Open(other)))
  BY DEF Start
<1>3. code[e] = -1 /\ op[e].gives = {} /\ op[e].does = "refuse" /\ (\A r \in late : r.who # e)
  <2>1. code[e] = -1 /\ op[e].does = "refuse" /\ OpOf(kind, op[e]) /\ (\A r \in late : r.who # e)
    BY <1>1 DEF EditInv, Typed, Staged, OneEach
  <2> QED BY <2>1 DEF OpOf
<1>4. \A x \in Editors : x # e => op'[x] = op[x] /\ pc'[x] = pc[x] /\ body'[x] = body[x] /\ code'[x] = code[x]
  BY <1>2 DEF EditInv, Typed
<1>5. /\ op'[e] = o
      /\ pc'[e] = "done" <=> o.does = "refuse"
      /\ pc'[e] = "send" => o.does # "edit"
      /\ code'[e] # 0 /\ (pc'[e] = "idle" => FALSE)
  BY <1>2, <1>3 DEF EditInv, Typed
<1>6. Quiet' => Quiet
  <2>1. Overwrites => Overwrites'
    BY <1>3, <1>4 DEF Overwrites
  <2> QED BY <1>1, <1>2, <2>1 DEF Quiet
<1> SUFFICES ASSUME Quiet, Quiet'
             PROVE  /\ \A x, y \in Editors : Open(x)' /\ Open(y)' => x = y
                    /\ \A x \in Editors : Sending(x)' /\ op'[x].does = "edit" => Fresh(x)'
                    /\ \A x \in Editors : Sending(x)' /\ code'[x] = 0 => \A f \in op'[x].gives : wanted'[f] = x
                    /\ \A f \in Fields' : Settled(f)'
  BY <1>6 DEF KeepInv
<1>7. Fields' = Fields
  BY <1>1 DEF Fields
<1>8. \A x \in Editors : x # e => (Open(x)' <=> Open(x)) /\ (Sending(x)' <=> Sending(x))
  BY <1>1, <1>4 DEF Open, Sending
<1>9. o.does # "refuse" => \A x \in Editors : x # e => ~Open(x)
  BY <1>2 DEF Quiet
<1>10. o.does = "refuse" => ~Open(e)'
  BY <1>1, <1>3, <1>5 DEF Open
<1>11. \A x, y \in Editors : Open(x)' /\ Open(y)' => x = y
  BY <1>8, <1>9, <1>10 DEF KeepInv
<1>12. \A x \in Editors : Sending(x)' /\ op'[x].does = "edit" => x # e /\ Sending(x) /\ op[x].does = "edit"
  BY <1>1, <1>3, <1>4, <1>5, <1>8 DEF Sending
<1>13. \A x \in Editors : Sending(x)' /\ op'[x].does = "edit" => Fresh(x)'
  BY <1>1, <1>4, <1>7, <1>12 DEF KeepInv, Fresh
<1>14. \A x \in Editors : Sending(x)' /\ code'[x] = 0 => \A f \in op'[x].gives : wanted'[f] = x
  BY <1>1, <1>4, <1>5, <1>8 DEF KeepInv
<1>15. \A f \in Fields : Settled(f)'
  BY <1>1, <1>3, <1>4 DEF KeepInv, Settled
<1> QED BY <1>7, <1>11, <1>13, <1>14, <1>15

LEMMA KeepRead == ASSUME EditInv, KeepInv, NEW e \in Editors, ReadEdit(e) PROVE KeepInv'
<1>1. pc[e] = "read" /\ UNCHANGED <<kind, cmd, op, tries, there, store, made, late, wanted, overlap>>
  BY DEF ReadEdit, server
<1>2. PICK a \in EditAnswers :
        /\ wrong' = IF Right(a) THEN wrong ELSE wrong \cup {a.wrong}
        /\ \/ /\ body' = [body EXCEPT ![e] = Overlaid(a, op[e], e)]
              /\ pc' = [pc EXCEPT ![e] = "send"]
              /\ code' = code
           \/ /\ pc' = [pc EXCEPT ![e] = "done"]
              /\ code' = [code EXCEPT ![e] = 1]
              /\ body' = body
  BY DEF ReadEdit, Return
<1>3. op[e].does = "edit" /\ code[e] = -1 /\ (\A r \in late : r.who # e)
  BY <1>1 DEF EditInv, Staged
<1>4. \A x \in Editors : x # e => pc'[x] = pc[x] /\ body'[x] = body[x] /\ code'[x] = code[x]
  BY <1>2 DEF EditInv, Typed
<1>5. /\ pc'[e] = "done" \/ (pc'[e] = "send" /\ body'[e] = Overlaid(a, op[e], e))
      /\ code'[e] # 0
  BY <1>2, <1>3 DEF EditInv, Typed
<1>6. Fields' = Fields
  BY <1>1 DEF Fields
<1> SUFFICES ASSUME Quiet'
             PROVE  /\ \A x, y \in Editors : Open(x)' /\ Open(y)' => x = y
                    /\ \A x \in Editors : Sending(x)' /\ op'[x].does = "edit" => Fresh(x)'
                    /\ \A x \in Editors : Sending(x)' /\ code'[x] = 0 => \A f \in op'[x].gives : wanted'[f] = x
                    /\ \A f \in Fields : Settled(f)'
  BY <1>6 DEF KeepInv
<1>7. Quiet /\ Right(a)
  BY <1>1, <1>2 DEF Quiet, Overwrites
<1>8. \A x \in Editors : (Open(x)' => Open(x)) /\ (x # e => (Sending(x)' <=> Sending(x)))
  BY <1>1, <1>4 DEF Open, Sending
<1>9. \A x \in Editors : Sending(x)' /\ op'[x].does = "edit" => Fresh(x)'
  <2> SUFFICES ASSUME NEW x \in Editors, Sending(x)', op'[x].does = "edit" PROVE Fresh(x)'
    OBVIOUS
  <2>1. CASE x # e
    BY <1>1, <1>4, <1>6, <1>7, <1>8, <2>1 DEF KeepInv, Fresh
  <2>2. CASE x = e
    <3>1. body'[e] = Overlaid(a, op[e], e)
      BY <1>1, <1>3, <1>5, <2>2 DEF Sending
    <3>2. a.state = store /\ DOMAIN store = Fields /\ op[e].gives \subseteq Fields
      BY <1>7, GivesFacts DEF Right, EditInv, Typed, Quiet
    <3>3. DOMAIN Overlaid(a, op[e], e) = Fields
      BY <3>2 DEF Overlaid
    <3>4. \A f \in Fields : Overlaid(a, op[e], e)[f] = IF f \in op[e].gives THEN e ELSE store[f]
      BY <3>2, <3>3 DEF Overlaid, At
    <3> QED BY <1>1, <1>6, <2>2, <3>1, <3>3, <3>4 DEF Fresh
  <2> QED BY <2>1, <2>2
<1>10. \A x \in Editors : Sending(x)' /\ code'[x] = 0 => \A f \in op'[x].gives : wanted'[f] = x
  BY <1>1, <1>4, <1>5, <1>7, <1>8 DEF KeepInv
<1>11. \A f \in Fields : Settled(f)'
  <2>1. \A x \in Editors : code[x] # 0 => code'[x] # 0
    BY <1>4, <1>5
  <2> QED BY <1>1, <1>7, <2>1 DEF KeepInv, Settled
<1> QED BY <1>7, <1>8, <1>9, <1>10, <1>11 DEF KeepInv

LEMMA KeepAnswered == ASSUME EditInv, KeepInv, NEW e \in Editors, Answered(e) PROVE KeepInv'
<1>1. /\ pc[e] = "send" /\ Arrives(e, op[e], body[e]) /\ Found(op[e])
      /\ UNCHANGED <<kind, op, body, late, overlap, wrong>>
      /\ wanted' = [f \in Fields |-> IF f \in DOMAIN Payload(op[e], e) THEN Payload(op[e], e)[f] ELSE wanted[f]]
      /\ pc' = [pc EXCEPT ![e] = "done"] /\ code' = [code EXCEPT ![e] = 0]
  BY DEF Answered, Return
<1>2. Open(e) /\ Sending(e)
  BY <1>1 DEF Open, Sending
<1>3. op[e].gives # {} => there
  <2>1. OpOf(kind, op[e])
    BY DEF EditInv, Typed
  <2> QED BY <1>1, <2>1 DEF Found, OpOf
<1>4. \A x \in Editors : (Open(x)' => Open(x)) /\ (Sending(x)' => Sending(x))
  BY <1>1 DEF Open, Sending, EditInv, Typed
<1>5. \A x \in Editors \ {e} : code'[x] = code[x]
  BY <1>1 DEF EditInv, Typed
<1> QED BY <1>1, <1>2, <1>3, <1>4, <1>5, QuietStep

(* A command that ends in failure, whatever its request did. *)
LEMMA KeepFailed ==
  ASSUME EditInv, KeepInv, NEW e \in Editors, pc[e] \in {"read", "send"},
         UNCHANGED <<kind, op, body, wanted, overlap, wrong>>,
         \/ pc' = pc /\ code' = code
         \/ Return(e, 1),
         store' = store \/ (pc[e] = "send" /\ Arrives(e, op[e], body[e])),
         late' \subseteq late \/ (pc[e] = "send" /\ \A r \in late' : r \in late \/ r.who = e)
  PROVE  KeepInv'
<1>1. Open(e) /\ (pc[e] = "send" => Sending(e))
  BY DEF Open, Sending
<1>2. \A x \in Editors : (Open(x)' => Open(x)) /\ (Sending(x)' => Sending(x))
  BY DEF Open, Sending, Return, EditInv, Typed
<1>3. (\A x \in Editors \ {e} : code'[x] = code[x]) /\ (code'[e] = 0 => code[e] = 0)
  BY DEF Return, EditInv, Typed
<1> QED BY <1>1, <1>2, <1>3, QuietStep

LEMMA KeepEnds ==
  ASSUME EditInv, KeepInv, NEW e \in Editors,
         ReadFails(e) \/ AnsweredWithoutId(e) \/ RefusedByServer(e) \/ Unanswered(e)
  PROVE  KeepInv'
<1>1. CASE ReadFails(e)
  BY <1>1, KeepFailed DEF ReadFails, server, history
<1>2. CASE AnsweredWithoutId(e)
  BY <1>2, KeepFailed DEF AnsweredWithoutId, history
<1>3. CASE RefusedByServer(e)
  BY <1>3, KeepFailed DEF RefusedByServer, server, history
<1>4. CASE Unanswered(e)
  <2> DEFINE n == [who |-> e, op |-> op[e], body |-> body[e], attempt |-> tries[e]]
  <2>1. n.who = e
    OBVIOUS
  <2>2. \/ late' = late /\ Arrives(e, op[e], body[e])
        \/ late' = late /\ store' = store
        \/ late' = late \cup {n} /\ store' = store
    BY <1>4 DEF Unanswered, server
  <2>3. pc[e] = "send" /\ UNCHANGED <<kind, op, body, wanted, overlap, wrong>>
        /\ ((pc' = pc /\ code' = code) \/ Return(e, 1))
    BY <1>4 DEF Unanswered, history
  <2> HIDE DEF n
  <2>4. late' \subseteq late \/ \A r \in late' : r \in late \/ r.who = e
    BY <2>1, <2>2
  <2> QED BY <2>2, <2>3, <2>4, KeepFailed
<1> QED BY <1>1, <1>2, <1>3, <1>4

LEMMA KeepLate == ASSUME EditInv, KeepInv, LateArrives PROVE KeepInv'
<1>1. PICK r \in late : Arrives(r.who, r.op, r.body) /\ late' = late \ {r}
  BY DEF LateArrives
<1>2. UNCHANGED <<kind, op, pc, body, code, wanted, overlap, wrong>>
  BY DEF LateArrives, calls, history
<1>3. r.who \in Editors /\ r.op = op[r.who] /\ r.body = body[r.who]
  BY DEF EditInv, Staged
<1>4. Open(r.who) /\ Sending(r.who)
  BY DEF Open, Sending
<1>5. Arrives(r.who, op[r.who], body[r.who])
  BY <1>1, <1>3
<1>6. \A x \in Editors : (Open(x)' => Open(x)) /\ (Sending(x)' => Sending(x))
  BY <1>1, <1>2 DEF Open, Sending
<1> QED BY <1>2, <1>3, <1>4, <1>5, <1>6, QuietStep

(* KeepInv joins EditInv in one inductive invariant.                       *)
THEOREM KeepInvHolds == Spec => []KeepInv
<1>1. Init => KeepInv
  BY DEF Init, KeepInv, Quiet, Open, Sending, Settled
<1>2. EditInv /\ KeepInv /\ UNCHANGED vars => KeepInv'
  <2> SUFFICES ASSUME KeepInv, UNCHANGED vars PROVE KeepInv'
    OBVIOUS
  <2>1. UNCHANGED <<kind, cmd, op, pc, body, tries, code, there, store, made, late, wanted, overlap, wrong>>
    BY DEF vars, calls, server, history
  <2> QED BY <2>1 DEF KeepInv, Quiet, Overwrites, Open, Sending, Fresh, Settled, Fields
<1>3. EditInv /\ KeepInv /\ [Next]_vars => KeepInv'
  BY <1>2, KeepStart, KeepRead, KeepAnswered, KeepEnds, KeepLate DEF Next, Returned
<1> QED BY <1>1, <1>3, EditInvHolds, PTL DEF Spec

(* EditsKeepTheRest: commands that do not overlap lose nothing of what     *)
(* another wrote, whatever was lost, sent again or given up.               *)
THEOREM NothingIsUndone == Spec => []EditsKeepTheRest
<1>1. KeepInv => EditsKeepTheRest
  BY DEF KeepInv, Quiet, Settled, EditsKeepTheRest
<1> QED BY <1>1, KeepInvHolds, PTL
=============================================================================
