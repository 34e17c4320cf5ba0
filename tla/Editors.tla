------------------------------- MODULE Editors -------------------------------
(***************************************************************************)
(* Several editors each run one command on the same object, at the same    *)
(* time or after each other.  An edit reads the whole state of the object, *)
(* replaces the fields it was given and writes the whole state back; the   *)
(* server has no version check.  Answers get lost, a request given up may  *)
(* land later, and a read may answer with less than the state, with        *)
(* another object's state, or without the id.                              *)
(***************************************************************************)
EXTENDS Commands, Integers

CONSTANTS
  Editors,   \* each runs one command
  Attempts,  \* bound: how often a retried request is sent
  Old,       \* the value of a field before anyone edits it
  Zero,      \* the value of a field that is reset: absent, 0, empty
  Foreign    \* the value of a field of another object

ASSUME EditorsAssumption ==
  /\ Attempts \in Nat \ {0}
  /\ Old # Zero
  /\ Foreign \notin {Old, Zero}
  /\ Editors \cap {Old, Zero, Foreign} = {}
  /\ {"driven", "own"} \cap (Editors \cup {Old, Zero, Foreign}) = {}

VARIABLES
  kind,     \* the kind of the object
  cmd,      \* the command an editor runs
  op,       \* the operation its input selects
  pc,       \* "idle", "read", "send", "done"
  body,     \* what an editor is about to write
  tries,    \* attempts sent
  code,     \* exit code 0, or 1 (a tool: its error result)
  there,    \* the object exists
  store,    \* its fields on the server
  made,     \* objects an editor created
  late,     \* requests given up by the client that may still arrive
  wanted,   \* per field, what the last successful command wrote there
  overlap,  \* two commands were under way at once
  wrong     \* the kinds of wrong answers a read got so far

calls == <<cmd, op, pc, body, tries, code>>
server == <<there, store, made, late>>
history == <<wanted, overlap, wrong>>
vars == <<kind, calls, server, history>>

Values == {Old, Zero, Foreign, "driven", "own"} \cup Editors
Fields == FieldsOf(kind)
NoBody == [f \in {} |-> Zero]
NoCommand == Named("none", {})

(* A post on a schedule has no targets of its own, another has no schedule.*)
FreshStates(k) ==
  IF k = "post"
  THEN {[f \in PostFields |-> CASE f = "when" -> "driven" [] f = "targets" -> Zero [] OTHER -> Old],
        [f \in PostFields |-> CASE f = "when" -> "own" [] f = "schedule" -> Zero [] OTHER -> Old]}
  ELSE {[f \in FieldsOf(k) |-> Old]}

EditorsTypeOK ==
  /\ kind \in Kinds
  /\ \A e \in Editors :
       /\ pc[e] \in {"idle", "read", "send", "done"}
       /\ DOMAIN body[e] \subseteq Fields
       /\ \A f \in DOMAIN body[e] : body[e][f] \in Values
       /\ tries[e] \in 0..Attempts
       /\ code[e] \in {-1, 0, 1}
       /\ made[e] \in Nat
       /\ op[e].kind = kind
       /\ pc[e] \in {"read", "send"} => op[e] \in cmd[e].ops
  /\ there \in BOOLEAN
  /\ store \in [Fields -> Values]
  /\ wanted \in [Fields -> Values]
  /\ overlap \in BOOLEAN
  /\ wrong \subseteq {"partial", "other", "unnamed"}

Init ==
  /\ kind \in Kinds
  /\ cmd = [e \in Editors |-> NoCommand]
  /\ op = [e \in Editors |-> Refusal(kind)]
  /\ pc = [e \in Editors |-> "idle"]
  /\ body = [e \in Editors |-> NoBody]
  /\ tries = [e \in Editors |-> 0]
  /\ code = [e \in Editors |-> -1]
  /\ there = TRUE
  /\ store \in FreshStates(kind)
  /\ made = [e \in Editors |-> 0]
  /\ late = {}
  /\ wanted = store
  /\ overlap = FALSE
  /\ wrong = {}

-----------------------------------------------------------------------------
(* The server *)

(* The state a write leaves: a full-state write resets what it leaves out. *)
Written(o, b) ==
  [f \in Fields |-> IF f \in DOMAIN b THEN b[f] ELSE IF o.does = "patch" THEN store[f] ELSE Zero]

(* What one request does when it reaches the server. *)
Arrives(e, o, b) ==
  CASE o.does = "create" -> /\ made' = [made EXCEPT ![e] = @ + 1]
                            /\ UNCHANGED <<there, store>>
    [] o.does = "delete" -> /\ there' = FALSE
                            /\ UNCHANGED <<made, store>>
    [] OTHER -> /\ store' = IF there THEN Written(o, b) ELSE store
                /\ UNCHANGED <<there, made>>

(* Disconnecting a page that is gone succeeds; anything else is a 404.     *)
Found(o) == there \/ o.does = "create" \/ (o.does = "delete" /\ o.kind = "page")

(* A request the client gave up on arrives after all. *)
LateArrives ==
  /\ \E r \in late :
       /\ Arrives(r.who, r.op, r.body)
       /\ late' = late \ {r}
  /\ UNCHANGED <<kind, calls, history>>

-----------------------------------------------------------------------------
(* The commands *)

Open(e) == pc[e] \in {"read", "send"} \/ \E r \in late : r.who = e

(* The body of a command that reads nothing is built from its input.  The  *)
(* post that is published now has pages of its own and no schedule.        *)
Payload(o, e) ==
  [f \in o.gives |-> IF f = "when" THEN "own" ELSE IF f = "mode" THEN Old ELSE e]

Start(e) ==
  /\ pc[e] = "idle"
  /\ \E c \in CommandsOn(kind), o \in UNION {d.ops : d \in CommandsOn(kind)} :
       /\ o \in c.ops
       /\ cmd' = [cmd EXCEPT ![e] = c]
       /\ op' = [op EXCEPT ![e] = o]
       /\ body' = [body EXCEPT ![e] = IF o.does = "edit" THEN NoBody ELSE Payload(o, e)]
       /\ pc' = [pc EXCEPT ![e] = CASE o.does = "refuse" -> "done"
                                    [] o.does = "edit" -> "read"
                                    [] OTHER -> "send"]
       /\ code' = [code EXCEPT ![e] = IF o.does = "refuse" THEN 1 ELSE @]
       /\ overlap' = (overlap \/ (o.does # "refuse" /\ \E other \in Editors \ {e} : Open(other)))
  /\ UNCHANGED <<kind, tries, server, wanted, wrong>>

Return(e, result) ==
  /\ pc' = [pc EXCEPT ![e] = "done"]
  /\ code' = [code EXCEPT ![e] = result]

(* The answers to GET .../edit: any part of the state, with or without the *)
(* id, or the state of another object.  id 0: the answer names none.       *)
ForeignState == [f \in Fields |-> IF store[f] \in {Zero, "driven", "own"} THEN store[f] ELSE Foreign]
EditAnswers ==
  [id : {1, 0}, state : {[f \in K |-> store[f]] : K \in SUBSET Fields}, wrong : {"partial"}]
    \cup [id : {2}, state : {ForeignState}, wrong : {"other"}]
    \cup [id : {0}, state : {ForeignState}, wrong : {"unnamed"}]
Right(a) == a.id = 1 /\ a.state = store

(* UpdateScheduleFromEdit: the structural keys and the id asked for.       *)
(* Broken: the keys are enough. *)
ScheduleByKeysOnly(a) == {"name", "mode"} \subseteq DOMAIN a.state
RecognisableSchedule(a) == a.id = 1 /\ {"name", "mode"} \subseteq DOMAIN a.state

At(s, f) == IF f \in DOMAIN s THEN s[f] ELSE Zero

(* Broken: the guard of the schedule is missing. *)
PostWithTargetsOnly(a) == a.id # 2 /\ (At(a.state, "when") # "driven" => At(a.state, "targets") # Zero)

(* UpdatePostText and buildPostUpdatePayload: no other post's id, and a    *)
(* driven post has its schedule, any other post its targets.               *)
RecognisablePost(a) ==
  /\ a.id # 2
  /\ IF At(a.state, "when") = "driven"
     THEN At(a.state, "schedule") # Zero
     ELSE At(a.state, "targets") # Zero

Recognisable(a) == IF kind = "post" THEN RecognisablePost(a) ELSE RecognisableSchedule(a)

(* Broken: the answer is decoded into a struct that lacks some fields. *)
NamedFieldsOnly(a, o, e) ==
  [f \in Fields \ {"rest"} |-> IF f \in o.gives THEN e ELSE At(a.state, f)]

(* The whole state with the fields given replaced.  A schedule keeps the   *)
(* keys it was answered, a post is written with every field of the struct. *)
Overlaid(a, o, e) ==
  [f \in (IF kind = "post" THEN Fields ELSE DOMAIN a.state \cup o.gives) |->
     IF f \in o.gives THEN e ELSE At(a.state, f)]

ReadEdit(e) ==
  /\ pc[e] = "read"
  /\ there
  /\ \E a \in EditAnswers :
       /\ wrong' = IF Right(a) THEN wrong ELSE wrong \cup {a.wrong}
       /\ \/ /\ Recognisable(a)
             /\ body' = [body EXCEPT ![e] = Overlaid(a, op[e], e)]
             /\ pc' = [pc EXCEPT ![e] = "send"]
             /\ UNCHANGED code
          \/ /\ ~Recognisable(a)
             /\ Return(e, 1)
             /\ UNCHANGED body
  /\ UNCHANGED <<kind, cmd, op, tries, server, wanted, overlap>>

(* The read fails, or the object is gone. *)
ReadFails(e) ==
  /\ pc[e] = "read"
  /\ Return(e, 1)
  /\ UNCHANGED <<kind, cmd, op, body, tries, server, history>>

(* The request is applied and answered. *)
Answered(e) ==
  /\ pc[e] = "send"
  /\ Found(op[e])
  /\ Arrives(e, op[e], body[e])
  /\ tries' = [tries EXCEPT ![e] = @ + 1]
  /\ wanted' = [f \in Fields |-> IF f \in DOMAIN Payload(op[e], e) THEN Payload(op[e], e)[f] ELSE wanted[f]]
  /\ Return(e, 0)
  /\ UNCHANGED <<kind, cmd, op, body, late, overlap, wrong>>

(* checkCreateID: a post was created and the answer does not name it.      *)
AnsweredWithoutId(e) ==
  /\ pc[e] = "send"
  /\ op[e].kind = "post"
  /\ op[e].does = "create"
  /\ Arrives(e, op[e], body[e])
  /\ tries' = [tries EXCEPT ![e] = @ + 1]
  /\ Return(e, 1)
  /\ UNCHANGED <<kind, cmd, op, body, late, history>>

(* A decided refusal: 404, another 4xx, success false. *)
RefusedByServer(e) ==
  /\ pc[e] = "send"
  /\ tries' = [tries EXCEPT ![e] = @ + 1]
  /\ Return(e, 1)
  /\ UNCHANGED <<kind, cmd, op, body, server, history>>

(* Broken: one attempt too many. *)
MayResendOnceMore(e) == op[e].resends /\ tries[e] + 1 <= Attempts

MayResend(e) == op[e].resends /\ tries[e] + 1 < Attempts

(* A 5xx or no answer: the request was applied, was not, or is under way;  *)
(* it is sent again when it may be and attempts are left.                  *)
Unanswered(e) ==
  /\ pc[e] = "send"
  /\ tries' = [tries EXCEPT ![e] = @ + 1]
  /\ \/ Found(op[e]) /\ Arrives(e, op[e], body[e]) /\ UNCHANGED late
     \/ UNCHANGED server
     \/ /\ late' = late \cup {[who |-> e, op |-> op[e], body |-> body[e], attempt |-> tries[e]]}
        /\ UNCHANGED <<there, store, made>>
  /\ \/ MayResend(e) /\ UNCHANGED <<pc, code>>
     \/ ~MayResend(e) /\ Return(e, 1)
  /\ UNCHANGED <<kind, cmd, op, body, history>>

Returned ==
  /\ \A e \in Editors : pc[e] = "done"
  /\ late = {}
  /\ UNCHANGED vars

Next ==
  \/ \E e \in Editors :
       \/ Start(e)
       \/ ReadEdit(e)
       \/ ReadFails(e)
       \/ Answered(e)
       \/ AnsweredWithoutId(e)
       \/ RefusedByServer(e)
       \/ Unanswered(e)
  \/ LateArrives
  \/ Returned

Spec == Init /\ [][Next]_vars

-----------------------------------------------------------------------------
(* Properties *)

Overwrites == \E e \in Editors : op[e].does = "overwrite"

(* Commands that do not overlap lose nothing: whatever was lost, sent      *)
(* again or refused, every field of the object is as the last successful   *)
(* command that named it left it, or as a failed one that named it may     *)
(* have, and no edit touches a field it was not given (projects.go, the    *)
(* promise of UpdateScheduleFromEdit; posts.go, that of UpdatePostText).   *)
EditsKeepTheRest ==
  (~overlap /\ wrong = {} /\ ~Overwrites) =>
    \A f \in Fields :
      \/ store[f] = wanted[f]
      \/ \E e \in Editors : code[e] # 0 /\ f \in op[e].gives /\ store[f] = e

(* No object ends up with another object's state, nor a schedule without   *)
(* its name or mode, even when a read answers with parts of the state or   *)
(* with the wrong object.  The guard of a post compares ids only when the  *)
(* answer has one (posts.go:328) and cannot tell that a state without an   *)
(* id is another post's: behaviours in which a read was one are excepted.  *)
NothingForeignIsWritten ==
  ~(kind = "post" /\ "unnamed" \in wrong) =>
    /\ \A f \in Fields : store[f] # Foreign
    /\ kind = "schedule" => store["name"] # Zero /\ store["mode"] # Zero

(* However stale or partial what a text edit read, and whoever edits at    *)
(* the same time, it leaves a scheduled post its schedule and any other    *)
(* post its targets (posts.go, the guards of buildPostUpdatePayload).      *)
NeverLeftWithoutTarget ==
  (kind = "post" /\ ~Overwrites) =>
    IF store["when"] = "driven" THEN store["schedule"] # Zero ELSE store["targets"] # Zero

(* A create makes at most one object whatever is lost, and a create that   *)
(* exits 0 made exactly one.                                               *)
CreatesMakeOne ==
  \A e \in Editors : op[e].does = "create" =>
    /\ made[e] + Cardinality({r \in late : r.who = e}) <= 1
    /\ code[e] = 0 => made[e] = 1

(* README.md:167 and the tool list: schedules are created by name.         *)
ScheduleCreateIsSent ==
  \A e \in Editors :
    (cmd[e].name \in {"schedules_create", "hooppy_create_schedule"} /\ pc[e] = "done") => tries[e] > 0
=============================================================================
