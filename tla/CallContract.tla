---------------------------- MODULE CallContract ----------------------------
(***************************************************************************)
(* What a caller may take the API calls of one client for (client.go:      *)
(* 218-240, success_gate.go:11-28): a call is sent some times, a create    *)
(* once; what it asks for happens at most once for each time it was sent,  *)
(* while the call is under way, or later where requests may be late; and   *)
(* its answer is true.  Waits, pauses, connections and bodies are not part *)
(* of it.                                                                  *)
(***************************************************************************)
EXTENDS Answers

CONSTANTS MaxAttempts, MaxCalls

VARIABLES
  late,    \* what a call asks for may happen after it has returned
  alone,   \* no other client deletes the object
  kind,    \* what each call does
  cur,     \* the call under way
  sent,    \* how often each call was sent
  acts,    \* how often what it asks for has happened
  present, \* the object exists
  value,   \* the update it holds
  start,   \* present when the call began
  result   \* what each call returned

vars == <<late, alone, kind, cur, sent, acts, present, value, start, result>>

Calls == 1..MaxCalls

Init ==
  /\ late \in BOOLEAN
  /\ alone \in BOOLEAN
  /\ kind \in [Calls -> {"read", "update", "delete", "create"}]
  /\ cur = 1
  /\ sent = [k \in Calls |-> 0]
  /\ acts = [k \in Calls |-> 0]
  /\ present \in BOOLEAN
  /\ value = 0
  /\ start = present
  /\ result = [k \in Calls |-> [answer |-> "none", from |-> FALSE, to |-> FALSE]]

-----------------------------------------------------------------------------
IsSent ==
  /\ cur \in Calls
  /\ sent[cur] < MaxAttempts
  /\ kind[cur] = "create" => sent[cur] = 0
  /\ sent' = [sent EXCEPT ![cur] = @ + 1]
  /\ UNCHANGED <<late, alone, kind, cur, acts, present, value, start, result>>

Happens(k) ==
  /\ k = cur \/ (late /\ k < cur)
  /\ acts[k] < sent[k]
  /\ ~(sent[k] = 1 /\ Decided(result[k].answer))
  /\ kind[k] = "create" \/ present
  /\ acts' = [acts EXCEPT ![k] = @ + 1]
  /\ present' = (present /\ kind[k] # "delete")
  /\ value' = IF kind[k] = "update" THEN k ELSE value
  /\ UNCHANGED <<late, alone, kind, cur, sent, start, result>>

(* An ok means that it happened, a 404 that the object is gone, and any    *)
(* other decided failure of a call that was sent once that nothing did.    *)
Returns(a) ==
  /\ cur \in Calls
  /\ sent[cur] > 0
  /\ a = "ok" => acts[cur] > 0
  /\ a = "not found" => ~present
  /\ sent[cur] = 1 /\ Decided(a) => acts[cur] = 0
  /\ result' = [result EXCEPT ![cur] = [answer |-> a, from |-> start, to |-> present]]
  /\ cur' = cur + 1
  /\ start' = present
  /\ UNCHANGED <<late, alone, kind, sent, acts, present, value>>

OtherDeletes ==
  /\ ~alone
  /\ present
  /\ present' = FALSE
  /\ UNCHANGED <<late, alone, kind, cur, sent, acts, value, start, result>>

Next ==
  \/ IsSent
  \/ \E k \in Calls : Happens(k)
  \/ \E a \in CallAnswers : Returns(a)
  \/ OtherDeletes

Spec == Init /\ [][Next]_vars
=============================================================================
