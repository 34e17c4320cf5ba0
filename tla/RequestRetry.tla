---------------------------- MODULE RequestRetry ----------------------------
(***************************************************************************)
(* One client's API calls, each a series of attempts (client.go: doGET,    *)
(* doPUT, doDELETE, doPOST, do, doWithRetry).  Which calls may be sent     *)
(* again is declared per call site: reads, full-state updates and deletes  *)
(* may, everything that creates may not.                                   *)
(*                                                                         *)
(* The server acts on an attempt, or answers without acting, at any time   *)
(* until the client gives it up; in a behaviour that is "late" even after  *)
(* that, since closing a connection does not recall a request.  All calls  *)
(* are about one object, which another client may delete.                  *)
(***************************************************************************)
EXTENDS Answers, FiniteSets

CONSTANTS
  MaxAttempts, \* retry.Options.MaxAttempts
  MaxCalls     \* bound: calls the client makes, one after the other

ASSUME RetryAssumption ==
  /\ MaxAttempts \in Nat \ {0}
  /\ MaxCalls \in Nat \ {0}

VARIABLES
  enabled, \* Config.RetryOptions # nil
  late,    \* the server may act on attempts the client has given up
  alone,   \* no other client deletes the object
  bounded, \* the caller's context ends some time
  kind,    \* what each call does
  cur,     \* the call under way; MaxCalls + 1 when all have returned
  phase,   \* "send", "wait" for the answer, or "pause" before the next attempt
  sent,    \* attempts of each call so far
  wire,    \* attempts the server has not handled: <<call, attempt>>
  reply,   \* the answer to the attempt waited for; then the last error
  open,    \* its headers have come and its body has not ended
  acts,    \* how often the server acted on each call
  present, \* the object exists
  value,   \* the update it holds, 0 before any
  start,   \* present when the current call began
  result   \* what each call returned: [answer, from, to]

config == <<enabled, late, alone, bounded, kind>>
object == <<present, value>>
vars == <<config, cur, phase, sent, wire, reply, open, acts, object, start, result>>

Calls == 1..MaxCalls
Kinds == {"read", "update", "delete", "create"}
NotReturned == [answer |-> "none", from |-> FALSE, to |-> FALSE]

RetryTypeOK ==
  /\ enabled \in BOOLEAN
  /\ late \in BOOLEAN
  /\ alone \in BOOLEAN
  /\ bounded \in BOOLEAN
  /\ kind \in [Calls -> Kinds]
  /\ cur \in 1..MaxCalls + 1
  /\ phase \in {"send", "wait", "pause"}
  /\ sent \in [Calls -> 0..MaxAttempts]
  /\ wire \subseteq Calls \X (1..MaxAttempts)
  /\ reply \in CallAnswers \cup {"none"}
  /\ open \in BOOLEAN
  /\ open => phase = "wait" /\ reply # "none"
  /\ acts \in [Calls -> Nat]
  /\ present \in BOOLEAN
  /\ value \in 0..MaxCalls
  /\ start \in BOOLEAN
  /\ result \in [Calls -> [answer : CallAnswers \cup {"none"}, from : BOOLEAN, to : BOOLEAN]]

Init ==
  /\ enabled \in BOOLEAN
  /\ late \in BOOLEAN
  /\ alone \in BOOLEAN
  /\ bounded \in BOOLEAN
  /\ kind \in [Calls -> Kinds]
  /\ cur = 1
  /\ phase = "send"
  /\ sent = [k \in Calls |-> 0]
  /\ wire = {}
  /\ reply = "none"
  /\ open = FALSE
  /\ acts = [k \in Calls |-> 0]
  /\ present \in BOOLEAN
  /\ value = 0
  /\ start = present
  /\ result = [k \in Calls |-> NotReturned]

-----------------------------------------------------------------------------
(* The client *)

Running == cur \in Calls
Attempt == <<cur, sent[cur]>>

(* Broken: every call may be sent again. *)
AllRetryable(k) == TRUE

(* The retryable argument of the call sites: doPOST has none. *)
Retryable(k) == kind[k] # "create"

(* Broken: the count of attempts is off by one. *)
MayRetryOnceMore(k, a) ==
  /\ Retryable(k)
  /\ enabled
  /\ IsRetryable(a)
  /\ sent[k] <= MaxAttempts

(* doWithRetry runs for a retryable call when the client has options.      *)
MayRetry(k, a) ==
  /\ Retryable(k)
  /\ enabled
  /\ IsRetryable(a)
  /\ sent[k] < MaxAttempts

ReturnCall(a) ==
  /\ result' = [result EXCEPT ![cur] = [answer |-> a, from |-> start, to |-> present]]
  /\ cur' = cur + 1
  /\ phase' = "send"
  /\ reply' = "none"
  /\ start' = present

Send ==
  /\ Running
  /\ phase = "send"
  /\ sent' = [sent EXCEPT ![cur] = @ + 1]
  /\ wire' = wire \cup {<<cur, sent[cur] + 1>>}
  /\ phase' = "wait"
  /\ reply' = "none"
  /\ UNCHANGED <<config, cur, open, acts, object, start, result>>

(* Broken: an answer that does not arrive is taken for an empty one. *)
SettleSilence(a) ==
  \/ MayRetry(cur, a) /\ a # "no answer" /\ phase' = "pause" /\ reply' = a
     /\ UNCHANGED <<cur, result, start>>
  \/ a = "no answer" /\ ReturnCall("ok")
  \/ ~MayRetry(cur, a) /\ a # "no answer" /\ ReturnCall(a)

(* One attempt is over with this outcome. *)
Settle(a) ==
  \/ /\ MayRetry(cur, a)
     /\ phase' = "pause"
     /\ reply' = a
     /\ UNCHANGED <<cur, result, start>>
  \/ /\ ~MayRetry(cur, a)
     /\ ReturnCall(a)

Receive ==
  /\ Running
  /\ phase = "wait"
  /\ reply # "none"
  /\ ~open
  /\ Settle(reply)
  /\ UNCHANGED <<config, sent, wire, open, acts, object>>

(* Broken: a body that breaks off is taken for a refusal. *)
BodyBreaksAsRefusal ==
  /\ Running
  /\ phase = "wait"
  /\ open
  /\ open' = FALSE
  /\ \/ reply \in {"ok", "refused", "unreadable"} /\ Settle("refused")
     \/ reply # "ok" /\ Settle(reply)
  /\ UNCHANGED <<config, sent, wire, acts, object>>

(* The body breaks off: of an error the status is what counts, of a 2xx    *)
(* the body.                                                               *)
BodyBreaks ==
  /\ Running
  /\ phase = "wait"
  /\ open
  /\ open' = FALSE
  /\ \/ reply \in {"ok", "refused", "unreadable"} /\ Settle("unreadable")
     \/ reply # "ok" /\ Settle(reply)
  /\ UNCHANGED <<config, sent, wire, acts, object>>

(* Broken: without a header timeout, only a server that took the request   *)
(* can end the wait.                                                       *)
NoAnswerOfTaken ==
  /\ Running
  /\ phase = "wait"
  /\ Attempt \notin wire
  /\ ~open
  /\ Settle("no answer")
  /\ UNCHANGED <<config, sent, wire, open, acts, object>>

(* No connection, ResponseHeaderTimeout, a reset, or the caller's context: *)
(* whether the server has acted or answered does not matter, as long as    *)
(* the headers are not here.                                               *)
NoAnswer ==
  /\ Running
  /\ phase = "wait"
  /\ ~open
  /\ Settle("no answer")
  /\ wire' = IF late THEN wire ELSE wire \ {Attempt}
  /\ UNCHANGED <<config, sent, open, acts, object>>

Resume ==
  /\ Running
  /\ phase = "pause"
  /\ phase' = "send"
  /\ UNCHANGED <<config, cur, sent, wire, reply, open, acts, object, start, result>>

(* retry.Do ends between two attempts: the context is done, or             *)
(* MaxElapsedTime is over and the last error is returned.                  *)
GiveUp ==
  /\ Running
  /\ phase = "pause"
  /\ \/ ReturnCall(reply)
     \/ bounded /\ ReturnCall("no answer")
  /\ UNCHANGED <<config, sent, wire, open, acts, object>>

-----------------------------------------------------------------------------
(* The server *)

Answered(t, a) ==
  /\ wire' = wire \ {t}
  /\ \/ phase = "wait" /\ t = Attempt /\ reply' = a /\ open' \in BOOLEAN
     \/ ~(phase = "wait" /\ t = Attempt) /\ UNCHANGED <<reply, open>>

(* It acts; the answer may still fail on its way out of the server.        *)
Act(t) ==
  LET k == t[1]
      found == kind[k] = "create" \/ present
      proper == IF found THEN "ok" ELSE "not found"
  IN /\ \E a \in {proper, "server error", "unreadable"} : Answered(t, a)
     /\ acts' = IF found THEN [acts EXCEPT ![k] = @ + 1] ELSE acts
     /\ present' = (present /\ kind[k] # "delete")
     /\ value' = IF present /\ kind[k] = "update" THEN k ELSE value
     /\ UNCHANGED <<config, cur, phase, sent, start, result>>

Decline(t) ==
  /\ \E a \in {"refused", "server error", "rate limited", "barred"} : Answered(t, a)
  /\ UNCHANGED <<config, cur, phase, sent, acts, object, start, result>>

BodyEnds ==
  /\ open
  /\ open' = FALSE
  /\ UNCHANGED <<config, cur, phase, sent, wire, reply, acts, object, start, result>>

OtherDeletes ==
  /\ ~alone
  /\ present
  /\ present' = FALSE
  /\ UNCHANGED <<config, cur, phase, sent, wire, reply, open, acts, value, start, result>>

-----------------------------------------------------------------------------
Client ==
  \/ Send
  \/ Receive
  \/ NoAnswer
  \/ bounded /\ BodyBreaks
  \/ Resume
  \/ GiveUp

AllCallsReturned ==
  /\ ~Running
  /\ UNCHANGED vars

Next ==
  \/ Client
  \/ \E t \in wire : Act(t) \/ Decline(t)
  \/ BodyEnds
  \/ BodyBreaks
  \/ OtherDeletes
  \/ AllCallsReturned

(* The client always goes on: the header timeout ends the wait for an      *)
(* answer, a timer the pause, and a context that ends the reading of a     *)
(* body.  The server need not answer anything, nor end what it began.      *)
Spec == Init /\ [][Next]_vars /\ WF_vars(Client)

-----------------------------------------------------------------------------
(* Properties *)

Done(k) == result[k].answer # "none"

(* What creates is never done twice, however late, lost or broken the      *)
(* answers are, and a decided failure of a create means that nothing was   *)
(* made, then or later (client.go:231-240, success_gate.go:11-28).         *)
CreateActsOnce ==
  \A k \in Calls : kind[k] = "create" =>
    /\ acts[k] <= 1
    /\ Done(k) /\ ~LeavesOpen(result[k].answer) /\ result[k].answer # "ok" => acts[k] = 0

(* A call that returns ok was acted on, and not merely answered by an      *)
(* attempt before it; a full-state update that is sent again converges:    *)
(* with no late attempt about, the object holds the last update that was   *)
(* reported ok, unless a later one is under way (client.go:231-234).       *)
OkMeansActed ==
  /\ \A k \in Calls : result[k].answer = "ok" => acts[k] > 0
  /\ ~late =>
       \A k \in Calls :
         /\ kind[k] = "update"
         /\ result[k].answer = "ok"
         /\ \A j \in k + 1 .. MaxCalls : kind[j] = "update" => sent[j] = 0
         => value = k

(* What a DELETE with retries can have done by the time it returns: in     *)
(* particular a 404 of a call sent more than once may be its own work.     *)
DeleteKeepsContract ==
  alone /\ ~late =>
    \A k \in Calls : Done(k) /\ kind[k] = "delete" =>
      DeleteOutcome(result[k].from, result[k].to, result[k].answer, sent[k] > 1)

(* All that is promised of the calls, as a specification of its own that   *)
(* knows no attempts on the wire, waits or pauses (client.go:218-240): who *)
(* builds on calls needs no more.                                          *)
Contract == INSTANCE CallContract

KeepsCallContract == Contract!Spec

(* Every call returns, whatever the server does or fails to do, but for    *)
(* one case: a body that never ends holds a call whose context has no      *)
(* deadline, since only the wait for the headers is timed                  *)
(* (client.go:49, 83-90).                                                  *)
CallsReturn == <>(\A k \in Calls : Done(k)) \/ (~bounded /\ <>[]open)
=============================================================================
