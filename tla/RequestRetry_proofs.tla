------------------------ MODULE RequestRetry_proofs ------------------------
(***************************************************************************)
(* Proofs about RequestRetry, for any number of calls and of attempts: its *)
(* type invariant, that what creates is done at most once, that an ok is   *)
(* true of the server, what a DELETE sent again can have done, that the    *)
(* calls keep CallContract, and that the three follow from it alone.       *)
(***************************************************************************)
EXTENDS RequestRetry, FiniteSetTheorems, TLAPS

(* Whoever is about to send, or pauses before it, has an attempt left.     *)
AttemptLeft == Running /\ phase # "wait" => sent[cur] < MaxAttempts

(* Calls are made one after the other.                                     *)
LaterUnsent == \A k \in Calls : k > cur => sent[k] = 0

(* A pause follows an error.                                               *)
PauseHasError == phase = "pause" => reply # "none"

RetryInv == RetryTypeOK /\ AttemptLeft /\ LaterUnsent /\ PauseHasError

(* The client never has a call in flight that is out of order or beyond    *)
(* its attempts: the two bounds make the type invariant inductive          *)
(* (client.go:426-464).                                                    *)
LEMMA RetryInvariant == Spec => []RetryInv
<1> USE RetryAssumption DEF RetryAssumption
<1>1. Init => RetryInv
  <2> SUFFICES ASSUME Init PROVE RetryInv
    OBVIOUS
  <2>1. result \in [Calls -> [answer : CallAnswers \cup {"none"}, from : BOOLEAN, to : BOOLEAN]]
    BY DEF Init, NotReturned
  <2>a. sent \in [Calls -> 0..MaxAttempts] /\ acts \in [Calls -> Nat]
    BY DEF Init
  <2>b. cur \in 1..MaxCalls + 1 /\ value \in 0..MaxCalls /\ wire \subseteq Calls \X (1..MaxAttempts)
    BY DEF Init
  <2>c. start \in BOOLEAN
    BY DEF Init
  <2>2. RetryTypeOK
    BY <2>1, <2>a, <2>b, <2>c DEF Init, RetryTypeOK
  <2>3. AttemptLeft /\ LaterUnsent /\ PauseHasError
    BY DEF Init, AttemptLeft, LaterUnsent, PauseHasError, Running
  <2> QED BY <2>2, <2>3 DEF RetryInv
<1>2. RetryInv /\ [Next]_vars => RetryInv'
  <2> SUFFICES ASSUME RetryInv, [Next]_vars PROVE RetryInv'
    OBVIOUS
  <2> USE DEF RetryInv
  <2>t. RetryTypeOK
    OBVIOUS
  <2>1. ASSUME NEW a \in CallAnswers, Running, ReturnCall(a), UNCHANGED <<config, sent, acts, object>>,
               wire' \subseteq wire, open' = FALSE
        PROVE  RetryInv'
    <3>1. result' \in [Calls -> [answer : CallAnswers \cup {"none"}, from : BOOLEAN, to : BOOLEAN]]
      BY <2>1, <2>t DEF ReturnCall, RetryTypeOK
    <3>2. cur \in Calls /\ cur \in Nat /\ cur' = cur + 1 /\ cur' \in 1..MaxCalls + 1
      BY <2>1, <2>t DEF ReturnCall, Running, Calls, RetryTypeOK
    <3>3. RetryTypeOK'
      BY <2>1, <2>t, <3>1, <3>2 DEF ReturnCall, RetryTypeOK, config, object
    <3>4. LaterUnsent'
      BY <2>1, <3>2 DEF LaterUnsent, Calls
    <3>5. AttemptLeft' /\ PauseHasError'
      BY <2>1, <3>2 DEF ReturnCall, LaterUnsent, AttemptLeft, PauseHasError, Running, Calls
    <3> QED BY <3>3, <3>4, <3>5
  <2>2. ASSUME NEW a \in CallAnswers, Running, Settle(a), UNCHANGED <<config, sent, acts, object>>,
               wire' \subseteq wire, open' = FALSE
        PROVE  RetryInv'
    <3>1. CASE MayRetry(cur, a) /\ phase' = "pause" /\ reply' = a /\ UNCHANGED <<cur, result, start>>
      BY <2>2, <2>t, <3>1 DEF config, object, RetryTypeOK, AttemptLeft, LaterUnsent, PauseHasError, Running, MayRetry, CallAnswers
    <3>2. CASE ReturnCall(a)
      BY <2>1, <2>2, <3>2
    <3> QED BY <2>2, <3>1, <3>2 DEF Settle
  <2>3. ASSUME Send PROVE RetryInv'
    <3>1. cur \in Calls /\ sent[cur] \in 0..MaxAttempts /\ sent[cur] + 1 \in 1..MaxAttempts
      BY <2>3, <2>t DEF Send, AttemptLeft, Running, RetryTypeOK
    <3>2. sent' \in [Calls -> 0..MaxAttempts] /\ wire' \subseteq Calls \X (1..MaxAttempts)
      BY <2>3, <2>t, <3>1 DEF Send, RetryTypeOK
    <3>3. RetryTypeOK'
      BY <2>3, <2>t, <3>2 DEF Send, RetryTypeOK, config, object
    <3>4. AttemptLeft' /\ LaterUnsent' /\ PauseHasError'
      BY <2>3, <2>t, <3>1 DEF Send, AttemptLeft, LaterUnsent, PauseHasError, RetryTypeOK, Calls, config
    <3> QED BY <3>3, <3>4
  <2>4. ASSUME Receive PROVE RetryInv'
    BY <2>2, <2>4, <2>t DEF Receive, RetryTypeOK
  <2>5. ASSUME NoAnswer PROVE RetryInv'
    BY <2>2, <2>5, <2>t DEF NoAnswer, CallAnswers, RetryTypeOK
  <2>6. ASSUME BodyBreaks PROVE RetryInv'
    BY <2>2, <2>6, <2>t DEF BodyBreaks, CallAnswers, RetryTypeOK
  <2>7. ASSUME Resume PROVE RetryInv'
    BY <2>7, <2>t DEF Resume, config, object, RetryTypeOK, AttemptLeft, LaterUnsent, PauseHasError, Running
  <2>8. ASSUME GiveUp PROVE RetryInv'
    <3>1. open = FALSE /\ "no answer" \in CallAnswers
      BY <2>8, <2>t DEF GiveUp, RetryTypeOK, CallAnswers
    <3>2. CASE ReturnCall("no answer")
      BY <2>1, <2>8, <3>1, <3>2 DEF GiveUp
    <3>3. CASE ReturnCall(reply)
      <4>1. reply \in CallAnswers
        BY <2>8, <2>t DEF GiveUp, PauseHasError, RetryTypeOK
      <4> QED BY <2>1, <2>8, <3>1, <3>3, <4>1 DEF GiveUp
    <3> QED BY <2>8, <3>2, <3>3 DEF GiveUp
  <2>9. ASSUME NEW t \in wire, NEW a \in CallAnswers, Answered(t, a),
               UNCHANGED <<config, cur, phase, sent, start, result>>,
               acts' \in [Calls -> Nat], present' \in BOOLEAN, value' \in 0..MaxCalls
        PROVE  RetryInv'
    <3>1. reply' \in CallAnswers \cup {"none"} /\ open' \in BOOLEAN /\ (open' => phase = "wait" /\ reply' # "none")
      <4>1. CASE phase = "wait" /\ t = Attempt /\ reply' = a /\ open' \in BOOLEAN
        BY <4>1 DEF CallAnswers
      <4>2. CASE UNCHANGED <<reply, open>>
        BY <4>2, <2>t DEF RetryTypeOK
      <4> QED BY <2>9, <4>1, <4>2 DEF Answered
    <3>2. RetryTypeOK'
      BY <2>9, <2>t, <3>1 DEF Answered, RetryTypeOK, config
    <3>3. AttemptLeft' /\ LaterUnsent' /\ PauseHasError'
      BY <2>9, <2>t DEF Answered, config, AttemptLeft, LaterUnsent, PauseHasError, Running, RetryTypeOK
    <3> QED BY <3>2, <3>3
  <2>10. ASSUME NEW t \in wire, Act(t) PROVE RetryInv'
    <3>1. t[1] \in Calls /\ t[1] \in 0..MaxCalls
      BY <2>t DEF RetryTypeOK, Calls
    <3>a. acts' \in [Calls -> Nat]
      <4>1. acts' = acts \/ acts' = [acts EXCEPT ![t[1]] = @ + 1]
        BY <2>10 DEF Act
      <4> QED BY <2>t, <3>1, <4>1 DEF RetryTypeOK
    <3>b. value' \in 0..MaxCalls
      BY <2>10, <2>t, <3>1 DEF Act, RetryTypeOK
    <3>c. present' \in BOOLEAN
      BY <2>10 DEF Act
    <3>2. acts' \in [Calls -> Nat] /\ present' \in BOOLEAN /\ value' \in 0..MaxCalls
      BY <3>a, <3>b, <3>c
    <3>3. \E a \in CallAnswers : Answered(t, a)
      BY <2>10 DEF Act, CallAnswers
    <3> QED BY <2>9, <2>10, <3>2, <3>3 DEF Act
  <2>11. ASSUME NEW t \in wire, Decline(t) PROVE RetryInv'
    BY <2>9, <2>11, <2>t DEF Decline, CallAnswers, RetryTypeOK, object
  <2>12. ASSUME BodyEnds PROVE RetryInv'
    BY <2>12, <2>t DEF BodyEnds, config, object, RetryTypeOK, AttemptLeft, LaterUnsent, PauseHasError, Running
  <2>13. ASSUME OtherDeletes PROVE RetryInv'
    BY <2>13, <2>t DEF OtherDeletes, config, object, RetryTypeOK, AttemptLeft, LaterUnsent, PauseHasError, Running
  <2>14. ASSUME UNCHANGED vars PROVE RetryInv'
    BY <2>14, <2>t DEF vars, config, object, RetryTypeOK, AttemptLeft, LaterUnsent, PauseHasError, Running
  <2> QED BY <2>3, <2>4, <2>5, <2>6, <2>7, <2>8, <2>10, <2>11, <2>12, <2>13, <2>14
        DEF Next, Client, AllCallsReturned
<1> QED BY <1>1, <1>2, PTL DEF Spec

(* Every variable of the client keeps its type: no call is sent more often *)
(* than MaxAttempts, and a body is read only of an answer that has come    *)
(* (client.go:389-486).                                                    *)
THEOREM RetryTypeCorrect == Spec => []RetryTypeOK
BY RetryInvariant, PTL DEF RetryInv

-----------------------------------------------------------------------------
(* Why a create acts once: it is sent at most once, so its one attempt is  *)
(* either still on the wire and has not acted, or has left it for good.    *)
CreateAt(k) ==
  /\ sent[k] <= 1
  /\ k = cur => phase # "pause" /\ (phase = "send" => sent[k] = 0)
  /\ \A n \in 1..MaxAttempts : <<k, n>> \in wire => n = 1 /\ sent[k] = 1 /\ acts[k] = 0
  /\ acts[k] <= sent[k]
  /\ k = cur /\ phase = "wait" /\ Decided(reply) => acts[k] = 0 /\ <<k, 1>> \notin wire
  /\ Decided(result[k].answer) => acts[k] = 0 /\ <<k, 1>> \notin wire /\ k < cur

CreateInv == \A k \in Calls : kind[k] = "create" => CreateAt(k)

LEMMA CreateInvariant == Spec => []CreateInv
<1> USE RetryAssumption DEF RetryAssumption
<1>1. Init => CreateInv
  BY DEF Init, CreateInv, CreateAt, Decided, NotReturned
<1>2. RetryInv /\ CreateInv /\ [Next]_vars => CreateInv'
  <2> SUFFICES ASSUME RetryInv, CreateInv, [Next]_vars,
                      NEW k \in Calls, kind'[k] = "create"
               PROVE  CreateAt(k)'
    BY DEF CreateInv
  <2>t. RetryTypeOK /\ AttemptLeft /\ LaterUnsent /\ PauseHasError
    BY DEF RetryInv
  <2>k. kind' = kind
    BY DEF Next, Client, Send, Receive, NoAnswer, BodyBreaks, Resume, GiveUp, Act, Decline, BodyEnds,
           OtherDeletes, AllCallsReturned, vars, config
  <2>c. CreateAt(k)
    BY <2>k DEF CreateInv
  <2>n. /\ k \in Nat /\ k \in 1..MaxCalls /\ cur \in Nat
        /\ sent[k] \in Nat /\ acts[k] \in Nat /\ MaxAttempts \in Nat
    BY <2>t DEF RetryTypeOK, Calls
  <2>1. ASSUME NEW a, Running, ReturnCall(a), sent' = sent, acts' = acts, wire' \subseteq wire,
               k = cur /\ Decided(a) => acts[k] = 0 /\ <<k, 1>> \notin wire
        PROVE  CreateAt(k)'
    <3>1. cur' = cur + 1 /\ phase' = "send" /\ reply' = "none"
      BY <2>1 DEF ReturnCall
    <3>2. IF k = cur THEN result'[k].answer = a ELSE result'[k] = result[k]
      BY <2>1, <2>t DEF ReturnCall, RetryTypeOK
    <3>3. k = cur' => sent[k] = 0
      BY <2>t, <2>n, <3>1 DEF LaterUnsent
    <3>4. CASE k = cur
      BY <2>1, <2>c, <2>n, <3>1, <3>2, <3>3, <3>4 DEF CreateAt, Decided
    <3>5. CASE k # cur
      BY <2>1, <2>c, <2>n, <3>1, <3>2, <3>3, <3>5 DEF CreateAt, Decided
    <3> QED BY <3>4, <3>5
  <2>2. ASSUME NEW a, Running, Settle(a), sent' = sent, acts' = acts, wire' \subseteq wire,
               k = cur /\ Decided(a) => acts[k] = 0 /\ <<k, 1>> \notin wire
        PROVE  CreateAt(k)'
    <3>1. CASE ReturnCall(a)
      BY <2>1, <2>2, <3>1
    <3>2. CASE MayRetry(cur, a) /\ phase' = "pause" /\ UNCHANGED <<cur, result>>
      <4>1. k # cur
        BY <2>k, <3>2 DEF MayRetry, Retryable
      <4> QED BY <2>2, <2>c, <3>2, <4>1 DEF CreateAt
    <3> QED BY <2>2, <3>1, <3>2 DEF Settle
  <2>3. ASSUME Send PROVE CreateAt(k)'
    <3>1. /\ phase = "send" /\ phase' = "wait" /\ reply' = "none"
          /\ cur' = cur /\ acts' = acts /\ result' = result
          /\ cur \in Calls
          /\ sent' = [sent EXCEPT ![cur] = @ + 1]
          /\ wire' = wire \cup {<<cur, sent[cur] + 1>>}
      BY <2>3 DEF Send, Running
    <3>2. CASE k = cur
      BY <2>c, <2>n, <2>t, <3>1, <3>2 DEF CreateAt, Decided, RetryTypeOK
    <3>3. CASE k # cur
      BY <2>c, <2>n, <2>t, <3>1, <3>3 DEF CreateAt, Decided, RetryTypeOK
    <3> QED BY <3>2, <3>3
  <2>4. ASSUME Receive PROVE CreateAt(k)'
    BY <2>2, <2>4, <2>c DEF Receive, CreateAt
  <2>5. ASSUME NoAnswer PROVE CreateAt(k)'
    BY <2>2, <2>5 DEF NoAnswer, Decided, LeavesOpen
  <2>6. ASSUME BodyBreaks PROVE CreateAt(k)'
    BY <2>2, <2>6, <2>c DEF BodyBreaks, CreateAt, Decided, LeavesOpen
  <2>7. ASSUME Resume PROVE CreateAt(k)'
    BY <2>7, <2>c DEF Resume, CreateAt
  <2>8. ASSUME GiveUp PROVE CreateAt(k)'
    <3>1. k # cur
      BY <2>8, <2>c DEF GiveUp, CreateAt
    <3> QED BY <2>1, <2>8, <3>1 DEF GiveUp
  <2>9. ASSUME NEW t \in wire, Act(t) PROVE CreateAt(k)'
    <3>1. /\ UNCHANGED <<cur, phase, sent, result>>
          /\ wire' = wire \ {t}
          /\ acts' = acts \/ acts' = [acts EXCEPT ![t[1]] = @ + 1]
      BY <2>9 DEF Act, Answered
    <3>2. t = <<t[1], t[2]>> /\ t[1] \in Calls /\ t[2] \in 1..MaxAttempts
      BY <2>t DEF RetryTypeOK
    <3>3. CASE t[1] = k
      <4>1. t = <<k, 1>> /\ sent[k] = 1 /\ acts[k] = 0
        BY <2>c, <3>2, <3>3 DEF CreateAt
      <4>2. reply' = reply \/ reply' \in {"ok", "server error", "unreadable"}
        BY <2>9, <2>k, <3>3 DEF Act, Answered
      <4>3. ~Decided(result[k].answer) /\ ~(k = cur /\ phase = "wait" /\ Decided(reply))
        BY <2>c, <4>1 DEF CreateAt
      <4>4. acts'[k] \in {0, 1}
        BY <2>t, <3>1, <3>2, <4>1 DEF RetryTypeOK
      <4>5. \A n \in 1..MaxAttempts : <<k, n>> \notin wire'
        BY <2>c, <3>1, <4>1 DEF CreateAt
      <4> QED BY <2>c, <3>1, <4>1, <4>2, <4>3, <4>4, <4>5 DEF CreateAt, Decided, LeavesOpen
    <3>4. CASE t[1] # k
      <4>1. acts'[k] = acts[k]
        BY <2>t, <3>1, <3>2, <3>4 DEF RetryTypeOK
      <4>2. k = cur => UNCHANGED reply
        <5> SUFFICES ASSUME k = cur PROVE reply' = reply
          OBVIOUS
        <5>1. t # Attempt
          BY <3>4 DEF Attempt
        <5> QED BY <2>9, <5>1 DEF Act, Answered
      <4> QED BY <2>c, <3>1, <4>1, <4>2 DEF CreateAt
    <3> QED BY <3>3, <3>4
  <2>10. ASSUME NEW t \in wire, Decline(t) PROVE CreateAt(k)'
    <3>1. UNCHANGED <<cur, phase, sent, acts, result>> /\ wire' = wire \ {t}
      BY <2>10 DEF Decline, Answered
    <3>2. t = <<t[1], t[2]>> /\ t[1] \in Calls /\ t[2] \in 1..MaxAttempts
      BY <2>t DEF RetryTypeOK
    <3>3. CASE t[1] = k
      <4>1. t = <<k, 1>> /\ sent[k] = 1 /\ acts[k] = 0
        BY <2>c, <3>2, <3>3 DEF CreateAt
      <4> QED BY <2>c, <3>1, <4>1 DEF CreateAt
    <3>4. CASE t[1] # k
      <4>1. k = cur => UNCHANGED reply
        <5> SUFFICES ASSUME k = cur PROVE reply' = reply
          OBVIOUS
        <5>1. t # Attempt
          BY <3>4 DEF Attempt
        <5> QED BY <2>10, <5>1 DEF Decline, Answered
      <4> QED BY <2>c, <3>1, <4>1 DEF CreateAt
    <3> QED BY <3>3, <3>4
  <2>11. ASSUME BodyEnds PROVE CreateAt(k)'
    BY <2>11, <2>c DEF BodyEnds, CreateAt
  <2>12. ASSUME OtherDeletes PROVE CreateAt(k)'
    BY <2>12, <2>c DEF OtherDeletes, CreateAt
  <2>13. ASSUME UNCHANGED vars PROVE CreateAt(k)'
    BY <2>13, <2>c DEF vars, CreateAt
  <2> QED BY <2>3, <2>4, <2>5, <2>6, <2>7, <2>8, <2>9, <2>10, <2>11, <2>12, <2>13
        DEF Next, Client, AllCallsReturned
<1> QED BY <1>1, <1>2, RetryInvariant, PTL DEF Spec

(* A create is acted on at most once, for any number of attempts and calls *)
(* and whatever the server and the network do, and one that failed with a  *)
(* decided answer was not acted on and never will be                       *)
(* (client.go:231-240, success_gate.go:11-28).                             *)
THEOREM CreatesActOnce == Spec => []CreateActsOnce
<1>1. RetryInv /\ CreateInv => CreateActsOnce
  <2> SUFFICES ASSUME RetryInv, CreateInv, NEW k \in Calls, kind[k] = "create"
               PROVE  /\ acts[k] <= 1
                      /\ Done(k) /\ ~LeavesOpen(result[k].answer) /\ result[k].answer # "ok"
                           => acts[k] = 0
    BY DEF CreateActsOnce
  <2>1. acts[k] \in Nat /\ sent[k] \in Nat
    BY RetryAssumption DEF RetryInv, RetryTypeOK, RetryAssumption
  <2>2. CreateAt(k)
    BY DEF CreateInv
  <2>3. acts[k] <= 1
    BY <2>1, <2>2 DEF CreateAt
  <2>4. Done(k) /\ ~LeavesOpen(result[k].answer) /\ result[k].answer # "ok" => acts[k] = 0
    BY <2>2 DEF CreateAt, Decided, Done
  <2> QED BY <2>3, <2>4
<1> QED BY <1>1, RetryInvariant, CreateInvariant, PTL

-----------------------------------------------------------------------------
(* What an answer on its way to the client says of the server.             *)

(* Only calls behind the client have returned.                             *)
ReturnedBehind == \A k \in Calls : Done(k) => k < cur

(* An attempt that has been answered is off the wire; a pause follows an   *)
(* answer that may be sent again.                                          *)
AnsweredIsOff ==
  /\ phase = "wait" /\ reply # "none" => Attempt \notin wire
  /\ phase = "pause" => IsRetryable(reply)
  /\ Running /\ phase # "send" => sent[cur] > 0

(* Without late requests only the attempt waited for is on the wire.       *)
OnlyThisAttempt ==
  ~late => \A t \in wire : Running /\ phase = "wait" /\ t = Attempt

(* An ok, under way or returned, was acted on.                             *)
OkWasActed ==
  /\ phase = "wait" /\ reply = "ok" => Running /\ acts[cur] > 0
  /\ \A k \in Calls : result[k].answer = "ok" => acts[k] > 0

(* The object holds an update from when its ok is under way until a later  *)
(* update is sent.                                                         *)
NoUpdateSince(k) == \A j \in k + 1 .. MaxCalls : kind[j] = "update" => sent[j] = 0
OkIsHeld ==
  ~late =>
    /\ phase = "wait" /\ reply = "ok" /\ Running /\ kind[cur] = "update" => value = cur
    /\ \A k \in Calls :
         kind[k] = "update" /\ result[k].answer = "ok" /\ NoUpdateSince(k) => value = k

AnswerInv == ReturnedBehind /\ AnsweredIsOff /\ OnlyThisAttempt /\ OkWasActed /\ OkIsHeld

(* Where the DELETE under way stands, when nobody else is at the object:   *)
(* it is gone by its own hand only if an attempt was acted on, and the     *)
(* first one cannot be answered 404 then.                                  *)
DeleteUnderWay ==
  /\ present => start
  /\ sent[cur] = 0 => present = start
  /\ kind[cur] = "delete" =>
       /\ phase = "wait" /\ reply = "ok" => start /\ ~present
       /\ phase = "wait" /\ reply = "not found" => ~present /\ (start => sent[cur] > 1)
       /\ start /\ ~present /\ sent[cur] = 1 /\ phase = "wait" =>
            Attempt \notin wire /\ (reply = "ok" \/ LeavesOpen(reply))
       /\ start /\ ~present /\ sent[cur] = 1 /\ phase = "pause" => LeavesOpen(reply)

DeletesSoFar == (Running => DeleteUnderWay) /\ DeleteKeepsContract

DeleteInv == alone /\ ~late => DeletesSoFar

(* A call returns: nothing of it is on the wire but what is late.          *)
LEMMA ReturnKeepsAnswers ==
  ASSUME RetryInv, AnswerInv, NEW a \in CallAnswers, Running, ReturnCall(a),
         UNCHANGED <<config, sent, acts, object>>, wire' \subseteq wire, ~late => wire' = {},
         a = "ok" => acts[cur] > 0 /\ (~late /\ kind[cur] = "update" => value = cur)
  PROVE  AnswerInv'
<1>t. RetryTypeOK
  BY DEF RetryInv
<1>1. cur \in Calls /\ cur \in Nat /\ cur' = cur + 1 /\ phase' = "send" /\ reply' = "none"
  BY <1>t, RetryAssumption DEF ReturnCall, Running, Calls, RetryTypeOK, RetryAssumption
<1>2. \A k \in Calls : result'[k] = IF k = cur THEN [answer |-> a, from |-> start, to |-> present] ELSE result[k]
  BY <1>t DEF ReturnCall, RetryTypeOK
<1>3. \A k \in Calls : result'[k].answer = IF k = cur THEN a ELSE result[k].answer
  BY <1>2
<1>u. kind' = kind /\ late' = late /\ sent' = sent /\ acts' = acts /\ value' = value
  BY DEF config, object
<1>4. ReturnedBehind'
  <2> SUFFICES ASSUME NEW k \in Calls, Done(k)' PROVE k < cur'
    BY DEF ReturnedBehind
  <2>1. CASE k = cur
    BY <1>1, <2>1
  <2>2. CASE k # cur
    <3>1. Done(k)
      BY <1>3, <2>2 DEF Done
    <3>2. k < cur /\ k \in Nat
      BY <3>1, RetryAssumption DEF AnswerInv, ReturnedBehind, Calls, RetryAssumption
    <3> QED BY <1>1, <3>2
  <2> QED BY <2>1, <2>2
<1>5. AnsweredIsOff' /\ OnlyThisAttempt'
  BY <1>1, <1>u DEF AnsweredIsOff, OnlyThisAttempt
<1>6. OkWasActed'
  BY <1>1, <1>3, <1>u DEF AnswerInv, OkWasActed
<1>7. OkIsHeld'
  <2> SUFFICES ASSUME ~late, NEW k \in Calls, kind[k] = "update", result'[k].answer = "ok", NoUpdateSince(k)'
               PROVE  value = k
    BY <1>1, <1>u DEF OkIsHeld
  <2>1. NoUpdateSince(k)
    BY <1>u DEF NoUpdateSince
  <2> QED BY <1>3, <2>1 DEF AnswerInv, OkIsHeld
<1> QED BY <1>4, <1>5, <1>6, <1>7 DEF AnswerInv

(* The outcome of an attempt ends the call or a pause begins. *)
LEMMA SettleKeepsAnswers ==
  ASSUME RetryInv, AnswerInv, NEW a \in CallAnswers, Running, phase = "wait", Settle(a),
         UNCHANGED <<config, sent, acts, object>>, wire' \subseteq wire, ~late => wire' = {},
         a = "ok" => acts[cur] > 0 /\ (~late /\ kind[cur] = "update" => value = cur)
  PROVE  AnswerInv'
<1>1. CASE ReturnCall(a)
  BY <1>1, ReturnKeepsAnswers
<1>2. CASE MayRetry(cur, a) /\ phase' = "pause" /\ reply' = a /\ UNCHANGED <<cur, result, start>>
  <2>1. IsRetryable(a) /\ phase' = "pause" /\ reply' = a /\ cur' = cur /\ result' = result
    BY <1>2 DEF MayRetry
  <2>u. kind' = kind /\ late' = late /\ sent' = sent /\ acts' = acts /\ value' = value
    BY DEF config, object
  <2>2. ReturnedBehind' /\ OkWasActed'
    BY <2>1, <2>u DEF AnswerInv, ReturnedBehind, OkWasActed, Done
  <2>3. AnsweredIsOff'
    BY <2>1, <2>u DEF AnswerInv, AnsweredIsOff, Running
  <2>4. OnlyThisAttempt' /\ OkIsHeld'
    BY <2>1, <2>u DEF AnswerInv, OnlyThisAttempt, OkIsHeld, NoUpdateSince
  <2> QED BY <2>2, <2>3, <2>4 DEF AnswerInv
<1> QED BY <1>1, <1>2 DEF Settle

(* Before an attempt without late requests is over, its wire is emptied.   *)
LEMMA NothingElseOnWire ==
  ASSUME AnswerInv, ~late
  PROVE  /\ phase # "wait" => wire = {}
         /\ wire \ {Attempt} = {}
         /\ reply # "none" => wire = {}
<1>1. \A t \in wire : phase = "wait" /\ t = Attempt
  BY DEF AnswerInv, OnlyThisAttempt
<1>2. phase = "wait" /\ reply # "none" => Attempt \notin wire
  BY DEF AnswerInv, AnsweredIsOff
<1> QED BY <1>1, <1>2

LEMMA SendKeepsAnswers == ASSUME RetryInv, AnswerInv, Send PROVE AnswerInv'
<1>t. RetryTypeOK
  BY DEF RetryInv
<1>1. /\ phase = "send" /\ phase' = "wait" /\ reply' = "none"
      /\ cur' = cur /\ acts' = acts /\ result' = result
      /\ cur \in Calls
      /\ sent' = [sent EXCEPT ![cur] = @ + 1]
      /\ wire' = wire \cup {<<cur, sent[cur] + 1>>}
      /\ kind' = kind /\ late' = late /\ value' = value
  BY DEF Send, Running, config, object
<1>2. \A k \in Calls : sent[k] \in Nat /\ sent'[k] = IF k = cur THEN sent[k] + 1 ELSE sent[k]
  BY <1>t, <1>1, RetryAssumption DEF RetryTypeOK, RetryAssumption
<1>3. Attempt' = <<cur, sent[cur] + 1>> /\ sent'[cur] > 0
  BY <1>1, <1>2 DEF Attempt
<1>4. ReturnedBehind' /\ OkWasActed'
  BY <1>1 DEF AnswerInv, ReturnedBehind, OkWasActed, Done
<1>5. AnsweredIsOff'
  BY <1>1, <1>3 DEF AnsweredIsOff
<1>6. OnlyThisAttempt'
  <2> SUFFICES ASSUME ~late, NEW t \in wire' PROVE t = Attempt'
    BY <1>1 DEF OnlyThisAttempt, Running
  <2> QED BY <1>1, <1>3, NothingElseOnWire
<1>7. OkIsHeld'
  <2> SUFFICES ASSUME ~late, NEW k \in Calls, kind[k] = "update", result[k].answer = "ok", NoUpdateSince(k)'
               PROVE  value = k
    BY <1>1 DEF OkIsHeld
  <2>1. NoUpdateSince(k)
    <3> SUFFICES ASSUME NEW j \in k + 1 .. MaxCalls, kind[j] = "update" PROVE sent[j] = 0
      BY DEF NoUpdateSince
    <3>1. sent'[j] = 0
      BY <1>1 DEF NoUpdateSince
    <3>2. j \in Calls
      BY RetryAssumption DEF Calls, RetryAssumption
    <3> QED BY <1>2, <3>1, <3>2
  <2> QED BY <2>1 DEF AnswerInv, OkIsHeld
<1> QED BY <1>4, <1>5, <1>6, <1>7 DEF AnswerInv

(* One more in a count of acts. *)
LEMMA CountUp ==
  ASSUME NEW S, NEW f \in [S -> Nat], NEW c \in S, NEW g, g = [f EXCEPT ![c] = @ + 1] \/ g = f
  PROVE  /\ \A k \in S : g[k] >= f[k] /\ f[k] \in Nat /\ g[k] \in Nat
         /\ g = [f EXCEPT ![c] = @ + 1] => g[c] > 0
<1>1. CASE g = f
  BY <1>1
<1>2. CASE g = [f EXCEPT ![c] = @ + 1]
  BY <1>2
<1> QED BY <1>1, <1>2

(* What the server does to an attempt it acts on. *)
LEMMA ActFacts ==
  ASSUME RetryInv, AnswerInv, NEW t \in wire, Act(t)
  PROVE  /\ UNCHANGED <<config, cur, phase, sent, start, result>>
         /\ wire' = wire \ {t}
         /\ t[1] \in Calls
         /\ \A k \in Calls : acts'[k] >= acts[k] /\ acts[k] \in Nat /\ acts'[k] \in Nat
         /\ \/ UNCHANGED reply
            \/ /\ phase = "wait" /\ t = Attempt /\ t[1] = cur
               /\ reply' \in {"ok", "not found", "server error", "unreadable"}
               /\ reply' = "ok" => acts'[cur] > 0 /\ (kind[cur] = "create" \/ present)
               /\ reply' = "not found" => kind[cur] # "create" /\ ~present
         /\ present' = (present /\ kind[t[1]] # "delete")
         /\ value' = IF present /\ kind[t[1]] = "update" THEN t[1] ELSE value
<1>t. RetryTypeOK
  BY DEF RetryInv
<1>1. UNCHANGED <<config, cur, phase, sent, start, result>> /\ wire' = wire \ {t}
  BY DEF Act, Answered
<1>2. t[1] \in Calls
  BY <1>t DEF RetryTypeOK
<1> DEFINE found == kind[t[1]] = "create" \/ present
<1>3. acts' = IF found THEN [acts EXCEPT ![t[1]] = @ + 1] ELSE acts
  BY DEF Act
<1>4. PICK a \in {"ok", "not found", "server error", "unreadable"} :
        Answered(t, a) /\ (a = "ok" => found) /\ (a = "not found" => ~found)
  BY DEF Act
<1>a. acts \in [Calls -> Nat]
  BY <1>t DEF RetryTypeOK
<1>5. \A k \in Calls : acts'[k] >= acts[k] /\ acts[k] \in Nat /\ acts'[k] \in Nat
  <2>1. acts' = [acts EXCEPT ![t[1]] = @ + 1] \/ acts' = acts
    BY <1>3
  <2> QED BY <1>2, <1>a, <2>1, CountUp
<1>b. ASSUME found PROVE acts'[t[1]] > 0
  <2>1. acts' = [acts EXCEPT ![t[1]] = @ + 1]
    BY <1>3, <1>b
  <2> QED BY <1>2, <1>a, <2>1, CountUp
<1>6. CASE phase = "wait" /\ t = Attempt /\ reply' = a
  <2>1. t[1] = cur
    BY <1>6 DEF Attempt
  <2>2. reply' = "ok" => found
    BY <1>4, <1>6
  <2>3. reply' = "not found" => ~found
    BY <1>4, <1>6
  <2>4. reply' = "ok" => acts'[cur] > 0
    BY <1>b, <2>1, <2>2
  <2>5. reply' \in {"ok", "not found", "server error", "unreadable"}
    BY <1>4, <1>6
  <2> QED BY <1>1, <1>2, <1>5, <1>6, <2>1, <2>2, <2>3, <2>4, <2>5 DEF Act
<1>7. CASE UNCHANGED reply
  BY <1>1, <1>2, <1>5, <1>7 DEF Act
<1> QED BY <1>4, <1>6, <1>7 DEF Answered

LEMMA ActKeepsAnswers == ASSUME RetryInv, AnswerInv, NEW t \in wire, Act(t) PROVE AnswerInv'
<1>t. RetryTypeOK
  BY DEF RetryInv
<1>1. kind' = kind /\ late' = late /\ cur' = cur /\ phase' = phase /\ sent' = sent /\ result' = result
  BY ActFacts DEF config
<1>2. wire' = wire \ {t} /\ t[1] \in Calls
  BY ActFacts
<1>3. \A k \in Calls : acts'[k] >= acts[k] /\ acts[k] \in Nat /\ acts'[k] \in Nat
  BY ActFacts
<1>4. \/ UNCHANGED reply
      \/ /\ phase = "wait" /\ t = Attempt /\ t[1] = cur
         /\ reply' = "ok" => acts'[cur] > 0 /\ (kind[cur] = "create" \/ present)
  BY ActFacts
<1>5. ReturnedBehind'
  BY <1>1 DEF AnswerInv, ReturnedBehind, Done
<1>6. AnsweredIsOff'
  <2>1. Attempt' = Attempt /\ Running' = Running
    BY <1>1 DEF Attempt, Running
  <2>2. phase = "pause" => UNCHANGED reply
    BY <1>4
  <2>3. phase = "wait" /\ reply' # "none" => Attempt \notin wire'
    BY <1>2, <1>4 DEF AnswerInv, AnsweredIsOff
  <2> QED BY <1>1, <2>1, <2>2, <2>3 DEF AnswerInv, AnsweredIsOff
<1>7. OnlyThisAttempt'
  BY <1>1, <1>2 DEF AnswerInv, OnlyThisAttempt, Attempt, Running
<1>8. OkWasActed'
  <2>1. ASSUME phase = "wait", reply' = "ok" PROVE Running /\ acts'[cur] > 0
    <3>1. CASE UNCHANGED reply
      <4>1. Running /\ acts[cur] > 0
        BY <2>1, <3>1 DEF AnswerInv, OkWasActed
      <4> QED BY <1>3, <4>1 DEF Running
    <3>2. CASE t[1] = cur /\ acts'[cur] > 0
      BY <1>2, <3>2 DEF Running
    <3> QED BY <1>4, <2>1, <3>1, <3>2
  <2>2. ASSUME NEW k \in Calls, result[k].answer = "ok" PROVE acts'[k] > 0
    <3>1. acts[k] > 0
      BY <2>2 DEF AnswerInv, OkWasActed
    <3> QED BY <1>3, <3>1
  <2> QED BY <1>1, <2>1, <2>2 DEF OkWasActed, Running
<1>9. OkIsHeld'
  <2> SUFFICES ASSUME ~late
               PROVE  /\ phase = "wait" /\ reply' = "ok" /\ Running /\ kind[cur] = "update" => value' = cur
                      /\ \A k \in Calls :
                           kind[k] = "update" /\ result[k].answer = "ok" /\ NoUpdateSince(k) => value' = k
    BY <1>1 DEF OkIsHeld, NoUpdateSince, Running
  <2>1. Running /\ phase = "wait" /\ t = Attempt /\ t[1] = cur
    BY DEF AnswerInv, OnlyThisAttempt, Attempt
  <2>2. reply = "none"
    BY <2>1 DEF AnswerInv, AnsweredIsOff
  <2>3. value' = IF present /\ kind[cur] = "update" THEN cur ELSE value
    BY <2>1, ActFacts
  <2>4. ASSUME reply' = "ok", kind[cur] = "update" PROVE value' = cur
    BY <1>4, <2>2, <2>3, <2>4
  <2>5. ASSUME NEW k \in Calls, kind[k] = "update", result[k].answer = "ok", NoUpdateSince(k)
        PROVE  value' = k
    <3>1. k < cur /\ cur \in k + 1 .. MaxCalls
      BY <2>1, <2>5, RetryAssumption DEF AnswerInv, ReturnedBehind, Done, Running, Calls, RetryAssumption
    <3>2. sent[cur] > 0 /\ sent[cur] \in Nat
      BY <1>t, <2>1, RetryAssumption DEF AnswerInv, AnsweredIsOff, RetryTypeOK, Running, RetryAssumption
    <3>3. kind[cur] # "update"
      BY <2>5, <3>1, <3>2 DEF NoUpdateSince
    <3> QED BY <2>3, <2>5, <3>3 DEF AnswerInv, OkIsHeld
  <2> QED BY <2>4, <2>5
<1> QED BY <1>5, <1>6, <1>7, <1>8, <1>9 DEF AnswerInv

LEMMA DeclineFacts ==
  ASSUME NEW t \in wire, Decline(t)
  PROVE  /\ UNCHANGED <<config, cur, phase, sent, acts, object, start, result>>
         /\ wire' = wire \ {t}
         /\ \/ UNCHANGED reply
            \/ /\ phase = "wait" /\ t = Attempt
               /\ reply' \in {"refused", "server error", "rate limited", "barred"}
BY DEF Decline, Answered

LEMMA DeclineKeepsAnswers == ASSUME RetryInv, AnswerInv, NEW t \in wire, Decline(t) PROVE AnswerInv'
<1>1. /\ kind' = kind /\ late' = late /\ cur' = cur /\ phase' = phase /\ sent' = sent /\ result' = result
      /\ acts' = acts /\ value' = value /\ wire' = wire \ {t}
  BY DeclineFacts DEF config, object
<1>2. UNCHANGED reply \/ (phase = "wait" /\ t = Attempt /\ reply' # "ok")
  BY DeclineFacts
<1>3. ReturnedBehind' /\ OnlyThisAttempt'
  BY <1>1 DEF AnswerInv, ReturnedBehind, OnlyThisAttempt, Done, Attempt, Running
<1>4. AnsweredIsOff'
  <2>1. Attempt' = Attempt /\ Running' = Running
    BY <1>1 DEF Attempt, Running
  <2>2. phase = "wait" /\ reply' # "none" => Attempt \notin wire'
    BY <1>1, <1>2 DEF AnswerInv, AnsweredIsOff
  <2>3. phase = "pause" => UNCHANGED reply
    BY <1>2
  <2> QED BY <1>1, <2>1, <2>2, <2>3 DEF AnswerInv, AnsweredIsOff
<1>5. reply' = "ok" => reply = "ok"
  BY <1>2
<1>6. OkWasActed' /\ OkIsHeld'
  BY <1>1, <1>5 DEF AnswerInv, OkWasActed, OkIsHeld, NoUpdateSince, Running
<1> QED BY <1>3, <1>4, <1>6 DEF AnswerInv
(* The answers' invariant: what is said of the server, on its way or       *)
(* returned, is true of it.                                                *)
LEMMA AnswerInvariant == Spec => []AnswerInv
<1>1. Init => AnswerInv
  <2> SUFFICES ASSUME Init PROVE AnswerInv
    OBVIOUS
  <2>1. \A k \in Calls : result[k].answer = "none"
    BY DEF Init, NotReturned
  <2>2. ReturnedBehind /\ OkWasActed /\ OkIsHeld
    BY <2>1 DEF Init, ReturnedBehind, OkWasActed, OkIsHeld, Done
  <2>3. AnsweredIsOff /\ OnlyThisAttempt
    BY DEF Init, AnsweredIsOff, OnlyThisAttempt
  <2> QED BY <2>2, <2>3 DEF AnswerInv
<1>2. RetryInv /\ AnswerInv /\ [Next]_vars => AnswerInv'
  <2> SUFFICES ASSUME RetryInv, AnswerInv, [Next]_vars PROVE AnswerInv'
    OBVIOUS
  <2>t. RetryTypeOK /\ PauseHasError
    BY DEF RetryInv
  <2>1. ASSUME Receive PROVE AnswerInv'
    <3>1. /\ Running /\ phase = "wait" /\ reply # "none" /\ Settle(reply)
          /\ UNCHANGED <<config, sent, acts, object>> /\ wire' = wire
      BY <2>1 DEF Receive
    <3>2. reply \in CallAnswers
      BY <2>t, <3>1 DEF RetryTypeOK
    <3>3. ~late => wire' = {}
      BY <3>1, NothingElseOnWire
    <3>4. reply = "ok" => acts[cur] > 0 /\ (~late /\ kind[cur] = "update" => value = cur)
      BY <3>1 DEF AnswerInv, OkWasActed, OkIsHeld
    <3> QED BY <3>1, <3>2, <3>3, <3>4, SettleKeepsAnswers
  <2>2. ASSUME NoAnswer PROVE AnswerInv'
    <3>1. /\ Running /\ phase = "wait" /\ Settle("no answer")
          /\ UNCHANGED <<config, sent, acts, object>> /\ wire' = IF late THEN wire ELSE wire \ {Attempt}
      BY <2>2 DEF NoAnswer
    <3>2. "no answer" \in CallAnswers
      BY DEF CallAnswers
    <3>3. ~late => wire' = {}
      BY <3>1, NothingElseOnWire
    <3> QED BY <3>1, <3>2, <3>3, SettleKeepsAnswers
  <2>3. ASSUME BodyBreaks PROVE AnswerInv'
    <3>1. /\ Running /\ phase = "wait" /\ open
          /\ UNCHANGED <<config, sent, acts, object>> /\ wire' = wire
      BY <2>3 DEF BodyBreaks
    <3>2. reply # "none" /\ reply \in CallAnswers /\ "unreadable" \in CallAnswers
      BY <2>t, <3>1 DEF RetryTypeOK, CallAnswers
    <3>3. ~late => wire' = {}
      BY <3>1, <3>2, NothingElseOnWire
    <3>4. CASE Settle("unreadable")
      BY <3>1, <3>2, <3>3, <3>4, SettleKeepsAnswers
    <3>5. CASE reply # "ok" /\ Settle(reply)
      BY <3>1, <3>2, <3>3, <3>5, SettleKeepsAnswers
    <3> QED BY <2>3, <3>4, <3>5 DEF BodyBreaks
  <2>4. ASSUME GiveUp PROVE AnswerInv'
    <3>1. /\ Running /\ phase = "pause"
          /\ UNCHANGED <<config, sent, acts, object>> /\ wire' = wire
      BY <2>4 DEF GiveUp
    <3>2. reply \in CallAnswers /\ "no answer" \in CallAnswers
      BY <2>t, <3>1 DEF RetryTypeOK, PauseHasError, CallAnswers
    <3>3. reply # "ok"
      BY <3>1 DEF AnswerInv, AnsweredIsOff, IsRetryable
    <3>4. ~late => wire' = {}
      BY <3>1, NothingElseOnWire
    <3>5. CASE ReturnCall(reply)
      BY <3>1, <3>2, <3>3, <3>4, <3>5, ReturnKeepsAnswers
    <3>6. CASE ReturnCall("no answer")
      BY <3>1, <3>2, <3>4, <3>6, ReturnKeepsAnswers
    <3> QED BY <2>4, <3>5, <3>6 DEF GiveUp
  <2>5. ASSUME Resume PROVE AnswerInv'
    BY <2>5 DEF Resume, config, object, AnswerInv, ReturnedBehind, AnsweredIsOff, OnlyThisAttempt,
                OkWasActed, OkIsHeld, NoUpdateSince, Done, Running
  <2>6. ASSUME UNCHANGED <<config, cur, phase, sent, wire, reply, acts, value, result>> PROVE AnswerInv'
    BY <2>6 DEF config, AnswerInv, ReturnedBehind, AnsweredIsOff, OnlyThisAttempt,
                OkWasActed, OkIsHeld, NoUpdateSince, Done, Running, Attempt
  <2>7. BodyEnds \/ OtherDeletes \/ UNCHANGED vars => AnswerInv'
    BY <2>6 DEF BodyEnds, OtherDeletes, vars, object
  <2> QED BY <2>1, <2>2, <2>3, <2>4, <2>5, <2>7, SendKeepsAnswers, ActKeepsAnswers, DeclineKeepsAnswers
        DEF Next, Client, AllCallsReturned
<1> QED BY <1>1, <1>2, RetryInvariant, PTL DEF Spec

(* A call that returned ok was acted on, and not merely by an attempt      *)
(* whose answer never came; an update sent again converges: without late   *)
(* requests the object holds the last one reported ok, for any number of   *)
(* attempts and calls (client.go:231-234).                                 *)
THEOREM OkIsTrue == Spec => []OkMeansActed
<1>1. AnswerInv => OkMeansActed
  BY DEF AnswerInv, OkWasActed, OkIsHeld, NoUpdateSince, OkMeansActed
<1> QED BY <1>1, AnswerInvariant, PTL
-----------------------------------------------------------------------------
(* The DELETEs' invariant, for an object nobody else deletes.              *)

LEMMA ReturnKeepsDeletes ==
  ASSUME alone, ~late, RetryInv, AnswerInv, DeletesSoFar, NEW a \in CallAnswers, Running, ReturnCall(a),
         UNCHANGED <<config, sent, object>>,
         kind[cur] = "delete" => DeleteOutcome(start, present, a, sent[cur] > 1)
  PROVE  DeletesSoFar'
<1>t. RetryTypeOK /\ LaterUnsent
  BY DEF RetryInv
<1>1. /\ cur \in Calls /\ cur \in Nat /\ cur' = cur + 1 /\ phase' = "send" /\ reply' = "none"
      /\ start' = present
  BY <1>t, RetryAssumption DEF ReturnCall, Running, Calls, RetryTypeOK, RetryAssumption
<1>u. kind' = kind /\ sent' = sent /\ present' = present /\ alone' /\ ~late'
  BY DEF config, object
<1>2. \A k \in Calls : result'[k] = IF k = cur THEN [answer |-> a, from |-> start, to |-> present] ELSE result[k]
  BY <1>t DEF ReturnCall, RetryTypeOK
<1>3. Running' => DeleteUnderWay'
  <2> SUFFICES ASSUME Running' PROVE DeleteUnderWay'
    OBVIOUS
  <2>1. sent'[cur'] = 0
    BY <1>t, <1>1, <1>u, RetryAssumption DEF LaterUnsent, Running, Calls, RetryAssumption
  <2>2. start' = present' /\ phase' = "send"
    BY <1>1, <1>u
  <2> QED BY <2>1, <2>2 DEF DeleteUnderWay
<1>4. DeleteKeepsContract'
  <2> SUFFICES ASSUME NEW k \in Calls, Done(k)', kind[k] = "delete"
               PROVE  DeleteOutcome(result'[k].from, result'[k].to, result'[k].answer, sent[k] > 1)
    BY <1>u DEF DeleteKeepsContract
  <2>1. CASE k = cur
    <3>1. result'[k].from = start /\ result'[k].to = present /\ result'[k].answer = a
      BY <1>2, <2>1
    <3> QED BY <2>1, <3>1
  <2>2. CASE k # cur
    <3>1. result'[k] = result[k]
      BY <1>2, <2>2
    <3> QED BY <3>1 DEF Done, DeletesSoFar, DeleteKeepsContract
  <2> QED BY <2>1, <2>2
<1> QED BY <1>3, <1>4 DEF DeletesSoFar

(* The outcome of an attempt ends the call or a pause begins. *)
LEMMA SettleKeepsDeletes ==
  ASSUME alone, ~late, RetryInv, AnswerInv, DeletesSoFar, NEW a \in CallAnswers, Running, Settle(a),
         UNCHANGED <<config, sent, object>>,
         kind[cur] = "delete" => DeleteOutcome(start, present, a, sent[cur] > 1)
  PROVE  DeletesSoFar'
<1>1. CASE ReturnCall(a)
  BY <1>1, ReturnKeepsDeletes
<1>2. CASE MayRetry(cur, a) /\ phase' = "pause" /\ reply' = a /\ UNCHANGED <<cur, result, start>>
  <2>1. /\ IsRetryable(a) /\ phase' = "pause" /\ reply' = a
        /\ cur' = cur /\ result' = result /\ start' = start
    BY <1>2 DEF MayRetry
  <2>u. kind' = kind /\ sent' = sent /\ present' = present /\ alone' /\ ~late'
    BY DEF config, object
  <2>2. DeleteUnderWay
    BY DEF DeletesSoFar
  <2>3. kind[cur] = "delete" /\ start /\ ~present /\ sent[cur] = 1 => LeavesOpen(a)
    <3>1. sent[cur] = 1 => ~(sent[cur] > 1)
      OBVIOUS
    <3>2. a # "ok"
      BY <2>1 DEF IsRetryable
    <3> QED BY <3>1, <3>2, Zenon DEF DeleteOutcome
  <2>4. DeleteUnderWay'
    BY <2>1, <2>u, <2>2, <2>3 DEF DeleteUnderWay
  <2>5. DeleteKeepsContract'
    BY <2>1, <2>u DEF DeletesSoFar, DeleteKeepsContract, Done
  <2> QED BY <2>4, <2>5 DEF DeletesSoFar
<1> QED BY <1>1, <1>2 DEF Settle

(* The first attempt of a DELETE is on the wire, or under way to it, only  *)
(* while the object is as the call found it.                               *)
LEMMA OnTheWire ==
  ASSUME alone, ~late, RetryInv, AnswerInv, DeletesSoFar, NEW t \in wire
  PROVE  /\ Running /\ phase = "wait" /\ t = Attempt /\ t[1] = cur /\ reply = "none"
         /\ sent[cur] \in Nat /\ sent[cur] > 0
         /\ DeleteUnderWay
         /\ kind[cur] = "delete" /\ start /\ ~present => sent[cur] > 1
<1>1. Running /\ phase = "wait" /\ t = Attempt /\ t[1] = cur
  BY DEF AnswerInv, OnlyThisAttempt, Attempt
<1>2. reply = "none" /\ sent[cur] > 0
  BY <1>1 DEF AnswerInv, AnsweredIsOff
<1>3. sent[cur] \in Nat
  BY <1>1, RetryAssumption DEF RetryInv, RetryTypeOK, Running, RetryAssumption
<1>4. DeleteUnderWay
  BY <1>1 DEF DeletesSoFar
<1>5. kind[cur] = "delete" /\ start /\ ~present => sent[cur] # 1
  BY <1>1, <1>4 DEF DeleteUnderWay
<1> QED BY <1>1, <1>2, <1>3, <1>4, <1>5

LEMMA SendKeepsDeletes ==
  ASSUME alone, ~late, RetryInv, AnswerInv, DeletesSoFar, Send PROVE DeletesSoFar'
<1>t. RetryTypeOK
  BY DEF RetryInv
<1>1. /\ Running /\ phase' = "wait" /\ reply' = "none"
      /\ cur' = cur /\ result' = result /\ start' = start /\ present' = present
      /\ sent' = [sent EXCEPT ![cur] = @ + 1]
      /\ kind' = kind /\ late' = late /\ alone' = alone
  BY DEF Send, config, object
<1>2. \A k \in Calls : sent[k] \in Nat /\ sent'[k] = IF k = cur THEN sent[k] + 1 ELSE sent[k]
  BY <1>t, <1>1, RetryAssumption DEF RetryTypeOK, RetryAssumption
<1>3. sent'[cur] = sent[cur] + 1 /\ sent[cur] \in Nat
  BY <1>1, <1>2 DEF Running
<1>4. DeleteUnderWay
  BY <1>1 DEF DeletesSoFar
<1>5. sent'[cur] = 1 => present = start
  <2>1. sent'[cur] = 1 => sent[cur] = 0
    BY <1>3
  <2> QED BY <1>4, <2>1, Zenon DEF DeleteUnderWay
<1>6. sent'[cur] # 0
  BY <1>3
<1>7. DeleteUnderWay'
  BY <1>1, <1>4, <1>5, <1>6 DEF DeleteUnderWay, LeavesOpen
<1>8. DeleteKeepsContract'
  <2> SUFFICES ASSUME NEW k \in Calls, Done(k), kind[k] = "delete"
               PROVE  DeleteOutcome(result[k].from, result[k].to, result[k].answer, sent'[k] > 1)
    BY <1>1 DEF DeleteKeepsContract, Done
  <2>1. k < cur /\ k \in Nat
    BY RetryAssumption DEF AnswerInv, ReturnedBehind, Calls, RetryAssumption
  <2>2. sent'[k] = sent[k]
    BY <1>2, <2>1
  <2> QED BY <2>2 DEF DeletesSoFar, DeleteKeepsContract
<1> QED BY <1>7, <1>8 DEF DeletesSoFar

LEMMA ActKeepsDeletes ==
  ASSUME alone, ~late, RetryInv, AnswerInv, DeletesSoFar, NEW t \in wire, Act(t) PROVE DeletesSoFar'
<1>1. /\ alone' /\ ~late' /\ kind' = kind /\ cur' = cur /\ phase' = phase /\ sent' = sent
      /\ start' = start /\ result' = result
      /\ present' = (present /\ kind[t[1]] # "delete") /\ wire' = wire \ {t}
  BY ActFacts DEF config
<1>2. /\ Running /\ phase = "wait" /\ t = Attempt /\ t[1] = cur
      /\ sent[cur] \in Nat /\ sent[cur] > 0
      /\ DeleteUnderWay
      /\ kind[cur] = "delete" /\ start /\ ~present => sent[cur] > 1
  BY OnTheWire
<1>3. DeleteKeepsContract'
  BY <1>1 DEF DeletesSoFar, DeleteKeepsContract, Done
<1>4. ASSUME kind[cur] # "delete" PROVE DeleteUnderWay'
  <2>1. present' = present
    <3>1. present \in BOOLEAN /\ t[1] = cur
      BY <1>2 DEF RetryInv, RetryTypeOK
    <3> QED BY <1>1, <1>4, <3>1
  <2> QED BY <1>1, <1>2, <1>4, <2>1 DEF DeleteUnderWay
<1>5. ASSUME kind[cur] = "delete" PROVE DeleteUnderWay'
  <2>1. ~present'
    BY <1>1, <1>2, <1>5
  <2>2. reply' \in (IF present THEN {"ok"} ELSE {"not found"}) \cup {"server error", "unreadable"}
    BY <1>2, <1>5 DEF Act, Answered
  <2>3. reply' = "ok" => start
    BY <1>2, <2>2 DEF DeleteUnderWay
  <2>4. reply' = "not found" => (start => sent[cur] > 1)
    BY <1>2, <1>5, <2>2
  <2>5. start /\ sent[cur] = 1 => reply' = "ok" \/ LeavesOpen(reply')
    <3>0. sent[cur] = 1 => ~(sent[cur] > 1)
      OBVIOUS
    <3>1. start /\ sent[cur] = 1 => reply' # "not found"
      BY <2>4, <3>0, Zenon
    <3>2. reply' \in {"ok", "not found", "server error", "unreadable"}
      BY <2>2
    <3> QED BY <3>1, <3>2 DEF LeavesOpen
  <2>6. Attempt' \notin wire'
    BY <1>1, <1>2 DEF Attempt
  <2>7. sent'[cur'] # 0 /\ sent'[cur'] = sent[cur] /\ phase' # "pause" /\ start' = start
    BY <1>1, <1>2
  <2> QED BY <2>1, <2>3, <2>4, <2>5, <2>6, <2>7 DEF DeleteUnderWay
<1> QED BY <1>3, <1>4, <1>5 DEF DeletesSoFar

LEMMA DeclineKeepsDeletes ==
  ASSUME alone, ~late, RetryInv, AnswerInv, DeletesSoFar, NEW t \in wire, Decline(t) PROVE DeletesSoFar'
<1>1. /\ alone' /\ ~late' /\ kind' = kind /\ cur' = cur /\ phase' = phase /\ sent' = sent
      /\ start' = start /\ result' = result /\ present' = present
  BY DeclineFacts DEF config, object
<1>2. /\ Running /\ phase = "wait" /\ t = Attempt
      /\ sent[cur] \in Nat /\ sent[cur] > 0
      /\ DeleteUnderWay
      /\ kind[cur] = "delete" /\ start /\ ~present => sent[cur] > 1
  BY OnTheWire
<1>3. DeleteKeepsContract'
  BY <1>1 DEF DeletesSoFar, DeleteKeepsContract, Done
<1>4. reply' # "ok" /\ reply' # "not found"
  BY <1>2 DEF Decline, Answered
<1>5. DeleteUnderWay'
  BY <1>1, <1>2, <1>4 DEF DeleteUnderWay
<1> QED BY <1>3, <1>5 DEF DeletesSoFar

LEMMA DeleteInvariant == Spec => []DeleteInv
<1>1. Init => DeleteInv
  <2> SUFFICES ASSUME Init PROVE DeleteInv
    OBVIOUS
  <2>1. DeleteKeepsContract
    BY DEF Init, NotReturned, DeleteKeepsContract, Done
  <2>2. Running => DeleteUnderWay
    BY DEF Init, DeleteUnderWay, Running
  <2> QED BY <2>1, <2>2 DEF DeleteInv, DeletesSoFar
<1>2. RetryInv /\ AnswerInv /\ DeleteInv /\ [Next]_vars => DeleteInv'
  <2> SUFFICES ASSUME RetryInv, AnswerInv, DeleteInv, [Next]_vars, alone', ~late' PROVE DeletesSoFar'
    BY DEF DeleteInv, DeletesSoFar
  <2>t. RetryTypeOK /\ PauseHasError
    BY DEF RetryInv
  <2>f. alone' = alone /\ late' = late
    BY DEF Next, Client, Send, Receive, NoAnswer, BodyBreaks, Resume, GiveUp, Act, Decline, BodyEnds,
           OtherDeletes, AllCallsReturned, vars, config
  <2>c. alone /\ ~late
    BY <2>f
  <2>d. DeletesSoFar
    BY <2>c DEF DeleteInv, DeletesSoFar
  <2>n. sent[cur] > 1 \/ sent[cur] = 1 \/ ~Running \/ phase = "send"
    BY <2>t, RetryAssumption DEF AnswerInv, AnsweredIsOff, RetryTypeOK, Running, RetryAssumption
  <2>1. ASSUME Receive PROVE DeletesSoFar'
    <3>1. /\ Running /\ phase = "wait" /\ reply # "none" /\ Settle(reply) /\ UNCHANGED <<config, sent, object>>
      BY <2>1 DEF Receive
    <3>2. reply \in CallAnswers
      BY <2>t, <3>1 DEF RetryTypeOK
    <3>3. kind[cur] = "delete" => DeleteOutcome(start, present, reply, sent[cur] > 1)
      BY <2>d, <2>n, <3>1 DEF DeletesSoFar, DeleteUnderWay, DeleteOutcome
    <3> QED BY <2>c, <2>d, <3>1, <3>2, <3>3, SettleKeepsDeletes
  <2>2. ASSUME NoAnswer PROVE DeletesSoFar'
    <3>1. /\ Running /\ phase = "wait" /\ Settle("no answer") /\ UNCHANGED <<config, sent, object>>
      BY <2>2 DEF NoAnswer
    <3>2. "no answer" \in CallAnswers
      BY DEF CallAnswers
    <3>3. kind[cur] = "delete" => DeleteOutcome(start, present, "no answer", sent[cur] > 1)
      BY <2>d, <3>1 DEF DeletesSoFar, DeleteUnderWay, DeleteOutcome, LeavesOpen
    <3> QED BY <2>c, <2>d, <3>1, <3>2, <3>3, SettleKeepsDeletes
  <2>3. ASSUME BodyBreaks PROVE DeletesSoFar'
    <3>1. /\ Running /\ phase = "wait" /\ open /\ UNCHANGED <<config, sent, object>>
      BY <2>3 DEF BodyBreaks
    <3>2. reply # "none" /\ reply \in CallAnswers /\ "unreadable" \in CallAnswers
      BY <2>t, <3>1 DEF RetryTypeOK, CallAnswers
    <3>3. kind[cur] = "delete" => DeleteOutcome(start, present, "unreadable", sent[cur] > 1)
      BY <2>d, <3>1 DEF DeletesSoFar, DeleteUnderWay, DeleteOutcome, LeavesOpen
    <3>4. kind[cur] = "delete" => DeleteOutcome(start, present, reply, sent[cur] > 1)
      BY <2>d, <2>n, <3>1 DEF DeletesSoFar, DeleteUnderWay, DeleteOutcome
    <3>5. CASE Settle("unreadable")
      BY <2>c, <2>d, <3>1, <3>2, <3>3, <3>5, SettleKeepsDeletes
    <3>6. CASE Settle(reply)
      BY <2>c, <2>d, <3>1, <3>2, <3>4, <3>6, SettleKeepsDeletes
    <3> QED BY <2>3, <3>5, <3>6 DEF BodyBreaks
  <2>4. ASSUME GiveUp PROVE DeletesSoFar'
    <3>1. /\ Running /\ phase = "pause" /\ UNCHANGED <<config, sent, object>>
      BY <2>4 DEF GiveUp
    <3>2. reply \in CallAnswers /\ "no answer" \in CallAnswers
      BY <2>t, <3>1 DEF RetryTypeOK, PauseHasError, CallAnswers
    <3>3. IsRetryable(reply)
      BY <3>1 DEF AnswerInv, AnsweredIsOff
    <3>4. kind[cur] = "delete" => DeleteOutcome(start, present, reply, sent[cur] > 1)
      BY <2>d, <2>n, <3>1, <3>3 DEF DeletesSoFar, DeleteUnderWay, DeleteOutcome, IsRetryable
    <3>5. kind[cur] = "delete" => DeleteOutcome(start, present, "no answer", sent[cur] > 1)
      BY <2>d, <3>1 DEF DeletesSoFar, DeleteUnderWay, DeleteOutcome, LeavesOpen
    <3>6. CASE ReturnCall(reply)
      BY <2>c, <2>d, <3>1, <3>2, <3>4, <3>6, ReturnKeepsDeletes
    <3>7. CASE ReturnCall("no answer")
      BY <2>c, <2>d, <3>1, <3>2, <3>5, <3>7, ReturnKeepsDeletes
    <3> QED BY <2>4, <3>6, <3>7 DEF GiveUp
  <2>5. ASSUME Resume PROVE DeletesSoFar'
    <3>1. /\ cur' = cur /\ phase' = "send" /\ sent' = sent /\ present' = present /\ start' = start
          /\ kind' = kind /\ result' = result
      BY <2>5 DEF Resume, config, object
    <3> QED BY <2>c, <2>d, <3>1 DEF DeletesSoFar, DeleteUnderWay, DeleteKeepsContract, Done, Running
  <2>6. ASSUME BodyEnds \/ UNCHANGED vars PROVE DeletesSoFar'
    <3>1. UNCHANGED <<config, cur, phase, sent, wire, reply, object, start, result>>
      BY <2>6 DEF BodyEnds, vars
    <3> QED BY <2>d, <3>1 DEF config, object, DeletesSoFar, DeleteUnderWay, DeleteKeepsContract, Done, Running, Attempt
  <2>7. ~OtherDeletes
    BY <2>c DEF OtherDeletes
  <2> QED BY <2>1, <2>2, <2>3, <2>4, <2>5, <2>6, <2>7, <2>c, <2>d,
             SendKeepsDeletes, ActKeepsDeletes, DeclineKeepsDeletes
        DEF Next, Client, AllCallsReturned
<1> QED BY <1>1, <1>2, RetryInvariant, AnswerInvariant, PTL DEF Spec

(* A DELETE with retries returns only what its contract allows, for any    *)
(* number of attempts and calls: a 404 of the first attempt means the      *)
(* object was not there, one of a later attempt may be the call's own      *)
(* work, and a gone object is never reported as a decided failure          *)
(* (client.go:231-240, 426-464).                                           *)
THEOREM DeletesKeepContract == Spec => []DeleteKeepsContract
<1>1. DeleteInv => DeleteKeepsContract
  BY DEF DeleteInv, DeletesSoFar, DeleteKeepsContract
<1> QED BY <1>1, DeleteInvariant, PTL
-----------------------------------------------------------------------------
(* The contract of the calls.  For it an attempt is counted, and nothing   *)
(* else is known of it.                                                    *)
OnWire(k) == {n \in 1..MaxAttempts : <<k, n>> \in wire}

(* An attempt on the wire has been sent and has not acted: a call acts at  *)
(* most as often as it was sent.                                           *)
EachActsOnce ==
  \A k \in Calls :
    /\ \A n \in OnWire(k) : n <= sent[k]
    /\ acts[k] + Cardinality(OnWire(k)) <= sent[k]

(* The one attempt of a call that failed with a decided answer, on its way *)
(* or returned, has not acted and is off the wire.                         *)
DecidedIsIdle ==
  \A k \in Calls :
    \/ sent[k] # 1
    \/ ~(k = cur /\ phase # "send" /\ Decided(reply)) /\ ~Decided(result[k].answer)
    \/ acts[k] = 0 /\ OnWire(k) = {}

(* Nothing brings the object back. *)
GoneIsSaid == phase = "wait" /\ reply = "not found" => ~present

ContractInv == EachActsOnce /\ DecidedIsIdle /\ GoneIsSaid

LEMMA OnWireIsFinite ==
  ASSUME NEW k
  PROVE  IsFiniteSet(OnWire(k)) /\ Cardinality(OnWire(k)) \in Nat
<1>1. IsFiniteSet(1..MaxAttempts)
  BY RetryAssumption, FS_Interval DEF RetryAssumption
<1>2. OnWire(k) \in SUBSET (1..MaxAttempts)
  BY DEF OnWire
<1>3. IsFiniteSet(OnWire(k))
  BY <1>1, <1>2, FS_Subset
<1> QED BY <1>3, FS_CardinalityType

LEMMA CountTypes ==
  ASSUME RetryTypeOK, NEW k \in Calls
  PROVE  sent[k] \in Nat /\ acts[k] \in Nat /\ k \in Nat /\ cur \in Nat
BY RetryAssumption DEF RetryTypeOK, RetryAssumption, Calls

(* Attempts may leave the wire without acting. *)
LEMMA LeavingCounts ==
  ASSUME RetryTypeOK, EachActsOnce, wire' \subseteq wire, sent' = sent, acts' = acts
  PROVE  EachActsOnce'
<1> SUFFICES ASSUME NEW k \in Calls
             PROVE  /\ \A n \in OnWire(k)' : n <= sent[k]
                    /\ acts[k] + Cardinality(OnWire(k)') <= sent[k]
  BY DEF EachActsOnce
<1>1. OnWire(k)' \in SUBSET OnWire(k)
  BY DEF OnWire
<1> DEFINE rest == OnWire(k)'
<1> HIDE DEF rest
<1>2. rest \in SUBSET OnWire(k)
  BY <1>1 DEF rest
<1>3. IsFiniteSet(rest) /\ Cardinality(rest) <= Cardinality(OnWire(k))
  BY <1>2, OnWireIsFinite, FS_Subset
<1>4. Cardinality(rest) \in Nat
  BY <1>3, FS_CardinalityType
<1>5. acts[k] + Cardinality(OnWire(k)) <= sent[k]
  BY DEF EachActsOnce
<1>6. acts[k] + Cardinality(rest) <= sent[k]
  BY <1>3, <1>4, <1>5, CountTypes, OnWireIsFinite
<1>7. \A n \in rest : n <= sent[k]
  BY <1>2 DEF EachActsOnce
<1> QED BY <1>6, <1>7 DEF rest

LEMMA SendCounts == ASSUME RetryInv, EachActsOnce, Send PROVE EachActsOnce'
<1>t. RetryTypeOK
  BY DEF RetryInv
<1>1. /\ cur \in Calls /\ acts' = acts
      /\ sent' = [sent EXCEPT ![cur] = @ + 1]
      /\ wire' = wire \cup {<<cur, sent[cur] + 1>>}
  BY DEF Send, Running
<1> SUFFICES ASSUME NEW k \in Calls
             PROVE  /\ \A n \in OnWire(k)' : n <= sent'[k]
                    /\ acts[k] + Cardinality(OnWire(k)') <= sent'[k]
  BY <1>1 DEF EachActsOnce
<1>2. /\ acts[k] + Cardinality(OnWire(k)) <= sent[k] /\ \A n \in OnWire(k) : n <= sent[k]
      /\ sent[k] \in Nat /\ acts[k] \in Nat
  BY <1>t, CountTypes DEF EachActsOnce
<1>3. CASE k = cur
  <2>1. sent'[k] = sent[k] + 1
    BY <1>t, <1>1, <1>3 DEF RetryTypeOK
  <2>2. OnWire(k)' \subseteq OnWire(k) \cup {sent[k] + 1}
    BY <1>1, <1>3 DEF OnWire
  <2> DEFINE more == OnWire(k) \cup {sent[k] + 1}
             now == OnWire(k)'
  <2>3. IsFiniteSet(more) /\ Cardinality(more) <= Cardinality(OnWire(k)) + 1 /\ Cardinality(more) \in Nat
    <3>1. IsFiniteSet(more)
      BY OnWireIsFinite, FS_AddElement
    <3>2. Cardinality(more) = IF sent[k] + 1 \in OnWire(k) THEN Cardinality(OnWire(k)) ELSE Cardinality(OnWire(k)) + 1
      BY OnWireIsFinite, FS_AddElement
    <3> QED BY <3>1, <3>2, OnWireIsFinite, FS_CardinalityType
  <2>4. now \in SUBSET more
    BY <2>2
  <2>5. \A n \in more : n <= sent[k] + 1
    <3>1. \A n \in OnWire(k) : n \in Nat
      BY RetryAssumption DEF OnWire, RetryAssumption
    <3> QED BY <1>2, <3>1
  <2> HIDE DEF now, more
  <2>6. IsFiniteSet(now) /\ Cardinality(now) <= Cardinality(more)
    BY <2>3, <2>4, FS_Subset
  <2>7. Cardinality(now) \in Nat
    BY <2>6, FS_CardinalityType
  <2>8. acts[k] + Cardinality(now) <= sent'[k]
    BY <1>2, <2>1, <2>3, <2>6, <2>7, OnWireIsFinite
  <2>9. \A n \in now : n <= sent'[k]
    BY <2>1, <2>4, <2>5
  <2> QED BY <2>8, <2>9 DEF now
<1>4. CASE k # cur
  <2>1. sent'[k] = sent[k]
    BY <1>t, <1>1, <1>4 DEF RetryTypeOK
  <2>2. OnWire(k)' = OnWire(k)
    BY <1>1, <1>4 DEF OnWire
  <2> QED BY <1>2, <2>1, <2>2
<1> QED BY <1>3, <1>4

(* The server is done with an attempt: of its call one is less on the      *)
(* wire, and it has acted once more at most.                               *)
LEMMA HandledCounts ==
  ASSUME RetryTypeOK, EachActsOnce, NEW t \in wire, wire' = wire \ {t}, sent' = sent,
         acts' = [acts EXCEPT ![t[1]] = @ + 1] \/ acts' = acts
  PROVE  /\ EachActsOnce'
         /\ t[1] \in Calls /\ acts[t[1]] < sent[t[1]] /\ OnWire(t[1]) # {}
         /\ sent[t[1]] = 1 => acts[t[1]] = 0 /\ OnWire(t[1])' = {}
<1>1. t = <<t[1], t[2]>> /\ t[1] \in Calls /\ t[2] \in 1..MaxAttempts
  BY DEF RetryTypeOK
<1> DEFINE c == t[1]
<1>2. t[2] \in OnWire(c)
  BY <1>1 DEF OnWire
<1>3. OnWire(c)' = OnWire(c) \ {t[2]}
  BY <1>1 DEF OnWire
<1>4. Cardinality(OnWire(c) \ {t[2]}) = Cardinality(OnWire(c)) - 1 /\ IsFiniteSet(OnWire(c) \ {t[2]})
  BY <1>2, OnWireIsFinite, FS_RemoveElement
<1>5. Cardinality(OnWire(c) \ {t[2]}) \in Nat
  BY <1>4, FS_CardinalityType
<1>6. acts[c] + Cardinality(OnWire(c)) <= sent[c] /\ acts[c] \in Nat /\ sent[c] \in Nat
  BY <1>1, CountTypes DEF EachActsOnce
<1>7. acts[c] < sent[c] /\ acts[c] + 1 + Cardinality(OnWire(c) \ {t[2]}) <= sent[c]
  BY <1>4, <1>5, <1>6, OnWireIsFinite
<1>8. ASSUME sent[c] = 1 PROVE acts[c] = 0 /\ OnWire(c)' = {}
  <2>1. acts[c] = 0 /\ Cardinality(OnWire(c) \ {t[2]}) = 0
    BY <1>5, <1>6, <1>7, <1>8
  <2> QED BY <1>3, <1>4, <2>1, FS_EmptySet
<1>9. EachActsOnce'
  <2> SUFFICES ASSUME NEW k \in Calls
               PROVE  /\ \A n \in OnWire(k)' : n <= sent[k]
                      /\ acts'[k] + Cardinality(OnWire(k)') <= sent[k]
    BY DEF EachActsOnce
  <2>1. OnWire(k)' \subseteq OnWire(k)
    BY DEF OnWire
  <2>2. \A n \in OnWire(k)' : n <= sent[k]
    BY <2>1 DEF EachActsOnce
  <2>3. CASE k = c
    <3>1. acts'[c] \in {acts[c], acts[c] + 1}
      BY <1>1 DEF RetryTypeOK
    <3>2. acts'[c] + Cardinality(OnWire(c) \ {t[2]}) <= sent[c]
      BY <1>5, <1>6, <1>7, <3>1
    <3> QED BY <1>3, <2>2, <2>3, <3>2
  <2>4. CASE k # c
    <3>1. acts'[k] = acts[k]
      BY <1>1, <2>4 DEF RetryTypeOK
    <3>2. OnWire(k)' = OnWire(k)
      BY <1>1, <2>4 DEF OnWire
    <3> QED BY <2>2, <3>1, <3>2 DEF EachActsOnce
  <2> QED BY <2>3, <2>4
<1> QED BY <1>1, <1>2, <1>7, <1>8, <1>9
-----------------------------------------------------------------------------
(* The steps of the client and what they are in the contract. *)
SameCalls == UNCHANGED <<late, alone, kind, cur, sent, acts, present, value, start, result>>
NextOfContract == [Contract!Next]_(Contract!vars)

LEMMA SameAnswers == Contract!CallAnswers = CallAnswers /\ \A a : Contract!Decided(a) <=> Decided(a)
BY DEF Contract!CallAnswers, CallAnswers, Contract!Decided, Decided, Contract!LeavesOpen, LeavesOpen

LEMMA SameCallsStutter == ASSUME SameCalls PROVE NextOfContract
BY DEF SameCalls, NextOfContract, Contract!vars

LEMMA ReturnIsInContract ==
  ASSUME RetryInv, AnswerInv, ContractInv, NEW a \in CallAnswers, Running, phase # "send", ReturnCall(a),
         UNCHANGED <<config, sent, acts, object>>, wire' \subseteq wire,
         a = "ok" => acts[cur] > 0,
         a = "not found" => ~present,
         sent[cur] = 1 /\ Decided(a) => acts[cur] = 0 /\ OnWire(cur) = {}
  PROVE  ContractInv' /\ NextOfContract
<1>t. RetryTypeOK /\ LaterUnsent
  BY DEF RetryInv
<1>r. cur \in Calls
  BY DEF Running
<1>1. /\ cur' = cur + 1 /\ phase' = "send" /\ reply' = "none"
      /\ start' = present /\ result' = [result EXCEPT ![cur] = [answer |-> a, from |-> start, to |-> present]]
  BY DEF ReturnCall
<1>u. kind' = kind /\ late' = late /\ alone' = alone /\ sent' = sent /\ acts' = acts /\ present' = present /\ value' = value
  BY DEF config, object
<1>2. \A k \in Calls : result'[k].answer = IF k = cur THEN a ELSE result[k].answer
  BY <1>t, <1>r, <1>1 DEF RetryTypeOK
<1>3. EachActsOnce'
  BY <1>t, <1>u, LeavingCounts DEF ContractInv
<1>4. DecidedIsIdle'
  <2> SUFFICES ASSUME NEW k \in Calls, sent[k] = 1, Decided(result'[k].answer)
               PROVE  acts[k] = 0 /\ OnWire(k)' = {}
    BY <1>1, <1>u DEF DecidedIsIdle
  <2>1. acts[k] = 0 /\ OnWire(k) = {}
    <3>1. CASE k = cur
      BY <1>2, <3>1
    <3>2. CASE k # cur
      BY <1>2, <3>2 DEF ContractInv, DecidedIsIdle
    <3> QED BY <3>1, <3>2
  <2>2. OnWire(k)' \subseteq OnWire(k)
    BY DEF OnWire
  <2> QED BY <2>1, <2>2
<1>5. GoneIsSaid'
  BY <1>1 DEF GoneIsSaid
<1>6. sent[cur] > 0
  BY DEF AnswerInv, AnsweredIsOff
<1>7. cur \in Contract!Calls
  BY <1>r DEF Calls, Contract!Calls
<1>8. acts[cur] = 0 \/ ~(sent[cur] = 1 /\ Decided(a))
  OBVIOUS
<1>9. Contract!Returns(a)
  BY <1>1, <1>u, <1>6, <1>7, <1>8, SameAnswers DEF Contract!Returns
<1>10. NextOfContract
  BY <1>9, SameAnswers DEF NextOfContract, Contract!Next
<1> QED BY <1>3, <1>4, <1>5, <1>10 DEF ContractInv

LEMMA SettleIsInContract ==
  ASSUME RetryInv, AnswerInv, ContractInv, NEW a \in CallAnswers, Running, phase = "wait", Settle(a),
         UNCHANGED <<config, sent, acts, object>>, wire' \subseteq wire,
         a = "ok" => acts[cur] > 0,
         a = "not found" => ~present,
         sent[cur] = 1 /\ Decided(a) => acts[cur] = 0 /\ OnWire(cur) = {}
  PROVE  ContractInv' /\ NextOfContract
<1>1. CASE ReturnCall(a)
  BY <1>1, ReturnIsInContract
<1>2. CASE MayRetry(cur, a) /\ phase' = "pause" /\ reply' = a /\ UNCHANGED <<cur, result, start>>
  <2>1. phase' = "pause" /\ reply' = a /\ UNCHANGED <<cur, result, start>>
    BY <1>2
  <2>u. kind' = kind /\ late' = late /\ alone' = alone /\ sent' = sent /\ acts' = acts /\ present' = present /\ value' = value
    BY DEF config, object
  <2>2. EachActsOnce'
    BY <2>u, LeavingCounts DEF ContractInv, RetryInv
  <2>3. DecidedIsIdle'
    <3> SUFFICES ASSUME NEW k \in Calls, sent[k] = 1, (k = cur /\ Decided(a)) \/ Decided(result[k].answer)
                 PROVE  acts[k] = 0 /\ OnWire(k)' = {}
      BY <2>1, <2>u DEF DecidedIsIdle
    <3>1. acts[k] = 0 /\ OnWire(k) = {}
      BY DEF ContractInv, DecidedIsIdle
    <3>2. OnWire(k)' \subseteq OnWire(k)
      BY DEF OnWire
    <3> QED BY <3>1, <3>2
  <2>4. GoneIsSaid'
    BY <2>1 DEF GoneIsSaid
  <2>5. SameCalls
    BY <2>1, <2>u DEF SameCalls
  <2> QED BY <2>2, <2>3, <2>4, <2>5, SameCallsStutter DEF ContractInv
<1> QED BY <1>1, <1>2 DEF Settle

LEMMA SendIsInContract ==
  ASSUME RetryInv, CreateInv, AnswerInv, ContractInv, Send PROVE ContractInv' /\ NextOfContract
<1>t. RetryTypeOK /\ AttemptLeft
  BY DEF RetryInv
<1>1. /\ cur \in Calls /\ phase = "send" /\ phase' = "wait" /\ reply' = "none"
      /\ sent' = [sent EXCEPT ![cur] = @ + 1]
      /\ wire' = wire \cup {<<cur, sent[cur] + 1>>}
      /\ UNCHANGED <<late, alone, kind, cur, acts, present, value, start, result>>
  BY DEF Send, Running, config, object
<1>2. EachActsOnce'
  BY SendCounts DEF ContractInv
<1>3. DecidedIsIdle'
  <2> SUFFICES ASSUME NEW k \in Calls, sent'[k] = 1, Decided(result[k].answer)
               PROVE  acts[k] = 0 /\ OnWire(k)' = {}
    BY <1>1 DEF DecidedIsIdle, Decided
  <2>1. k # cur
    <3>1. k < cur /\ k \in Nat
      BY <1>t, CountTypes DEF AnswerInv, ReturnedBehind, Done, Decided
    <3> QED BY <3>1
  <2>2. sent[k] = 1 /\ OnWire(k)' = OnWire(k)
    BY <1>t, <1>1, <2>1 DEF OnWire, RetryTypeOK
  <2> QED BY <2>2 DEF ContractInv, DecidedIsIdle
<1>4. GoneIsSaid'
  BY <1>1 DEF GoneIsSaid
<1>5. kind[cur] = "create" => sent[cur] = 0
  BY <1>1 DEF CreateInv, CreateAt
<1>6. sent[cur] < MaxAttempts
  BY <1>t, <1>1 DEF AttemptLeft, Running
<1>7. Contract!IsSent
  BY <1>1, <1>5, <1>6 DEF Contract!IsSent, Contract!Calls, Calls
<1> QED BY <1>2, <1>3, <1>4, <1>7 DEF ContractInv, NextOfContract, Contract!Next

(* The server is done with an attempt: what a decided answer claims of a   *)
(* call sent once, and a returned one, stays true.                         *)
LEMMA HandledIsIdle ==
  ASSUME RetryInv, ContractInv, NEW t \in wire, wire' = wire \ {t},
         UNCHANGED <<cur, phase, sent, result>>,
         acts' = [acts EXCEPT ![t[1]] = @ + 1] \/ acts' = acts,
         reply' = reply \/ (Decided(reply') => t[1] = cur /\ acts' = acts)
  PROVE  DecidedIsIdle'
<1>t. RetryTypeOK /\ EachActsOnce /\ DecidedIsIdle
  BY DEF RetryInv, ContractInv
<1>1. t[1] \in Calls /\ OnWire(t[1]) # {} /\ (sent[t[1]] = 1 => acts[t[1]] = 0 /\ OnWire(t[1])' = {})
  BY <1>t, HandledCounts
<1> SUFFICES ASSUME NEW k \in Calls, sent[k] = 1,
                    (k = cur /\ phase # "send" /\ Decided(reply')) \/ Decided(result[k].answer)
             PROVE  acts'[k] = 0 /\ OnWire(k)' = {}
  BY DEF DecidedIsIdle
<1>2. CASE k = t[1]
  <2>1. k = cur /\ phase # "send" /\ Decided(reply') /\ ~Decided(reply)
    BY <1>t, <1>1, <1>2 DEF DecidedIsIdle
  <2>2. acts' = acts
    BY <2>1
  <2> QED BY <1>1, <1>2, <2>2
<1>3. CASE k # t[1]
  <2>1. (k = cur /\ phase # "send" /\ Decided(reply)) \/ Decided(result[k].answer)
    BY <1>3
  <2>2. acts[k] = 0 /\ OnWire(k) = {}
    BY <1>t, <2>1 DEF DecidedIsIdle
  <2>3. acts'[k] = acts[k]
    BY <1>t, <1>1, <1>3 DEF RetryTypeOK
  <2>4. OnWire(k)' \subseteq OnWire(k)
    BY DEF OnWire
  <2> QED BY <2>2, <2>3, <2>4
<1> QED BY <1>2, <1>3

LEMMA ActIsInContract ==
  ASSUME RetryInv, AnswerInv, ContractInv, NEW t \in wire, Act(t) PROVE ContractInv' /\ NextOfContract
<1>t. RetryTypeOK /\ LaterUnsent /\ EachActsOnce /\ DecidedIsIdle /\ GoneIsSaid
  BY DEF RetryInv, ContractInv
<1>1. /\ UNCHANGED <<late, alone, kind, cur, phase, sent, start, result>>
      /\ wire' = wire \ {t}
      /\ present' = (present /\ kind[t[1]] # "delete")
      /\ value' = IF present /\ kind[t[1]] = "update" THEN t[1] ELSE value
  BY ActFacts DEF config
<1>2. \/ UNCHANGED reply
      \/ t[1] = cur /\ (reply' = "not found" => kind[cur] # "create" /\ ~present)
           /\ reply' \in {"ok", "not found", "server error", "unreadable"}
  BY ActFacts
<1>3. acts' = IF kind[t[1]] = "create" \/ present THEN [acts EXCEPT ![t[1]] = @ + 1] ELSE acts
  BY DEF Act
<1>4. acts' = [acts EXCEPT ![t[1]] = @ + 1] \/ acts' = acts
  BY <1>3
<1>5. /\ EachActsOnce'
      /\ t[1] \in Calls /\ acts[t[1]] < sent[t[1]] /\ OnWire(t[1]) # {}
  BY <1>t, <1>1, <1>4, HandledCounts
<1>6. reply' = reply \/ (Decided(reply') => t[1] = cur /\ acts' = acts)
  BY <1>2, <1>3 DEF Decided, LeavesOpen
<1>7. DecidedIsIdle'
  BY <1>1, <1>4, <1>6, HandledIsIdle
<1>8. GoneIsSaid'
  <2>1. reply' = "not found" /\ phase = "wait" => ~present
    BY <1>t, <1>2 DEF GoneIsSaid
  <2> QED BY <1>1, <2>1 DEF GoneIsSaid
<1>9. ContractInv'
  BY <1>5, <1>7, <1>8 DEF ContractInv
<1>10. CASE kind[t[1]] = "create" \/ present
  <2>1. t[1] = cur \/ (late /\ t[1] < cur)
    <3>1. late \/ t[1] = cur
      BY DEF AnswerInv, OnlyThisAttempt, Attempt
    <3>2. ~(t[1] > cur)
      BY <1>t, <1>5, CountTypes DEF LaterUnsent
    <3> QED BY <1>t, <1>5, <3>1, <3>2, CountTypes
  <2>2. ~(sent[t[1]] = 1 /\ Decided(result[t[1]].answer))
    BY <1>t, <1>5 DEF DecidedIsIdle
  <2>3. acts' = [acts EXCEPT ![t[1]] = @ + 1]
    BY <1>3, <1>10
  <2>4. value' = IF kind[t[1]] = "update" THEN t[1] ELSE value
    BY <1>1, <1>10
  <2>5. Contract!Happens(t[1])
    BY <1>1, <1>5, <1>10, <2>1, <2>2, <2>3, <2>4, SameAnswers DEF Contract!Happens
  <2> QED BY <1>5, <1>9, <2>5 DEF NextOfContract, Contract!Next, Contract!Calls, Calls
<1>11. CASE ~(kind[t[1]] = "create" \/ present)
  <2>1. acts' = acts /\ value' = value
    BY <1>1, <1>3, <1>11
  <2>2. present' = present
    BY <1>t, <1>1, <1>11 DEF RetryTypeOK
  <2>3. SameCalls
    BY <1>1, <2>1, <2>2 DEF SameCalls
  <2> QED BY <1>9, <2>3, SameCallsStutter
<1> QED BY <1>10, <1>11

LEMMA DeclineIsInContract ==
  ASSUME RetryInv, AnswerInv, ContractInv, NEW t \in wire, Decline(t) PROVE ContractInv' /\ NextOfContract
<1>t. RetryTypeOK /\ EachActsOnce /\ GoneIsSaid
  BY DEF RetryInv, ContractInv
<1>1. SameCalls /\ phase' = phase /\ wire' = wire \ {t}
  BY DeclineFacts DEF config, object, SameCalls
<1>2. reply' = reply \/ (t = Attempt /\ reply' # "not found")
  <2>1. reply' = reply \/ (t = Attempt /\ reply' \in {"refused", "server error", "rate limited", "barred"})
    BY DeclineFacts
  <2> QED BY <2>1
<1>3. reply' = reply \/ t[1] = cur
  <2>1. Attempt[1] = cur
    BY DEF Attempt
  <2> QED BY <1>2, <2>1
<1>4. EachActsOnce'
  BY <1>t, <1>1, HandledCounts DEF SameCalls
<1>5. DecidedIsIdle'
  BY <1>1, <1>3, HandledIsIdle DEF SameCalls
<1>6. GoneIsSaid'
  BY <1>t, <1>1, <1>2 DEF GoneIsSaid, SameCalls
<1> QED BY <1>1, <1>4, <1>5, <1>6, SameCallsStutter DEF ContractInv
LEMMA StepKeepsContract ==
  ASSUME RetryInv, CreateInv, AnswerInv, ContractInv, [Next]_vars PROVE ContractInv' /\ NextOfContract
<1>t. RetryTypeOK /\ PauseHasError
  BY DEF RetryInv
<1>1. ASSUME Running, phase = "wait" \/ phase = "pause", reply # "none"
      PROVE  /\ reply \in CallAnswers
             /\ sent[cur] = 1 /\ Decided(reply) => acts[cur] = 0 /\ OnWire(cur) = {}
  BY <1>t, <1>1 DEF RetryTypeOK, ContractInv, DecidedIsIdle, Running
<1>2. /\ "no answer" \in CallAnswers /\ ~Decided("no answer")
      /\ "unreadable" \in CallAnswers /\ ~Decided("unreadable")
  BY DEF CallAnswers, Decided, LeavesOpen
<1>3. ASSUME Receive PROVE ContractInv' /\ NextOfContract
  <2>1. /\ Running /\ phase = "wait" /\ reply # "none" /\ Settle(reply)
        /\ UNCHANGED <<config, sent, acts, object>> /\ wire' \subseteq wire
    BY <1>3 DEF Receive
  <2>2. (reply = "ok" => acts[cur] > 0) /\ (reply = "not found" => ~present)
    BY <2>1 DEF AnswerInv, OkWasActed, ContractInv, GoneIsSaid
  <2> QED BY <1>1, <2>1, <2>2, SettleIsInContract
<1>4. ASSUME NoAnswer PROVE ContractInv' /\ NextOfContract
  <2>1. /\ Running /\ phase = "wait" /\ Settle("no answer")
        /\ UNCHANGED <<config, sent, acts, object>> /\ wire' \subseteq wire
    BY <1>4 DEF NoAnswer
  <2> QED BY <1>2, <2>1, SettleIsInContract
<1>5. ASSUME BodyBreaks PROVE ContractInv' /\ NextOfContract
  <2>1. /\ Running /\ phase = "wait" /\ open
        /\ UNCHANGED <<config, sent, acts, object>> /\ wire' \subseteq wire
    BY <1>5 DEF BodyBreaks
  <2>2. reply # "none" /\ (reply = "not found" => ~present)
    BY <1>t, <2>1 DEF RetryTypeOK, ContractInv, GoneIsSaid
  <2>3. CASE Settle("unreadable")
    BY <1>2, <2>1, <2>3, SettleIsInContract
  <2>4. CASE reply # "ok" /\ Settle(reply)
    BY <1>1, <2>1, <2>2, <2>4, SettleIsInContract
  <2> QED BY <1>5, <2>3, <2>4 DEF BodyBreaks
<1>6. ASSUME GiveUp PROVE ContractInv' /\ NextOfContract
  <2>1. /\ Running /\ phase = "pause" /\ phase # "send"
        /\ UNCHANGED <<config, sent, acts, object>> /\ wire' \subseteq wire
    BY <1>6 DEF GiveUp
  <2>2. reply # "none" /\ reply # "ok" /\ reply # "not found"
    BY <1>t, <2>1 DEF PauseHasError, AnswerInv, AnsweredIsOff, IsRetryable
  <2>3. CASE ReturnCall(reply)
    BY <1>1, <2>1, <2>2, <2>3, ReturnIsInContract
  <2>4. CASE ReturnCall("no answer")
    BY <1>2, <2>1, <2>4, ReturnIsInContract
  <2> QED BY <1>6, <2>3, <2>4 DEF GiveUp
<1>7. ASSUME Resume \/ BodyEnds \/ UNCHANGED vars PROVE ContractInv' /\ NextOfContract
  <2>1. SameCalls /\ wire' = wire /\ reply' = reply /\ (phase' = phase \/ phase' = "send")
    BY <1>7 DEF Resume, BodyEnds, vars, config, object, SameCalls
  <2>2. EachActsOnce' /\ GoneIsSaid'
    BY <2>1 DEF ContractInv, EachActsOnce, OnWire, GoneIsSaid, SameCalls
  <2>3. DecidedIsIdle'
    <3> SUFFICES ASSUME NEW k \in Calls, sent[k] = 1,
                        (k = cur /\ phase' # "send" /\ Decided(reply)) \/ Decided(result[k].answer)
                 PROVE  acts[k] = 0 /\ OnWire(k)' = {}
      BY <2>1 DEF SameCalls, DecidedIsIdle
    <3>1. acts[k] = 0 /\ OnWire(k) = {}
      BY <2>1 DEF ContractInv, DecidedIsIdle
    <3> QED BY <2>1, <3>1 DEF OnWire
  <2> QED BY <2>1, <2>2, <2>3, SameCallsStutter DEF ContractInv
<1>8. ASSUME OtherDeletes PROVE ContractInv' /\ NextOfContract
  <2>1. /\ UNCHANGED <<late, alone, kind, cur, phase, sent, wire, reply, acts, value, start, result>>
        /\ ~alone /\ present /\ present' = FALSE
    BY <1>8 DEF OtherDeletes, config
  <2>2. EachActsOnce' /\ DecidedIsIdle' /\ GoneIsSaid'
    BY <2>1 DEF ContractInv, EachActsOnce, DecidedIsIdle, GoneIsSaid, OnWire
  <2>3. Contract!OtherDeletes
    BY <2>1 DEF Contract!OtherDeletes
  <2> QED BY <2>2, <2>3 DEF ContractInv, NextOfContract, Contract!Next
<1> QED BY <1>3, <1>4, <1>5, <1>6, <1>7, <1>8, SendIsInContract, ActIsInContract, DeclineIsInContract
      DEF Next, Client, AllCallsReturned

LEMMA ContractInvariant == Spec => []ContractInv
<1>1. Init => ContractInv
  <2> SUFFICES ASSUME Init PROVE ContractInv
    OBVIOUS
  <2>1. \A k \in Calls : OnWire(k) = {} /\ sent[k] = 0 /\ acts[k] = 0
    BY DEF Init, OnWire
  <2>2. EachActsOnce
    BY <2>1, FS_EmptySet DEF EachActsOnce
  <2>3. DecidedIsIdle /\ GoneIsSaid
    BY <2>1 DEF Init, DecidedIsIdle, GoneIsSaid
  <2> QED BY <2>2, <2>3 DEF ContractInv
<1>2. RetryInv /\ CreateInv /\ AnswerInv /\ ContractInv /\ [Next]_vars => ContractInv'
  BY StepKeepsContract
<1> QED BY <1>1, <1>2, RetryInvariant, CreateInvariant, AnswerInvariant, PTL DEF Spec

(* The calls keep the contract of the client, which knows no attempts,     *)
(* connections or pauses: a call acts at most once for each time it was    *)
(* sent, a create is sent once, and an ok, a 404 and a decided failure are *)
(* true when they are returned, and the last one ever after                *)
(* (client.go:218-240, success_gate.go:11-28).                             *)
THEOREM CallsKeepContract == Spec => KeepsCallContract
<1>1. Init => Contract!Init
  <2> SUFFICES ASSUME Init PROVE Contract!Init
    OBVIOUS
  <2>1. Contract!Calls = Calls
    BY DEF Contract!Calls, Calls
  <2> QED BY <2>1 DEF Init, Kinds, NotReturned, Contract!Init
<1>2. RetryInv /\ CreateInv /\ AnswerInv /\ ContractInv /\ [Next]_vars => [Contract!Next]_(Contract!vars)
  BY StepKeepsContract DEF NextOfContract
<1> QED BY <1>1, <1>2, RetryInvariant, CreateInvariant, AnswerInvariant, ContractInvariant, PTL
      DEF Spec, KeepsCallContract, Contract!Spec
-----------------------------------------------------------------------------
(* What follows from the contract alone.  The invariant of CallContract:   *)
(* the counts of each call, what a returned answer says, and, for an       *)
(* object that nobody else touches, where the call under way has left it.  *)
CallCounts ==
  \A k \in Calls :
    /\ acts[k] <= sent[k]
    /\ kind[k] = "create" => sent[k] <= 1
    /\ k > cur => sent[k] = 0
    /\ Done(k) => k < cur

ReturnedIsTrue ==
  \A k \in Calls :
    /\ result[k].answer = "ok" => acts[k] > 0
    /\ sent[k] = 1 /\ Decided(result[k].answer) => acts[k] = 0

LastUpdateIsHeld ==
  ~late => \A k \in Calls : kind[k] = "update" /\ acts[k] > 0 /\ NoUpdateSince(k) => value = k

(* Only a DELETE that has happened takes the object away. *)
GoneByItsHand ==
  cur \in Calls =>
    /\ present => start
    /\ start /\ ~present => acts[cur] > 0
    /\ kind[cur] = "delete" /\ acts[cur] > 0 => start /\ ~present

CallTypes ==
  /\ kind \in [Calls -> Kinds]
  /\ cur \in 1..MaxCalls + 1
  /\ sent \in [Calls -> Nat]
  /\ acts \in [Calls -> Nat]
  /\ present \in BOOLEAN
  /\ start \in BOOLEAN
  /\ result \in [Calls -> [answer : CallAnswers \cup {"none"}, from : BOOLEAN, to : BOOLEAN]]

CallsInv ==
  /\ CallTypes /\ CallCounts /\ ReturnedIsTrue /\ LastUpdateIsHeld
  /\ alone /\ ~late => GoneByItsHand /\ DeleteKeepsContract

LEMMA CallRange == ASSUME CallTypes, NEW k \in Calls
                   PROVE  k \in Nat /\ sent[k] \in Nat /\ acts[k] \in Nat /\ cur \in Nat
BY RetryAssumption DEF CallTypes, Calls, RetryAssumption

LEMMA InitOfCalls == Contract!Init => CallsInv
<1> SUFFICES ASSUME Contract!Init PROVE CallsInv
  OBVIOUS
<1> USE DEF Contract!Init, Contract!Calls, Calls
<1>1. \A k \in Calls : sent[k] = 0 /\ acts[k] = 0 /\ result[k].answer = "none"
  OBVIOUS
<1>2. CallTypes
  <2>1. result \in [Calls -> [answer : CallAnswers \cup {"none"}, from : BOOLEAN, to : BOOLEAN]]
    OBVIOUS
  <2>2. cur \in 1..MaxCalls + 1
    BY RetryAssumption DEF RetryAssumption
  <2>3. start \in BOOLEAN
    OBVIOUS
  <2> QED BY <2>1, <2>2, <2>3 DEF CallTypes, Kinds
<1>3. CallCounts /\ ReturnedIsTrue /\ LastUpdateIsHeld /\ DeleteKeepsContract
  BY <1>1 DEF CallCounts, ReturnedIsTrue, LastUpdateIsHeld, DeleteKeepsContract, Done, Decided
<1>4. GoneByItsHand
  <2>1. start = present
    OBVIOUS
  <2> QED BY <1>1, <2>1 DEF GoneByItsHand
<1> QED BY <1>2, <1>3, <1>4 DEF CallsInv

LEMMA SentKeepsCalls == ASSUME CallsInv, Contract!IsSent PROVE CallsInv'
<1>t. CallTypes /\ CallCounts /\ ReturnedIsTrue /\ LastUpdateIsHeld
  BY DEF CallsInv
<1>1. /\ cur \in Calls /\ (kind[cur] = "create" => sent[cur] = 0)
      /\ sent' = [sent EXCEPT ![cur] = @ + 1]
      /\ UNCHANGED <<late, alone, kind, cur, acts, present, value, start, result>>
  BY DEF Contract!IsSent, Contract!Calls, Calls
<1>2. \A k \in Calls : sent'[k] = IF k = cur THEN sent[k] + 1 ELSE sent[k]
  BY <1>t, <1>1 DEF CallTypes
<1>3. CallTypes'
  <2>1. sent' \in [Calls -> Nat]
    BY <1>t, <1>1 DEF CallTypes
  <2> QED BY <1>t, <1>1, <2>1 DEF CallTypes
<1>4. CallCounts'
  <2> SUFFICES ASSUME NEW k \in Calls
               PROVE  /\ acts[k] <= sent'[k] /\ (kind[k] = "create" => sent'[k] <= 1)
                      /\ (k > cur => sent'[k] = 0) /\ (Done(k) => k < cur)
    BY <1>1 DEF CallCounts, Done
  <2>1. CASE k = cur
    BY <1>t, <1>1, <1>2, <2>1, CallRange DEF CallCounts
  <2>2. CASE k # cur
    BY <1>t, <1>2, <2>2 DEF CallCounts
  <2> QED BY <2>1, <2>2
<1>5. ReturnedIsTrue'
  <2> SUFFICES ASSUME NEW k \in Calls
               PROVE  /\ result[k].answer = "ok" => acts[k] > 0
                      /\ sent'[k] = 1 /\ Decided(result[k].answer) => acts[k] = 0
    BY <1>1 DEF ReturnedIsTrue
  <2>1. CASE k = cur
    <3>1. ~Done(k)
      BY <1>t, <2>1, CallRange DEF CallCounts
    <3> QED BY <3>1 DEF Done, Decided
  <2>2. CASE k # cur
    BY <1>t, <1>2, <2>2 DEF ReturnedIsTrue
  <2> QED BY <2>1, <2>2
<1>6. LastUpdateIsHeld'
  <2> SUFFICES ASSUME ~late, NEW k \in Calls, kind[k] = "update", acts[k] > 0, NoUpdateSince(k)'
               PROVE  value = k
    BY <1>1 DEF LastUpdateIsHeld
  <2>1. NoUpdateSince(k)
    <3> SUFFICES ASSUME NEW j \in k + 1 .. MaxCalls, kind[j] = "update" PROVE sent[j] = 0
      BY DEF NoUpdateSince
    <3>1. j \in Calls
      BY <1>t, CallRange, RetryAssumption DEF Calls, RetryAssumption
    <3>2. sent'[j] = 0
      BY <1>1 DEF NoUpdateSince
    <3> QED BY <1>t, <1>2, <3>1, <3>2, CallRange
  <2> QED BY <1>t, <2>1 DEF LastUpdateIsHeld
<1>7. ASSUME alone, ~late PROVE GoneByItsHand' /\ DeleteKeepsContract'
  <2>1. GoneByItsHand /\ DeleteKeepsContract
    BY <1>7 DEF CallsInv
  <2>2. GoneByItsHand'
    BY <1>1, <2>1 DEF GoneByItsHand
  <2>3. DeleteKeepsContract'
    <3> SUFFICES ASSUME NEW k \in Calls, Done(k), kind[k] = "delete"
                 PROVE  DeleteOutcome(result[k].from, result[k].to, result[k].answer, sent'[k] > 1)
      BY <1>1 DEF DeleteKeepsContract, Done
    <3>1. k # cur
      BY <1>t, CallRange DEF CallCounts
    <3>2. sent'[k] = sent[k]
      BY <1>2, <3>1
    <3> QED BY <1>7, <2>1, <3>2 DEF DeleteKeepsContract
  <2> QED BY <2>2, <2>3
<1> QED BY <1>1, <1>3, <1>4, <1>5, <1>6, <1>7 DEF CallsInv
LEMMA HappensKeepsCalls == ASSUME CallsInv, NEW k \in Calls, Contract!Happens(k) PROVE CallsInv'
<1>t. CallTypes /\ CallCounts /\ ReturnedIsTrue /\ LastUpdateIsHeld
  BY DEF CallsInv
<1>1. /\ k = cur \/ (late /\ k < cur)
      /\ acts[k] < sent[k]
      /\ ~(sent[k] = 1 /\ Decided(result[k].answer))
      /\ kind[k] = "create" \/ present
      /\ acts' = [acts EXCEPT ![k] = @ + 1]
      /\ present' = (present /\ kind[k] # "delete")
      /\ value' = IF kind[k] = "update" THEN k ELSE value
      /\ UNCHANGED <<late, alone, kind, cur, sent, start, result>>
  BY SameAnswers DEF Contract!Happens
<1>2. \A c \in Calls : acts'[c] = IF c = k THEN acts[c] + 1 ELSE acts[c]
  BY <1>t, <1>1 DEF CallTypes
<1>3. CallTypes'
  <2>1. acts' \in [Calls -> Nat]
    BY <1>t, <1>1 DEF CallTypes
  <2>2. present' \in BOOLEAN
    BY <1>1
  <2> QED BY <1>t, <1>1, <2>1, <2>2 DEF CallTypes
<1>4. CallCounts'
  <2>1. acts[k] + 1 <= sent[k]
    BY <1>t, <1>1, CallRange
  <2> QED BY <1>t, <1>1, <1>2, <2>1 DEF CallCounts, Done
<1>5. ReturnedIsTrue'
  <2> SUFFICES ASSUME NEW c \in Calls
               PROVE  /\ result[c].answer = "ok" => acts'[c] > 0
                      /\ sent[c] = 1 /\ Decided(result[c].answer) => acts'[c] = 0
    BY <1>1 DEF ReturnedIsTrue
  <2>1. CASE c = k
    <3>1. acts'[c] > 0
      BY <1>t, <1>2, <2>1, CallRange
    <3> QED BY <1>1, <2>1, <3>1
  <2>2. CASE c # k
    BY <1>t, <1>2, <2>2 DEF ReturnedIsTrue
  <2> QED BY <2>1, <2>2
<1>6. LastUpdateIsHeld'
  <2> SUFFICES ASSUME ~late, NEW c \in Calls, kind[c] = "update", acts'[c] > 0, NoUpdateSince(c)
               PROVE  value' = c
    BY <1>1 DEF LastUpdateIsHeld, NoUpdateSince
  <2>1. k = cur
    BY <1>1
  <2>2. CASE c = k
    BY <1>1, <2>2
  <2>3. CASE c # k
    <3>1. acts[c] > 0 /\ value = c
      BY <1>t, <1>2, <2>3 DEF LastUpdateIsHeld
    <3>2. c < k
      <4>1. sent[c] # 0
        BY <1>t, <3>1, CallRange DEF CallCounts
      <4>2. ~(c > cur)
        BY <1>t, <4>1 DEF CallCounts
      <4> QED BY <1>t, <2>1, <2>3, <4>2, CallRange
    <3>3. sent[k] # 0
      BY <1>t, <1>1, CallRange
    <3>4. k \in c + 1 .. MaxCalls
      BY <1>t, <3>2, CallRange, RetryAssumption DEF Calls, RetryAssumption
    <3>5. kind[k] # "update"
      BY <3>3, <3>4 DEF NoUpdateSince
    <3> QED BY <1>1, <3>1, <3>5
  <2> QED BY <2>2, <2>3
<1>7. ASSUME alone, ~late PROVE GoneByItsHand' /\ DeleteKeepsContract'
  <2>1. GoneByItsHand /\ DeleteKeepsContract
    BY <1>7 DEF CallsInv
  <2>2. k = cur
    BY <1>1, <1>7
  <2>3. acts'[cur] > 0
    BY <1>t, <1>2, <2>2, CallRange
  <2>4. (present => start) /\ (present' => present)
    BY <1>1, <2>1, <2>2 DEF GoneByItsHand
  <2>5. kind[cur] = "delete" => start /\ ~present'
    BY <1>1, <2>2, <2>4
  <2>6. GoneByItsHand'
    BY <1>1, <2>3, <2>4, <2>5 DEF GoneByItsHand
  <2> QED BY <1>1, <2>1, <2>6 DEF DeleteKeepsContract, Done
<1> QED BY <1>1, <1>3, <1>4, <1>5, <1>6, <1>7 DEF CallsInv

LEMMA ReturnKeepsCalls == ASSUME CallsInv, NEW a \in CallAnswers, Contract!Returns(a) PROVE CallsInv'
<1>t. CallTypes /\ CallCounts /\ ReturnedIsTrue /\ LastUpdateIsHeld
  BY DEF CallsInv
<1>1. /\ cur \in Calls
      /\ a = "ok" => acts[cur] > 0
      /\ a = "not found" => ~present
      /\ sent[cur] = 1 /\ Decided(a) => acts[cur] = 0
      /\ sent[cur] > 0
      /\ result' = [result EXCEPT ![cur] = [answer |-> a, from |-> start, to |-> present]]
      /\ cur' = cur + 1
      /\ start' = present
      /\ UNCHANGED <<late, alone, kind, sent, acts, present, value>>
  BY SameAnswers DEF Contract!Returns, Contract!Calls, Calls
<1>n. cur \in Calls /\ cur' = cur + 1 /\ sent' = sent /\ acts' = acts
  BY <1>1
<1>m. cur \in Nat /\ sent[cur] \in Nat /\ acts[cur] \in Nat
  BY <1>t, <1>n, CallRange
<1>s. sent[cur] > 0
  BY <1>1
<1>2. \A c \in Calls : result'[c] = IF c = cur THEN [answer |-> a, from |-> start, to |-> present] ELSE result[c]
  BY <1>t, <1>1 DEF CallTypes
<1>3. CallTypes'
  <2>1. result' \in [Calls -> [answer : CallAnswers \cup {"none"}, from : BOOLEAN, to : BOOLEAN]]
    BY <1>t, <1>1 DEF CallTypes
  <2>2. cur' \in 1..MaxCalls + 1
    BY <1>n, RetryAssumption DEF Calls, RetryAssumption
  <2>3. start' \in BOOLEAN
    BY <1>t, <1>1 DEF CallTypes
  <2> QED BY <1>t, <1>1, <2>1, <2>2, <2>3 DEF CallTypes
<1>4. CallCounts'
  <2> SUFFICES ASSUME NEW c \in Calls
               PROVE  /\ acts[c] <= sent[c] /\ (kind[c] = "create" => sent[c] <= 1)
                      /\ (c > cur + 1 => sent[c] = 0) /\ (Done(c)' => c < cur + 1)
    BY <1>1 DEF CallCounts
  <2>1. Done(c)' => c = cur \/ Done(c)
    BY <1>2 DEF Done
  <2> QED BY <1>t, <2>1, CallRange DEF CallCounts
<1>5. ReturnedIsTrue'
  <2> SUFFICES ASSUME NEW c \in Calls
               PROVE  /\ result'[c].answer = "ok" => acts[c] > 0
                      /\ sent[c] = 1 /\ Decided(result'[c].answer) => acts[c] = 0
    BY <1>1 DEF ReturnedIsTrue
  <2>1. result'[c].answer = IF c = cur THEN a ELSE result[c].answer
    BY <1>2
  <2> QED BY <1>t, <1>1, <2>1 DEF ReturnedIsTrue
<1>6. LastUpdateIsHeld'
  BY <1>t, <1>1 DEF LastUpdateIsHeld, NoUpdateSince
<1>7. ASSUME alone, ~late PROVE GoneByItsHand' /\ DeleteKeepsContract'
  <2>1. GoneByItsHand /\ DeleteKeepsContract
    BY <1>7 DEF CallsInv
  <2>2. GoneByItsHand'
    <3> SUFFICES ASSUME cur' \in Calls
                 PROVE  kind[cur'] = "delete" /\ acts[cur'] > 0 => FALSE
      BY <1>1 DEF GoneByItsHand
    <3>1. cur' > cur
      BY <1>n, <1>m
    <3>2. sent[cur'] = 0 /\ acts[cur'] <= sent[cur']
      BY <1>t, <3>1 DEF CallCounts
    <3>3. acts[cur'] \in Nat
      BY <1>t, CallRange
    <3> QED BY <3>2, <3>3
  <2>3. kind[cur] = "delete" => DeleteOutcome(start, present, a, sent[cur] > 1)
    <3> SUFFICES ASSUME kind[cur] = "delete" PROVE DeleteOutcome(start, present, a, sent[cur] > 1)
      OBVIOUS
    <3>1. /\ present => start
          /\ acts[cur] > 0 <=> start /\ ~present
      BY <1>n, <2>1 DEF GoneByItsHand
    <3>2. sent[cur] > 1 \/ sent[cur] = 1
      BY <1>m, <1>s
    <3>3. start /\ ~present /\ ~(sent[cur] > 1) => ~Decided(a)
      <4>1. acts[cur] > 0 => ~(acts[cur] = 0)
        BY <1>m
      <4> QED BY <1>1, <3>1, <3>2, <4>1
    <3>4. a # "none" /\ Decided("not found")
      BY DEF CallAnswers, Decided, LeavesOpen
    <3> QED BY <1>1, <3>1, <3>3, <3>4 DEF DeleteOutcome, Decided
  <2>4. DeleteKeepsContract'
    <3> SUFFICES ASSUME NEW c \in Calls, Done(c)', kind[c] = "delete"
                 PROVE  DeleteOutcome(result'[c].from, result'[c].to, result'[c].answer, sent[c] > 1)
      BY <1>1 DEF DeleteKeepsContract
    <3>1. CASE c = cur
      <4>1. result'[c].from = start /\ result'[c].to = present /\ result'[c].answer = a
        BY <1>2, <3>1
      <4> QED BY <2>3, <3>1, <4>1
    <3>2. CASE c # cur
      <4>1. result'[c] = result[c]
        BY <1>2, <3>2
      <4> QED BY <1>7, <2>1, <4>1 DEF Done, DeleteKeepsContract
    <3> QED BY <3>1, <3>2
  <2> QED BY <2>2, <2>4
<1> QED BY <1>1, <1>3, <1>4, <1>5, <1>6, <1>7 DEF CallsInv

LEMMA OtherDeletesKeepsCalls == ASSUME CallsInv, Contract!OtherDeletes \/ SameCalls PROVE CallsInv'
<1>1. /\ UNCHANGED <<late, alone, kind, cur, sent, acts, value, start, result>>
      /\ (~alone /\ present' = FALSE) \/ present' = present
  BY DEF Contract!OtherDeletes, SameCalls
<1>2. CallTypes' /\ CallCounts' /\ ReturnedIsTrue' /\ LastUpdateIsHeld'
  <2>1. CallTypes'
    BY <1>1 DEF CallsInv, CallTypes
  <2> QED BY <1>1, <2>1 DEF CallsInv, CallCounts, ReturnedIsTrue, LastUpdateIsHeld, NoUpdateSince, Done
<1>3. ASSUME alone, ~late PROVE GoneByItsHand' /\ DeleteKeepsContract'
  <2>1. present' = present
    BY <1>1, <1>3
  <2> QED BY <1>1, <1>3, <2>1 DEF CallsInv, GoneByItsHand, DeleteKeepsContract, Done
<1> QED BY <1>1, <1>2, <1>3 DEF CallsInv

(* Whoever builds on calls needs no more than their contract: it alone,    *)
(* without attempts, waits or connections, makes creates act once, makes   *)
(* an ok and a convergence of updates true, and keeps what DeletePosts     *)
(* takes a DELETE for (client.go:218-240, 310-333).                        *)
THEOREM ContractSuffices == KeepsCallContract => [](CreateActsOnce /\ OkMeansActed /\ DeleteKeepsContract)
<1>1. CallsInv /\ [Contract!Next]_(Contract!vars) => CallsInv'
  <2> SUFFICES ASSUME CallsInv, [Contract!Next]_(Contract!vars) PROVE CallsInv'
    OBVIOUS
  <2>1. Contract!IsSent => CallsInv'
    BY SentKeepsCalls
  <2>2. ASSUME NEW k \in Contract!Calls, Contract!Happens(k) PROVE CallsInv'
    BY <2>2, HappensKeepsCalls DEF Contract!Calls, Calls
  <2>3. ASSUME NEW a \in Contract!CallAnswers, Contract!Returns(a) PROVE CallsInv'
    BY <2>3, SameAnswers, ReturnKeepsCalls
  <2>4. UNCHANGED Contract!vars => SameCalls
    BY DEF Contract!vars, SameCalls
  <2> QED BY <2>1, <2>2, <2>3, <2>4, OtherDeletesKeepsCalls DEF Contract!Next
<1>2. CallsInv => CreateActsOnce
  <2> SUFFICES ASSUME CallsInv, NEW k \in Calls, kind[k] = "create"
               PROVE  /\ acts[k] <= 1
                      /\ Done(k) /\ ~LeavesOpen(result[k].answer) /\ result[k].answer # "ok" => acts[k] = 0
    BY DEF CreateActsOnce
  <2>1. acts[k] <= sent[k] /\ sent[k] <= 1 /\ acts[k] \in Nat /\ sent[k] \in Nat
    BY CallRange DEF CallsInv, CallCounts
  <2>2. Done(k) /\ ~LeavesOpen(result[k].answer) /\ result[k].answer # "ok" => Decided(result[k].answer)
    BY DEF Done, Decided
  <2>3. Decided(result[k].answer) => acts[k] = 0
    <3>1. sent[k] = 1 /\ Decided(result[k].answer) => acts[k] = 0
      BY DEF CallsInv, ReturnedIsTrue
    <3>2. sent[k] # 1 => acts[k] = 0
      BY <2>1
    <3> QED BY <3>1, <3>2
  <2>4. acts[k] <= 1
    BY <2>1
  <2> QED BY <2>2, <2>3, <2>4
<1>3. CallsInv => OkMeansActed
  <2> SUFFICES ASSUME CallsInv PROVE OkMeansActed
    OBVIOUS
  <2>1. \A k \in Calls : result[k].answer = "ok" => acts[k] > 0
    BY DEF CallsInv, ReturnedIsTrue
  <2>2. ASSUME ~late, NEW k \in Calls, kind[k] = "update", result[k].answer = "ok", NoUpdateSince(k)
        PROVE  value = k
    BY <2>1, <2>2 DEF CallsInv, LastUpdateIsHeld
  <2> QED BY <2>1, <2>2 DEF OkMeansActed, NoUpdateSince
<1>4. CallsInv => DeleteKeepsContract
  BY DEF CallsInv, DeleteKeepsContract
<1> QED BY <1>1, <1>2, <1>3, <1>4, InitOfCalls, PTL DEF KeepsCallContract, Contract!Spec
=============================================================================
