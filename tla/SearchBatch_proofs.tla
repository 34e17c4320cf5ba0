------------------------- MODULE SearchBatch_proofs -------------------------
(***************************************************************************)
(* Proofs about SearchBatch, for lists of any length, any number of pages  *)
(* and posts.  A list is a series of PublishPost calls, so what holds of   *)
(* one call is taken from PublishPost_proofs.                              *)
(***************************************************************************)
EXTENDS SearchBatch, PublishPost_proofs

-----------------------------------------------------------------------------
(* One call, as far as its caller's loop relies on it.                     *)

CallTells(c) ==
  /\ pc[c] \in {"idle", "before", "post"} => resp[c] = NoResponse
  /\ pc[c] = "idle" => rows[c] = <<>>
  /\ pc[c] = "after" => ~beforeErr[c]
  /\ pc[c] = "done" => outcome[c] # "none"
  /\ outcome[c] \in {"refused", "failed"} => resp[c] = NoResponse
  /\ outcome[c] = "noId" => resp[c].id = 0

LEMMA EmptyResponse ==
  NoResponse.wire = 0 /\ NoResponse.id = 0 /\ NoResponse.slots = {}
BY DEF NoResponse

LEMMA VerdictTells ==
  ASSUME NEW r
  PROVE  Verdict(r) \in {"ok", "noId"} /\ (Verdict(r) = "noId" => r.id = 0)
BY DEF Verdict

LEMMA SameCallTells ==
  ASSUME NEW c, CallTells(c), SameCall(c)
  PROVE  CallTells(c)'
BY DEF CallTells, SameCall

LEMMA StepTells ==
  ASSUME TypeInv, NEW c \in Clients, CallOK(c), CallTells(c), Step(c)
  PROVE  CallTells(c)'
<1>t. TypeOK /\ IdsExist
  BY DEF TypeInv
<1>1. ASSUME NEW r, NEW o \in {"ok", "noId", "refused", "failed"}, Return(c, r, o),
             o = "noId" => r.id = 0, o \in {"refused", "failed"} => r = NoResponse
      PROVE  CallTells(c)'
  <2>1. pc'[c] = "done" /\ resp'[c] = r /\ outcome'[c] = o
    BY <1>1, ReturnFacts
  <2> QED BY <1>1, <2>1 DEF CallTells
<1>2. CASE Refuse(c)
  BY <1>1, <1>2 DEF Refuse
<1>3. CASE Accept(c)
  <2>1. pc'[c] \in {"before", "post"} /\ pc[c] = "idle" /\ resp' = resp /\ outcome' = outcome
    BY <1>3, BeginWalkFacts DEF Accept
  <2> QED BY <2>1 DEF CallTells, CallOK
<1>4. CASE NextPage(c)
  BY <1>4 DEF NextPage, CallTells
<1>5. CASE BeforeTaken(c) \/ BeforeFails(c)
  <2>1. pc'[c] = "post" /\ pc[c] = "before" /\ resp' = resp /\ outcome' = outcome
    BY <1>5, <1>t DEF BeforeTaken, BeforeFails, WalkEnds, TypeOK
  <2> QED BY <2>1 DEF CallTells, CallOK
<1>6. CASE PostAnswered(c)
  <2>1. PICK wire \in {0, Len(posts) + 1} :
          LET r == [NoResponse EXCEPT !.wire = wire, !.id = wire] IN
            \/ /\ ~beforeErr[c]
               /\ BeginWalk(c, "after")
               /\ UNCHANGED <<outcome, before, beforeErr>>
            \/ LET failed == [r EXCEPT !.lookup = {"before"}] IN Return(c, failed, Verdict(failed))
            \/ Return(c, r, Verdict(r))
    BY <1>6 DEF PostAnswered
  <2> DEFINE r == [NoResponse EXCEPT !.wire = wire, !.id = wire]
             failed == [r EXCEPT !.lookup = {"before"}]
  <2> HIDE DEF r, failed
  <2>2. CASE Return(c, r, Verdict(r))
    BY <1>1, <2>2, VerdictTells
  <2>3. CASE Return(c, failed, Verdict(failed))
    BY <1>1, <2>3, VerdictTells
  <2>4. CASE ~beforeErr[c] /\ BeginWalk(c, "after") /\ UNCHANGED <<outcome, before, beforeErr>>
    <3>1. pc'[c] = "after" /\ outcome'[c] = "none"
      BY <1>6, <2>4, BeginWalkFacts DEF PostAnswered, CallOK
    <3> QED BY <2>4, <3>1 DEF CallTells
  <2> QED BY <2>1, <2>2, <2>3, <2>4 DEF r, failed
<1>7. CASE PostRefused(c) \/ PostAnswerLost(c)
  BY <1>1, <1>7 DEF PostRefused, PostAnswerLost
<1>8. CASE AfterTaken(c)
  <2>1. PICK offsetKnown \in BOOLEAN :
          LET r == Recovered(resp[c], Collected(c), before[c], offsetKnown) IN Return(c, r, Verdict(r))
    BY <1>8 DEF AfterTaken
  <2> DEFINE r == Recovered(resp[c], Collected(c), before[c], offsetKnown)
  <2> HIDE DEF r
  <2>2. Return(c, r, Verdict(r))
    BY <2>1 DEF r
  <2> QED BY <1>1, <2>2, VerdictTells
<1>9. CASE AfterFails(c)
  <2> DEFINE r == [resp[c] EXCEPT !.lookup = {"after"}]
  <2>1. Return(c, r, Verdict(r))
    BY <1>9 DEF AfterFails
  <2> HIDE DEF r
  <2> QED BY <1>1, <2>1, VerdictTells
<1> QED BY <1>2, <1>3, <1>4, <1>5, <1>6, <1>7, <1>8, <1>9 DEF Step

-----------------------------------------------------------------------------
(* The list.                                                               *)

Shape ==
  /\ core \in Cores /\ size \in Clients /\ option \in Options
  /\ at \in 0..size + 1
  /\ resolved \in BOOLEAN /\ (resolved => at \in 1..size)
  /\ source \in [Clients -> BOOLEAN]
  /\ status \in [Clients -> {"none", "created", "created_no_id", "failed"}]
  /\ res \in Results
  /\ verdict \in {"none", "ok", "partial", "error"}
  /\ told \in BOOLEAN
  /\ \A c \in Clients : input[c].bySchedule = Target.bySchedule

(* The posts the loop has not come to. *)
Waiting == \A c \in Clients : c > at \/ (c = at /\ ~resolved) => pc[c] = "idle"

(* A post the loop has left: its branch, and what the result says of it.   *)
Left(c) ==
  /\ resp[c].wire # 0 => resp[c].wire \in ToSet(res.ids)
  /\ outcome[c] = "ok" => status[c] = "created" /\ res.ids # <<>>
  /\ outcome[c] = "noId" =>
       IF core = "library" /\ size = 1 THEN status[c] = "failed"
       ELSE status[c] = "created_no_id" /\ res.noId # 0
  /\ outcome[c] \notin {"ok", "noId"} => status[c] = "failed" /\ resp[c].wire = 0

(* Nothing is in the result that no post of the list put there. *)
Backed ==
  /\ res.ids # <<>> => \E c \in Clients : c < at /\ outcome[c] = "ok"
  /\ res.noId # 0 => \E c \in Clients : c < at /\ outcome[c] = "noId"

Ended ==
  verdict # "none" =>
    \/ at = 0 /\ verdict = "error" /\ RequestRefused
    \/ /\ at = size + 1
       /\ told = HasResult(verdict)
       /\ verdict = "ok" => FailedPosts = {}
       /\ verdict = "error" => FailedPosts # {} /\ (size = 1 \/ NothingLanded)

CallsInv == TypeInv /\ CallInv /\ \A c \in Clients : CallTells(c)

BatchInv ==
  /\ CallsInv
  /\ Shape
  /\ Waiting
  /\ \A c \in Clients : c < at => Left(c)
  /\ Backed
  /\ Ended

LEMMA Sizes == MaxSize \in Nat \ {0} /\ Clients = 1..MaxSize
BY BatchAssumption DEF BatchAssumption

LEMMA WithFacts ==
  ASSUME res \in Results, NEW r \in Responses
  PROVE  /\ With(r) \in Results
         /\ With(r).ids = Append(res.ids, r.id)
         /\ With(r).noId = res.noId
         /\ With(r).ids # <<>>
         /\ ToSet(With(r).ids) = ToSet(res.ids) \cup {r.id}
<1> DEFINE n == Append(res.ids, r.id)
           i == IF res.id = 0 THEN r.id ELSE res.id
           q == res.slots \cup r.slots
           l == res.lookup \/ r.lookup # {}
<1>1. res.ids \in Seq(Nat) /\ res.id \in Nat /\ res.slots \in SUBSET PostIds /\ res.noId \in Nat /\ res.lookup \in BOOLEAN
  BY DEF Results
<1>2. r.id \in Nat /\ r.slots \in SUBSET PostIds
  BY DEF Responses
<1>3. n \in Seq(Nat) /\ n # <<>> /\ ToSet(n) = ToSet(res.ids) \cup {r.id}
  <2>1. n \in Seq(Nat) /\ Len(n) = Len(res.ids) + 1 /\ Len(res.ids) \in Nat
    BY <1>1, <1>2
  <2>2. DOMAIN n = 1..Len(res.ids) + 1 /\ DOMAIN res.ids = 1..Len(res.ids)
    BY <1>1, <2>1
  <2>3. \A j \in 1..Len(res.ids) + 1 : n[j] = IF j <= Len(res.ids) THEN res.ids[j] ELSE r.id
    BY <1>1, <1>2
  <2>4. n # <<>>
    <3>1. Len(<<>>) = 0 /\ Len(n) # 0
      BY <2>1, EmptySeq
    <3> HIDE DEF n
    <3> QED BY <3>1
  <2>5. ToSet(n) = {n[j] : j \in 1..Len(res.ids) + 1} /\ ToSet(res.ids) = {res.ids[j] : j \in 1..Len(res.ids)}
    BY <2>2 DEF ToSet
  <2> HIDE DEF n
  <2>6. n[Len(res.ids) + 1] = r.id
    BY <2>1, <2>3
  <2> QED BY <2>1, <2>3, <2>4, <2>5, <2>6
<1>4. i \in Nat /\ q \in SUBSET PostIds /\ l \in BOOLEAN
  BY <1>1, <1>2
<1>5. With(r) = [res EXCEPT !.ids = n, !.slots = q, !.id = i, !.lookup = l]
  BY DEF With
<1>6. res = [ids |-> res.ids, id |-> res.id, slots |-> res.slots, noId |-> res.noId, lookup |-> res.lookup]
  BY DEF Results
<1> HIDE DEF n, i, q, l
<1>7. With(r) = [ids |-> n, id |-> i, slots |-> q, noId |-> res.noId, lookup |-> l]
  BY <1>5, <1>6
<1>8. With(r) \in Results
  BY <1>1, <1>3, <1>4, <1>7 DEF Results
<1> QED BY <1>3, <1>7, <1>8 DEF n

LEMMA NoIdFacts ==
  ASSUME res \in Results
  PROVE  LET q == [res EXCEPT !.noId = @ + 1]
         IN  q \in Results /\ q.ids = res.ids /\ q.noId # 0
<1> DEFINE x == res.noId + 1
<1>1. x \in Nat /\ x # 0
  BY DEF Results
<1>2. [res EXCEPT !.noId = @ + 1] = [res EXCEPT !.noId = x]
  OBVIOUS
<1> HIDE DEF x
<1>3. LET q == [res EXCEPT !.noId = x] IN q \in Results /\ q.ids = res.ids /\ q.noId # 0
  BY <1>1 DEF Results
<1> QED BY <1>2, <1>3

-----------------------------------------------------------------------------
(* What a step does to the calls.                                          *)

LEMMA CallsStep ==
  ASSUME CallsInv, [Next]_vars
  PROVE  CallsInv'
<1>1. TypeInv' /\ CallInv'
  BY TypeStep, CallStep DEF CallsInv
<1>2. ASSUME NEW c \in Clients PROVE CallTells(c)'
  <2>1. CallTells(c) /\ CallOK(c) /\ TypeInv
    BY DEF CallsInv, CallInv
  <2>2. CASE Environment \/ UNCHANGED vars
    BY <2>1, <2>2, EnvironmentCall, SameCallTells
  <2>3. ASSUME NEW d \in Clients, Step(d) PROVE CallTells(c)'
    <3>1. CASE c = d
      BY <2>1, <2>3, <3>1, StepTells
    <3>2. CASE c # d
      BY <2>1, <2>3, <3>2, OtherCall, SameCallTells
    <3> QED BY <3>1, <3>2
  <2> QED BY <2>2, <2>3 DEF Next, AllReturned
<1> QED BY <1>1, <1>2 DEF CallsInv

(* Resolving a post settles its content, an argument of the call to come.  *)
LEMMA ResolveCalls ==
  ASSUME CallsInv, Shape, Resolve
  PROVE  /\ CallsInv'
         /\ \A c \in Clients : input'[c].bySchedule = input[c].bySchedule
         /\ UNCHANGED <<pc, resp, outcome>>
<1>1. /\ UNCHANGED <<server, pc, page, rows, before, beforeErr, resp, outcome>>
      /\ at \in Clients
  BY Sizes DEF Resolve, InLoop, Shape
<1>2. PICK s \in BOOLEAN : input' = [input EXCEPT ![at].content = HasContent(s)]
  BY DEF Resolve
<1>t. TypeOK /\ IdsExist
  BY DEF CallsInv, TypeInv
<1>3. HasContent(s) \in BOOLEAN
  BY DEF HasContent
<1>4. input' \in [Clients -> Inputs] /\ \A c \in Clients : input'[c].bySchedule = input[c].bySchedule
  <2> DEFINE x == HasContent(s)
  <2> HIDE DEF x
  <2>1. input' = [input EXCEPT ![at] = [input[at] EXCEPT !.content = x]] /\ x \in BOOLEAN
    BY <1>2, <1>3 DEF x
  <2>2. [input[at] EXCEPT !.content = x] \in Inputs
    BY <1>1, <1>t, <2>1 DEF TypeOK, Inputs
  <2>3. [input[at] EXCEPT !.content = x].bySchedule = input[at].bySchedule
    BY <1>1, <1>t DEF TypeOK, Inputs
  <2> QED BY <1>1, <1>t, <2>1, <2>2, <2>3 DEF TypeOK
<1>5. TypeInv'
  BY <1>1, <1>4, <1>t, SeenUnchanged, WellTyped DEF server, TypeOK, IdsExist
<1>6. CallInv' /\ \A c \in Clients : CallTells(c)'
  <2>1. \A c : MadeBy(c)' = MadeBy(c)
    BY <1>1, MadeByUnchanged DEF server
  <2>2. ASSUME NEW c \in Clients PROVE CallOK(c)' /\ CallTells(c)'
    <3>1. CallOK(c) /\ CallTells(c)
      BY DEF CallsInv, CallInv
    <3> QED BY <1>1, <1>4, <2>1, <3>1 DEF CallOK, CallTells
  <2> QED BY <2>2 DEF CallInv
<1> QED BY <1>1, <1>4, <1>5, <1>6 DEF CallsInv

LEMMA TypedBatch ==
  ASSUME CallsInv, Shape
  PROVE  BatchTypeOK
<1>1. at \in 0..MaxSize + 1
  BY Sizes DEF Shape
<1> QED BY <1>1 DEF CallsInv, TypeInv, Shape, BatchTypeOK

LEMMA BatchInitInv == BatchInit => BatchInv
<1> SUFFICES ASSUME BatchInit PROVE BatchInv
  OBVIOUS
<1>1. Init /\ size \in Clients /\ at = 0 /\ verdict = "none" /\ res = NoResult /\ ~resolved
  BY DEF BatchInit
<1>2. TypeInv /\ CallInv
  BY <1>1, TypeInit, CallInit
<1>3. \A c \in Clients : CallTells(c) /\ pc[c] = "idle"
  BY <1>1 DEF Init, CallTells
<1>4. NoResult \in Results /\ NoResult.ids = <<>> /\ NoResult.noId = 0
  BY EmptySeq DEF NoResult, Results
<1>5. \A c \in Clients : input[c].bySchedule = Target.bySchedule
  BY Sizes DEF BatchInit, Target
<1>6. 0 \in 0..size + 1
  BY <1>1, Sizes
<1>7. Shape
  BY <1>1, <1>4, <1>5, <1>6 DEF BatchInit, Shape
<1>8. Waiting /\ Backed /\ Ended /\ \A c \in Clients : ~(c < at)
  BY <1>1, <1>3, <1>4, Sizes DEF Waiting, Backed, Ended
<1> QED BY <1>2, <1>3, <1>7, <1>8 DEF BatchInv, CallsInv

-----------------------------------------------------------------------------
(* The steps of the loop and of the world.                                 *)

LEMMA InLoopFacts ==
  ASSUME BatchInv
  PROVE  /\ size \in Nat \ {0} /\ at \in Nat /\ size \in Clients /\ at <= size + 1
         /\ \A c \in Clients : c \in Nat \ {0}
         /\ InLoop => at \in Clients /\ verdict = "none"
         /\ at = 0 => ~resolved /\ (verdict = "none" \/ RequestRefused)
BY Sizes DEF BatchInv, Shape, InLoop, Ended

LEMMA RefuseRequestInv == ASSUME BatchInv, RefuseRequest PROVE BatchInv'
<1>1. /\ UNCHANGED <<vars, core, size, option, at, resolved, source, status, res, told>>
      /\ at = 0 /\ verdict' = "error" /\ RequestRefused
  BY DEF RefuseRequest, request
<1>2. CallsInv'
  BY <1>1, CallsStep DEF BatchInv
<1>3. UNCHANGED <<pc, input, resp, outcome>>
  BY <1>1 DEF vars
<1>4. Shape'
  BY <1>1, <1>3 DEF BatchInv, Shape, Target
<1>5. Waiting' /\ (\A c \in Clients : c < at => Left(c))' /\ Backed'
  BY <1>1, <1>3 DEF BatchInv, Waiting, Left, Backed
<1>6. Ended'
  BY <1>1, <1>3 DEF Ended, RequestRefused, Target
<1> QED BY <1>2, <1>4, <1>5, <1>6 DEF BatchInv

LEMMA BeginLoopInv == ASSUME BatchInv, BeginLoop PROVE BatchInv'
<1>1. /\ UNCHANGED <<vars, core, size, option, resolved, source, status, res, verdict, told>>
      /\ at = 0 /\ at' = 1 /\ ~RequestRefused
  BY DEF BeginLoop, request
<1>2. CallsInv'
  BY <1>1, CallsStep DEF BatchInv
<1>3. UNCHANGED <<pc, input, resp, outcome>>
  BY <1>1 DEF vars
<1>4. verdict = "none" /\ ~resolved
  BY <1>1, InLoopFacts
<1>5. Shape'
  BY <1>1, <1>3, <1>4, InLoopFacts DEF BatchInv, Shape, Target
<1>6. Waiting'
  BY <1>1, <1>3, InLoopFacts DEF BatchInv, Waiting
<1>7. (\A c \in Clients : c < at => Left(c))' /\ Backed'
  BY <1>1, <1>3, InLoopFacts DEF BatchInv, Left, Backed
<1>8. Ended'
  BY <1>1, <1>4 DEF Ended
<1> QED BY <1>2, <1>5, <1>6, <1>7, <1>8 DEF BatchInv

LEMMA ResolveInv == ASSUME BatchInv, Resolve PROVE BatchInv'
<1>1. /\ UNCHANGED <<core, size, option, at, status, res, verdict, told>>
      /\ InLoop /\ resolved' = TRUE
  BY DEF Resolve, request
<1>2. CallsInv' /\ UNCHANGED <<pc, resp, outcome>> /\ \A c \in Clients : input'[c].bySchedule = input[c].bySchedule
  BY ResolveCalls DEF BatchInv
<1>3. source' \in [Clients -> BOOLEAN]
  BY DEF Resolve, BatchInv, Shape
<1>4. Shape'
  <2>1. \A c \in Clients : input'[c].bySchedule = input'[1].bySchedule
    BY <1>2, Sizes DEF BatchInv, Shape, Target
  <2> QED BY <1>1, <1>3, <2>1 DEF BatchInv, Shape, Target, InLoop
<1>5. Waiting' /\ (\A c \in Clients : c < at => Left(c))' /\ Backed'
  BY <1>1, <1>2, InLoopFacts DEF BatchInv, Waiting, Left, Backed
<1>6. Ended'
  BY <1>1, InLoopFacts DEF Ended
<1> QED BY <1>2, <1>4, <1>5, <1>6 DEF BatchInv

(* A post that is left for the next one. *)
LEMMA LeavesInv ==
  ASSUME BatchInv, InLoop, NEW s \in {"created", "created_no_id", "failed"}, LeavesBody(s),
         UNCHANGED <<vars, core, size, option, source, verdict, told>>,
         res' \in Results,
         ToSet(res.ids) \subseteq ToSet(res'.ids),
         res.ids # <<>> => res'.ids # <<>>,
         res.noId # 0 => res'.noId # 0,
         res'.ids # <<>> => res.ids # <<>> \/ outcome[at] = "ok",
         res'.noId # 0 => res.noId # 0 \/ outcome[at] = "noId",
         resp[at].wire # 0 => resp[at].wire \in ToSet(res'.ids),
         outcome[at] = "ok" => s = "created" /\ res'.ids # <<>>,
         outcome[at] = "noId" =>
           IF core = "library" /\ size = 1 THEN s = "failed" ELSE s = "created_no_id" /\ res'.noId # 0,
         outcome[at] \notin {"ok", "noId"} => s = "failed" /\ resp[at].wire = 0
  PROVE  BatchInv'
<1>1. CallsInv'
  BY CallsStep DEF BatchInv
<1>2. UNCHANGED <<pc, input, resp, outcome>>
  BY DEF vars
<1>3. status' = [status EXCEPT ![at] = s] /\ at' = at + 1 /\ resolved' = FALSE
  BY DEF LeavesBody
<1>4. at \in Clients /\ at \in Nat \ {0} /\ verdict = "none" /\ at <= size /\ size \in Nat
  BY InLoopFacts DEF InLoop
<1>5. status'[at] = s /\ (\A c \in Clients : c # at => status'[c] = status[c])
      /\ status' \in [Clients -> {"none", "created", "created_no_id", "failed"}]
  BY <1>3, <1>4 DEF BatchInv, Shape
<1>6. Shape'
  <2>1. Shape /\ input' = input
    BY <1>2 DEF BatchInv
  <2>2. at + 1 \in 0..size + 1
    BY <1>4
  <2>3. \A c \in Clients : input'[c].bySchedule = input'[1].bySchedule
    BY <2>1 DEF Shape, Target
  <2> QED BY <1>3, <1>5, <2>1, <2>2, <2>3 DEF Shape, Target
<1>7. Waiting'
  BY <1>2, <1>3, <1>4, InLoopFacts DEF BatchInv, Waiting
<1>8. ASSUME NEW c \in Clients, c < at' PROVE Left(c)'
  <2>1. CASE c = at
    BY <1>2, <1>5, <2>1 DEF Left
  <2>2. CASE c # at
    <3>1. Left(c)
      BY <1>3, <1>4, <1>8, <2>2, InLoopFacts DEF BatchInv
    <3> QED BY <1>2, <1>5, <2>2, <3>1 DEF Left
  <2> QED BY <2>1, <2>2
<1>9. Backed'
  <2>1. \A c \in Clients : c < at => c < at'
    BY <1>3, <1>4, InLoopFacts
  <2>2. at < at'
    BY <1>3, <1>4
  <2> QED BY <1>2, <1>4, <2>1, <2>2 DEF BatchInv, Backed
<1>10. Ended'
  BY <1>4 DEF Ended
<1> QED BY <1>1, <1>6, <1>7, <1>8, <1>9, <1>10 DEF BatchInv

LEMMA IdleFacts ==
  ASSUME CallsInv, NEW c \in Clients
  PROVE  /\ pc[c] = "idle" => resp[c].wire = 0 /\ resp[c].id = 0 /\ outcome[c] = "none" /\ rows[c] = <<>>
         /\ outcome[c] \in {"refused", "failed", "noId"} => resp[c].wire = 0
         /\ outcome[c] = "ok" /\ resp[c].wire # 0 => resp[c].id = resp[c].wire
         /\ outcome[c] \in Outcomes
         /\ pc[c] = "done" => outcome[c] # "none"
         /\ resp[c] \in Responses
BY EmptyResponse DEF CallsInv, CallInv, CallTells, CallOK, TypeInv, TypeOK

LEMMA ResolveFailsInv == ASSUME BatchInv, ResolveFails PROVE BatchInv'
<1>1. /\ UNCHANGED <<vars, core, size, option, source, res, verdict, told>>
      /\ InLoop /\ ~resolved /\ LeavesBody("failed")
  BY DEF ResolveFails, request
<1>2. at \in Clients /\ pc[at] = "idle"
  BY <1>1, InLoopFacts DEF BatchInv, Waiting
<1>3. resp[at].wire = 0 /\ outcome[at] = "none"
  BY <1>2, IdleFacts DEF BatchInv
<1>4. res \in Results
  BY DEF BatchInv, Shape
<1> QED BY <1>1, <1>3, <1>4, LeavesInv

LEMMA PublishedInv == ASSUME BatchInv, Published PROVE BatchInv'
<1>1. UNCHANGED <<vars, core, size, option, source, verdict, told>> /\ InLoop /\ pc[at] = "done"
  BY DEF Published, request
<1>2. at \in Clients /\ res \in Results
  BY <1>1, InLoopFacts DEF BatchInv, Shape
<1>3. /\ outcome[at] \in {"refused", "failed", "noId"} => resp[at].wire = 0
      /\ outcome[at] = "ok" /\ resp[at].wire # 0 => resp[at].id = resp[at].wire
      /\ resp[at] \in Responses /\ outcome[at] \in Outcomes
  BY <1>2, IdleFacts DEF BatchInv
<1>4. CASE outcome[at] = "ok" /\ LeavesBody("created") /\ res' = With(resp[at])
  <2>1. /\ res' \in Results /\ res'.ids # <<>> /\ res'.noId = res.noId
        /\ ToSet(res'.ids) = ToSet(res.ids) \cup {resp[at].id}
    BY <1>2, <1>3, <1>4, WithFacts
  <2> QED BY <1>1, <1>3, <1>4, <2>1, LeavesInv
<1>5. CASE /\ outcome[at] = "noId" /\ (core = "op" \/ size > 1) /\ LeavesBody("created_no_id")
           /\ res' = [res EXCEPT !.noId = @ + 1]
  <2>1. res' \in Results /\ res'.ids = res.ids /\ res'.noId # 0
    BY <1>2, <1>5, NoIdFacts
  <2>2. ~(core = "library" /\ size = 1)
    BY <1>5, InLoopFacts
  <2> QED BY <1>1, <1>3, <1>5, <2>1, <2>2, LeavesInv
<1>6. CASE /\ outcome[at] \in {"refused", "failed"} \/ (outcome[at] = "noId" /\ core = "library" /\ size = 1)
           /\ LeavesBody("failed") /\ res' = res
  BY <1>1, <1>2, <1>3, <1>6, LeavesInv
<1> QED BY <1>4, <1>5, <1>6 DEF Published

LEMMA SameArguments ==
  ASSUME NEW c, Step(c) \/ Environment
  PROVE  input' = input
BY DEF Environment, StrangerCreates, BecomesListed, LeavesSchedule, Step, Refuse, Accept, NextPage, BeforeTaken,
       BeforeFails, PostAnswered, PostRefused, PostAnswerLost, AfterTaken, AfterFails

(* While a call is made, or the world goes on, the rest of the list waits. *)
LEMMA ElsewhereInv ==
  ASSUME BatchInv, verdict = "none", [Next]_vars, input' = input, UNCHANGED batch,
         \A c \in Clients : ~(c = at /\ resolved) => SameCall(c)
  PROVE  BatchInv'
<1>1. CallsInv'
  BY CallsStep DEF BatchInv
<1>2. UNCHANGED <<core, size, option, at, resolved, source, status, res, verdict, told>>
  BY DEF batch, request
<1>3. Shape'
  BY <1>2 DEF BatchInv, Shape, Target
<1>4. \A c \in Clients : c < at => outcome'[c] = outcome[c] /\ resp'[c] = resp[c]
  BY InLoopFacts DEF SameCall
<1>5. Waiting'
  BY <1>2, InLoopFacts DEF BatchInv, Waiting, SameCall
<1>6. (\A c \in Clients : c < at => Left(c))' /\ Backed'
  BY <1>2, <1>4 DEF BatchInv, Left, Backed
<1>7. Ended'
  BY <1>2 DEF Ended
<1> QED BY <1>1, <1>3, <1>5, <1>6, <1>7 DEF BatchInv

LEMMA PublishingInv == ASSUME BatchInv, Publishing PROVE BatchInv'
<1>1. InLoop /\ Step(at) /\ UNCHANGED batch /\ resolved
  BY DEF Publishing
<1>2. at \in Clients /\ verdict = "none"
  BY <1>1, InLoopFacts
<1>3. \A c \in Clients : c # at => SameCall(c)
  BY <1>1, <1>2, OtherCall DEF BatchInv, CallsInv
<1> QED BY <1>1, <1>2, <1>3, SameArguments, ElsewhereInv DEF Next

LEMMA WorldInv == ASSUME BatchInv, World PROVE BatchInv'
<1>1. verdict = "none" /\ Environment /\ UNCHANGED batch
  BY DEF World
<1>2. \A c \in Clients : SameCall(c)
  BY <1>1, EnvironmentCall DEF BatchInv, CallsInv
<1> QED BY <1>1, <1>2, SameArguments, ElsewhereInv DEF Next

LEMMA FinishInv == ASSUME BatchInv, Finish PROVE BatchInv'
<1>1. /\ UNCHANGED <<vars, core, size, option, at, resolved, source, status, res>>
      /\ at = size + 1
  BY DEF Finish, request
<1>2. UNCHANGED <<pc, input, resp, outcome>>
  BY <1>1 DEF vars
<1>3. CallsInv'
  BY <1>1, CallsStep DEF BatchInv
<1>4. /\ verdict' \in {"ok", "partial", "error"}
      /\ verdict' = "ok" => FailedPosts = {}
      /\ verdict' = "error" => FailedPosts # {} /\ (size = 1 \/ NothingLanded)
      /\ told' = (core = "op" \/ verdict' # "error")
  BY DEF Finish, HasResult
<1>5. Shape'
  BY <1>1, <1>2, <1>4 DEF BatchInv, Shape, Target
<1>6. Waiting' /\ (\A c \in Clients : c < at => Left(c))' /\ Backed'
  BY <1>1, <1>2 DEF BatchInv, Waiting, Left, Backed
<1>7. Ended'
  BY <1>1, <1>4 DEF Ended, HasResult, FailedPosts, NothingLanded
<1> QED BY <1>3, <1>5, <1>6, <1>7 DEF BatchInv

LEMMA QuietBatchInv == ASSUME BatchInv, UNCHANGED allvars PROVE BatchInv'
<1>1. UNCHANGED <<vars, core, size, option, at, resolved, source, status, res, verdict, told>>
  BY DEF allvars, batch, request
<1>2. UNCHANGED <<pc, input, resp, outcome>>
  BY <1>1 DEF vars
<1>3. CallsInv'
  BY <1>1, CallsStep DEF BatchInv
<1>4. Shape' /\ Waiting' /\ (\A c \in Clients : c < at => Left(c))' /\ Backed'
  BY <1>1, <1>2 DEF BatchInv, Shape, Target, Waiting, Left, Backed
<1>5. Ended'
  BY <1>1, <1>2 DEF BatchInv, Ended, HasResult, FailedPosts, NothingLanded, RequestRefused, Target
<1> QED BY <1>3, <1>4, <1>5 DEF BatchInv

THEOREM BatchInvHolds == BatchSpec => []BatchInv
<1>1. BatchInv /\ [BatchNext]_allvars => BatchInv'
  BY RefuseRequestInv, BeginLoopInv, ResolveInv, ResolveFailsInv, PublishingInv, PublishedInv, FinishInv,
     WorldInv, QuietBatchInv DEF BatchNext, Progress, Reported
<1> QED BY <1>1, BatchInitInv, PTL DEF BatchSpec

(* BatchTypeOK, for lists of any length and schedules of any size.         *)
THEOREM BatchTypeCorrect == BatchSpec => []BatchTypeOK
<1>1. BatchInv => BatchTypeOK
  BY TypedBatch DEF BatchInv
<1> QED BY <1>1, BatchInvHolds, PTL

(* A list that is answered has left every post it came to.                 *)
LEMMA Visited ==
  ASSUME BatchInv, verdict # "none", NEW c \in Clients, pc[c] # "idle"
  PROVE  at = size + 1 /\ c < at /\ Left(c)
<1>1. ~(c > at) /\ ~(c = at /\ ~resolved)
  BY DEF BatchInv, Waiting
<1>2. at = 0 \/ at = size + 1
  BY DEF BatchInv, Ended
<1>3. resolved => at <= size
  BY InLoopFacts DEF BatchInv, Shape
<1>4. at = size + 1 /\ c < at
  BY <1>1, <1>2, <1>3, InLoopFacts
<1> QED BY <1>4 DEF BatchInv

(* NothingNamedIsLost: the result the caller holds names every post that   *)
(* landed under a name, also when others failed (posts_search.go:1131).    *)
THEOREM NamesAreKept == BatchSpec => []NothingNamedIsLost
<1>1. BatchInv => NothingNamedIsLost
  <2> SUFFICES ASSUME BatchInv, verdict # "none", NEW c \in Clients, resp[c].wire # 0
               PROVE  told /\ resp[c].wire \in ToSet(res.ids)
    BY DEF NothingNamedIsLost
  <2>1. pc[c] # "idle" /\ outcome[c] \notin {"refused", "failed", "noId"}
    BY IdleFacts DEF BatchInv
  <2>2. at = size + 1 /\ c < at /\ Left(c)
    BY <2>1, Visited
  <2>3. Left(c) /\ resp[c].wire \in ToSet(res.ids)
    BY <2>2 DEF Left
  <2>4. told = HasResult(verdict) /\ (verdict = "error" => FailedPosts # {} /\ (size = 1 \/ NothingLanded))
    BY <2>2, InLoopFacts DEF BatchInv, Ended
  <2>5. outcome[c] = "ok" /\ status[c] = "created" /\ res.ids # <<>>
    BY <2>1, <2>3 DEF Left
  <2>6. ~(size = 1 /\ FailedPosts # {})
    <3>1. size = 1 => c = 1 /\ FailedPosts \subseteq {1}
      BY <2>2, InLoopFacts DEF FailedPosts
    <3>2. c \notin FailedPosts
      BY <2>5 DEF FailedPosts
    <3> QED BY <3>1, <3>2
  <2> QED BY <2>3, <2>4, <2>5, <2>6 DEF HasResult, NothingLanded, BatchInv, Shape
<1> QED BY <1>1, BatchInvHolds, PTL

(* ExitOneOnlyIfNothingAccepted: a caller told to run the list again makes *)
(* no second post of one whose create was answered (search_runners.go:202- *)
(* 207); what a lost answer did is as unknown to the caller as to the list.*)
THEOREM ExitOneMeansNothing == BatchSpec => []ExitOneOnlyIfNothingAccepted
<1>1. BatchInv => ExitOneOnlyIfNothingAccepted
  <2> SUFFICES ASSUME BatchInv, verdict # "none", Exit = 1, NEW c \in Clients, outcome[c] \in {"ok", "noId"}
               PROVE  FALSE
    BY DEF ExitOneOnlyIfNothingAccepted
  <2>1. verdict = "error" /\ ~AcceptedWithoutId
    BY DEF Exit, BatchInv, Shape
  <2>2. pc[c] # "idle"
    BY IdleFacts DEF BatchInv
  <2>3. at = size + 1 /\ c < at /\ Left(c)
    BY <2>2, Visited
  <2>4. FailedPosts # {} /\ (size = 1 \/ NothingLanded)
    BY <2>1, <2>3, InLoopFacts DEF BatchInv, Ended
  <2>5. size = 1 => c = 1 /\ FailedPosts \subseteq {1}
    BY <2>3, InLoopFacts DEF FailedPosts
  <2>6. CASE outcome[c] = "ok"
    <3>1. status[c] = "created" /\ res.ids # <<>>
      BY <2>3, <2>6 DEF Left
    <3>2. c \notin FailedPosts
      BY <3>1 DEF FailedPosts
    <3> QED BY <2>4, <2>5, <3>1, <3>2 DEF NothingLanded
  <2>7. CASE outcome[c] = "noId"
    <3>1. size # 1
      BY <2>1, <2>5, <2>7 DEF AcceptedWithoutId
    <3>2. res.noId # 0
      BY <2>3, <2>7, <3>1 DEF Left
    <3> QED BY <2>4, <3>1, <3>2 DEF NothingLanded
  <2> QED BY <2>6, <2>7
<1> QED BY <1>1, BatchInvHolds, PTL

-----------------------------------------------------------------------------
(* The refinement: a list keeps the contract of a batch.                   *)

Fates == [i \in Clients |-> Fate(i)]

LEMMA FateFacts ==
  ASSUME BatchInv
  PROVE  /\ Clients = Contract!Items
         /\ \A i \in Clients : Fates[i] = Fate(i) /\ (Fate(i) # "none" <=> i < at)
         /\ Contract!Settled = {i \in 1..size : i < at}
<1>1. Clients = Contract!Items
  BY Sizes DEF Contract!Items
<1>2. \A i \in Clients : Fate(i) # "none" <=> i < at
  BY InLoopFacts DEF Fate
<1>3. 1..size \subseteq Clients
  BY Sizes, InLoopFacts
<1>4. Contract!Settled = {i \in 1..size : Fate(i) # "none"}
  BY <1>3 DEF Contract!Settled
<1>5. \A i \in 1..size : Fate(i) # "none" <=> i < at
  BY <1>2, <1>3
<1> QED BY <1>1, <1>2, <1>4, <1>5 DEF Fates

LEMMA SameFates ==
  ASSUME BatchInv, UNCHANGED <<size, at, verdict, told>>, \A i \in Clients : i < at => outcome'[i] = outcome[i]
  PROVE  UNCHANGED Contract!vars
<1>1. \A i \in Clients : Fate(i)' = Fate(i)
  BY InLoopFacts DEF Fate
<1> QED BY <1>1 DEF Contract!vars

LEMMA LeavingSettles ==
  ASSUME BatchInv, InLoop, NEW s, LeavesBody(s), UNCHANGED <<outcome, size, verdict, told>>
  PROVE  Contract!Next
<1>1. at \in Clients /\ at \in 1..size /\ verdict = "none" /\ at' = at + 1 /\ at \in Nat
  BY InLoopFacts DEF LeavesBody, InLoop
<1>2. Contract!Settled = 1..at - 1
  <2>1. {i \in 1..size : i < at} = 1..at - 1
    BY <1>1, InLoopFacts
  <2> QED BY <2>1, FateFacts
<1> DEFINE f == IF outcome[at] = "ok" THEN "created" ELSE IF outcome[at] = "noId" THEN "noId" ELSE "failed"
<1>3. f \in Contract!Fates \ {"none"}
  BY DEF Contract!Fates
<1>4. \A i \in Clients : Fate(i)' = IF i = at THEN f ELSE Fate(i)
  BY <1>1, InLoopFacts DEF Fate
<1> HIDE DEF f
<1>5. [i \in Clients |-> Fate(i)]' = [[i \in Clients |-> Fate(i)] EXCEPT ![at] = f]
  BY <1>1, <1>4
<1>6. Contract!Settle(at)
  BY <1>1, <1>2, <1>3, <1>5 DEF Contract!Settle
<1> QED BY <1>1, <1>6 DEF Contract!Next

LEMMA FinishReports ==
  ASSUME BatchInv, Finish
  PROVE  Contract!Report
<1>1. /\ UNCHANGED <<size, at, outcome>> /\ at = size + 1 /\ verdict = "none"
      /\ size \in Nat \ {0} /\ 1..size \subseteq Clients
  BY Sizes, InLoopFacts DEF Finish, vars, request
<1>2. Contract!Settled = 1..size /\ UNCHANGED Fates
  <2>1. \A i \in Clients : Fate(i)' = Fate(i)
    BY <1>1 DEF Fate
  <2>2. {i \in 1..size : i < at} = 1..size
    BY <1>1
  <2> QED BY <2>1, <2>2, FateFacts DEF Fates
<1>3. ASSUME NEW i \in 1..size PROVE Left(i) /\ i \in Clients /\ i < at
  BY <1>1 DEF BatchInv
<1>4. \A i \in 1..size : Fates[i] = IF outcome[i] = "ok" THEN "created" ELSE IF outcome[i] = "noId" THEN "noId" ELSE "failed"
  BY <1>1, <1>3 DEF Fate, Fates
<1>5. Contract!Failed = {i \in 1..size : outcome[i] \notin {"ok", "noId"}}
  BY <1>1, <1>4 DEF Contract!Failed, Fates
<1>6. size # 1 => Contract!Failed = FailedPosts
  <2>1. ASSUME size # 1 PROVE \A i \in 1..size : status[i] = "failed" <=> outcome[i] \notin {"ok", "noId"}
    BY <1>3, <2>1 DEF Left
  <2> QED BY <1>5, <2>1 DEF FailedPosts
<1>7. CASE FailedPosts = {} /\ verdict' = "ok" /\ told' = HasResult(verdict')
  <2>1. told' = TRUE
    BY <1>7 DEF HasResult
  <2>2. \A i \in 1..size : outcome[i] \in {"ok", "noId"}
    BY <1>3, <1>7 DEF Left, FailedPosts
  <2>3. Contract!Failed = {}
    BY <1>5, <2>2
  <2> QED BY <1>1, <1>2, <1>7, <2>1, <2>3 DEF Contract!Report, Fates
<1>8. CASE FailedPosts # {} /\ size = 1 /\ verdict' = "error" /\ told' = HasResult(verdict')
  <2>1. status[1] = "failed" /\ Left(1)
    BY <1>3, <1>8 DEF FailedPosts
  <2>2. told' = (core = "op")
    BY <1>8 DEF HasResult
  <2>3. CASE outcome[1] = "noId"
    <3>1. core = "library"
      BY <2>1, <2>3 DEF Left
    <3>2. told' = FALSE
      BY <2>2, <3>1
    <3>3. Fates[1] = "noId"
      BY <1>4, <1>8, <2>3
    <3> QED BY <1>1, <1>2, <1>8, <3>2, <3>3 DEF Contract!Report, Fates
  <2>4. CASE outcome[1] # "noId"
    <3>1. outcome[1] # "ok"
      BY <2>1 DEF Left
    <3>2. Contract!Failed = 1..size
      BY <1>5, <1>8, <2>4, <3>1
    <3> QED BY <1>1, <1>2, <1>8, <2>2, <3>2 DEF Contract!Report, Fates
  <2> QED BY <2>3, <2>4
<1>9. CASE FailedPosts # {} /\ size # 1 /\ NothingLanded /\ verdict' = "error" /\ told' = HasResult(verdict')
  <2>1. \A i \in 1..size : outcome[i] \notin {"ok", "noId"}
    BY <1>3, <1>9 DEF Left, NothingLanded
  <2>2. Contract!Failed = 1..size
    BY <1>5, <2>1
  <2>3. told' \in BOOLEAN
    BY <1>9 DEF HasResult
  <2> QED BY <1>1, <1>2, <1>9, <2>2, <2>3 DEF Contract!Report, Fates
<1>10. CASE FailedPosts # {} /\ size # 1 /\ ~NothingLanded /\ verdict' = "partial" /\ told' = HasResult(verdict')
  <2>1. told' = TRUE
    BY <1>10 DEF HasResult
  <2>2. PICK i \in Clients : i < at /\ outcome[i] \in {"ok", "noId"}
    BY <1>10 DEF BatchInv, Backed, NothingLanded
  <2>3. i \in 1..size
    BY <1>1, <2>2, InLoopFacts
  <2>4. Contract!Failed # {} /\ Contract!Failed # 1..size
    BY <1>5, <1>6, <1>10, <2>2, <2>3
  <2> QED BY <1>1, <1>2, <1>10, <2>1, <2>4 DEF Contract!Report, Fates
<1> QED BY <1>1, <1>7, <1>8, <1>9, <1>10 DEF Finish

LEMMA StepKeepsContract ==
  ASSUME BatchInv, BatchInv', [BatchNext]_allvars
  PROVE  [Contract!Next]_(Contract!vars)
<1>1. CASE RefuseRequest
  <2>1. UNCHANGED <<size, at, told, outcome>> /\ at = 0 /\ verdict = "none" /\ verdict' = "error"
    BY <1>1 DEF RefuseRequest, vars, request
  <2>2. \A i \in Clients : Fate(i)' = Fate(i)
    BY <2>1 DEF Fate
  <2>3. Contract!Settled = {}
    BY <2>1, FateFacts
  <2> QED BY <2>1, <2>2, <2>3 DEF Contract!Next, Contract!Refuse
<1>2. CASE BeginLoop
  <2>1. UNCHANGED <<size, verdict, told>> /\ at = 0 /\ at' = 1
    BY <1>2 DEF BeginLoop, request
  <2>2. \A i \in Clients : Fate(i) = "none" /\ Fate(i)' = "none"
    BY <2>1, InLoopFacts DEF Fate
  <2> QED BY <2>1, <2>2 DEF Contract!vars
<1>3. CASE Resolve
  BY <1>3, SameFates DEF Resolve, request
<1>4. CASE ResolveFails
  BY <1>4, LeavingSettles DEF ResolveFails, request, vars
<1>5. CASE Publishing
  <2>1. InLoop /\ Step(at) /\ UNCHANGED <<size, at, verdict, told>>
    BY <1>5 DEF Publishing, batch, request
  <2>2. at \in Clients
    BY <2>1, InLoopFacts
  <2>3. \A i \in Clients : i < at => outcome'[i] = outcome[i]
    BY <2>1, <2>2, OtherCall, InLoopFacts DEF SameCall, BatchInv, CallsInv
  <2> QED BY <2>1, <2>3, SameFates
<1>6. CASE Published
  <2>1. InLoop /\ UNCHANGED <<size, verdict, told, outcome>>
    BY <1>6 DEF Published, request, vars
  <2>2. \E s : LeavesBody(s)
    BY <1>6 DEF Published
  <2> QED BY <2>1, <2>2, LeavingSettles
<1>7. CASE Finish
  BY <1>7, FinishReports DEF Contract!Next
<1>8. CASE World
  <2>1. Environment /\ UNCHANGED <<size, at, verdict, told>>
    BY <1>8 DEF World, batch, request
  <2>2. \A i \in Clients : outcome'[i] = outcome[i]
    BY <2>1, EnvironmentCall DEF SameCall, BatchInv, CallsInv
  <2> QED BY <2>1, <2>2, SameFates
<1>9. CASE UNCHANGED allvars
  BY <1>9, SameFates DEF allvars, vars, batch, request
<1> QED BY <1>1, <1>2, <1>3, <1>4, <1>5, <1>6, <1>7, <1>8, <1>9 DEF BatchNext, Progress, Reported

(* KeepsContract: the loop with its requests and the world between them is *)
(* a batch whose posts are settled one by one and whose verdict follows    *)
(* from their fates alone (success_gate.go, posts_search.go:1096-1133).    *)
THEOREM ListKeepsContract == BatchSpec => KeepsContract
<1>1. BatchInit => Contract!Init
  <2> SUFFICES ASSUME BatchInit PROVE Contract!Init
    OBVIOUS
  <2>1. at = 0 /\ size \in Clients /\ verdict = "none" /\ told = FALSE
    BY DEF BatchInit
  <2>2. \A i \in Clients : Fate(i) = "none"
    BY <2>1, Sizes DEF Fate
  <2>3. Clients = Contract!Items
    BY Sizes DEF Contract!Items
  <2> QED BY <2>1, <2>2, <2>3 DEF Contract!Init
<1>2. BatchInv /\ BatchInv' /\ [BatchNext]_allvars => [Contract!Next]_(Contract!vars)
  BY StepKeepsContract
<1> QED BY <1>1, <1>2, BatchInvHolds, PTL DEF BatchSpec, KeepsContract, Contract!Spec

-----------------------------------------------------------------------------
(* Why no post is counted twice on a quiet schedule: every post the result *)
(* names is still on the list when the next call walks it, so that call's  *)
(* before snapshot holds it and its fresh rows do not.                     *)

LEMMA RecoveredId ==
  ASSUME NEW r \in Responses, NEW all \in Seq(PostIds), NEW seen, NEW offsetKnown \in BOOLEAN
  PROVE  LET R == Recovered(r, all, seen, offsetKnown) IN R.id = r.id \/ R.id \in ToSet(all) \ seen
<1> DEFINE fresh == FreshRows(all, seen)
           created == {all[i] : i \in fresh}
           id == IF r.wire = 0 /\ fresh # {} THEN all[FirstOf(fresh)] ELSE r.id
           R == Recovered(r, all, seen, offsetKnown)
<1>1. created = ToSet(all) \ seen /\ (fresh # {} => FirstOf(fresh) \in fresh)
  BY FreshFacts, LeastExists
<1>2. id = r.id \/ id \in ToSet(all) \ seen
  BY <1>1
<1>3. R = CASE ~CountGuard(fresh) ->
                 [r EXCEPT !.ids = created, !.id = id, !.lookup = {"count"}]
            [] CountGuard(fresh) /\ ~WireIdCheck(r.wire, created) ->
                 [r EXCEPT !.ids = created, !.lookup = {"mismatch"}]
            [] OTHER ->
                 [r EXCEPT !.ids = created, !.id = id,
                           !.slots = created,
                           !.lookup = IF offsetKnown THEN {} ELSE {"offset"}]
  BY DEF Recovered
<1>4. r = [wire |-> r.wire, id |-> r.id, ids |-> r.ids, slots |-> r.slots, lookup |-> r.lookup]
  BY DEF Responses
<1> DEFINE offset == IF offsetKnown THEN {} ELSE {"offset"}
<1> HIDE DEF id, created, fresh, R, offset
<1>6. CASE ~CountGuard(fresh)
  <2>1. R = [wire |-> r.wire, id |-> id, ids |-> created, slots |-> r.slots, lookup |-> {"count"}]
    BY <1>3, <1>4, <1>6
  <2>2. R.id = id
    BY <2>1
  <2> QED BY <1>2, <2>2 DEF R
<1>7. CASE CountGuard(fresh) /\ ~WireIdCheck(r.wire, created)
  <2> DEFINE same == r.id
  <2>1. R = [wire |-> r.wire, id |-> same, ids |-> created, slots |-> r.slots, lookup |-> {"mismatch"}]
    BY <1>3, <1>4, <1>7
  <2> HIDE DEF same
  <2>2. R.id = same
    BY <2>1
  <2> QED BY <2>2 DEF R, same
<1>8. CASE CountGuard(fresh) /\ WireIdCheck(r.wire, created)
  <2>1. R = [wire |-> r.wire, id |-> id, ids |-> created, slots |-> created, lookup |-> offset]
    BY <1>3, <1>4, <1>8 DEF offset
  <2>2. R.id = id
    BY <2>1
  <2> QED BY <1>2, <2>2 DEF R
<1> QED BY <1>6, <1>7, <1>8

(* A call apart from the posts S: it returns none of them.                 *)
Fresh(c, S) ==
  /\ resp[c].id # 0 => resp[c].id \in Ids \ S
  /\ input[c].bySchedule =>
       /\ resp[c].id # 0 => resp[c].id \in ToSet(queue)
       /\ ToSet(rows[c]) \subseteq ToSet(queue)
       /\ pc[c] = "before" => \A id \in S : Ahead(c, id)
       /\ pc[c] \in {"post", "after"} /\ ~beforeErr[c] => S \subseteq before[c]

Stored(S) == S \subseteq Ids /\ (Target.bySchedule => S \subseteq ToSet(queue))

LEMMA QueueKeeps ==
  ASSUME TypeInv, QueueGrows
  PROVE  ToSet(queue) \subseteq ToSet(queue')
<1>1. queue \in Seq(PostIds)
  BY DEF TypeInv, TypeOK
<1>2. queue' \in Seq(PostIds)
  <2>1. ASSUME NEW i \in 1..Len(queue) + 1, NEW id \in PostIds, queue' = InsertAt(queue, i, id)
        PROVE  queue' \in Seq(PostIds)
    BY <1>1, <2>1, InsertAtFacts
  <2> QED BY <1>1, <2>1 DEF QueueGrows
<1>3. DOMAIN queue = 1..Len(queue) /\ DOMAIN queue' = 1..Len(queue')
  BY <1>1, <1>2, LenProperties
<1>4. \A i \in 1..Len(queue) : \E j \in 1..Len(queue') : queue'[j] = queue[i]
  BY GrowthMovesDown
<1> QED BY <1>3, <1>4 DEF ToSet

LEMMA IdsKeep ==
  ASSUME TypeInv, [Next]_vars
  PROVE  Ids \subseteq Ids'
<1>1. ASSUME NEW maker \in Makers, NEW b \in BOOLEAN, Store(maker, b) PROVE Ids \subseteq Ids'
  BY <1>1, StoreFacts
<1>2. CASE StrangerCreates
  BY <1>1, <1>2 DEF StrangerCreates, Makers
<1>3. ASSUME NEW c \in Clients, PostAnswered(c) \/ PostAnswerLost(c) PROVE Ids \subseteq Ids'
  BY <1>1, <1>3, ClientIsMaker DEF PostAnswered, PostAnswerLost
<1>4. CASE UNCHANGED posts
  BY <1>4, SeenUnchanged
<1> QED BY <1>2, <1>3, <1>4 DEF Next, Environment, BecomesListed, LeavesSchedule, Step, Refuse, Accept, NextPage,
       BeforeTaken, BeforeFails, PostRefused, AfterTaken, AfterFails, AllReturned, server, vars

LEMMA CollectedListed ==
  ASSUME TypeInv, NEW c \in Clients, pc[c] \in {"before", "after"}, ToSet(rows[c]) \subseteq ToSet(queue)
  PROVE  ToSet(Collected(c)) \subseteq ToSet(queue)
<1>1. queue \in Seq(PostIds) /\ page[c] \in Nat \ {0}
  BY DEF TypeInv, TypeOK
<1>2. queue \in Seq(ToSet(queue))
  <2>1. DOMAIN queue = 1..Len(queue) /\ Len(queue) \in Nat /\ queue = [i \in 1..Len(queue) |-> queue[i]]
    BY <1>1, LenProperties
  <2>2. \A i \in 1..Len(queue) : queue[i] \in ToSet(queue)
    BY <2>1 DEF ToSet
  <2> QED BY <2>1, <2>2, IsASeq
<1>3. PageRows(page[c]) \in Seq(ToSet(queue))
  BY <1>1, <1>2, PageRowsFacts
<1>4. ToSet(PageRows(page[c])) \subseteq ToSet(queue)
  BY <1>3, EmptySeq, ToSetOfConcat
<1> QED BY <1>4, WalkTyped

LEMMA SameFresh ==
  ASSUME TypeInv, [Next]_vars, QueueGrows, NEW c \in Clients, SameCall(c), NEW S, Fresh(c, S)
  PROVE  Fresh(c, S)'
<1>1. Ids \subseteq Ids' /\ ToSet(queue) \subseteq ToSet(queue')
  BY IdsKeep, QueueKeeps
<1>2. ASSUME NEW id, Ahead(c, id) PROVE Ahead(c, id)'
  BY <1>2, AheadStays DEF SameCall
<1> QED BY <1>1, <1>2 DEF Fresh, SameCall

LEMMA StoredStays ==
  ASSUME TypeInv, [Next]_vars, QueueGrows, input'[1].bySchedule = input[1].bySchedule, NEW S, Stored(S)
  PROVE  Stored(S)'
BY IdsKeep, QueueKeeps DEF Stored, Target

LEMMA StepFresh ==
  ASSUME TypeInv, quiet, QueueGrows, NEW c \in Clients, CallOK(c), CallTells(c), Step(c),
         NEW S \in SUBSET Ids, input[c].bySchedule => S \subseteq ToSet(queue), Fresh(c, S)
  PROVE  Fresh(c, S)'
<1>t. TypeOK /\ IdsExist
  BY DEF TypeInv
<1>k. Ids \subseteq Ids' /\ ToSet(queue) \subseteq ToSet(queue') /\ input' = input
  BY IdsKeep, QueueKeeps, SameArguments DEF Next
<1>e. ToSet(<<>>) = {}
  BY DEF ToSet
<1>1. ASSUME NEW r, NEW o, Return(c, r, o),
             r.id # 0 => r.id \in Ids' \ S /\ (input[c].bySchedule => r.id \in ToSet(queue'))
      PROVE  Fresh(c, S)'
  <2>1. pc'[c] = "done" /\ resp'[c] = r
    BY <1>1, ReturnFacts
  <2>2. rows'[c] = <<>>
    BY <1>1, <1>t DEF Return, TypeOK
  <2> QED BY <1>1, <1>e, <1>k, <2>1, <2>2 DEF Fresh
<1>2. CASE Refuse(c) \/ PostRefused(c) \/ PostAnswerLost(c)
  <2>1. \E o : Return(c, NoResponse, o)
    BY <1>2 DEF Refuse, PostRefused, PostAnswerLost
  <2> QED BY <1>1, <2>1, EmptyResponse
<1>3. CASE Accept(c)
  <2>1. /\ pc'[c] = (IF input[c].bySchedule THEN "before" ELSE "post") /\ page'[c] = 1 /\ rows'[c] = <<>>
        /\ UNCHANGED <<resp, queue>>
    BY <1>3, BeginWalkFacts DEF Accept, server
  <2>2. (1 - 1) * PageSize = 0
    BY PublishAssumption DEF PublishAssumption
  <2>3. ASSUME NEW id \in ToSet(queue) PROVE Ahead(c, id)'
    <3>1. queue \in Seq(PostIds) /\ DOMAIN queue = 1..Len(queue) /\ Len(queue) \in Nat
      BY <1>t, LenProperties DEF TypeOK
    <3>2. PICK i \in 1..Len(queue) : queue[i] = id
      BY <3>1 DEF ToSet
    <3>3. i > 0
      BY <3>1
    <3> QED BY <2>1, <2>2, <3>2, <3>3 DEF Ahead
  <2> QED BY <1>e, <1>k, <2>1, <2>3 DEF Fresh
<1>4. CASE NextPage(c)
  <2>1. /\ UNCHANGED <<pc, before, beforeErr, resp, queue>>
        /\ rows'[c] = Collected(c) /\ page'[c] = page[c] + 1
        /\ pc[c] \in {"before", "after"}
    BY <1>4, <1>t DEF NextPage, server, TypeOK
  <2>2. (page[c] + 1) - 1 = page[c]
    BY <1>t, PageOffset DEF TypeOK
  <2>3. ASSUME NEW id, Ahead(c, id) PROVE Ahead(c, id)'
    BY <2>1, <2>2, <2>3, AheadOfWalk DEF Ahead
  <2>4. input[c].bySchedule => ToSet(rows'[c]) \subseteq ToSet(queue)
    BY <2>1, CollectedListed DEF Fresh
  <2> QED BY <1>k, <2>1, <2>3, <2>4 DEF Fresh
<1>5. CASE BeforeTaken(c)
  <2>1. /\ pc[c] = "before" /\ ~IsHasMore(page[c]) /\ pc'[c] = "post"
        /\ before'[c] = ToSet(Collected(c)) /\ UNCHANGED <<rows, beforeErr, resp, queue>>
    BY <1>5, <1>t DEF BeforeTaken, WalkEnds, server, TypeOK
  <2>2. input[c].bySchedule => \A id \in S : id \in ToSet(Collected(c))
    BY <2>1, AheadOfWalk DEF Fresh
  <2> QED BY <1>k, <2>1, <2>2 DEF Fresh
<1>6. CASE BeforeFails(c)
  <2>1. beforeErr'[c] = TRUE /\ pc'[c] = "post" /\ UNCHANGED <<rows, before, resp, queue>>
    BY <1>6, <1>t DEF BeforeFails, server, TypeOK
  <2> QED BY <1>k, <2>1 DEF Fresh
<1>7. CASE PostAnswered(c)
  <2>0. PICK id : id = Len(posts) + 1
    OBVIOUS
  <2>1. Store(c, input[c].bySchedule) /\ input[c].bySchedule \in BOOLEAN /\ c \in Makers /\ pc[c] = "post"
    BY <1>7, ClientIsMaker DEF PostAnswered
  <2>2. id \in PostIds \ Ids /\ id \in Ids'
    BY <2>0, <2>1, StoreFacts
  <2>3. input[c].bySchedule => id \in ToSet(queue')
    <3>1. ASSUME NEW i \in 1..Len(queue) + 1, queue' = InsertAt(queue, i, id) PROVE id \in ToSet(queue')
      <4>1. queue \in Seq(PostIds)
        BY <1>t DEF TypeOK
      <4>2. queue' \in Seq(PostIds) /\ Len(queue') = Len(queue) + 1 /\ queue'[i] = id
        BY <2>2, <3>1, <4>1, InsertAtFacts
      <4>3. DOMAIN queue' = 1..Len(queue')
        BY <4>2, LenProperties
      <4> QED BY <3>1, <4>2, <4>3 DEF ToSet
    <3> QED BY <2>0, <2>1, <3>1, StoreGrows
  <2>4. PICK wire \in {0, Len(posts) + 1} :
          LET r == [NoResponse EXCEPT !.wire = wire, !.id = wire] IN
            \/ /\ input[c].bySchedule
               /\ ~beforeErr[c]
               /\ BeginWalk(c, "after")
               /\ resp' = [resp EXCEPT ![c] = r]
               /\ UNCHANGED <<before, beforeErr>>
            \/ LET failed == [r EXCEPT !.lookup = {"before"}] IN Return(c, failed, Verdict(failed))
            \/ Return(c, r, Verdict(r))
    BY <1>7 DEF PostAnswered
  <2> DEFINE r == [NoResponse EXCEPT !.wire = wire, !.id = wire]
             failed == [r EXCEPT !.lookup = {"before"}]
  <2>5. r.id = wire /\ failed.id = wire
    <3>1. wire \in Nat /\ {"before"} \in SUBSET Lookup
      BY <2>0, <2>2 DEF Lookup, PostIds
    <3>2. r = [wire |-> wire, id |-> wire, ids |-> {}, slots |-> {}, lookup |-> {}]
      BY <3>1, NewResponse
    <3>3. failed = [wire |-> wire, id |-> wire, ids |-> {}, slots |-> {}, lookup |-> {"before"}]
      BY <3>1, NewResponse
    <3> HIDE DEF r, failed
    <3> QED BY <3>2, <3>3
  <2> HIDE DEF r, failed
  <2>6. wire # 0 => wire \in Ids' \ S /\ (input[c].bySchedule => wire \in ToSet(queue'))
    BY <2>0, <2>2, <2>3
  <2>7. CASE Return(c, r, Verdict(r))
    BY <1>1, <2>5, <2>6, <2>7
  <2>8. CASE Return(c, failed, Verdict(failed))
    BY <1>1, <2>5, <2>6, <2>8
  <2>9. CASE /\ input[c].bySchedule /\ ~beforeErr[c] /\ BeginWalk(c, "after")
             /\ resp' = [resp EXCEPT ![c] = r] /\ UNCHANGED <<before, beforeErr>>
    <3>1. pc'[c] = "after" /\ rows'[c] = <<>> /\ resp'[c] = r
      BY <1>t, <2>9, BeginWalkFacts DEF TypeOK
    <3>2. S \subseteq before[c]
      BY <2>1, <2>9 DEF Fresh
    <3> QED BY <1>e, <1>k, <2>5, <2>6, <2>9, <3>1, <3>2 DEF Fresh
  <2> QED BY <2>4, <2>7, <2>8, <2>9 DEF r, failed
<1>8. CASE AfterTaken(c)
  <2> DEFINE q == resp[c]
             all == Collected(c)
  <2>1. PICK offsetKnown \in BOOLEAN :
          LET r == Recovered(resp[c], Collected(c), before[c], offsetKnown) IN Return(c, r, Verdict(r))
    BY <1>8 DEF AfterTaken
  <2>2. pc[c] = "after" /\ UNCHANGED <<posts, queue>>
    BY <1>8 DEF AfterTaken, WalkEnds, server
  <2>3. q \in Responses /\ all \in Seq(PostIds) /\ ToSet(all) \subseteq Ids
    BY <1>t, <2>2, WalkTyped DEF TypeOK
  <2>4. input[c].bySchedule /\ ~beforeErr[c]
    BY <2>2 DEF CallOK, CallTells
  <2>5. S \subseteq before[c] /\ ToSet(all) \subseteq ToSet(queue)
    BY <2>2, <2>4, CollectedListed DEF Fresh
  <2>6. q.id # 0 => q.id \in Ids \ S /\ q.id \in ToSet(queue)
    BY <2>4 DEF Fresh
  <2> HIDE DEF q, all
  <2> DEFINE r == Recovered(q, all, before[c], offsetKnown)
  <2>7. r.id = q.id \/ r.id \in ToSet(all) \ before[c]
    BY <2>3, RecoveredId
  <2>8. Return(c, r, Verdict(r))
    BY <2>1 DEF q, all
  <2> HIDE DEF r
  <2>9. r.id # 0 => r.id \in Ids \ S /\ r.id \in ToSet(queue)
    BY <2>3, <2>5, <2>6, <2>7
  <2> QED BY <1>1, <1>k, <2>8, <2>9
<1>9. CASE AfterFails(c)
  <2> DEFINE r == [resp[c] EXCEPT !.lookup = {"after"}]
  <2>1. Return(c, r, Verdict(r))
    BY <1>9 DEF AfterFails
  <2>2. r.id = resp[c].id
    BY <1>t, LookupTyped DEF TypeOK, Lookup
  <2> HIDE DEF r
  <2> QED BY <1>1, <1>k, <2>1, <2>2 DEF Fresh
<1> QED BY <1>2, <1>3, <1>4, <1>5, <1>6, <1>7, <1>8, <1>9 DEF Step

Named == ToSet(res.ids) \ {0}

Distinct == \A i, j \in DOMAIN res.ids : res.ids[i] = res.ids[j] /\ res.ids[i] # 0 => i = j

Apart == Distinct /\ Stored(Named) /\ \A c \in Clients : c = at => Fresh(c, Named)

ApartInv == quiet => Apart

LEMMA WaitingIsFresh ==
  ASSUME BatchInv', ~resolved', NEW c \in Clients, c = at'
  PROVE  (Fresh(c, Named))'
<1>1. pc'[c] = "idle" /\ resp'[c] = NoResponse /\ rows'[c] = <<>>
  BY DEF BatchInv, Waiting, CallsInv, CallTells
<1>2. ToSet(<<>>) = {}
  BY DEF ToSet
<1> QED BY <1>1, <1>2, EmptyResponse DEF Fresh

LEMMA NewNames ==
  ASSUME res.ids \in Seq(Nat), Distinct, NEW x \in Nat, x # 0 => x \notin Named, res'.ids = Append(res.ids, x)
  PROVE  Distinct' /\ Named' \subseteq Named \cup ({x} \ {0})
<1> DEFINE s == res.ids
           t == Append(s, x)
<1>1. s \in Seq(Nat) /\ Len(s) \in Nat /\ DOMAIN s = 1..Len(s)
  BY LenProperties
<1>2. t \in Seq(Nat) /\ Len(t) = Len(s) + 1 /\ t[Len(s) + 1] = x /\ \A i \in 1..Len(s) : t[i] = s[i]
  BY <1>1, AppendProperties
<1>3. DOMAIN t = 1..Len(s) + 1
  BY <1>1, <1>2, LenProperties
<1>4. \A i \in 1..Len(s) : s[i] # 0 => s[i] \in Named
  BY <1>1 DEF Named, ToSet
<1>5. \A i, j \in 1..Len(s) : s[i] = s[j] /\ s[i] # 0 => i = j
  BY <1>1 DEF Distinct
<1> HIDE DEF s, t
<1>6. ASSUME NEW i \in 1..Len(s) + 1, NEW j \in 1..Len(s) + 1, t[i] = t[j], t[i] # 0 PROVE i = j
  <2>1. \A k \in 1..Len(s) + 1 : (k \in 1..Len(s)) \/ (k = Len(s) + 1)
    <3> DEFINE n == Len(s)
    <3>1. n \in Nat
      BY <1>1
    <3> HIDE DEF n
    <3>2. \A k \in 1..n + 1 : (k \in 1..n) \/ (k = n + 1)
      BY <3>1
    <3> QED BY <3>2 DEF n
  <2>2. CASE i \in 1..Len(s) /\ j \in 1..Len(s)
    <3>1. t[i] = s[i] /\ t[j] = s[j]
      BY <1>2, <2>2
    <3>2. s[i] = s[j] /\ s[i] # 0
      BY <1>6, <3>1
    <3> QED BY <1>5, <2>2, <3>2
  <2>3. CASE i = Len(s) + 1 /\ j \in 1..Len(s)
    BY <1>2, <1>4, <1>6, <2>3
  <2>4. CASE i \in 1..Len(s) /\ j = Len(s) + 1
    BY <1>2, <1>4, <1>6, <2>4
  <2> QED BY <2>1, <2>2, <2>3, <2>4
<1>7. res'.ids = t
  BY DEF s, t
<1>8. Distinct'
  BY <1>3, <1>6, <1>7 DEF Distinct
<1>9. ToSet(t) \subseteq ToSet(s) \cup {x}
  <2>1. \A k \in 1..Len(s) + 1 : t[k] \in ToSet(s) \cup {x}
    <3>1. \A k \in 1..Len(s) : t[k] \in ToSet(s)
      BY <1>1, <1>2 DEF ToSet
    <3> QED BY <1>1, <1>2, <3>1
  <2> QED BY <1>3, <2>1 DEF ToSet
<1> QED BY <1>7, <1>8, <1>9 DEF Named, s

LEMMA ApartStep ==
  ASSUME BatchInv, BatchInv', ApartInv, quiet, [BatchNext]_allvars
  PROVE  Apart'
<1>0. PICK S : S = Named
  OBVIOUS
<1>1. /\ Distinct /\ Stored(S) /\ (at \in Clients => Fresh(at, S))
      /\ res \in Results /\ res.ids \in Seq(Nat) /\ TypeInv /\ 1 \in Clients
      /\ \A c \in Clients : input[c].bySchedule = Target.bySchedule
  BY <1>0, Sizes DEF ApartInv, Apart, BatchInv, Shape, Results, CallsInv
<1>2. ASSUME UNCHANGED res PROVE Distinct' /\ Named' = S
  BY <1>0, <1>1, <1>2 DEF Distinct, Named
<1>3. ASSUME UNCHANGED <<vars, res, at>> PROVE Apart'
  <2>1. Stored(S)' /\ (at \in Clients => Fresh(at, S)')
    BY <1>1, <1>3 DEF Stored, Fresh, Ahead, Target, Ids, vars, server
  <2> QED BY <1>2, <1>3, <2>1 DEF Apart
<1>4. ASSUME UNCHANGED <<vars, res>>, ~resolved' PROVE Apart'
  <2>1. Stored(S)'
    BY <1>1, <1>4 DEF Stored, Target, Ids, vars, server
  <2> QED BY <1>2, <1>4, <2>1, WaitingIsFresh DEF Apart
<1>5. CASE RefuseRequest \/ Finish \/ UNCHANGED allvars
  BY <1>3, <1>5 DEF RefuseRequest, Finish, allvars, batch
<1>6. CASE BeginLoop
  <2>1. UNCHANGED <<vars, res>> /\ ~resolved'
    BY <1>6, InLoopFacts DEF BeginLoop
  <2> QED BY <1>4, <2>1
<1>7. CASE Resolve
  <2>1. UNCHANGED <<server, pc, page, rows, before, beforeErr, resp, at, res>>
    BY <1>7 DEF Resolve
  <2>2. \A c \in Clients : input'[c].bySchedule = input[c].bySchedule
    BY <1>7, ResolveCalls DEF BatchInv
  <2>3. Stored(S)' /\ (at \in Clients => Fresh(at, S)')
    BY <1>1, <2>1, <2>2 DEF Stored, Fresh, Ahead, Target, Ids, server
  <2> QED BY <1>2, <2>1, <2>3 DEF Apart
<1>8. CASE ResolveFails
  BY <1>4, <1>8 DEF ResolveFails, LeavesBody
<1>9. CASE Published
  <2>1. UNCHANGED vars /\ ~resolved' /\ at \in Clients /\ resp[at] \in Responses
    BY <1>9, InLoopFacts DEF Published, LeavesBody, BatchInv, CallsInv, TypeInv, TypeOK
  <2>2. CASE UNCHANGED res
    BY <1>4, <2>1, <2>2
  <2>3. CASE res' = [res EXCEPT !.noId = @ + 1]
    <3>1. res'.ids = res.ids
      BY <1>1, <2>3, NoIdFacts
    <3>2. Distinct' /\ Named' = S
      BY <1>0, <1>1, <3>1 DEF Distinct, Named
    <3>3. Stored(S)'
      BY <1>1, <2>1 DEF Stored, Target, Ids, vars, server
    <3> QED BY <2>1, <3>2, <3>3, WaitingIsFresh DEF Apart
  <2>4. CASE res' = With(resp[at])
    <3> DEFINE x == resp[at].id
    <3>1. x \in Nat /\ res'.ids = Append(res.ids, x)
      BY <1>1, <2>1, <2>4, WithFacts DEF Responses
    <3>2. x # 0 => x \in Ids \ S /\ (Target.bySchedule => x \in ToSet(queue))
      BY <1>1, <2>1 DEF Fresh
    <3> HIDE DEF x
    <3>3. Distinct' /\ Named' \subseteq S \cup ({x} \ {0})
      BY <1>0, <1>1, <3>1, <3>2, NewNames
    <3>4. Named' \subseteq Ids /\ (Target.bySchedule => Named' \subseteq ToSet(queue))
      BY <1>1, <3>2, <3>3 DEF Stored
    <3>5. Stored(Named)'
      BY <2>1, <3>4 DEF Stored, Target, Ids, vars, server
    <3> QED BY <2>1, <3>3, <3>5, WaitingIsFresh DEF Apart
  <2> QED BY <1>9, <2>2, <2>3, <2>4 DEF Published
<1>10. ASSUME [Next]_vars, UNCHANGED <<res, at>>, input' = input, at \in Clients => SameCall(at) \/ Step(at)
       PROVE  Apart'
  <2>1. QueueGrows
    BY <1>1, <1>10, QuietGrows
  <2>2. Stored(S)'
    BY <1>1, <1>10, <2>1, StoredStays
  <2>3. ASSUME at \in Clients PROVE Fresh(at, S)'
    <3>1. PICK c \in Clients : c = at
      BY <2>3
    <3>2. CallOK(c) /\ CallTells(c)
      BY DEF BatchInv, CallsInv, CallInv
    <3>3. S \in SUBSET Ids /\ (input[c].bySchedule => S \subseteq ToSet(queue)) /\ Fresh(c, S)
      BY <1>1, <3>1 DEF Stored
    <3>4. CASE SameCall(c)
      BY <1>1, <1>10, <2>1, <3>1, <3>3, <3>4, SameFresh
    <3>5. CASE Step(c)
      BY <1>1, <1>10, <2>1, <3>1, <3>2, <3>3, <3>5, StepFresh
    <3>6. Fresh(c, S)'
      BY <1>10, <2>3, <3>1, <3>4, <3>5
    <3> QED BY <1>10, <3>1, <3>6 DEF Fresh, Ahead
  <2> QED BY <1>2, <1>10, <2>2, <2>3 DEF Apart
<1>11. CASE Publishing
  <2>1. InLoop /\ Step(at) /\ UNCHANGED <<at, res>>
    BY <1>11 DEF Publishing, batch
  <2>2. at \in Clients
    BY <2>1, InLoopFacts
  <2> QED BY <1>10, <2>1, <2>2, SameArguments DEF Next
<1>12. CASE World
  <2>1. Environment /\ UNCHANGED <<at, res>>
    BY <1>12 DEF World, batch
  <2>2. at \in Clients => SameCall(at)
    BY <1>1, <2>1, EnvironmentCall
  <2>3. input' = input
    BY <2>1 DEF Environment, StrangerCreates, BecomesListed, LeavesSchedule
  <2> QED BY <1>10, <2>1, <2>2, <2>3 DEF Next
<1> QED BY <1>5, <1>6, <1>7, <1>8, <1>9, <1>11, <1>12 DEF BatchNext, Progress, Reported

LEMMA QuietForGood ==
  ASSUME [BatchNext]_allvars
  PROVE  quiet' = quiet
<1>1. CASE [Next]_vars
  BY <1>1, QuietStays
<1>2. CASE UNCHANGED server
  BY <1>2 DEF server
<1>3. ASSUME NEW d, Step(d) PROVE quiet' = quiet
  BY <1>3 DEF Store, Step, Refuse, Accept, NextPage, BeforeTaken, BeforeFails, PostAnswered, PostRefused,
              PostAnswerLost, AfterTaken, AfterFails, server
<1> QED BY <1>1, <1>2, <1>3 DEF BatchNext, Progress, World, Reported, RefuseRequest, BeginLoop, Resolve, ResolveFails,
       Publishing, Published, Finish, Next, vars, allvars

(* IdsAreDistinct: on a schedule nothing leaves and nothing is late on, no *)
(* post of the list is counted twice, whoever else creates posts meanwhile *)
(* (posts_search.go:821, posts_search.go:1064).                            *)
THEOREM NothingIsCountedTwice == BatchSpec => []IdsAreDistinct
<1>1. BatchInit /\ BatchInv => ApartInv
  <2> SUFFICES ASSUME BatchInit, BatchInv PROVE Apart
    BY DEF ApartInv
  <2>1. res.ids = <<>> /\ at = 0
    BY DEF BatchInit, NoResult
  <2>2. DOMAIN res.ids = {} /\ Named = {}
    BY <2>1 DEF Named, ToSet
  <2>3. \A c \in Clients : c # at
    BY <2>1, Sizes
  <2> QED BY <2>2, <2>3 DEF Apart, Distinct, Stored
<1>2. BatchInv /\ BatchInv' /\ ApartInv /\ [BatchNext]_allvars => ApartInv'
  BY ApartStep, QuietForGood DEF ApartInv
<1>3. ApartInv => IdsAreDistinct
  BY DEF ApartInv, Apart, Distinct, IdsAreDistinct
<1> QED BY <1>1, <1>2, <1>3, BatchInvHolds, PTL DEF BatchSpec
=============================================================================
