------------------------------ MODULE Answers ------------------------------
(* How the client sorts the outcome of one API call, and the two rules     *)
(* every loop over ids shares: IsServerAnswer and BulkStop (bulk_stop.go). *)
EXTENDS Naturals

(* What a call may return.  "server error" is a 5xx, "barred" 401 or 403,  *)
(* "refused" any other 4xx or a 2xx with success:false, "no answer" a      *)
(* transport error or a cancelled context, "unreadable" a 2xx whose body   *)
(* is cut, empty, too large or not JSON.                                   *)
CallAnswers == {"ok", "not found", "refused", "server error", "rate limited", "barred",
                "no answer", "unreadable"}

(* Broken: a rate limit counts as an answer about the id. *)
IsAnyHTTPAnswer(a) == a \in {"ok", "not found", "refused", "server error", "rate limited"}

IsServerAnswer(a) == a \in {"ok", "not found", "refused", "server error"}

(* isRetryableStatus, and doWithRetry's bare transport error *)
IsRetryable(a) == a \in {"server error", "rate limited", "no answer"}

(* Answers that leave open whether the server acted. *)
LeavesOpen(a) == a \in {"server error", "no answer", "unreadable"}

(* A failure that says the server did not act and will not.                *)
Decided(a) == a \notin {"none", "ok"} /\ ~LeavesOpen(a)

-----------------------------------------------------------------------------
(* BulkStop *)

MaxConsecutiveServerErrors == 3

(* Broken: only a success ends a streak of server errors. *)
StreakUntilSuccess(streak, a) ==
  IF a = "server error" THEN streak + 1 ELSE IF a = "ok" THEN 0 ELSE streak

Streak(streak, a) == IF a = "server error" THEN streak + 1 ELSE 0

(* Broken: a server that keeps failing does not end the loop. *)
HaltsOnSilence(streak, a) == ~IsServerAnswer(a)

Halts(streak, a) ==
  \/ ~IsServerAnswer(a)
  \/ Streak(streak, a) >= MaxConsecutiveServerErrors

-----------------------------------------------------------------------------
(* What a finished DELETE of one object can have done: "from" and "to" say *)
(* whether the object was there before and after, with nobody else at it.  *)
(* A call that was sent again may find the object gone by its own hand.    *)
DeleteOutcome(from, to, a, resent) ==
  /\ to => from
  /\ a = "ok" => from /\ ~to
  /\ a = "not found" => ~to /\ (from => resent)
  /\ from /\ ~to /\ ~resent => a = "ok" \/ LeavesOpen(a)
=============================================================================
