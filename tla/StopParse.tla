----------------------------- MODULE StopParse -----------------------------
(***************************************************************************)
(* A parse is stopped by one command or tool while jobs end by themselves  *)
(* and another user starts new ones.  The stop is a retried DELETE that    *)
(* the server accepts at once and carries out later; its answer is no      *)
(* evidence, so the call then reads the parsing form once and reports what *)
(* it saw.  An agent that gets a tool error calls the tool again.          *)
(***************************************************************************)
EXTENDS Integers

CONSTANTS
  Jobs,      \* bound: jobs are 1..Jobs
  Attempts,  \* bound: how often one call sends the DELETE
  Calls      \* bound: how often the agent calls the tool

ASSUME StopAssumption == Jobs \in Nat /\ Attempts \in Nat \ {0} /\ Calls \in Nat \ {0}

VARIABLES
  running,   \* the job that runs, 0 if none
  stopping,  \* the job the server is about to stop, 0 if none
  next,      \* the next job to start
  refused,   \* a parse was refused for its dates
  tool,      \* the caller is an MCP tool
  pc,        \* "idle", "stop", "confirm", "done"
  calls,     \* stops called
  tries,     \* DELETEs this call has sent
  late,      \* DELETEs given up by the client that may still arrive
  result,    \* what the call reports
  first,     \* the job that ran when the call began
  seen,      \* what the last read saw: "nothing", "idle", "busy", "blank"
  seenNext,  \* next, when the form was first seen idle or busy; else 0
  ended,     \* jobs that are over
  cancelled, \* those the server stopped
  strayed    \* a DELETE arrived late

server == <<running, stopping, next, refused, ended, cancelled>>
call == <<tool, pc, calls, tries, result, first, seen, seenNext>>
stopVars == <<server, call, late, strayed>>

NoResult == [claims |-> "nothing", code |-> -1, error |-> FALSE]

StopInit ==
  /\ running \in {0, 1} \cap (0..Jobs)
  /\ stopping = 0
  /\ next = running + 1
  /\ refused = FALSE
  /\ tool \in BOOLEAN
  /\ pc = "idle"
  /\ calls = 0
  /\ tries = 0
  /\ late = 0
  /\ result = NoResult
  /\ first = 0
  /\ seen = "nothing"
  /\ seenNext = 0
  /\ ended = {}
  /\ cancelled = {}
  /\ strayed = FALSE

-----------------------------------------------------------------------------
(* Starting a parse *)

(* --date-from and --date-to: nothing, a number of seconds (0: any), a day *)
(* dd.mm.yyyy, or text that is neither.                                    *)
DateFlags == {"none", "zero", "seconds", "day", "text"}
ValidDate(flag) == flag # "text"

(* Another user's search parse or hooppy_start_parsing: one POST; a job    *)
(* starts when none runs.                                                  *)
StartParsing ==
  /\ next <= Jobs
  /\ running = 0
  /\ \E from, to \in DateFlags :
       /\ ValidDate(from)
       /\ ValidDate(to)
  /\ running' = next
  /\ next' = next + 1
  /\ UNCHANGED <<stopping, refused, ended, cancelled, call, late, strayed>>

(* A date that is neither form is refused before any request. *)
StartRefused ==
  /\ ~refused
  /\ \E flag \in DateFlags : ~ValidDate(flag)
  /\ refused' = TRUE
  /\ UNCHANGED <<running, stopping, next, ended, cancelled, call, late, strayed>>

(* The job is through, or the server carries out a stop it accepted. *)
JobEnds ==
  /\ running # 0
  /\ running' = 0
  /\ stopping' = 0
  /\ ended' = ended \cup {running}
  /\ \/ UNCHANGED cancelled
     \/ stopping = running /\ cancelled' = cancelled \cup {running}
  /\ UNCHANGED <<next, refused, call, late, strayed>>

-----------------------------------------------------------------------------
(* Stopping it *)

(* The server marks the job that runs; with none there is nothing to do.   *)
StopArrives == stopping' = running

Return(claims, code, error) ==
  /\ result' = [claims |-> claims, code |-> code, error |-> error]
  /\ pc' = "done"

BeginStop ==
  /\ \/ pc = "idle"
     \/ pc = "done" /\ tool /\ result.error /\ calls < Calls
  /\ calls' = calls + 1
  /\ tries' = 0
  /\ first' = running
  /\ seen' = "nothing"
  /\ result' = NoResult
  /\ pc' = "stop"
  /\ UNCHANGED <<server, tool, seenNext, late, strayed>>

StopAccepted ==
  /\ pc = "stop"
  /\ StopArrives
  /\ tries' = tries + 1
  /\ pc' = "confirm"
  /\ UNCHANGED <<running, next, refused, ended, cancelled, tool, calls, result, first, seen,
                 seenNext, late, strayed>>

(* success false, or any decided refusal. *)
StopRefused ==
  /\ pc = "stop"
  /\ tries' = tries + 1
  /\ Return("failed", 1, tool)
  /\ UNCHANGED <<server, tool, calls, first, seen, seenNext, late, strayed>>

(* A 5xx, a rate limit or silence: the DELETE arrived, did not, or is      *)
(* still under way; it is sent again while attempts are left.              *)
StopUnanswered ==
  /\ pc = "stop"
  /\ tries' = tries + 1
  /\ \/ StopArrives /\ UNCHANGED late
     \/ UNCHANGED <<stopping, late>>
     \/ late' = late + 1 /\ UNCHANGED stopping
  /\ \/ tries + 1 < Attempts /\ UNCHANGED <<pc, result>>
     \/ tries + 1 = Attempts /\ Return("failed", 1, tool)
  /\ UNCHANGED <<running, next, refused, ended, cancelled, tool, calls, first, seen, seenNext, strayed>>

StopArrivesLate ==
  /\ late > 0
  /\ StopArrives
  /\ late' = late - 1
  /\ strayed' = TRUE
  /\ UNCHANGED <<running, next, refused, ended, cancelled, call>>

(* GetParsingForm.  An answer without the field reads as idle. *)
Form == {IF running = 0 THEN "idle" ELSE "busy", "blank"}

(* Broken: the accepted DELETE is taken for a stopped parse. *)
InProgressByAnswer(s) == FALSE

InProgress(s) == s = "busy"

(* Broken: a tool reports a parse that is still running as an error. *)
StillRunningIsAnError == [claims |-> "running", code |-> 2, error |-> tool]

StillRunning == [claims |-> "running", code |-> 2, error |-> FALSE]

(* StopParsingAndConfirm, runStopParsing and stopParsingResult: the state  *)
(* is a result, not an error.                                              *)
ConfirmStop ==
  /\ pc = "confirm"
  /\ \E s \in Form :
       /\ seen' = s
       /\ seenNext' = IF s = "blank" \/ seenNext # 0 THEN seenNext ELSE next
       /\ result' = IF InProgress(s) THEN StillRunning
                    ELSE [claims |-> "stopped", code |-> 0, error |-> FALSE]
  /\ pc' = "done"
  /\ UNCHANGED <<server, tool, calls, tries, first, late, strayed>>

(* The form cannot be read: the stop is accepted, its effect unconfirmed.  *)
ConfirmFails ==
  /\ pc = "confirm"
  /\ Return("unconfirmed", 2, tool)
  /\ UNCHANGED <<server, tool, calls, tries, first, seen, seenNext, late, strayed>>

StopReturned ==
  /\ pc = "done"
  /\ UNCHANGED stopVars

StopNext ==
  \/ StartParsing
  \/ StartRefused
  \/ JobEnds
  \/ BeginStop
  \/ StopAccepted
  \/ StopRefused
  \/ StopUnanswered
  \/ StopArrivesLate
  \/ ConfirmStop
  \/ ConfirmFails
  \/ StopReturned

StopSpec == StopInit /\ [][StopNext]_stopVars

-----------------------------------------------------------------------------
(* Properties *)

(* A parse reported as stopped was: the job that ran when the call began   *)
(* has ended, and no job ran when the form was read (issue #114; the form  *)
(* is trusted to carry its field).                                         *)
StoppedWasSeen ==
  (result.claims = "stopped" /\ seen # "blank") =>
    /\ seen = "idle"
    /\ first # 0 => first \in ended

(* Once a call has seen the form, an agent that goes by the tool's results *)
(* sends no further DELETE: a parse started after that is left alone,      *)
(* unless a DELETE of before was still under way (main.go, the reason why  *)
(* a parse still in progress is a state and not an error).                 *)
NewParsesAreLeftAlone ==
  (seenNext # 0 /\ ~strayed) => \A j \in cancelled : j < seenNext
=============================================================================
