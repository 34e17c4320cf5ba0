----------------------------- MODULE BatchMove -----------------------------
(***************************************************************************)
(* Client.BatchMovePosts (posts.go), which `posts move` and both MCP move  *)
(* tools end in: read every post and refuse the batch unless all are       *)
(* driven by a schedule, ONE POST /posts/batch/move, then read every post  *)
(* again for the date the server gave it.                                  *)
(*                                                                         *)
(* Nothing holds the posts between the guard and the move.  A call of the  *)
(* client is one step; a cancelled context is a call without an answer.    *)
(***************************************************************************)
EXTENDS Answers, FiniteSets, SequencesExt

CONSTANTS
  Posts,     \* post ids
  MaxLength  \* bound: ids of the longest list

ASSUME MoveAssumption == Posts # {} /\ MaxLength \in Nat \ {0}

VARIABLES
  alone,   \* nobody else touches the posts during the call
  list,    \* the ids, validated; validatePostIDs lets an id come twice here
  state,   \* each post: "driven" by a schedule, with its own "pages", "gone"
  moved,   \* the posts POST /posts/batch/move moved
  unfit,   \* moved posts that a schedule did not drive before
  misled,  \* posts the guard was shown as driven that were not, without an id
  phase,   \* "guard", "move", "dates", "done"
  at,      \* position in the list
  streak,  \* BulkStop.serverErrors of the loop under way
  refused, \* positions the guard refuses
  reads,   \* what the reads of the loop under way returned
  posted,  \* what the move request returned
  entries, \* Moved: how each entry tells its date
  verdict  \* "ok" with the entries, "refused" or "error" without

world == <<alone, list, state, moved, unfit>>
vars == <<world, misled, phase, at, streak, refused, reads, posted, entries, verdict>>

States == {"driven", "pages", "gone"}
Entries == {"date", "warned", "unread", "not attempted"}

MoveTypeOK ==
  /\ alone \in BOOLEAN
  /\ list \in Seq(Posts) /\ Len(list) \in 1..MaxLength
  /\ state \in [Posts -> States]
  /\ moved \subseteq ToSet(list)
  /\ unfit \subseteq moved
  /\ misled \subseteq ToSet(list)
  /\ phase \in {"guard", "move", "dates", "done"}
  /\ at \in 1..Len(list) + 1
  /\ streak \in 0..MaxConsecutiveServerErrors
  /\ refused \subseteq 1..Len(list)
  /\ reads \in Seq(CallAnswers)
  /\ posted \in CallAnswers \cup {"none"}
  /\ entries \in Seq(Entries)
  /\ verdict \in {"none", "ok", "refused", "error"}

Init ==
  /\ alone \in BOOLEAN
  /\ list \in UNION {[1..k -> Posts] : k \in 1..MaxLength}
  /\ state \in [Posts -> States]
  /\ moved = {} /\ unfit = {} /\ misled = {}
  /\ phase = "guard"
  /\ at = 1
  /\ streak = 0
  /\ refused = {}
  /\ reads = <<>>
  /\ posted = "none"
  /\ entries = <<>>
  /\ verdict = "none"

-----------------------------------------------------------------------------
(* GetPostEdit *)

(* What a read carries: whose id, if any, and how the post is published.   *)
EditReads == [id : {"own", "other", "none"}, when : {"driven", "pages"}]
NotRead == [id |-> "nothing", when |-> "nothing"]

(* A read that is not ok says nothing of the post but, with a 404, that it *)
(* is gone.  One that is ok may lack a part of the state, the id, or both  *)
(* (a missing mode is no schedule), and may be another post's.             *)
ReadAnswer(post, a, sees) ==
  /\ a = "not found" => state[post] = "gone"
  /\ \/ /\ a = "ok" /\ sees \in EditReads
        /\ sees.id = "own" => state[post] # "gone" /\ sees.when \in {state[post], "pages"}
     \/ a # "ok" /\ sees = NotRead

Read(a) ==
  /\ reads' = Append(reads, a)
  /\ streak' = Streak(streak, a)

Finish(v) == phase' = "done" /\ verdict' = v

-----------------------------------------------------------------------------
(* requireScheduleDriven *)

(* Broken: an edit state that cannot be read is no reason to refuse. *)
UnfitIfSeen(sees) == sees.id = "other" \/ sees.when = "pages"

(* Another post's id, a mode other than 3, or nothing at all.              *)
IsRefused(sees) == sees.id = "other" \/ sees.when # "driven"

(* The guard is handed the state of another post and cannot tell.          *)
Misleads(post, sees) == sees.id = "none" /\ sees.when = "driven" /\ state[post] # "driven"

GuardRead ==
  /\ phase = "guard"
  /\ at <= Len(list)
  /\ \E a \in CallAnswers, sees \in EditReads \cup {NotRead} :
       /\ ReadAnswer(list[at], a, sees)
       /\ Read(a)
       /\ misled' = IF Misleads(list[at], sees) THEN misled \cup {list[at]} ELSE misled
       /\ IF Halts(streak, a)
            THEN Finish("refused") /\ UNCHANGED <<at, refused>>
            ELSE /\ at' = at + 1
                 /\ refused' = IF IsRefused(sees) THEN refused \cup {at} ELSE refused
                 /\ UNCHANGED <<phase, verdict>>
  /\ UNCHANGED <<world, posted, entries>>

GuardEnds ==
  /\ phase = "guard"
  /\ at > Len(list)
  /\ \/ refused # {} /\ Finish("refused")
     \/ refused = {} /\ phase' = "move" /\ UNCHANGED verdict
  /\ UNCHANGED <<world, misled, at, streak, refused, reads, posted, entries>>

-----------------------------------------------------------------------------
(* POST /posts/batch/move, sent once.  A 2xx without success:true counts   *)
(* as "refused".  The server moves whatever post it is given.              *)
MoveAnswer(a, done) ==
  LET found == {p \in ToSet(list) : state[p] # "gone"}
  IN /\ done \subseteq found
     /\ a = "ok" => done = found
     /\ a \notin {"ok", "refused"} /\ ~LeavesOpen(a) => done = {}

Move ==
  /\ phase = "move"
  /\ \E a \in CallAnswers, done \in SUBSET Posts :
       /\ MoveAnswer(a, done)
       /\ moved' = done
       /\ unfit' = {p \in done : state[p] # "driven"}
       /\ state' = [p \in Posts |-> IF p \in done THEN "driven" ELSE state[p]]
       /\ posted' = a
       /\ \/ a = "ok" /\ phase' = "dates" /\ at' = 1 /\ streak' = 0 /\ reads' = <<>>
             /\ UNCHANGED verdict
          \/ a # "ok" /\ Finish("error") /\ UNCHANGED <<at, streak, reads>>
  /\ UNCHANGED <<alone, list, misled, refused, entries>>

-----------------------------------------------------------------------------
(* The dates *)

(* The last read was one that BulkStop stops at. *)
StopsHere ==
  /\ reads # <<>>
  /\ ~IsServerAnswer(Last(reads)) \/ streak >= MaxConsecutiveServerErrors

Enter(e) == entries' = Append(entries, e) /\ at' = at + 1

(* Broken: a date that cannot be read fails the move. *)
DateReadOrFail ==
  /\ phase = "dates"
  /\ at <= Len(list)
  /\ ~StopsHere
  /\ \E a \in CallAnswers, sees \in EditReads \cup {NotRead} :
       /\ ReadAnswer(list[at], a, sees)
       /\ Read(a)
       /\ \/ a = "ok" /\ Enter("date") /\ UNCHANGED <<phase, verdict>>
          \/ a # "ok" /\ Finish("error") /\ UNCHANGED <<entries, at>>
  /\ UNCHANGED <<world, misled, refused, posted>>

(* The edit state's date as it stands, with a warning when it is past.     *)
DateRead ==
  /\ phase = "dates"
  /\ at <= Len(list)
  /\ ~StopsHere
  /\ \E a \in CallAnswers, sees \in EditReads \cup {NotRead} :
       /\ ReadAnswer(list[at], a, sees)
       /\ Read(a)
       /\ \/ a = "ok" /\ \E e \in {"date", "warned"} : Enter(e)
          \/ a # "ok" /\ Enter("unread")
  /\ UNCHANGED <<world, misled, phase, refused, posted, verdict>>

DateNotAttempted ==
  /\ phase = "dates"
  /\ at <= Len(list)
  /\ StopsHere
  /\ Enter("not attempted")
  /\ UNCHANGED <<world, misled, phase, streak, refused, reads, posted, verdict>>

DatesEnd ==
  /\ phase = "dates"
  /\ at > Len(list)
  /\ Finish("ok")
  /\ UNCHANGED <<world, misled, at, streak, refused, reads, posted, entries>>

-----------------------------------------------------------------------------
(* Another client deletes a post, or changes how it is published. *)
OtherChanges(post, s) ==
  /\ ~alone
  /\ phase # "done"
  /\ state[post] \notin {s, "gone"}
  /\ state' = [state EXCEPT ![post] = s]
  /\ UNCHANGED <<alone, list, moved, unfit, misled, phase, at, streak, refused, reads,
                 posted, entries, verdict>>

Returned ==
  /\ phase = "done"
  /\ UNCHANGED vars

Next ==
  \/ GuardRead
  \/ GuardEnds
  \/ Move
  \/ DateRead
  \/ DateNotAttempted
  \/ DatesEnd
  \/ \E post \in Posts, s \in States : OtherChanges(post, s)
  \/ Returned

Spec == Init /\ [][Next]_vars

-----------------------------------------------------------------------------
(* Properties *)

(* A refused batch moved nothing, and what is moved was driven by a        *)
(* schedule before, unless another client changed it between the guard and *)
(* the move: every doubt the guard can see about any post refuses them all *)
(* (posts.go:664-692).  It compares ids only when the answer has one       *)
(* (posts.go:682), so it cannot see that a state without an id is another  *)
(* post's; the posts for which that happened are excepted.                 *)
OnlyDrivenPostsMove ==
  /\ verdict = "refused" => moved = {}
  /\ alone => unfit \subseteq misled

(* Once the server said the posts moved, nothing that happens while their  *)
(* dates are read makes the call fail or drops a post from its answer (the *)
(* single-post surfaces read its first entry, types.go:1411), and with     *)
(* nobody else about they have all moved (posts.go:615-659), but for a     *)
(* post that was gone and for which the guard was shown another.           *)
AcceptedMoveIsReported ==
  posted = "ok" =>
    /\ phase = "done" => verdict = "ok" /\ Len(entries) = Len(list)
    /\ alone => ToSet(list) \ moved \subseteq misled

(* Both loops obey BulkStop: a failure that would repeat costs one         *)
(* request, and a date is left unread only after one                       *)
(* (bulk_stop.go:37-67, posts.go:624-644, 667-678).                        *)
EndsReading(i) ==
  \/ reads[i] \in {"rate limited", "barred", "no answer", "unreadable"}
  \/ i > 2 /\ \A j \in i - 2..i : reads[j] = "server error"
ReadingStopsInTime ==
  /\ \A i \in 1..Len(reads) - 1 : ~EndsReading(i)
  /\ \A i \in DOMAIN entries : entries[i] = "not attempted" => EndsReading(Len(reads))
=============================================================================
