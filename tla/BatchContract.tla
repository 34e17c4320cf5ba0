--------------------------- MODULE BatchContract ---------------------------
(* What a batch of publishes promises its caller (PartialPostError,        *)
(* success_gate.go, and the contracts above resolvePublishBatch and        *)
(* ops.ImportSearchPost): every item gets exactly one fate, in the order   *)
(* given, and the verdict follows from the fates alone.                    *)
EXTENDS Naturals

CONSTANT MaxSize    \* bound: items of the largest batch

VARIABLES
  size,     \* items of this batch
  fate,     \* what became of each item
  verdict,  \* "ok": err = nil, "partial": *PartialPostError, "error": another
  told      \* the caller holds a result that names what landed

vars == <<size, fate, verdict, told>>

Items == 1..MaxSize
Fates == {"none", "created", "noId", "failed"}

Init ==
  /\ size \in Items
  /\ fate = [i \in Items |-> "none"]
  /\ verdict = "none"
  /\ told = FALSE

Settled == {i \in 1..size : fate[i] # "none"}
Failed == {i \in 1..size : fate[i] = "failed"}

Settle(i) ==
  /\ verdict = "none"
  /\ Settled = 1..(i - 1)
  /\ \E f \in Fates \ {"none"} : fate' = [fate EXCEPT ![i] = f]
  /\ UNCHANGED <<size, verdict, told>>

(* A refusal is raised before any request. *)
Refuse ==
  /\ verdict = "none"
  /\ Settled = {}
  /\ verdict' = "error"
  /\ UNCHANGED <<size, fate, told>>

(* A single create with no id may come back as its own typed error.        *)
Report ==
  /\ verdict = "none"
  /\ Settled = 1..size
  /\ \/ Failed = {} /\ verdict' = "ok" /\ told' = TRUE
     \/ Failed = 1..size /\ verdict' = "error" /\ told' \in BOOLEAN
     \/ Failed # {} /\ Failed # 1..size /\ verdict' = "partial" /\ told' = TRUE
     \/ size = 1 /\ fate[1] = "noId" /\ verdict' = "error" /\ told' = FALSE
  /\ UNCHANGED <<size, fate>>

Next ==
  \/ \E i \in 1..size : Settle(i)
  \/ Refuse
  \/ Report

Spec == Init /\ [][Next]_vars
=============================================================================
