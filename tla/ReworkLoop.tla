----------------------------- MODULE ReworkLoop -----------------------------
(***************************************************************************)
(* What the orchestrator promises of any phase plan, with nothing of how   *)
(* it keeps count: a run moves one phase forward at a time, may go back     *)
(* for rework only by spending one unit of a finite stock of retries, and   *)
(* ends either with every phase passed or at the phase that failed.  There  *)
(* is no step cap here: a finite stock of retries already bounds the run.   *)
(***************************************************************************)
EXTENDS Naturals

VARIABLES
  size,      \* number of phases of the plan
  position,  \* the phase to run next, 1..size; size + 1 when all have passed
  retries,   \* retries left, over all loop-back edges
  status     \* "running", then "passed" or "failed"

vars == <<size, position, retries, status>>

Init ==
  /\ size \in Nat
  /\ retries \in Nat
  /\ position = 1
  /\ status = "running"

AtPhase ==
  /\ status = "running"
  /\ position <= size

Pass ==
  /\ AtPhase
  /\ position' = position + 1
  /\ UNCHANGED <<size, retries, status>>

Rework ==
  /\ AtPhase
  /\ retries > 0
  /\ retries' = retries - 1
  /\ position' \in 1 .. size
  /\ UNCHANGED <<size, status>>

GiveUp ==
  /\ AtPhase
  /\ status' = "failed"
  /\ UNCHANGED <<size, position, retries>>

Release ==
  /\ status = "running"
  /\ position = size + 1
  /\ status' = "passed"
  /\ UNCHANGED <<size, position, retries>>

Next == Pass \/ Rework \/ GiveUp \/ Release

Spec == Init /\ [][Next]_vars
=============================================================================
