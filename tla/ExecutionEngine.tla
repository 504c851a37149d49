--------------------------- MODULE ExecutionEngine ---------------------------
(***************************************************************************)
(* The execution engine (fsm.rs) under the orchestrator: ExecutionEngine::run *)
(* drives one phase machine to a terminal state and writes its lifecycle to   *)
(* the event log, within a budget of steps.                                   *)
(*                                                                         *)
(* A machine is opaque: a step of it may go on to another state, be done or   *)
(* fail.  Of the log, only the lifecycle events are kept; a machine state is    *)
(* the number of transitions that led to it.                                  *)
(***************************************************************************)
EXTENDS Orchestrator, SequencesExt

CONSTANTS
  MaxSteps,    \* ExecutionEngine.max_steps: 64 in the program
  StoreFails   \* whether an append of the event log may fail

ASSUME EngineAssumption == MaxSteps \in Nat \ {0} /\ StoreFails \in BOOLEAN

VARIABLES
  phase,   \* "idle", or "stepping" while a machine runs
  taken,   \* transitions of the machine so far
  log      \* the lifecycle events written

engineVars == <<phase, taken, log>>

Lifecycle == {"PhaseEntered", "PhaseStateChanged", "PhaseCompleted", "PhaseFailed"}

Event(kind) == [kind |-> kind, phase |-> plan.names[cursor], state |-> taken]

Emits(kind) == log' = Append(log, Event(kind))

EmitFails == StoreFails /\ UNCHANGED log

\* The machine is done for: run returns to the orchestrator's loop.
Returns ==
  /\ phase' = "idle"
  /\ taken' = 0

-----------------------------------------------------------------------------
EngineInit ==
  /\ Init
  /\ phase = "idle"
  /\ taken = 0
  /\ log = <<>>

Enters ==
  /\ phase = "idle"
  /\ Iterates
  /\ Emits("PhaseEntered")
  /\ phase' = "stepping"
  /\ UNCHANGED <<vars, taken>>

EntryLost ==
  /\ phase = "idle"
  /\ EmitFails
  /\ PhaseFails
  /\ UNCHANGED <<phase, taken>>

\* Mutant: one step too many.
MutantSteps == phase = "stepping" /\ taken <= MaxSteps

Steps == phase = "stepping" /\ taken < MaxSteps

Continues ==
  /\ Steps
  /\ Emits("PhaseStateChanged")
  /\ taken' = taken + 1
  /\ UNCHANGED <<vars, phase>>

\* Mutant: the machine goes on without the event.
MutantTransitionLost ==
  /\ Steps
  /\ EmitFails
  /\ taken' = taken + 1
  /\ UNCHANGED <<vars, phase>>

\* The error of this event ends the run of the machine.
TransitionLost ==
  /\ Steps
  /\ EmitFails
  /\ PhaseFails
  /\ Returns

\* The error of the closing event is dropped.
Completes ==
  /\ Steps
  /\ Emits("PhaseCompleted") \/ EmitFails
  /\ PhaseSucceeds
  /\ Returns

\* Mutant: every machine that ends is recorded as completed.
MutantFails ==
  /\ Steps
  /\ Emits("PhaseCompleted") \/ EmitFails
  /\ PhaseFails
  /\ Returns

\* The machine fails or reports an error.
Fails ==
  /\ Steps
  /\ Emits("PhaseFailed") \/ EmitFails
  /\ PhaseFails
  /\ Returns

\* Mutant: nothing happens at the end of the budget.
MutantBudgetExceeded == FALSE

BudgetExceeded ==
  /\ phase = "stepping"
  /\ taken = MaxSteps
  /\ Emits("PhaseFailed") \/ EmitFails
  /\ PhaseFails
  /\ Returns

EngineNext ==
  \/ Enters \/ EntryLost
  \/ Continues \/ TransitionLost \/ Completes \/ Fails \/ BudgetExceeded
  \/ (CapExceeded \/ Finishes) /\ UNCHANGED engineVars

EngineSpec == EngineInit /\ [][EngineNext]_<<vars, engineVars>>

(* One thread: the loop of run is never left waiting. *)
FairEngineSpec == EngineSpec /\ WF_<<vars, engineVars>>(EngineNext)
-----------------------------------------------------------------------------
(* Properties *)

\* The types of the engine's variables; no machine outruns its budget.
EngineTypeOK ==
  /\ phase \in {"idle", "stepping"}
  /\ taken \in 0 .. MaxSteps
  /\ log \in Seq([kind : Lifecycle, phase : PhaseName, state : 0 .. MaxSteps])

Closing(event) == event.kind \in {"PhaseCompleted", "PhaseFailed"}

\* The log is a sequence of phase runs, each entered once, its transitions each
\* from where the last one led, and closed at most once: a lost event leaves a
\* run short, never with a gap in it.
LogIsContiguous ==
  \A i \in DOMAIN log :
    IF log[i].kind = "PhaseEntered" THEN log[i].state = 0
    ELSE /\ i > 1
         /\ ~Closing(log[i - 1])
         /\ log[i - 1].phase = log[i].phase
         /\ log[i].state = log[i - 1].state
                             + (IF log[i - 1].kind = "PhaseEntered" THEN 0 ELSE 1)

\* The outcome that a closing event tells.
Told(event) ==
  [phase   |-> event.phase,
   outcome |-> IF event.kind = "PhaseCompleted" THEN "Success" ELSE "Failed"]

\* The outcomes that a log of events tells, in order, as run returns them.
Recorded(events) ==
  LET told[n \in 0 .. Len(events)] ==
        IF n = 0 THEN <<>>
        ELSE IF Closing(events[n]) THEN Append(told[n - 1], Told(events[n]))
        ELSE told[n - 1]
  IN  told[Len(events)]

Successes(outcomes) == SelectSeq(outcomes, LAMBDA r : r.outcome = "Success")

\* "Recording one phase event per transition (P5)" (fsm.rs, lines 4-5), the one to
\* completion too: every phase that run reports as a success has its PhaseCompleted in
\* the log.  What the log lacks of a phase that run reports as failed is left aside.
CompletionRecorded == Successes(Recorded(log)) = Successes(results)

\* What is left of a sequence when some of its items are taken out.
PartsOf(s) ==
  LET parts[n \in 0 .. Len(s)] ==
        IF n = 0 THEN {<<>>}
        ELSE LET shorter == parts[n - 1]
             IN  shorter \cup {Append(p, s[n]) : p \in shorter}
  IN  parts[Len(s)]

\* However many events are lost, the log tells no outcome that did not happen:
\* what it records is, in order, part of what run returns.
NothingInvented == Recorded(log) \in PartsOf(results)

\* Every workflow returns, of machines that would go on for ever too ("bounding
\* the step count (no silent infinite loops, P13)", fsm.rs, line 5).
EngineTerminates == <>(pc = "returned")
=============================================================================
