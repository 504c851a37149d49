----------------------------- MODULE EngineProofs -----------------------------
(***************************************************************************)
(* Proofs about ExecutionEngine, for every plan, every step budget, and       *)
(* whichever events the store loses.                                        *)
(***************************************************************************)
EXTENDS ExecutionEngine, OrchestratorProofs, SequenceFacts

-----------------------------------------------------------------------------
(* The engine drives the orchestrator *)

(* What the engine does is a step of the orchestrator's loop or none of its concern. *)
LEMMA EngineStepsLoop ==
  ASSUME EngineNext
  PROVE  Next \/ UNCHANGED vars
<1>1. PhaseFails => Next
  BY DEF PhaseFails, Next
<1>2. QED
  BY <1>1 DEF EngineNext, Enters, EntryLost, Continues, TransitionLost, Completes, Fails,
              BudgetExceeded, Next

(* Under the engine, with its events lost or not, the orchestrator is what it is with   *)
(* opaque phases: all that is proved of its loop holds of the two together.          *)
THEOREM EngineDrivesOrchestrator == EngineSpec => Spec
<1>1. EngineInit => Init
  BY DEF EngineInit
<1>2. [EngineNext]_<<vars, engineVars>> => [Next]_vars
  BY EngineStepsLoop
<1>3. QED
  BY <1>1, <1>2, PTL DEF EngineSpec, Spec

-----------------------------------------------------------------------------
(* Types *)

(* A machine runs only for the phase under the cursor, and starts afresh. *)
EngineInv ==
  /\ EngineTypeOK
  /\ phase = "idle" => taken = 0
  /\ phase = "stepping" => cursor <= NumPhases

LifecycleEvent == [kind : Lifecycle, phase : PhaseName, state : 0 .. MaxSteps]

(* What is emitted for the phase under the cursor is an event. *)
LEMMA EventType ==
  ASSUME PlansAssumption, EngineAssumption, TypeOK, EngineTypeOK, cursor <= NumPhases,
         NEW kind \in Lifecycle
  PROVE  Event(kind) \in LifecycleEvent
<1>1. cursor \in DOMAIN plan.names /\ plan.names[cursor] \in PhaseName
  BY PlanOfTypeOK, PlanShape DEF TypeOK, NumPhases
<1>2. QED
  BY <1>1 DEF Event, LifecycleEvent, EngineTypeOK

(* Every step keeps the types. *)
LEMMA EngineTypeStep ==
  ASSUME PlansAssumption, EngineAssumption, TypeOK, EngineInv, EngineNext
  PROVE  EngineInv'
<1> USE DEF EngineInv, EngineTypeOK
<1>0. MaxSteps \in Nat \ {0} /\ log \in Seq(LifecycleEvent) /\ taken \in 0 .. MaxSteps
  BY DEF EngineAssumption, LifecycleEvent
<1>1. \A kind \in Lifecycle :
        cursor <= NumPhases /\ (Emits(kind) \/ EmitFails) => log' \in Seq(LifecycleEvent)
  BY <1>0, EventType DEF Emits, EmitFails
<1>2. PhaseFails => cursor <= NumPhases
  BY DEF PhaseFails, Stops, LoopsBack, Iterates
<1>3. CASE Enters
  <2>1. log' \in Seq(LifecycleEvent)
    BY <1>1, <1>3 DEF Enters, Iterates, Lifecycle
  <2>2. QED
    BY <1>3, <2>1 DEF Enters, Iterates, vars, NumPhases, LifecycleEvent
<1>4. CASE EntryLost
  BY <1>4 DEF EntryLost, EmitFails
<1>5. CASE Continues
  <2>1. log' \in Seq(LifecycleEvent)
    BY <1>1, <1>5 DEF Continues, Steps, Lifecycle
  <2>2. taken' \in 0 .. MaxSteps
    BY <1>0, <1>5 DEF Continues, Steps
  <2>3. QED
    BY <1>5, <2>1, <2>2 DEF Continues, Steps, vars, NumPhases, LifecycleEvent
<1>6. CASE TransitionLost \/ Completes \/ Fails \/ BudgetExceeded
  <2>1. phase = "stepping" /\ phase' = "idle" /\ taken' = 0
    BY <1>6 DEF TransitionLost, Completes, Fails, BudgetExceeded, Steps, Returns
  <2>2. Emits("PhaseCompleted") \/ Emits("PhaseFailed") \/ EmitFails
    BY <1>6 DEF TransitionLost, Completes, Fails, BudgetExceeded
  <2>3. log' \in Seq(LifecycleEvent)
    BY <1>1, <2>1, <2>2 DEF Lifecycle
  <2>4. QED
    BY <1>0, <2>1, <2>3 DEF LifecycleEvent
<1>7. CASE (CapExceeded \/ Finishes) /\ UNCHANGED engineVars
  BY <1>7 DEF CapExceeded, Finishes, engineVars, NumPhases
<1>8. QED
  BY <1>3, <1>4, <1>5, <1>6, <1>7 DEF EngineNext

(* The orchestrator keeps its types under the engine. *)
LEMMA LoopTypeCorrect == EngineSpec => []TypeOK
BY EngineDrivesOrchestrator, TypeCorrect, PTL

(* The engine's invariant holds throughout. *)
LEMMA EngineInvariant == EngineSpec => []EngineInv
<1>1. EngineInit => EngineInv
  BY EngineAssumption DEF EngineInit, EngineInv, EngineTypeOK
<1>2. TypeOK /\ EngineInv /\ [EngineNext]_<<vars, engineVars>> => EngineInv'
  <2>1. ASSUME TypeOK, EngineInv, EngineNext PROVE EngineInv'
    BY <2>1, EngineTypeStep, PlansAssumption, EngineAssumption
  <2>2. ASSUME EngineInv, UNCHANGED <<vars, engineVars>> PROVE EngineInv'
    BY <2>2 DEF vars, engineVars, EngineInv, EngineTypeOK, NumPhases
  <2>3. QED
    BY <2>1, <2>2
<1>3. QED
  BY <1>1, <1>2, LoopTypeCorrect, PTL DEF EngineSpec

(* For every plan and budget, the engine's variables keep their types: no machine       *)
(* outruns its budget, and every event is of a phase of the plan.                      *)
THEOREM EngineTypeCorrect == EngineSpec => []EngineTypeOK
<1>1. EngineInv => EngineTypeOK
  BY DEF EngineInv
<1>2. QED
  BY <1>1, EngineInvariant, PTL

-----------------------------------------------------------------------------
(* The log *)

\* The last event of the log is not the end of a phase run, and the machine is where
\* it says.
LogIsOpen ==
  /\ Len(log) > 0
  /\ ~Closing(log[Len(log)])
  /\ log[Len(log)].phase = plan.names[cursor]
  /\ taken = log[Len(log)].state + (IF log[Len(log)].kind = "PhaseEntered" THEN 0 ELSE 1)

(* While a machine runs, the log is that of its run so far. *)
LogInv == LogIsContiguous /\ (phase = "stepping" => LogIsOpen)

\* What LogIsContiguous asks of an event and of the one before it.
Follows(events, i) ==
  IF events[i].kind = "PhaseEntered" THEN events[i].state = 0
  ELSE /\ i > 1
       /\ ~Closing(events[i - 1])
       /\ events[i - 1].phase = events[i].phase
       /\ events[i].state = events[i - 1].state
                              + (IF events[i - 1].kind = "PhaseEntered" THEN 0 ELSE 1)

(* An event that follows the log as it was keeps it of one piece. *)
LEMMA AppendFollows ==
  ASSUME EngineTypeOK, LogIsContiguous, NEW kind \in Lifecycle, Emits(kind),
         Follows(log', Len(log) + 1)
  PROVE  LogIsContiguous'
<1>1. log \in Seq([kind : Lifecycle, phase : PhaseName, state : 0 .. MaxSteps])
  BY DEF EngineTypeOK
<1>2. /\ DOMAIN log' = 1 .. Len(log) + 1 /\ DOMAIN log = 1 .. Len(log) /\ Len(log) \in Nat
      /\ \A i \in DOMAIN log : log'[i] = log[i]
  BY <1>1 DEF Emits
<1>3. ASSUME NEW i \in DOMAIN log PROVE Follows(log', i)
  <2>1. Follows(log, i)
    BY DEF LogIsContiguous, Follows
  <2>2. CASE i = 1
    <3>1. log'[1] = log[1]
      BY <1>2, <1>3, <2>2
    <3>2. QED
      BY <2>1, <2>2, <3>1 DEF Follows
  <2>3. CASE i > 1
    <3>1. log'[i] = log[i] /\ log'[i - 1] = log[i - 1]
      BY <1>2, <1>3, <2>3
    <3>2. QED
      BY <2>1, <3>1 DEF Follows
  <2>4. QED
    BY <1>2, <1>3, <2>2, <2>3
<1>4. \A i \in DOMAIN log' : Follows(log', i)
  BY <1>2, <1>3
<1>5. QED
  BY <1>4 DEF LogIsContiguous, Follows, Closing

(* An event of a new run follows anything. *)
LEMMA EntryFollows ==
  ASSUME EngineTypeOK, LogIsContiguous, taken = 0, Emits("PhaseEntered")
  PROVE  LogIsContiguous'
<1>1. log'[Len(log) + 1] = Event("PhaseEntered")
  BY DEF EngineTypeOK, Emits
<1>2. Follows(log', Len(log) + 1)
  BY <1>1 DEF Follows, Event
<1>3. QED
  BY <1>2, AppendFollows DEF Lifecycle

(* An event of the run that is open follows it. *)
LEMMA OpenContinues ==
  ASSUME EngineTypeOK, LogIsContiguous, LogIsOpen,
         NEW kind \in Lifecycle \ {"PhaseEntered"}, Emits(kind)
  PROVE  LogIsContiguous'
<1>1. /\ Len(log) \in Nat \ {0} /\ log'[Len(log) + 1] = Event(kind)
      /\ log'[(Len(log) + 1) - 1] = log[Len(log)]
  BY DEF EngineTypeOK, Emits, LogIsOpen
<1>2. /\ Event(kind).kind /= "PhaseEntered" /\ Event(kind).phase = plan.names[cursor]
      /\ Event(kind).state = taken
  BY DEF Event
<1>3. Follows(log', Len(log) + 1)
  BY <1>1, <1>2 DEF Follows, LogIsOpen
<1>4. QED
  BY <1>3, AppendFollows

(* Every step keeps the log of one piece. *)
LEMMA LogStep ==
  ASSUME PlansAssumption, EngineAssumption, TypeOK, EngineInv, LogInv, EngineNext
  PROVE  LogInv'
<1> USE DEF LogInv
<1>0. /\ EngineTypeOK /\ log \in Seq([kind : Lifecycle, phase : PhaseName, state : 0 .. MaxSteps])
      /\ taken \in 0 .. MaxSteps /\ Len(log) \in Nat
  BY DEF EngineInv, EngineTypeOK
<1>1. EmitFails => LogIsContiguous'
  BY DEF EmitFails, LogIsContiguous, Closing
<1>2. CASE Enters
  <2>1. LogIsContiguous'
    BY <1>0, <1>2, EntryFollows DEF Enters, EngineInv
  <2>2. /\ Len(log') = Len(log) + 1 /\ log'[Len(log')] = Event("PhaseEntered")
        /\ plan' = plan /\ cursor' = cursor /\ taken' = taken /\ taken = 0
    BY <1>0, <1>2 DEF Enters, Emits, vars, EngineInv
  <2>3. LogIsOpen'
    BY <1>0, <2>2 DEF LogIsOpen, Closing, Event
  <2>4. QED
    BY <2>1, <2>3
<1>3. CASE EntryLost
  BY <1>1, <1>3 DEF EntryLost
<1>4. CASE Continues
  <2>1. LogIsContiguous'
    BY <1>0, <1>4, OpenContinues DEF Continues, Steps, Lifecycle
  <2>2. /\ Len(log') = Len(log) + 1 /\ log'[Len(log')] = Event("PhaseStateChanged")
        /\ plan' = plan /\ cursor' = cursor /\ taken' = taken + 1
    BY <1>0, <1>4 DEF Continues, Emits, vars
  <2>3. LogIsOpen'
    BY <1>0, <2>2 DEF LogIsOpen, Closing, Event
  <2>4. QED
    BY <2>1, <2>3
<1>5. CASE TransitionLost \/ Completes \/ Fails \/ BudgetExceeded
  <2>1. phase = "stepping" /\ phase' = "idle"
    BY <1>5 DEF TransitionLost, Completes, Fails, BudgetExceeded, Steps, Returns
  <2>2. Emits("PhaseCompleted") \/ Emits("PhaseFailed") \/ EmitFails
    BY <1>5 DEF TransitionLost, Completes, Fails, BudgetExceeded
  <2>3. LogIsContiguous'
    BY <1>0, <1>1, <2>1, <2>2, OpenContinues DEF Lifecycle
  <2>4. QED
    BY <2>1, <2>3
<1>6. CASE (CapExceeded \/ Finishes) /\ UNCHANGED engineVars
  BY <1>6 DEF CapExceeded, Finishes, engineVars, LogIsContiguous, LogIsOpen, Closing
<1>7. QED
  BY <1>2, <1>3, <1>4, <1>5, <1>6 DEF EngineNext

(* Whichever events are lost, the log of lifecycle events has no gap inside the run of    *)
(* a phase: each transition starts where the last one led, and nothing follows an end.   *)
THEOREM LogHasNoGap == EngineSpec => []LogIsContiguous
<1>1. EngineInit => LogInv
  BY DEF EngineInit, LogInv, LogIsContiguous
<1>2. TypeOK /\ EngineInv /\ LogInv /\ [EngineNext]_<<vars, engineVars>> => LogInv'
  <2>1. ASSUME TypeOK, EngineInv, LogInv, EngineNext PROVE LogInv'
    BY <2>1, LogStep, PlansAssumption, EngineAssumption
  <2>2. ASSUME LogInv, UNCHANGED <<vars, engineVars>> PROVE LogInv'
    BY <2>2 DEF vars, engineVars, LogInv, LogIsContiguous, LogIsOpen, Closing
  <2>3. QED
    BY <2>1, <2>2
<1>3. LogInv => LogIsContiguous
  BY DEF LogInv
<1>4. QED
  BY <1>1, <1>2, <1>3, LoopTypeCorrect, EngineInvariant, PTL DEF EngineSpec

-----------------------------------------------------------------------------
(* What the log tells *)

\* An event of the log, as one step of reading the outcomes it tells.
Telling(events) ==
  [n \in 1 .. Len(events) |->
     [told \in Seq(Result) |->
        IF Closing(events[n]) THEN Append(told, Told(events[n])) ELSE told]]

(* An event tells a result. *)
LEMMA ToldType ==
  ASSUME NEW e \in LifecycleEvent
  PROVE  Told(e) \in Result
BY DEF LifecycleEvent, Told, Result

(* The outcomes in a log are read one event after the other. *)
LEMMA RecordedIterates ==
  ASSUME NEW events \in Seq(LifecycleEvent)
  PROVE  \E told : /\ IsIteration(told, Len(events), Seq(Result), <<>>, Telling(events))
                   /\ Recorded(events) = told[Len(events)]
<1> DEFINE N == Len(events)
           S == Seq(Result)
           longer(s, n) == IF Closing(events[n]) THEN Append(s, Told(events[n])) ELSE s
           step == [n \in 1 .. N |-> [s \in S |-> longer(s, n)]]
           IsUpTo(f) == f = [n \in 0 .. N |->
                               IF n = 0 THEN <<>>
                               ELSE IF Closing(events[n]) THEN Append(f[n - 1], Told(events[n]))
                               ELSE f[n - 1]]
           upTo == CHOOSE f : IsUpTo(f)
<1>1. N \in Nat /\ \A n \in 1 .. N : events[n] \in LifecycleEvent
  OBVIOUS
<1>2. \A n \in 1 .. N, s \in S : longer(s, n) \in S
  BY <1>1, ToldType
<1>3. step \in [1 .. N -> [S -> S]] /\ <<>> \in S
  <2>1. <<>> \in S
    OBVIOUS
  <2> HIDE DEF longer, S, N
  <2>2. QED
    BY <1>2, <2>1
<1>4. \A n \in 1 .. N : \A s \in S : step[n][s] = longer(s, n)
  BY DEF step
<1>5. step = Telling(events)
  BY DEF Telling
<1> HIDE DEF N, S, step
<1>6. PICK f : IsIteration(f, N, S, <<>>, step)
  BY <1>1, <1>3, Iteration
<1>7. \A n \in 1 .. N : f[n] = longer(f[n - 1], n)
  <2>1. \A n \in 1 .. N : n - 1 \in 0 .. N
    BY <1>1
  <2> HIDE DEF longer
  <2>2. QED
    BY <1>4, <1>6, <2>1 DEF IsIteration
<1>8. IsUpTo(f)
  <2>1. \A n \in 0 .. N : n = 0 \/ n \in 1 .. N
    BY <1>1
  <2>2. \A n \in 0 .. N : f[n] = IF n = 0 THEN <<>>
                               ELSE IF Closing(events[n]) THEN Append(f[n - 1], Told(events[n]))
                               ELSE f[n - 1]
    BY <1>6, <1>7, <2>1 DEF IsIteration
  <2>3. f = [n \in 0 .. N |-> f[n]]
    BY <1>6 DEF IsIteration
  <2>4. QED
    BY <2>2, <2>3
<1>9. IsUpTo(upTo)
  <2> HIDE DEF IsUpTo
  <2>1. QED
    BY <1>8
<1>10. Recorded(events) = upTo[N]
  BY DEF Recorded, N
<1> HIDE DEF upTo
<1>11. upTo[0] = <<>> /\ \A n \in 1 .. N : upTo[n] = longer(upTo[n - 1], n)
  <2>1. 0 \in 0 .. N /\ \A n \in 1 .. N : n \in 0 .. N /\ n /= 0
    BY <1>1
  <2>2. QED
    BY <1>9, <2>1
<1> DEFINE T == {n \in Nat : n <= N => upTo[n] = f[n]}
<1>12. Nat \subseteq T
  <2>1. 0 \in T
    BY <1>6, <1>11 DEF IsIteration
  <2>2. ASSUME NEW n \in Nat, n \in T PROVE n + 1 \in T
    <3>1. SUFFICES ASSUME n + 1 <= N PROVE upTo[n + 1] = f[n + 1]
      OBVIOUS
    <3>2. n + 1 \in 1 .. N /\ (n + 1) - 1 = n /\ upTo[n] = f[n]
      BY <1>1, <2>2, <3>1
    <3>3. upTo[n + 1] = longer(upTo[n], n + 1) /\ f[n + 1] = longer(f[n], n + 1)
      BY <1>7, <1>11, <3>2
    <3>4. QED
      BY <3>2, <3>3
  <2> HIDE DEF T
  <2>3. QED
    BY <2>1, <2>2, NatInd
<1>13. upTo[N] = f[N]
  BY <1>1, <1>12
<1>14. QED
  BY <1>5, <1>6, <1>10, <1>13 DEF N, S

\* An item of a sequence, as one step of taking it or leaving it out.
Taking(e) ==
  [parts \in SUBSET Seq(Result) |-> parts \cup {Append(p, e) : p \in parts}]

Keeping(s) == [n \in 1 .. Len(s) |-> Taking(s[n])]

(* What can be left of a sequence grows with each of its items. *)
LEMMA PartsIterate ==
  ASSUME NEW s \in Seq(Result)
  PROVE  \E parts : /\ IsIteration(parts, Len(s), SUBSET Seq(Result), {<<>>}, Keeping(s))
                    /\ PartsOf(s) = parts[Len(s)]
<1> DEFINE N == Len(s)
           S == SUBSET Seq(Result)
           more(p, n) == p \cup {Append(q, s[n]) : q \in p}
           step == [n \in 1 .. N |-> [p \in S |-> more(p, n)]]
           IsUpTo(f) == f = [n \in 0 .. N |->
                               IF n = 0 THEN {<<>>}
                               ELSE more(f[n - 1], n)]
           upTo == CHOOSE f : IsUpTo(f)
<1>1. N \in Nat /\ \A n \in 1 .. N : s[n] \in Result
  OBVIOUS
<1>2. \A n \in 1 .. N, p \in S : more(p, n) \in S
  BY <1>1
<1>3. step \in [1 .. N -> [S -> S]] /\ {<<>>} \in S
  <2>1. {<<>>} \in S
    OBVIOUS
  <2> HIDE DEF more, S, N
  <2>2. QED
    BY <1>2, <2>1
<1>4. \A n \in 1 .. N : \A p \in S : step[n][p] = more(p, n)
  BY DEF step
<1>5. step = Keeping(s)
  BY DEF Keeping, Taking
<1> HIDE DEF N, S, step
<1>6. PICK f : IsIteration(f, N, S, {<<>>}, step)
  BY <1>1, <1>3, Iteration
<1>7. \A n \in 1 .. N : f[n] = more(f[n - 1], n)
  <2>1. \A n \in 1 .. N : n - 1 \in 0 .. N
    BY <1>1
  <2> HIDE DEF more
  <2>2. QED
    BY <1>4, <1>6, <2>1 DEF IsIteration
<1>8. IsUpTo(f)
  <2>1. \A n \in 0 .. N : n = 0 \/ n \in 1 .. N
    BY <1>1
  <2>2. \A n \in 0 .. N : f[n] = IF n = 0 THEN {<<>>}
                               ELSE more(f[n - 1], n)
    BY <1>6, <1>7, <2>1 DEF IsIteration
  <2>3. f = [n \in 0 .. N |-> f[n]]
    BY <1>6 DEF IsIteration
  <2>4. QED
    BY <2>2, <2>3
<1>9. IsUpTo(upTo)
  <2> HIDE DEF IsUpTo
  <2>1. QED
    BY <1>8
<1>10. PartsOf(s) = upTo[N]
  BY DEF PartsOf, N
<1> HIDE DEF upTo
<1>11. upTo[0] = {<<>>} /\ \A n \in 1 .. N : upTo[n] = more(upTo[n - 1], n)
  <2>1. 0 \in 0 .. N /\ \A n \in 1 .. N : n \in 0 .. N /\ n /= 0
    BY <1>1
  <2>2. QED
    BY <1>9, <2>1
<1> DEFINE T == {n \in Nat : n <= N => upTo[n] = f[n]}
<1>12. Nat \subseteq T
  <2>1. 0 \in T
    BY <1>6, <1>11 DEF IsIteration
  <2>2. ASSUME NEW n \in Nat, n \in T PROVE n + 1 \in T
    <3>1. SUFFICES ASSUME n + 1 <= N PROVE upTo[n + 1] = f[n + 1]
      OBVIOUS
    <3>2. n + 1 \in 1 .. N /\ (n + 1) - 1 = n /\ upTo[n] = f[n]
      BY <1>1, <2>2, <3>1
    <3>3. upTo[n + 1] = more(upTo[n], n + 1) /\ f[n + 1] = more(f[n], n + 1)
      BY <1>7, <1>11, <3>2
    <3>4. QED
      BY <3>2, <3>3
  <2> HIDE DEF T
  <2>3. QED
    BY <2>1, <2>2, NatInd
<1>13. upTo[N] = f[N]
  BY <1>1, <1>12
<1>14. QED
  BY <1>5, <1>6, <1>10, <1>13 DEF N, S

(* An outcome is told by the event that closes a phase run, and by no other. *)
LEMMA RecordedAppend ==
  ASSUME NEW events \in Seq(LifecycleEvent), NEW e \in LifecycleEvent
  PROVE  /\ Recorded(events) \in Seq(Result)
         /\ Recorded(Append(events, e))
              = IF Closing(e) THEN Append(Recorded(events), Told(e)) ELSE Recorded(events)
<1> DEFINE more == Append(events, e)
           N == Len(events)
           S == Seq(Result)
<1>1. /\ more \in Seq(LifecycleEvent) /\ Len(more) = N + 1 /\ N \in Nat
      /\ \A n \in 1 .. N : more[n] = events[n]
      /\ more[N + 1] = e
  BY AppendFacts
<1> HIDE DEF more
<1>2. PICK f : IsIteration(f, N, S, <<>>, Telling(events)) /\ Recorded(events) = f[N]
  BY RecordedIterates
<1>3. PICK g : IsIteration(g, N + 1, S, <<>>, Telling(more)) /\ Recorded(more) = g[N + 1]
  BY <1>1, RecordedIterates
<1>4. \A n \in 1 .. N : Telling(more)[n] = Telling(events)[n]
  <2>1. \A n \in 1 .. N : n \in 1 .. N + 1 /\ more[n] = events[n]
    BY <1>1
  <2>2. \A n \in 1 .. N : n \in 1 .. Len(more) /\ n \in 1 .. Len(events)
    BY <1>1, <2>1
  <2> HIDE DEF N
  <2>3. QED
    BY <2>1, <2>2 DEF Telling
<1>5. g[N + 1] = Telling(more)[N + 1][f[N]]
  <2> HIDE DEF N, S
  <2>1. QED
    BY <1>1, <1>2, <1>3, <1>4, IterationGoesOn
<1>6. f[N] \in S
  BY <1>1, <1>2 DEF IsIteration
<1>7. Telling(more)[N + 1][f[N]] = IF Closing(e) THEN Append(f[N], Told(e)) ELSE f[N]
  BY <1>1, <1>6 DEF Telling
<1>8. QED
  BY <1>2, <1>3, <1>5, <1>6, <1>7 DEF more

(* What can be left of a sequence can be left of a longer one, with its last item or not. *)
LEMMA PartsAppend ==
  ASSUME NEW s \in Seq(Result), NEW e \in Result
  PROVE  PartsOf(Append(s, e)) = PartsOf(s) \cup {Append(p, e) : p \in PartsOf(s)}
<1> DEFINE more == Append(s, e)
           N == Len(s)
           S == SUBSET Seq(Result)
<1>1. /\ more \in Seq(Result) /\ Len(more) = N + 1 /\ N \in Nat
      /\ \A n \in 1 .. N : more[n] = s[n]
      /\ more[N + 1] = e
  BY AppendFacts
<1> HIDE DEF more
<1>2. PICK f : IsIteration(f, N, S, {<<>>}, Keeping(s)) /\ PartsOf(s) = f[N]
  BY PartsIterate
<1>3. PICK g : IsIteration(g, N + 1, S, {<<>>}, Keeping(more)) /\ PartsOf(more) = g[N + 1]
  BY <1>1, PartsIterate
<1>4. \A n \in 1 .. N : Keeping(more)[n] = Keeping(s)[n]
  <2>1. \A n \in 1 .. N : n \in 1 .. N + 1 /\ more[n] = s[n]
    BY <1>1
  <2>2. \A n \in 1 .. N : n \in 1 .. Len(more) /\ n \in 1 .. Len(s)
    BY <1>1, <2>1
  <2> HIDE DEF N
  <2>3. QED
    BY <2>1, <2>2 DEF Keeping
<1>5. g[N + 1] = Keeping(more)[N + 1][f[N]]
  <2> HIDE DEF N, S
  <2>1. QED
    BY <1>1, <1>2, <1>3, <1>4, IterationGoesOn
<1>6. f[N] \in S
  BY <1>1, <1>2 DEF IsIteration
<1>7. Keeping(more)[N + 1][f[N]] = f[N] \cup {Append(p, e) : p \in f[N]}
  BY <1>1, <1>6 DEF Keeping, Taking
<1>8. QED
  BY <1>2, <1>3, <1>5, <1>7 DEF more

(* Nothing is told by an empty log, and it is part of anything. *)
LEMMA NothingRecorded == Recorded(<<>>) \in PartsOf(<<>>)
<1>1. <<>> \in Seq(LifecycleEvent) /\ <<>> \in Seq(Result) /\ Len(<<>>) = 0
  OBVIOUS
<1>2. Recorded(<<>>) = <<>>
  BY <1>1, RecordedIterates DEF IsIteration
<1>3. PartsOf(<<>>) = {<<>>}
  BY <1>1, PartsIterate DEF IsIteration
<1>4. QED
  BY <1>2, <1>3

(* Every step that tells an outcome is one with that outcome. *)
LEMMA InventsNothing ==
  ASSUME PlansAssumption, EngineAssumption, TypeOK, TypeOK', EngineInv, NothingInvented, EngineNext
  PROVE  NothingInvented'
<1>1. /\ log \in Seq(LifecycleEvent) /\ results \in Seq(Result) /\ results' \in Seq(Result)
  BY DEF EngineInv, EngineTypeOK, TypeOK, LifecycleEvent
<1>2. ASSUME NEW name, NEW outcome, Record(name, outcome)
      PROVE  /\ [phase |-> name, outcome |-> outcome] \in Result
             /\ PartsOf(results') = PartsOf(results)
                  \cup {Append(p, [phase |-> name, outcome |-> outcome]) : p \in PartsOf(results)}
  <2> DEFINE r == [phase |-> name, outcome |-> outcome]
  <2>1. results' = Append(results, r)
    BY <1>2 DEF Record
  <2>2. results'[Len(results) + 1] = r /\ Len(results) + 1 \in DOMAIN results'
    BY <1>1, <2>1
  <2>3. r \in Result
    BY <1>1, <2>2
  <2> HIDE DEF r
  <2>4. PartsOf(results') = PartsOf(results) \cup {Append(p, r) : p \in PartsOf(results)}
    BY <1>1, <2>1, <2>3, PartsAppend
  <2>5. QED
    BY <2>3, <2>4 DEF r
<1>3. ASSUME NEW kind \in Lifecycle, Emits(kind), cursor <= NumPhases
      PROVE  Recorded(log') = IF kind \in {"PhaseCompleted", "PhaseFailed"}
                              THEN Append(Recorded(log), Told(Event(kind))) ELSE Recorded(log)
  <2>1. Event(kind) \in LifecycleEvent /\ Event(kind).kind = kind
    BY <1>3, EventType DEF EngineInv, Event
  <2>2. QED
    BY <1>1, <1>3, <2>1, RecordedAppend DEF Emits, Closing
<1>4. PhaseSucceeds => Record(plan.names[cursor], "Success") /\ cursor <= NumPhases
  BY DEF PhaseSucceeds, Iterates
<1>5. PhaseFails => Record(plan.names[cursor], "Failed") /\ cursor <= NumPhases
  BY DEF PhaseFails, Stops, LoopsBack, Iterates
<1>6. /\ Told(Event("PhaseCompleted")) = [phase |-> plan.names[cursor], outcome |-> "Success"]
      /\ Told(Event("PhaseFailed")) = [phase |-> plan.names[cursor], outcome |-> "Failed"]
  BY DEF Told, Event
<1>7. Lifecycle = {"PhaseEntered", "PhaseStateChanged", "PhaseCompleted", "PhaseFailed"}
  BY DEF Lifecycle
<1>8. CASE Enters
  <2>1. cursor <= NumPhases /\ Emits("PhaseEntered") /\ results' = results
    BY <1>8 DEF Enters, Iterates, vars
  <2>2. Recorded(log') = Recorded(log)
    BY <1>3, <1>7, <2>1
  <2>3. QED
    BY <2>1, <2>2 DEF NothingInvented
<1>9. CASE Continues
  <2>1. cursor <= NumPhases /\ Emits("PhaseStateChanged") /\ results' = results
    BY <1>9 DEF Continues, Steps, vars, EngineInv
  <2>2. Recorded(log') = Recorded(log)
    BY <1>3, <1>7, <2>1
  <2>3. QED
    BY <2>1, <2>2 DEF NothingInvented
<1>10. CASE EntryLost \/ TransitionLost
  <2>1. PhaseFails /\ log' = log
    BY <1>10 DEF EntryLost, TransitionLost, EmitFails
  <2>2. QED
    BY <1>2, <1>5, <2>1 DEF NothingInvented
<1>11. CASE Completes
  <2>1. PhaseSucceeds /\ (Emits("PhaseCompleted") \/ log' = log)
    BY <1>11 DEF Completes, EmitFails
  <2>2. Recorded(log') \in
          {Recorded(log), Append(Recorded(log), [phase |-> plan.names[cursor], outcome |-> "Success"])}
    BY <1>3, <1>4, <1>6, <1>7, <2>1
  <2>3. QED
    BY <1>2, <1>4, <2>1, <2>2 DEF NothingInvented
<1>12. CASE Fails \/ BudgetExceeded
  <2>1. PhaseFails /\ (Emits("PhaseFailed") \/ log' = log)
    BY <1>12 DEF Fails, BudgetExceeded, EmitFails
  <2>2. Recorded(log') \in
          {Recorded(log), Append(Recorded(log), [phase |-> plan.names[cursor], outcome |-> "Failed"])}
    BY <1>3, <1>5, <1>6, <1>7, <2>1
  <2>3. QED
    BY <1>2, <1>5, <2>1, <2>2 DEF NothingInvented
<1>13. CASE (CapExceeded \/ Finishes) /\ UNCHANGED engineVars
  <2>1. log' = log /\ (Record(WorkflowMark, "Failed") \/ results' = results)
    BY <1>13 DEF CapExceeded, Finishes, engineVars
  <2>2. QED
    BY <1>2, <2>1 DEF NothingInvented
<1>14. QED
  BY <1>8, <1>9, <1>10, <1>11, <1>12, <1>13 DEF EngineNext

(* Whichever events are lost, the log tells no outcome that did not happen: what it        *)
(* records is, in order, part of what run returns.                                     *)
THEOREM LogTellsNoTale == EngineSpec => []NothingInvented
<1>1. EngineInit => NothingInvented
  BY NothingRecorded DEF EngineInit, Init, NothingInvented
<1>2. TypeOK /\ TypeOK' /\ EngineInv /\ NothingInvented /\ [EngineNext]_<<vars, engineVars>>
        => NothingInvented'
  <2>1. ASSUME TypeOK, TypeOK', EngineInv, NothingInvented, EngineNext PROVE NothingInvented'
    BY <2>1, InventsNothing, PlansAssumption, EngineAssumption
  <2>2. ASSUME NothingInvented, UNCHANGED <<vars, engineVars>> PROVE NothingInvented'
    BY <2>2 DEF vars, engineVars, NothingInvented
  <2>3. QED
    BY <2>1, <2>2
<1>3. QED
  BY <1>1, <1>2, LoopTypeCorrect, EngineInvariant, PTL DEF EngineSpec
=============================================================================
