--------------------------- MODULE WorkflowProofs ---------------------------
(***************************************************************************)
(* Proofs about Workflow, for every list of candidates, every number of store  *)
(* errors and every number of runs: what is released is sound, no gate is         *)
(* slipped, nothing is made twice, placements and tracks never collide, a run     *)
(* on its own releases only complete designs, a phase that has succeeded makes     *)
(* nothing when it is re-entered, and no failure is without a reason on record.    *)
(***************************************************************************)
EXTENDS DesignProofs, Layout

-----------------------------------------------------------------------------
(* The invariant *)

\* The phases of the default workflow.
NumDefault == 15

\* No defect is open, and the design lowers to manufacture.
Sound(d) == OpenBlocking(d) = {} /\ ManufacturingIr(d)

\* Every run is of the last phases of the default workflow.
PlanIsTail ==
  /\ plan.names \in Seq(DefaultNames)
  /\ NumPhases \in 1 .. NumDefault
  /\ \A k \in 1 .. NumPhases : plan.names[k] = PhaseNames[NumDefault - NumPhases + k]

\* Once a design is released, the run has passed its last phase, and no caller goes on.
ReleaseInv ==
  /\ plan = [names |-> plan.names, loopbacks |-> plan.loopbacks]
  /\ PlanIsTail
  /\ cursor \in Nat \ {0}
  /\ released => cursor > NumPhases /\ Sound(design)

(* The fifteen phases have fifteen names, the last of which releases. *)
LEMMA DefaultNamesShape ==
  /\ PhaseNames \in Seq(DefaultNames) /\ Len(PhaseNames) = NumDefault
  /\ \A k \in 1 .. NumDefault : PhaseNames[k] = "ManufacturingGeneration" => k = NumDefault
<1>1. Len(PhaseNames) = NumDefault
  BY DEF PhaseNames, NumDefault
<1>2. PhaseNames \in Seq(DefaultNames)
  <2>1. PhaseNames = [k \in 1 .. 15 |-> PhaseNames[k]] /\ DOMAIN PhaseNames = 1 .. 15
    BY DEF PhaseNames
  <2>2. \A k \in 1 .. 15 : PhaseNames[k] \in DefaultNames
    BY <2>1 DEF DefaultNames, ToSet
  <2>3. PhaseNames \in [1 .. 15 -> DefaultNames]
    BY <2>1, <2>2
  <2>4. QED
    BY <2>3, SeqDef
<1>3. \A k \in 1 .. NumDefault : PhaseNames[k] = "ManufacturingGeneration" => k = NumDefault
  <2>1. SUFFICES ASSUME NEW k \in 1 .. 14 PROVE PhaseNames[k] /= "ManufacturingGeneration"
    BY DEF NumDefault
  <2>2. \/ k = 1 \/ k = 2 \/ k = 3 \/ k = 4 \/ k = 5 \/ k = 6 \/ k = 7
        \/ k = 8 \/ k = 9 \/ k = 10 \/ k = 11 \/ k = 12 \/ k = 13 \/ k = 14
    OBVIOUS
  <2>3. QED
    BY <2>2 DEF PhaseNames
<1>4. QED
  BY <1>1, <1>2, <1>3

(* A design that is released is not worked on: no phase is under the cursor. *)
LEMMA NothingAfterRelease ==
  ASSUME ReleaseInv, released
  PROVE  ~GivenUp /\ \A phase : ~At(phase)
BY DEF ReleaseInv, PlanIsTail, GivenUp, At

(* A design that does not change stays sound. *)
LEMMA SoundKept ==
  ASSUME UNCHANGED designVars
  PROVE  Sound(design)' <=> Sound(design)
<1>1. design' = design /\ candidates' = candidates
  BY DEF designVars
<1>2. QED
  BY <1>1 DEF Sound, OpenBlocking, ManufacturingIr, BomIr, PcbIr, Covers, ClassOf

(* A run that does not change is still of the last phases. *)
LEMMA TailKept ==
  ASSUME PlanIsTail, plan' = plan
  PROVE  PlanIsTail' /\ NumPhases' = NumPhases
BY DEF PlanIsTail, NumPhases

(* The cursor moves to a phase, or past it. *)
LEMMA CursorMoves ==
  ASSUME ReleaseInv, PhaseSucceeds \/ PhaseFails
  PROVE  plan' = plan /\ cursor' \in Nat \ {0}
<1>1. DOMAIN plan.names = 1 .. NumPhases
  BY DEF ReleaseInv, PlanIsTail, NumPhases
<1>2. CASE PhaseSucceeds
  BY <1>2 DEF PhaseSucceeds, ReleaseInv
<1>3. CASE PhaseFails
  BY <1>1, <1>3 DEF PhaseFails, Stops, LoopsBack, Positions, ReleaseInv
<1>4. QED
  BY <1>2, <1>3

(* A step that neither releases nor has the released to work on. *)
LEMMA UnreleasedStep ==
  ASSUME ReleaseInv, ~released, released' = released, plan' = plan, cursor' \in Nat \ {0}
  PROVE  ReleaseInv'
BY DEF ReleaseInv, PlanIsTail, NumPhases

(* A step that changes nothing that the invariant is about. *)
LEMMA SameReleaseInv ==
  ASSUME ReleaseInv, UNCHANGED <<plan, cursor, released>>, UNCHANGED designVars
  PROVE  ReleaseInv'
<1>1. PlanIsTail' /\ NumPhases' = NumPhases /\ (Sound(design)' <=> Sound(design))
  BY TailKept, SoundKept DEF ReleaseInv
<1>2. QED
  BY <1>1 DEF ReleaseInv

(* A planning phase, or a gate. *)
LEMMA PhaseRunStep ==
  ASSUME ReleaseInv, NEW phase, NEW requests, NEW passes,
         PhaseRun(phase, requests, passes)
  PROVE  ReleaseInv'
<1>1. ~released
  BY NothingAfterRelease DEF PhaseRun
<1>2. released' = released /\ (PhaseSucceeds \/ PhaseFails)
  BY DEF PhaseRun, Interrupted, runVars
<1>3. QED
  BY <1>1, <1>2, CursorMoves, UnreleasedStep

(* The agent's phase. *)
LEMMA RequirementPlanningStep ==
  ASSUME ReleaseInv, RequirementPlanning
  PROVE  ReleaseInv'
<1>1. ~released
  BY NothingAfterRelease DEF RequirementPlanning
<1>2. released' = released /\ (PhaseSucceeds \/ PhaseFails)
  BY DEF RequirementPlanning
<1>3. QED
  BY <1>1, <1>2, CursorMoves, UnreleasedStep

(* The global gate: what it releases is sound, and the run has passed its last phase. *)
LEMMA ReleaseStep ==
  ASSUME ReleaseInv, ManufacturingGeneration
  PROVE  ReleaseInv'
<1>1. ~released
  BY NothingAfterRelease DEF ManufacturingGeneration
<1>2. CASE released' = released /\ (PhaseSucceeds \/ PhaseFails)
  BY <1>1, <1>2, CursorMoves, UnreleasedStep
<1>3. CASE /\ Sound(design) /\ released' = TRUE /\ PhaseSucceeds /\ UNCHANGED designVars
  <2>1. cursor <= NumPhases /\ plan.names[cursor] = "ManufacturingGeneration"
    BY DEF ManufacturingGeneration, At
  <2>2. cursor \in 1 .. NumPhases /\ NumPhases \in 1 .. NumDefault /\ NumDefault \in Nat
    BY <2>1 DEF ReleaseInv, PlanIsTail, NumDefault
  <2>3. PhaseNames[NumDefault - NumPhases + cursor] = "ManufacturingGeneration"
    BY <2>1, <2>2 DEF ReleaseInv, PlanIsTail
  <2>4. NumDefault - NumPhases + cursor \in 1 .. NumDefault
    BY <2>2
  <2>5. cursor = NumPhases
    BY <2>2, <2>3, <2>4, DefaultNamesShape
  <2>6. plan' = plan /\ cursor' = NumPhases + 1
    BY <1>3, <2>5 DEF PhaseSucceeds
  <2>7. cursor' > NumPhases' /\ PlanIsTail' /\ cursor' \in Nat \ {0}
    BY <2>2, <2>6, TailKept DEF ReleaseInv
  <2>8. Sound(design)'
    BY <1>3, SoundKept
  <2>9. QED
    BY <2>6, <2>7, <2>8 DEF ReleaseInv
<1>4. QED
  BY <1>2, <1>3 DEF ManufacturingGeneration, Interrupted, Sound, runVars

(* The caller runs phases again: only of a run that gave up, and so released nothing. *)
LEMMA RunAgainStep ==
  ASSUME ReleaseInv, NEW i \in Positions, RunAgain(i)
  PROVE  ReleaseInv'
<1> DEFINE names == plan.names
           n == NumPhases
           rest == SubSeq(names, i, n)
<1>1. ~released /\ released' = released
  BY NothingAfterRelease DEF RunAgain
<1>2. /\ names \in Seq(DefaultNames) /\ n \in 1 .. NumDefault /\ n = Len(names) /\ i \in 1 .. n
      /\ \A k \in 1 .. n : names[k] = PhaseNames[NumDefault - n + k]
  BY DEF ReleaseInv, PlanIsTail, Positions, NumPhases
<1>3. /\ rest \in Seq(DefaultNames) /\ Len(rest) = n - i + 1
      /\ \A k \in 1 .. n - i + 1 : rest[k] = names[i + k - 1]
  BY <1>2, SubSeqProperties
<1>4. plan' = [names |-> rest, loopbacks |-> plan.loopbacks] /\ cursor' = 1
  <2>1. plan = [names |-> plan.names, loopbacks |-> plan.loopbacks]
    BY DEF ReleaseInv
  <2>2. plan' = [plan EXCEPT !.names = rest] /\ cursor' = 1
    BY DEF RunAgain
  <2> HIDE DEF rest
  <2>3. QED
    BY <2>1, <2>2
<1> HIDE DEF rest, names, n
<1>5. NumPhases' = n - i + 1 /\ plan'.names = rest
  BY <1>3, <1>4 DEF NumPhases
<1>6. ASSUME NEW k \in 1 .. n - i + 1
      PROVE  rest[k] = PhaseNames[NumDefault - (n - i + 1) + k]
  <2>1. /\ i + k - 1 \in 1 .. n
        /\ NumDefault - n + (i + k - 1) = NumDefault - (n - i + 1) + k
    BY <1>2 DEF NumDefault
  <2>2. QED
    BY <1>2, <1>3, <2>1
<1>7. PlanIsTail'
  <2>1. NumPhases' \in 1 .. NumDefault
    <3>1. n \in 1 .. 15 /\ i \in 1 .. n
      BY <1>2 DEF NumDefault
    <3>2. n - i + 1 \in 1 .. 15
      BY <3>1
    <3>3. QED
      BY <1>5, <3>2 DEF NumDefault
  <2>2. ASSUME NEW k \in 1 .. NumPhases'
        PROVE  plan'.names[k] = PhaseNames[NumDefault - NumPhases' + k]
    <3>1. rest[k] = PhaseNames[NumDefault - (n - i + 1) + k]
      BY <1>5, <1>6
    <3>2. QED
      BY <1>5, <3>1
  <2>3. QED
    BY <1>3, <1>5, <2>1, <2>2 DEF PlanIsTail
<1>8. plan' = [names |-> plan'.names, loopbacks |-> plan'.loopbacks]
  BY <1>4
<1>9. QED
  BY <1>1, <1>4, <1>7, <1>8 DEF ReleaseInv

(* Every step keeps it. *)
LEMMA ReleaseInvStep ==
  ASSUME ReleaseInv, WorkflowNext
  PROVE  ReleaseInv'
<1>1. CASE RequirementPlanning
  BY <1>1, RequirementPlanningStep
<1>2. CASE ManufacturingGeneration
  BY <1>2, ReleaseStep
<1>3. ASSUME NEW phase, NEW requests, NEW passes, PhaseRun(phase, requests, passes)
      PROVE  ReleaseInv'
  BY <1>3, PhaseRunStep
<1>4. CASE Finishes /\ UNCHANGED <<designVars, runVars>>
  BY <1>4, SameReleaseInv DEF Finishes, runVars
<1>5. ASSUME NEW violation, GrantWaiver(violation) PROVE ReleaseInv'
  <2>1. ~released
    BY <1>5, NothingAfterRelease DEF GrantWaiver
  <2>2. released' = released /\ plan' = plan /\ cursor' = cursor
    BY <1>5 DEF GrantWaiver, vars, runVars
  <2>3. QED
    BY <2>1, <2>2, UnreleasedStep DEF ReleaseInv
<1>6. ASSUME NEW i \in Positions, RunAgain(i) PROVE ReleaseInv'
  BY <1>6, RunAgainStep
<1>7. CASE \/ ConstraintVerification \/ ErcVerification \/ BomVerification
           \/ DrcVerification \/ DfmVerification \/ EmcAnalysis
  BY <1>3, <1>7 DEF Verifying, ConstraintVerification, ErcVerification, BomVerification,
                    DrcVerification, DfmVerification, EmcAnalysis
<1>8. CASE \/ EngineeringAnalysis \/ ConstraintExtraction \/ SchematicPlanning \/ BomPlanning
           \/ PcbFloorPlanning \/ ComponentPlacement \/ RoutingPlanning
  BY <1>3, <1>8 DEF EngineeringAnalysis, ConstraintExtraction, SchematicPlanning,
                    BomPlanning, PcbFloorPlanning, ComponentPlacement, RoutingPlanning
<1>9. QED
  BY <1>1, <1>2, <1>4, <1>5, <1>6, <1>7, <1>8 DEF WorkflowNext

(* The first run is of all fifteen phases. *)
LEMMA ReleaseInvInit ==
  ASSUME WorkflowInit
  PROVE  ReleaseInv
<1>1. SubSeq(PhaseNames, 1, Len(PhaseNames)) = PhaseNames
  BY DefaultNamesShape DEF NumDefault
<1>2. plan = [names |-> PhaseNames, loopbacks |-> DefaultLoopBacks]
  BY <1>1 DEF WorkflowInit, PlanFrom
<1>3. PlanIsTail
  <2>1. plan.names = PhaseNames /\ NumPhases = 15
    BY <1>2, DefaultNamesShape DEF NumPhases, NumDefault
  <2>2. \A k \in 1 .. 15 : NumDefault - 15 + k = k
    BY DEF NumDefault
  <2>3. QED
    BY <2>1, <2>2, DefaultNamesShape DEF PlanIsTail, NumDefault
<1>4. QED
  BY <1>2, <1>3 DEF ReleaseInv, WorkflowInit, Init

(* The invariant holds throughout. *)
LEMMA ReleaseInvariant == WorkflowSpec => []ReleaseInv
<1>1. WorkflowInit => ReleaseInv
  BY ReleaseInvInit
<1>2. ReleaseInv /\ [WorkflowNext]_workflowVars => ReleaseInv'
  <2>1. ASSUME ReleaseInv, UNCHANGED workflowVars PROVE ReleaseInv'
    BY <2>1, SameReleaseInv DEF workflowVars, vars, runVars
  <2>2. QED
    BY <2>1, ReleaseInvStep
<1>3. QED
  BY <1>1, <1>2, PTL DEF WorkflowSpec

-----------------------------------------------------------------------------
(* The invariant of the gates: what a gate that has been passed would find is   *)
(* on record, for no later phase makes what it reads, and no edge skips it       *)

(* Where the fifteen phases are in the default workflow. *)
LEMMA PhasePlaces ==
  ASSUME NEW k \in 1 .. NumDefault
  PROVE  /\ PhaseNames[k] = "RequirementPlanning" => k = 1
         /\ PhaseNames[k] = "EngineeringAnalysis" => k = 2
         /\ PhaseNames[k] = "ConstraintExtraction" <=> k = 3
         /\ PhaseNames[k] = "ConstraintVerification" <=> k = 4
         /\ PhaseNames[k] = "SchematicPlanning" <=> k = 5
         /\ PhaseNames[k] = "ErcVerification" <=> k = 6
         /\ PhaseNames[k] = "BomPlanning" <=> k = 7
         /\ PhaseNames[k] = "BomVerification" <=> k = 8
         /\ PhaseNames[k] = "PcbFloorPlanning" => k = 9
         /\ PhaseNames[k] = "ComponentPlacement" <=> k = 10
         /\ PhaseNames[k] = "RoutingPlanning" <=> k = 11
         /\ PhaseNames[k] = "DrcVerification" <=> k = 12
         /\ PhaseNames[k] = "DfmVerification" <=> k = 13
         /\ PhaseNames[k] = "EmcAnalysis" <=> k = 14
         /\ PhaseNames[k] = "ManufacturingGeneration" => k = 15
         /\ PhaseNames[k] \in Gates <=> k \in {4, 6, 8, 12, 13, 14}
<1>1. \/ k = 1 \/ k = 2 \/ k = 3 \/ k = 4 \/ k = 5 \/ k = 6 \/ k = 7
      \/ k = 8 \/ k = 9 \/ k = 10 \/ k = 11 \/ k = 12 \/ k = 13 \/ k = 14 \/ k = 15
  BY DEF NumDefault
<1>2. /\ PhaseNames[1] = "RequirementPlanning" /\ PhaseNames[2] = "EngineeringAnalysis"
      /\ PhaseNames[3] = "ConstraintExtraction" /\ PhaseNames[4] = "ConstraintVerification"
      /\ PhaseNames[5] = "SchematicPlanning" /\ PhaseNames[6] = "ErcVerification"
      /\ PhaseNames[7] = "BomPlanning" /\ PhaseNames[8] = "BomVerification"
      /\ PhaseNames[9] = "PcbFloorPlanning" /\ PhaseNames[10] = "ComponentPlacement"
      /\ PhaseNames[11] = "RoutingPlanning" /\ PhaseNames[12] = "DrcVerification"
      /\ PhaseNames[13] = "DfmVerification" /\ PhaseNames[14] = "EmcAnalysis"
      /\ PhaseNames[15] = "ManufacturingGeneration"
  BY DEF PhaseNames
<1>3. QED
  BY <1>1, <1>2 DEF Gates

\* The place in the default workflow of the phase under the cursor.
Place == NumDefault - NumPhases + cursor

\* What a gate before the cursor would find is on record.
GatesBehind ==
  \A k \in 1 .. NumDefault :
    k < Place /\ PhaseNames[k] \in Gates =>
      ToSet(Findings(PhaseNames[k])) \subseteq Made("violation")

\* The gates that have been passed hold, and what that rests on.
WorkflowInv ==
  /\ ReleaseInv
  /\ plan.loopbacks = DefaultLoopBacks
  /\ DesignLists
  /\ WorkflowTypeOK
  /\ GatesBehind

(* The phase under the cursor is at its place. *)
LEMMA AtPlace ==
  ASSUME ReleaseInv, NEW phase, At(phase)
  PROVE  Place \in 1 .. NumDefault /\ PhaseNames[Place] = phase
<1>1. cursor \in 1 .. NumPhases /\ NumPhases \in 1 .. NumDefault /\ NumDefault \in Nat
  BY DEF ReleaseInv, PlanIsTail, At, NumDefault
<1>2. Place \in 1 .. NumDefault
  BY <1>1 DEF Place
<1>3. QED
  BY <1>1, <1>2 DEF ReleaseInv, PlanIsTail, At, Place

(* All six loop-back edges lead back. *)
LEMMA EdgesLeadBack ==
  ASSUME NEW e \in DOMAIN DefaultLoopBacks, NEW j \in 1 .. NumDefault, NEW k \in 1 .. NumDefault,
         PhaseNames[k] = DefaultLoopBacks[e].from, PhaseNames[j] = DefaultLoopBacks[e].to
  PROVE  j < k
<1>1. e = 1 \/ e = 2 \/ e = 3 \/ e = 4 \/ e = 5 \/ e = 6
  BY DEF DefaultLoopBacks
<1>2. /\ DefaultLoopBacks[1] = Edge("ConstraintVerification", "ConstraintExtraction")
      /\ DefaultLoopBacks[2] = Edge("ErcVerification", "SchematicPlanning")
      /\ DefaultLoopBacks[3] = Edge("BomVerification", "BomPlanning")
      /\ DefaultLoopBacks[4] = Edge("DrcVerification", "RoutingPlanning")
      /\ DefaultLoopBacks[5] = Edge("DfmVerification", "ComponentPlacement")
      /\ DefaultLoopBacks[6] = Edge("EmcAnalysis", "RoutingPlanning")
  BY DEF DefaultLoopBacks
<1>3. QED
  BY <1>1, <1>2, PhasePlaces DEF Edge

(* A phase that fails does not move the cursor forward. *)
LEMMA FailureMoves ==
  ASSUME ReleaseInv, plan.loopbacks = DefaultLoopBacks, PhaseFails
  PROVE  plan' = plan /\ cursor' \in 1 .. cursor
<1>1. /\ cursor \in 1 .. NumPhases /\ NumPhases \in 1 .. NumDefault /\ NumDefault \in Nat
      /\ Positions = 1 .. NumPhases
      /\ \A k \in 1 .. NumPhases : plan.names[k] = PhaseNames[NumDefault - NumPhases + k]
  BY DEF PhaseFails, Stops, LoopsBack, Iterates, ReleaseInv, PlanIsTail, NumDefault, NumPhases,
         Positions
<1>2. CASE Stops
  BY <1>1, <1>2 DEF Stops
<1>3. ASSUME NEW e \in Edges, LoopsBack(e) PROVE plan' = plan /\ cursor' \in 1 .. cursor
  <2>1. PICK i \in Positions : IsIndexOf(i, plan.loopbacks[e].to) /\ cursor' = i
    BY <1>3 DEF LoopsBack
  <2>2. plan' = plan /\ plan.loopbacks[e].from = plan.names[cursor]
    BY <1>3 DEF LoopsBack, Recoveries
  <2>3. e \in DOMAIN DefaultLoopBacks
    BY DEF Edges
  <2>4. plan.names[i] = DefaultLoopBacks[e].to
    BY <2>1 DEF IsIndexOf
  <2>5. /\ NumDefault - NumPhases + i \in 1 .. NumDefault
        /\ NumDefault - NumPhases + cursor \in 1 .. NumDefault
    BY <1>1, <2>1
  <2>6. NumDefault - NumPhases + i < NumDefault - NumPhases + cursor
    BY <1>1, <2>1, <2>2, <2>3, <2>4, <2>5, EdgesLeadBack
  <2>7. QED
    BY <1>1, <2>1, <2>2, <2>6
<1>4. QED
  BY <1>2, <1>3 DEF PhaseFails

(* The place moves with the cursor. *)
LEMMA PlaceMoves ==
  ASSUME ReleaseInv, plan' = plan, cursor' \in 1 .. cursor \/ cursor' = cursor + 1
  PROVE  /\ Place \in Int /\ Place' \in Int
         /\ \/ cursor' \in 1 .. cursor /\ Place' <= Place
            \/ cursor' = cursor + 1 /\ Place' = Place + 1
<1> DEFINE n == NumPhases
<1>1. /\ n \in Int /\ cursor \in Int /\ cursor' \in Int
      /\ Place = 15 - n + cursor /\ Place' = 15 - n + cursor'
  BY DEF ReleaseInv, PlanIsTail, NumPhases, NumDefault, Place
<1> HIDE DEF n
<1>2. \A c, d \in Int : /\ d <= c => 15 - n + d <= 15 - n + c
                        /\ d = c + 1 => 15 - n + d = 15 - n + c + 1
                        /\ 15 - n + d \in Int
  BY <1>1
<1>3. CASE cursor' \in 1 .. cursor
  <2>1. cursor' <= cursor
    BY <1>1, <1>3
  <2>2. QED
    BY <1>1, <1>2, <1>3, <2>1
<1>4. CASE cursor' = cursor + 1
  BY <1>1, <1>2, <1>4
<1>5. QED
  BY <1>3, <1>4

(* A phase run that only makes items of kinds that no gate before it reads.      *)
LEMMA BehindKept ==
  ASSUME WorkflowInv, candidates' = candidates, plan' = plan,
         NEW kinds \in SUBSET DesignKinds, NEW requests, SendsOnly(requests, kinds),
         design' = Committed(requests),
         \A k \in 1 .. NumDefault :
           k < Place' /\ PhaseNames[k] \in Gates => Reads(PhaseNames[k]) \cap kinds = {},
         \/ cursor' \in 1 .. cursor
         \/ /\ cursor' = cursor + 1
            /\ PhaseNames[Place] \in Gates => requests = Raising(PhaseNames[Place])
  PROVE  DesignLists' /\ GatesBehind'
<1>1. /\ DOMAIN design' = DesignKinds
      /\ design' = [kind \in DesignKinds |-> design'[kind]]
      /\ \A kind \in DesignKinds :
           /\ IsList(design'[kind])
           /\ Made(kind)' = Made(kind) \cup {r.item : r \in {q \in ToSet(requests) : q.kind = kind}}
           /\ kind \notin kinds => design'[kind] = design[kind]
  <2>1. DesignLists
    BY DEF WorkflowInv
  <2>2. QED
    BY <2>1, CommittedFacts DEF Made
<1>2. DesignLists'
  BY <1>1 DEF DesignLists, IsList
<1>3. /\ Place \in Int /\ Place' \in Int
      /\ \/ Place' <= Place
         \/ Place' = Place + 1 /\ cursor' = cursor + 1
  BY PlaceMoves DEF WorkflowInv
<1>4. ASSUME NEW k \in 1 .. NumDefault, k < Place', PhaseNames[k] \in Gates
      PROVE  ToSet(Findings(PhaseNames[k])') \subseteq Made("violation")'
  <2>1. Reads(PhaseNames[k]) \cap kinds = {} /\ Reads(PhaseNames[k]) \subseteq DesignKinds
    BY <1>4 DEF Reads, DesignKinds
  <2>2. Same(Reads(PhaseNames[k]))
    BY <1>1, <2>1 DEF Same
  <2>3. Findings(PhaseNames[k])' = Findings(PhaseNames[k])
    BY <1>4, <2>2, SameFindings
  <2>4. Made("violation") \subseteq Made("violation")'
    BY <1>1 DEF DesignKinds
  <2>5. CASE k < Place
    <3>1. ToSet(Findings(PhaseNames[k])) \subseteq Made("violation")
      BY <1>4, <2>5 DEF WorkflowInv, GatesBehind
    <3>2. QED
      BY <2>3, <2>4, <3>1
  <2>6. CASE ~(k < Place)
    <3>1. k = Place /\ cursor' = cursor + 1
      BY <1>3, <1>4, <2>6
    <3>2. requests = Raising(PhaseNames[k])
      <4>1. cursor \in Nat
        BY DEF WorkflowInv, ReleaseInv
      <4>2. QED
        BY <1>4, <3>1, <4>1
    <3>3. ToSet(requests) = {[kind |-> "violation", item |-> f] :
                               f \in ToSet(Findings(PhaseNames[k])) \ Made("violation")}
      BY <1>4, <3>2, RaisingFacts DEF WorkflowInv
    <3> DEFINE new == {q \in ToSet(requests) : q.kind = "violation"}
    <3>4. \A f \in ToSet(Findings(PhaseNames[k])) \ Made("violation") :
            [kind |-> "violation", item |-> f] \in new
      BY <3>3
    <3>5. \A r \in new : r.item \in Made("violation")'
      BY <1>1 DEF DesignKinds
    <3> HIDE DEF new
    <3>6. \A f \in ToSet(Findings(PhaseNames[k])) \ Made("violation") : f \in Made("violation")'
      <4>1. SUFFICES ASSUME NEW f \in ToSet(Findings(PhaseNames[k])) \ Made("violation")
                     PROVE  f \in Made("violation")'
        OBVIOUS
      <4>2. [kind |-> "violation", item |-> f].item = f
        OBVIOUS
      <4>3. QED
        BY <3>4, <3>5, <4>2
    <3>7. QED
      BY <2>3, <2>4, <3>6
  <2>7. QED
    BY <2>5, <2>6
<1>5. GatesBehind'
  BY <1>4 DEF GatesBehind, ToSet
<1>6. QED
  BY <1>2, <1>5

\* The kinds that a phase makes.
Writes(phase) ==
  CASE phase = "RequirementPlanning" -> {"requirement"}
    [] phase = "EngineeringAnalysis" -> {"block"}
    [] phase = "ConstraintExtraction" -> {"constraint"}
    [] phase = "SchematicPlanning" -> {"component", "net"}
    [] phase = "BomPlanning" -> {"part", "line"}
    [] phase = "PcbFloorPlanning" -> {"board"}
    [] phase = "ComponentPlacement" -> {"placement"}
    [] phase = "RoutingPlanning" -> {"track"}
    [] phase \in Gates -> {"violation"}
    [] OTHER -> {}

(* No phase makes a kind that a gate at or before its place reads. *)
LEMMA WritesAhead ==
  ASSUME NEW p \in 1 .. NumDefault, NEW k \in 1 .. NumDefault, k <= p, PhaseNames[k] \in Gates
  PROVE  Reads(PhaseNames[k]) \cap Writes(PhaseNames[p]) = {}
<1>1. k \in Int /\ p \in Int
  BY DEF NumDefault
<1>2. CASE PhaseNames[p] \in Gates
  <2>1. Writes(PhaseNames[p]) = {"violation"}
    BY <1>2 DEF Writes, Gates
  <2>2. QED
    BY <2>1 DEF Reads, DesignKinds
<1>3. CASE PhaseNames[p] \notin Gates
  <2>1. k = 4 \/ k = 6 \/ k = 8 \/ k = 12 \/ k = 13 \/ k = 14
    BY PhasePlaces
  <2>2. /\ PhaseNames[4] = "ConstraintVerification" /\ PhaseNames[6] = "ErcVerification"
        /\ PhaseNames[8] = "BomVerification" /\ PhaseNames[12] = "DrcVerification"
        /\ PhaseNames[13] = "DfmVerification" /\ PhaseNames[14] = "EmcAnalysis"
        /\ PhaseNames[5] = "SchematicPlanning" /\ PhaseNames[7] = "BomPlanning"
        /\ PhaseNames[9] = "PcbFloorPlanning" /\ PhaseNames[10] = "ComponentPlacement"
        /\ PhaseNames[11] = "RoutingPlanning" /\ PhaseNames[15] = "ManufacturingGeneration"
    BY DEF PhaseNames
  <2>3. p = 5 \/ p = 7 \/ p = 9 \/ p = 10 \/ p = 11 \/ p = 15
    <3>1. /\ p \notin {4, 6, 8, 12, 13, 14} /\ p \in 1 .. 15 /\ 4 <= p
      BY <1>1, <1>3, <2>1, PhasePlaces DEF NumDefault
    <3>2. QED
      BY <3>1
  <2>4. /\ Writes(PhaseNames[5]) = {"component", "net"} /\ Writes(PhaseNames[7]) = {"part", "line"}
        /\ Writes(PhaseNames[9]) = {"board"} /\ Writes(PhaseNames[10]) = {"placement"}
        /\ Writes(PhaseNames[11]) = {"track"} /\ Writes(PhaseNames[15]) = {}
    BY <2>2 DEF Writes, Gates
  <2>5. /\ Reads(PhaseNames[4]) = {"requirement", "constraint"}
        /\ Reads(PhaseNames[6]) = {"component", "net"}
        /\ Reads(PhaseNames[8]) = {"component", "line"}
    BY <2>2 DEF Reads
  <2>6. CASE k = 4
    BY <2>3, <2>4, <2>5, <2>6
  <2>7. CASE k = 6
    <3>1. p /= 5
      BY <1>1, <2>7
    <3>2. QED
      BY <2>3, <2>4, <2>5, <2>7, <3>1
  <2>8. CASE k = 8
    <3>1. p /= 5 /\ p /= 7
      BY <1>1, <2>8
    <3>2. QED
      BY <2>3, <2>4, <2>5, <2>8, <3>1
  <2>9. CASE k = 12 \/ k = 13 \/ k = 14
    <3>1. p = 15
      BY <1>1, <2>3, <2>9
    <3>2. QED
      BY <2>4, <3>1
  <2>10. QED
    BY <2>1, <2>6, <2>7, <2>8, <2>9
<1>4. QED
  BY <1>2, <1>3

(* A phase run commits its requests, or the first of them and fails. *)
LEMMA RunSends ==
  ASSUME ReleaseInv, NEW phase, NEW requests, NEW kinds, NEW passes, SendsOnly(requests, kinds),
         PhaseRun(phase, requests, passes)
  PROVE  \E sent : /\ SendsOnly(sent, kinds)
                   /\ design' = Committed(sent)
                   /\ \/ PhaseSucceeds /\ passes /\ sent = requests
                      \/ PhaseFails
<1>1. CASE Interrupted(requests)
  <2>1. PICK k \in 0 .. Len(requests) : design' = Committed(SubSeq(requests, 1, k))
    BY <1>1 DEF Interrupted
  <2>2. SendsOnly(SubSeq(requests, 1, k), kinds)
    BY SendsPrefix
  <2>3. QED
    BY <1>1, <2>1, <2>2 DEF Interrupted
<1>2. CASE design' = Committed(requests) /\ (IF passes THEN PhaseSucceeds ELSE PhaseFails)
  BY <1>2
<1>3. QED
  BY <1>1, <1>2 DEF PhaseRun

(* A phase that makes neither requirements nor waivers keeps the types. *)
LEMMA TypesKept ==
  ASSUME WorkflowInv, candidates' = candidates, NEW kinds \in SUBSET DesignKinds, NEW sent,
         SendsOnly(sent, kinds), design' = Committed(sent), "requirement" \notin kinds,
         "waiver" \notin kinds, UNCHANGED <<released, runs>>, faults' \in 0 .. MaxFaults
  PROVE  WorkflowTypeOK'
<1>1. DesignLists /\ WorkflowTypeOK
  BY DEF WorkflowInv
<1>2. /\ DOMAIN design' = DesignKinds
      /\ \A kind \in DesignKinds :
           /\ ToSet(design[kind]) \subseteq ToSet(design'[kind])
           /\ kind \notin kinds => design'[kind] = design[kind]
  BY <1>1, CommittedFacts DEF Made
<1>3. /\ design'["requirement"] = design["requirement"] /\ design'["waiver"] = design["waiver"]
      /\ ToSet(design["violation"]) \subseteq ToSet(design'["violation"])
  BY <1>2 DEF DesignKinds
<1>4. QED
  BY <1>1, <1>2, <1>3 DEF WorkflowTypeOK

(* A phase run that makes what it may make keeps the invariant. *)
LEMMA RunKeeps ==
  ASSUME WorkflowInv, NEW phase, NEW requests, NEW passes, PhaseRun(phase, requests, passes),
         SendsOnly(requests, Writes(phase)), Writes(phase) \subseteq DesignKinds \ {"requirement", "waiver"},
         phase \in Gates => requests = Raising(phase)
  PROVE  WorkflowInv'
<1> DEFINE kinds == Writes(phase)
<1>1. ReleaseInv /\ plan.loopbacks = DefaultLoopBacks /\ WorkflowTypeOK
  BY DEF WorkflowInv
<1>2. PICK sent : /\ SendsOnly(sent, kinds)
                  /\ design' = Committed(sent)
                  /\ \/ PhaseSucceeds /\ passes /\ sent = requests
                     \/ PhaseFails
  BY <1>1, RunSends
<1>3. At(phase) /\ candidates' = candidates /\ UNCHANGED <<released, runs>>
  BY DEF PhaseRun, Interrupted, runVars
<1>4. faults' \in 0 .. MaxFaults
  <2>1. faults \in 0 .. MaxFaults /\ MaxFaults \in Nat
    BY <1>1, WorkflowAssumption DEF WorkflowTypeOK
  <2>2. CASE Interrupted(requests)
    BY <2>1, <2>2 DEF Interrupted
  <2>3. CASE UNCHANGED runVars
    BY <2>1, <2>3 DEF runVars
  <2>4. QED
    BY <2>2, <2>3 DEF PhaseRun
<1>5. Place \in 1 .. NumDefault /\ PhaseNames[Place] = phase
  BY <1>1, <1>3, AtPlace
<1>6. /\ plan' = plan
      /\ \/ cursor' \in 1 .. cursor
         \/ cursor' = cursor + 1 /\ sent = requests
  BY <1>1, <1>2, FailureMoves DEF PhaseSucceeds
<1>7. cursor \in Nat /\ NumPhases \in Nat /\ NumPhases' = NumPhases /\ NumDefault = 15
  BY <1>1, <1>6 DEF ReleaseInv, PlanIsTail, NumPhases, NumDefault
<1>8. Place' <= Place + 1 /\ Place' \in Int
  BY <1>1, <1>6, PlaceMoves
<1>9. \A k \in 1 .. NumDefault :
        k < Place' /\ PhaseNames[k] \in Gates => Reads(PhaseNames[k]) \cap kinds = {}
  <2>1. SUFFICES ASSUME NEW k \in 1 .. NumDefault, k < Place', PhaseNames[k] \in Gates
                 PROVE  Reads(PhaseNames[k]) \cap kinds = {}
    OBVIOUS
  <2>2. k <= Place
    <3>1. k \in Int /\ Place \in Int
      BY <1>5, <1>7
    <3>2. QED
      BY <1>8, <2>1, <3>1
  <2>3. QED
    BY <1>5, <2>1, <2>2, WritesAhead
<1>10. kinds \in SUBSET DesignKinds /\ "requirement" \notin kinds /\ "waiver" \notin kinds
  OBVIOUS
<1> HIDE DEF kinds
<1>11. \/ cursor' \in 1 .. cursor
       \/ /\ cursor' = cursor + 1
          /\ PhaseNames[Place] \in Gates => sent = Raising(PhaseNames[Place])
  BY <1>5, <1>6
<1>12. DesignLists' /\ GatesBehind'
  BY <1>2, <1>3, <1>6, <1>9, <1>10, <1>11, BehindKept
<1>13. WorkflowTypeOK'
  BY <1>2, <1>3, <1>4, <1>10, TypesKept
<1>14. ReleaseInv'
  BY <1>1, PhaseRunStep
<1>15. QED
  BY <1>1, <1>6, <1>12, <1>13, <1>14 DEF WorkflowInv

(* The planning phases after the agent's, and the gates. *)
LEMMA RunsKeep ==
  ASSUME WorkflowInv,
         \/ EngineeringAnalysis \/ ConstraintExtraction \/ SchematicPlanning \/ BomPlanning
         \/ PcbFloorPlanning \/ ComponentPlacement \/ RoutingPlanning
         \/ \E gate \in Gates : Verifying(gate)
  PROVE  WorkflowInv'
<1>1. DesignLists
  BY DEF WorkflowInv
<1>2. /\ Writes("EngineeringAnalysis") = {"block"}
      /\ Writes("ConstraintExtraction") = {"constraint"}
      /\ Writes("SchematicPlanning") = {"component", "net"}
      /\ Writes("BomPlanning") = {"part", "line"}
      /\ Writes("PcbFloorPlanning") = {"board"}
      /\ Writes("ComponentPlacement") = {"placement"}
      /\ Writes("RoutingPlanning") = {"track"}
      /\ \A gate \in Gates : Writes(gate) = {"violation"}
  BY DEF Writes, Gates
<1>3. \A phase \in {"EngineeringAnalysis", "ConstraintExtraction", "SchematicPlanning",
                    "BomPlanning", "PcbFloorPlanning", "ComponentPlacement",
                    "RoutingPlanning"} :
        phase \notin Gates /\ Writes(phase) \subseteq DesignKinds \ {"requirement", "waiver"}
  BY <1>2 DEF Gates, DesignKinds
<1>4. CASE EngineeringAnalysis
  <2>1. PhaseRun("EngineeringAnalysis", Analyzing, TRUE)
    BY <1>4 DEF EngineeringAnalysis
  <2>2. SendsOnly(Analyzing, Writes("EngineeringAnalysis"))
    BY <1>1, <1>2, PlanningSends
  <2>3. QED
    BY <1>3, <2>1, <2>2, RunKeeps
<1>5. CASE ConstraintExtraction
  <2>1. PhaseRun("ConstraintExtraction", Extracting, TRUE)
    BY <1>5 DEF ConstraintExtraction
  <2>2. SendsOnly(Extracting, Writes("ConstraintExtraction"))
    BY <1>1, <1>2, PlanningSends
  <2>3. QED
    BY <1>3, <2>1, <2>2, RunKeeps
<1>6. CASE SchematicPlanning
  <2>1. PhaseRun("SchematicPlanning", SchematicPlan, TRUE)
    BY <1>6 DEF SchematicPlanning
  <2>2. SendsOnly(SchematicPlan, Writes("SchematicPlanning"))
    BY <1>1, <1>2, PlanningSends
  <2>3. QED
    BY <1>3, <2>1, <2>2, RunKeeps
<1>7. CASE BomPlanning
  <2>1. PhaseRun("BomPlanning", BomPlan, BomIr(design'))
    BY <1>7 DEF BomPlanning
  <2>2. SendsOnly(BomPlan, Writes("BomPlanning"))
    BY <1>1, <1>2, PlanningSends
  <2>3. QED
    BY <1>3, <2>1, <2>2, RunKeeps
<1>8. CASE PcbFloorPlanning
  <2>1. PhaseRun("PcbFloorPlanning", FloorPlan, design'["board"] /= <<>>)
    BY <1>8 DEF PcbFloorPlanning
  <2>2. SendsOnly(FloorPlan, Writes("PcbFloorPlanning"))
    BY <1>1, <1>2, PlanningSends
  <2>3. QED
    BY <1>3, <2>1, <2>2, RunKeeps
<1>9. CASE ComponentPlacement
  <2>1. PhaseRun("ComponentPlacement", Placing, PcbIr(design'))
    BY <1>9 DEF ComponentPlacement
  <2>2. SendsOnly(Placing, Writes("ComponentPlacement"))
    BY <1>1, <1>2, PlanningSends
  <2>3. QED
    BY <1>3, <2>1, <2>2, RunKeeps
<1>10. CASE RoutingPlanning
  <2>1. PhaseRun("RoutingPlanning", Routing, PcbIr(design'))
    BY <1>10 DEF RoutingPlanning
  <2>2. SendsOnly(Routing, Writes("RoutingPlanning"))
    BY <1>1, <1>2, PlanningSends
  <2>3. QED
    BY <1>3, <2>1, <2>2, RunKeeps
<1>11. ASSUME NEW gate \in Gates, Verifying(gate) PROVE WorkflowInv'
  <2>1. SendsOnly(Raising(gate), {"violation"})
    BY <1>1, RaisingFacts
  <2>2. Writes(gate) = {"violation"} /\ {"violation"} \subseteq DesignKinds \ {"requirement", "waiver"}
    BY <1>2 DEF DesignKinds
  <2>3. PhaseRun(gate, Raising(gate), OwnOpenBlocking(gate, design') = {})
    BY <1>11 DEF Verifying
  <2>4. QED
    BY <2>1, <2>2, <2>3, RunKeeps
<1>12. QED
  BY <1>4, <1>5, <1>6, <1>7, <1>8, <1>9, <1>10, <1>11

(* The agent's phase: no gate is before it. *)
LEMMA RequirementPlanningKeeps ==
  ASSUME WorkflowInv, RequirementPlanning
  PROVE  WorkflowInv'
<1>1. ReleaseInv /\ plan.loopbacks = DefaultLoopBacks /\ WorkflowTypeOK /\ DesignLists
  BY DEF WorkflowInv
<1> DEFINE places == [c \in DOMAIN candidates |-> c]
<1>2. PICK lost \in SUBSET DOMAIN candidates :
        LET kept == Keep(places, DOMAIN candidates \ lost)
        IN  /\ design' = Committed(Create("requirement", kept))
            /\ \/ /\ faults' = faults + Cardinality(lost)
                  /\ IF kept = <<>> THEN PhaseFails ELSE PhaseSucceeds
               \/ /\ faults' = faults + 1 + (IF kept = <<>> THEN 0 ELSE Cardinality(lost))
                  /\ PhaseFails
  BY DEF RequirementPlanning
<1> DEFINE kept == Keep(places, DOMAIN candidates \ lost)
           sent == Create("requirement", kept)
<1>3. /\ candidates' = candidates /\ UNCHANGED <<released, runs>> /\ faults' <= MaxFaults
      /\ At("RequirementPlanning") /\ (PhaseSucceeds \/ PhaseFails)
  BY DEF RequirementPlanning
<1>4. candidates \in Seq(Candidate)
  BY <1>1, WorkflowAssumption DEF WorkflowTypeOK
<1>5. Len(candidates) \in Nat /\ DOMAIN candidates = 1 .. Len(candidates)
  BY <1>4, LenProperties
<1>6. IsList(places) /\ ToSet(places) = DOMAIN candidates
  <2>1. places = [c \in 1 .. Len(candidates) |-> places[c]] /\ DOMAIN places = 1 .. Len(candidates)
    BY <1>5
  <2>2. IsList(places)
    <3> HIDE DEF places
    <3>1. QED
      BY <1>5, <2>1, ListOfFunction
  <2>3. QED
    BY <2>2 DEF ToSet
<1>7. IsList(kept) /\ ToSet(kept) \subseteq DOMAIN candidates
  <2> HIDE DEF places
  <2>1. QED
    BY <1>6, KeepFacts
<1> HIDE DEF places, kept
<1>8. SendsOnly(sent, {"requirement"}) /\ ToSet(sent) = {[kind |-> "requirement", item |-> x] : x \in ToSet(kept)}
  BY <1>7, CreateFacts
<1>9. /\ design' = Committed(sent)
      /\ \/ faults' = faults + Cardinality(lost)
         \/ faults' = faults + 1
         \/ faults' = faults + 1 + Cardinality(lost)
  <2>1. faults \in Nat
    BY <1>1 DEF WorkflowTypeOK
  <2>2. QED
    BY <1>2, <2>1 DEF kept, sent
<1> HIDE DEF sent
<1>10. Place \in 1 .. NumDefault /\ PhaseNames[Place] = "RequirementPlanning" /\ Place = 1
  <2>1. Place \in 1 .. NumDefault /\ PhaseNames[Place] = "RequirementPlanning"
    BY <1>1, <1>3, AtPlace
  <2>2. QED
    BY <2>1, PhasePlaces
<1>11. /\ plan' = plan
       /\ \/ cursor' \in 1 .. cursor
          \/ cursor' = cursor + 1
  BY <1>1, <1>3, FailureMoves DEF PhaseSucceeds
<1>12. Place' \in Int /\ Place' <= 2
  BY <1>1, <1>10, <1>11, PlaceMoves
<1>13. ~\E k \in 1 .. NumDefault : k < Place' /\ PhaseNames[k] \in Gates
  <2>1. SUFFICES ASSUME NEW k \in 1 .. NumDefault, k < Place', PhaseNames[k] \in Gates
                 PROVE  FALSE
    OBVIOUS
  <2>2. k \in Int /\ k >= 4
    BY <2>1, PhasePlaces DEF NumDefault
  <2>3. QED
    BY <1>12, <2>1, <2>2
<1>14. {"requirement"} \in SUBSET DesignKinds
  BY DEF DesignKinds
<1>15. PhaseNames[Place] \notin Gates
  BY <1>10 DEF Gates
<1>16. DesignLists' /\ GatesBehind'
  BY <1>3, <1>8, <1>9, <1>11, <1>13, <1>14, <1>15, BehindKept
<1>17. /\ DOMAIN design' = DesignKinds
       /\ ToSet(design'["requirement"]) \subseteq DOMAIN candidates
       /\ design'["waiver"] = design["waiver"] /\ design'["violation"] = design["violation"]
  <2>1. /\ DOMAIN design' = DesignKinds
        /\ \A kind \in DesignKinds :
             /\ ToSet(design'[kind])
                  = Made(kind) \cup {r.item : r \in {q \in ToSet(sent) : q.kind = kind}}
             /\ kind \notin {"requirement"} => design'[kind] = design[kind]
    BY <1>1, <1>8, <1>9, <1>14, CommittedFacts
  <2>2. Made("requirement") \subseteq DOMAIN candidates
    BY <1>1 DEF WorkflowTypeOK, Made
  <2>3. \A r \in ToSet(sent) : r.item \in DOMAIN candidates
    BY <1>7, <1>8
  <2>4. QED
    BY <2>1, <2>2, <2>3 DEF DesignKinds
<1>18. faults' \in 0 .. MaxFaults
  <2>1. Cardinality(lost) \in Nat
    <3>1. IsFiniteSet(DOMAIN candidates)
      BY <1>5, FS_Interval
    <3>2. QED
      BY <3>1, FS_Subset, FS_CardinalityType
  <2>2. faults \in Nat /\ MaxFaults \in Nat
    BY <1>1, WorkflowAssumption DEF WorkflowTypeOK
  <2>3. QED
    BY <1>3, <1>9, <2>1, <2>2
<1>19. WorkflowTypeOK'
  BY <1>1, <1>3, <1>17, <1>18 DEF WorkflowTypeOK
<1>20. ReleaseInv'
  BY <1>1, RequirementPlanningStep
<1>21. QED
  BY <1>1, <1>11, <1>16, <1>19, <1>20 DEF WorkflowInv

(* A step that leaves the design alone. *)
LEMMA DesignKeeps ==
  ASSUME WorkflowInv, UNCHANGED designVars,
         \A k \in 1 .. NumDefault : k < Place' /\ PhaseNames[k] \in Gates => k < Place,
         released' \in BOOLEAN, faults' \in 0 .. MaxFaults, runs' \in 1 .. MaxRuns
  PROVE  DesignLists' /\ GatesBehind' /\ WorkflowTypeOK'
<1>1. design' = design /\ candidates' = candidates
  BY DEF designVars
<1>2. DesignLists' /\ WorkflowTypeOK'
  BY <1>1 DEF WorkflowInv, DesignLists, WorkflowTypeOK, IsList
<1>3. \A gate \in Gates : Findings(gate)' = Findings(gate)
  BY <1>1, SameFindings DEF Same
<1>4. Made("violation")' = Made("violation")
  BY <1>1 DEF Made
<1>5. ASSUME NEW k \in 1 .. NumDefault, k < Place', PhaseNames[k] \in Gates
      PROVE  ToSet(Findings(PhaseNames[k])') \subseteq Made("violation")'
  BY <1>3, <1>4, <1>5 DEF WorkflowInv, GatesBehind
<1>6. GatesBehind'
  BY <1>5 DEF GatesBehind, ToSet
<1>7. QED
  BY <1>2, <1>6

(* The global gate makes nothing. *)
LEMMA ManufacturingMakesNothing ==
  ASSUME DesignLists, ManufacturingGeneration
  PROVE  UNCHANGED designVars
<1>1. CASE Interrupted(<<>>)
  <2>1. PICK k \in 0 .. Len(<<>>) : design' = Committed(SubSeq(<<>>, 1, k))
    BY <1>1 DEF Interrupted
  <2>2. SendsOnly(SubSeq(<<>>, 1, k), {})
    BY SendsNothing, SendsPrefix
  <2>3. /\ design' = [kind \in DesignKinds |-> design'[kind]]
        /\ \A kind \in DesignKinds : design'[kind] = design[kind]
    BY <2>1, <2>2, CommittedFacts
  <2>4. design' = design /\ candidates' = candidates
    BY <1>1, <2>3 DEF DesignLists, Interrupted
  <2>5. QED
    BY <2>4 DEF designVars
<1>2. CASE UNCHANGED designVars
  BY <1>2
<1>3. QED
  BY <1>1, <1>2 DEF ManufacturingGeneration

(* The global gate: it makes nothing, and is no gate of its own. *)
LEMMA ManufacturingKeeps ==
  ASSUME WorkflowInv, ManufacturingGeneration
  PROVE  WorkflowInv'
<1>1. ReleaseInv /\ plan.loopbacks = DefaultLoopBacks /\ WorkflowTypeOK /\ DesignLists
  BY DEF WorkflowInv
<1>2. At("ManufacturingGeneration") /\ candidates' = candidates /\ runs' = runs
      /\ (PhaseSucceeds \/ PhaseFails)
  BY DEF ManufacturingGeneration, Interrupted, runVars, designVars
<1>3. UNCHANGED designVars
  BY <1>1, ManufacturingMakesNothing
<1>4. /\ plan' = plan
      /\ \/ cursor' \in 1 .. cursor
         \/ cursor' = cursor + 1
  BY <1>1, <1>2, FailureMoves DEF PhaseSucceeds
<1>5. Place \in 1 .. NumDefault /\ PhaseNames[Place] \notin Gates
  BY <1>1, <1>2, AtPlace DEF Gates
<1>6. Place' <= Place + 1 /\ Place' \in Int /\ Place \in Int
  BY <1>1, <1>4, PlaceMoves
<1>7. \A k \in 1 .. NumDefault : k < Place' /\ PhaseNames[k] \in Gates => k < Place
  <2>1. SUFFICES ASSUME NEW k \in 1 .. NumDefault, k < Place', PhaseNames[k] \in Gates
                 PROVE  k < Place
    OBVIOUS
  <2>2. k \in Int /\ k /= Place
    BY <1>5, <2>1 DEF NumDefault
  <2>3. QED
    BY <1>6, <2>1, <2>2
<1>8. released' \in BOOLEAN /\ faults' \in 0 .. MaxFaults /\ runs' \in 1 .. MaxRuns
  <2>1. faults \in 0 .. MaxFaults /\ MaxFaults \in Nat /\ runs \in 1 .. MaxRuns
        /\ released \in BOOLEAN
    BY <1>1, WorkflowAssumption DEF WorkflowTypeOK
  <2>2. CASE Interrupted(<<>>)
    BY <2>1, <2>2 DEF Interrupted
  <2>3. CASE released' = TRUE /\ UNCHANGED <<faults, runs>>
    BY <2>1, <2>3
  <2>4. CASE UNCHANGED runVars
    BY <2>1, <2>4 DEF runVars
  <2>5. QED
    BY <2>2, <2>3, <2>4 DEF ManufacturingGeneration
<1>9. DesignLists' /\ GatesBehind' /\ WorkflowTypeOK'
  BY <1>3, <1>7, <1>8, DesignKeeps
<1>10. ReleaseInv'
  BY <1>1, ReleaseStep
<1>11. QED
  BY <1>1, <1>4, <1>9, <1>10 DEF WorkflowInv

(* The run returns, or nothing happens. *)
LEMMA RestKeeps ==
  ASSUME WorkflowInv, UNCHANGED <<plan, cursor, designVars, runVars>>
  PROVE  WorkflowInv'
<1>1. ReleaseInv /\ plan.loopbacks = DefaultLoopBacks /\ WorkflowTypeOK
  BY DEF WorkflowInv
<1>2. Place' = Place
  BY DEF Place, NumPhases, NumDefault
<1>3. released' \in BOOLEAN /\ faults' \in 0 .. MaxFaults /\ runs' \in 1 .. MaxRuns
  BY <1>1 DEF WorkflowTypeOK, runVars
<1>4. DesignLists' /\ GatesBehind' /\ WorkflowTypeOK'
  BY <1>2, <1>3, DesignKeeps
<1>5. ReleaseInv'
  BY <1>1, SameReleaseInv DEF runVars
<1>6. QED
  BY <1>1, <1>4, <1>5 DEF WorkflowInv

(* The caller waives a violation: no gate reads what is waived. *)
LEMMA GrantWaiverKeeps ==
  ASSUME WorkflowInv, NEW violation, GrantWaiver(violation)
  PROVE  WorkflowInv'
<1>1. ReleaseInv /\ plan.loopbacks = DefaultLoopBacks /\ WorkflowTypeOK /\ DesignLists
      /\ GatesBehind
  BY DEF WorkflowInv
<1>2. /\ UNCHANGED <<plan, cursor, candidates, released, faults, runs>>
      /\ violation \in Made("violation")
      /\ design' = [design EXCEPT !["waiver"] = Append(@, violation)]
      /\ WorkflowNext
  <2>1. violation \in OpenBlocking(design)
    BY DEF GrantWaiver
  <2>2. QED
    BY <2>1 DEF GrantWaiver, vars, runVars, OpenBlocking, WorkflowNext, Made
<1>3. IsList(Append(design["waiver"], violation))
      /\ ToSet(Append(design["waiver"], violation)) = ToSet(design["waiver"]) \cup {violation}
  BY <1>1, ListAppend DEF DesignLists, DesignKinds
<1>4. /\ design' = [kind \in DesignKinds |-> design'[kind]]
      /\ DOMAIN design' = DesignKinds
      /\ design'["waiver"] = Append(design["waiver"], violation)
      /\ \A kind \in DesignKinds \ {"waiver"} : design'[kind] = design[kind]
  <2>1. design = [kind \in DesignKinds |-> design[kind]]
    BY <1>1 DEF DesignLists
  <2>2. "waiver" \in DesignKinds
    BY DEF DesignKinds
  <2>3. design' = [kind \in DesignKinds |->
                     IF kind = "waiver" THEN Append(design["waiver"], violation) ELSE design[kind]]
    BY <1>2, <2>1, <2>2
  <2>4. QED
    BY <2>2, <2>3
<1>5. DesignLists'
  <2>1. \A kind \in DesignKinds : IsList(design'[kind])
    BY <1>1, <1>3, <1>4 DEF DesignLists
  <2>2. QED
    BY <1>4, <2>1 DEF DesignLists, IsList
<1>6. WorkflowTypeOK'
  <2>1. /\ design'["requirement"] = design["requirement"]
        /\ design'["violation"] = design["violation"]
    BY <1>4 DEF DesignKinds
  <2>2. ToSet(design'["waiver"]) \subseteq ToSet(design'["violation"])
    BY <1>1, <1>2, <1>3, <1>4, <2>1 DEF WorkflowTypeOK, Made
  <2>3. QED
    BY <1>1, <1>2, <1>4, <2>1, <2>2 DEF WorkflowTypeOK
<1>7. Place' = Place
  BY <1>2 DEF Place, NumPhases, NumDefault
<1>8. \A gate \in Gates : Findings(gate)' = Findings(gate)
  <2>1. SUFFICES ASSUME NEW gate \in Gates PROVE Findings(gate)' = Findings(gate)
    OBVIOUS
  <2>2. "waiver" \notin Reads(gate) /\ Reads(gate) \subseteq DesignKinds
    BY DEF Reads, DesignKinds, Gates
  <2>3. Same(Reads(gate))
    BY <1>2, <1>4, <2>2 DEF Same
  <2>4. QED
    BY <2>3, SameFindings
<1>9. Made("violation")' = Made("violation")
  BY <1>4 DEF Made, DesignKinds
<1>10. ASSUME NEW k \in 1 .. NumDefault, k < Place', PhaseNames[k] \in Gates
       PROVE  ToSet(Findings(PhaseNames[k])') \subseteq Made("violation")'
  BY <1>1, <1>7, <1>8, <1>9, <1>10 DEF GatesBehind
<1>11. GatesBehind'
  BY <1>10 DEF GatesBehind, ToSet
<1>12. ReleaseInv'
  BY <1>1, <1>2, ReleaseInvStep
<1>13. QED
  BY <1>1, <1>2, <1>5, <1>6, <1>11, <1>12 DEF WorkflowInv

(* A run of the phases from the i-th on is at the place of the i-th. *)
LEMMA PlaceAgain ==
  ASSUME ReleaseInv, NEW i \in Positions, RunAgain(i)
  PROVE  Place' = NumDefault - NumPhases + i /\ NumPhases' = NumPhases - i + 1
<1> DEFINE names == plan.names
           n == NumPhases
           rest == SubSeq(names, i, n)
<1>1. names \in Seq(DefaultNames) /\ n \in 1 .. 15 /\ n = Len(names) /\ i \in 1 .. n
  BY DEF ReleaseInv, PlanIsTail, Positions, NumPhases, NumDefault
<1>2. Len(rest) = n - i + 1
  BY <1>1, SubSeqProperties
<1>3. cursor' = 1 /\ plan' = [names |-> rest, loopbacks |-> plan.loopbacks]
  <2>1. plan = [names |-> plan.names, loopbacks |-> plan.loopbacks]
    BY DEF ReleaseInv
  <2>2. plan' = [plan EXCEPT !.names = rest] /\ cursor' = 1
    BY DEF RunAgain
  <2> HIDE DEF rest
  <2>3. QED
    BY <2>1, <2>2
<1> HIDE DEF rest, names
<1>4. NumPhases' = n - i + 1 /\ Place' = 15 - (n - i + 1) + 1
  BY <1>2, <1>3 DEF NumPhases, Place, NumDefault
<1> HIDE DEF n
<1>5. n \in Int /\ i \in Int
  BY <1>1
<1>6. 15 - (n - i + 1) + 1 = 15 - n + i
  BY ONLY <1>5
<1>7. QED
  BY <1>4, <1>6 DEF n, NumDefault

(* The caller runs phases again, from one at or before the one that failed. *)
LEMMA RunAgainKeeps ==
  ASSUME WorkflowInv, NEW i \in Positions, RunAgain(i)
  PROVE  WorkflowInv'
<1>1. ReleaseInv /\ plan.loopbacks = DefaultLoopBacks /\ WorkflowTypeOK
  BY DEF WorkflowInv
<1> DEFINE names == plan.names
           n == NumPhases
           rest == SubSeq(names, i, n)
<1>2. /\ plan' = [plan EXCEPT !.names = rest] /\ cursor' = 1 /\ i \in 1 .. cursor
      /\ UNCHANGED <<designVars, released, faults>> /\ runs' = runs + 1 /\ runs < MaxRuns
  BY DEF RunAgain
<1>3. /\ names \in Seq(DefaultNames) /\ n \in 1 .. NumDefault /\ n = Len(names) /\ i \in 1 .. n
      /\ cursor \in Nat \ {0} /\ NumDefault = 15
  BY <1>1 DEF ReleaseInv, PlanIsTail, Positions, NumPhases, NumDefault
<1>4. plan' = [names |-> rest, loopbacks |-> plan.loopbacks]
  <2>1. plan = [names |-> plan.names, loopbacks |-> plan.loopbacks]
    BY <1>1 DEF ReleaseInv
  <2> HIDE DEF rest
  <2>2. QED
    BY <1>2, <2>1
<1>5. Len(rest) = n - i + 1
  BY <1>3, SubSeqProperties
<1> HIDE DEF rest, names
<1>6. NumPhases' = n - i + 1 /\ plan'.loopbacks = DefaultLoopBacks
  BY <1>1, <1>4, <1>5 DEF NumPhases
<1>7. Place' \in Int /\ Place \in Int /\ Place' <= Place
  <2>1. Place = 15 - n + cursor /\ Place' = 15 - (n - i + 1) + 1
    BY <1>2, <1>3, <1>6 DEF Place
  <2> HIDE DEF n
  <2>2. n \in Int /\ i \in Int /\ cursor \in Int /\ i <= cursor
    BY <1>2, <1>3
  <2>3. 15 - (n - i + 1) + 1 = 15 - n + i
    BY ONLY <2>2
  <2>4. 15 - n + i <= 15 - n + cursor
    BY ONLY <2>2
  <2>5. QED
    BY <2>1, <2>2, <2>3, <2>4
<1>8. \A k \in 1 .. NumDefault : k < Place' /\ PhaseNames[k] \in Gates => k < Place
  BY <1>3, <1>7
<1>9. released' \in BOOLEAN /\ faults' \in 0 .. MaxFaults /\ runs' \in 1 .. MaxRuns
  BY <1>1, <1>2, WorkflowAssumption DEF WorkflowTypeOK
<1>10. DesignLists' /\ GatesBehind' /\ WorkflowTypeOK'
  BY <1>2, <1>8, <1>9, DesignKeeps
<1>11. ReleaseInv'
  BY <1>1, RunAgainStep
<1>12. QED
  BY <1>6, <1>10, <1>11 DEF WorkflowInv

(* Every step keeps the invariant. *)
LEMMA WorkflowInvStep ==
  ASSUME WorkflowInv, WorkflowNext
  PROVE  WorkflowInv'
<1>1. CASE RequirementPlanning
  BY <1>1, RequirementPlanningKeeps
<1>2. CASE \/ EngineeringAnalysis \/ ConstraintExtraction \/ SchematicPlanning \/ BomPlanning
           \/ PcbFloorPlanning \/ ComponentPlacement \/ RoutingPlanning
  BY <1>2, RunsKeep
<1>3. CASE \/ ConstraintVerification \/ ErcVerification \/ BomVerification
           \/ DrcVerification \/ DfmVerification \/ EmcAnalysis
  <2>1. \E gate \in Gates : Verifying(gate)
    BY <1>3 DEF ConstraintVerification, ErcVerification, BomVerification, DrcVerification,
                DfmVerification, EmcAnalysis, Gates
  <2>2. QED
    BY <2>1, RunsKeep
<1>4. CASE ManufacturingGeneration
  BY <1>4, ManufacturingKeeps
<1>5. CASE Finishes /\ UNCHANGED <<designVars, runVars>>
  BY <1>5, RestKeeps DEF Finishes
<1>6. ASSUME NEW violation, GrantWaiver(violation) PROVE WorkflowInv'
  BY <1>6, GrantWaiverKeeps
<1>7. ASSUME NEW i \in Positions, RunAgain(i) PROVE WorkflowInv'
  BY <1>7, RunAgainKeeps
<1>8. QED
  BY <1>1, <1>2, <1>3, <1>4, <1>5, <1>6, <1>7 DEF WorkflowNext

(* Nothing is behind the first phase, and nothing is made. *)
LEMMA WorkflowInvInit ==
  ASSUME WorkflowInit
  PROVE  WorkflowInv
<1>1. ReleaseInv
  BY ReleaseInvInit
<1>2. plan.loopbacks = DefaultLoopBacks /\ cursor = 1 /\ NumPhases = NumDefault
  <2>1. SubSeq(PhaseNames, 1, Len(PhaseNames)) = PhaseNames
    BY DefaultNamesShape DEF NumDefault
  <2>2. plan = [names |-> PhaseNames, loopbacks |-> DefaultLoopBacks]
    BY <2>1 DEF WorkflowInit, PlanFrom
  <2>3. QED
    BY <2>2, DefaultNamesShape DEF WorkflowInit, Init, NumPhases
<1>3. GatesBehind
  <2>1. Place = 1
    BY <1>2 DEF Place, NumDefault
  <2>2. QED
    BY <2>1 DEF GatesBehind, NumDefault
<1>4. design = [kind \in DesignKinds |-> <<>>] /\ candidates \in CandidateLists
  BY DEF WorkflowInit, EmptyDesign
<1>5. IsList(<<>>) /\ ToSet(<<>>) = {}
  BY EmptyList
<1>6. DesignLists
  BY <1>4, <1>5 DEF DesignLists
<1>7. WorkflowTypeOK
  <2>1. /\ design["requirement"] = <<>> /\ design["waiver"] = <<>> /\ DOMAIN design = DesignKinds
    BY <1>4 DEF DesignKinds
  <2>2. released = FALSE /\ faults \in 0 .. MaxFaults /\ runs \in 1 .. MaxRuns
    BY WorkflowAssumption DEF WorkflowInit
  <2>3. QED
    BY <1>4, <1>5, <2>1, <2>2 DEF WorkflowTypeOK
<1>8. QED
  BY <1>1, <1>2, <1>3, <1>6, <1>7 DEF WorkflowInv

(* The invariant holds throughout. *)
LEMMA WorkflowInvariant == WorkflowSpec => []WorkflowInv
<1>1. WorkflowInit => WorkflowInv
  BY WorkflowInvInit
<1>2. WorkflowInv /\ [WorkflowNext]_workflowVars => WorkflowInv'
  <2>1. ASSUME WorkflowInv, UNCHANGED workflowVars PROVE WorkflowInv'
    BY <2>1, RestKeeps DEF workflowVars, vars
  <2>2. QED
    BY <2>1, WorkflowInvStep
<1>3. QED
  BY <1>1, <1>2, PTL DEF WorkflowSpec

-----------------------------------------------------------------------------
(* The invariant of what is built *)

\* Until the agent's phase has run, nothing is required.
Untouched == Place = 1 /\ pc = "running" => design["requirement"] = <<>>

BuildInv ==
  /\ WorkflowInv
  /\ Built
  /\ Untouched

\* Where the edges lead: from the place of a gate back to that of a planning phase.
LeadBack == {<<4, 3>>, <<6, 5>>, <<8, 7>>, <<12, 11>>, <<13, 10>>, <<14, 11>>}

(* Where a phase leaves the run: at the next one, where it was, given up, or back   *)
(* at a planning phase after the second, if it is a gate.                            *)
LEMMA Moves ==
  ASSUME ReleaseInv, plan.loopbacks = DefaultLoopBacks, NEW phase, At(phase),
         PhaseSucceeds \/ PhaseFails
  PROVE  /\ pc = "running" /\ Place \in 1 .. NumDefault /\ PhaseNames[Place] = phase
         /\ PhaseSucceeds => Place' = Place + 1
         /\ PhaseFails => \/ Place' = Place /\ GivenUp'
                          \/ /\ Place' \in 3 .. Place /\ phase \in Gates
                             /\ <<Place, Place'>> \in LeadBack
<1>1. /\ cursor \in 1 .. NumPhases /\ NumPhases \in 1 .. NumDefault /\ NumDefault = 15
      /\ Positions = 1 .. NumPhases
      /\ \A k \in 1 .. NumPhases : plan.names[k] = PhaseNames[NumDefault - NumPhases + k]
  BY DEF ReleaseInv, PlanIsTail, NumDefault, NumPhases, Positions, At
<1>2. pc = "running"
  BY DEF PhaseSucceeds, PhaseFails, Stops, LoopsBack, Iterates
<1>3. Place \in 1 .. NumDefault /\ PhaseNames[Place] = phase
  BY AtPlace
<1>4. ASSUME PhaseSucceeds PROVE Place' = Place + 1
  <2>1. plan' = plan /\ cursor' = cursor + 1
    BY <1>4 DEF PhaseSucceeds
  <2>2. cursor + 1 \notin 1 .. cursor
    BY <1>1
  <2>3. QED
    BY <2>1, <2>2, PlaceMoves
<1>5. ASSUME Stops PROVE Place' = Place /\ GivenUp'
  <2>1. plan' = plan /\ cursor' = cursor /\ pc' = "returned"
    BY <1>5 DEF Stops
  <2>2. NumPhases' = NumPhases /\ Place' = Place
    BY <2>1 DEF NumPhases, Place, NumDefault
  <2>3. GivenUp'
    BY <1>1, <2>1, <2>2 DEF GivenUp
  <2>4. QED
    BY <2>2, <2>3
<1>6. ASSUME NEW e \in Edges, LoopsBack(e)
      PROVE  /\ Place' \in 3 .. Place /\ phase \in Gates
             /\ <<Place, Place'>> \in LeadBack
  <2>1. PICK i \in Positions : IsIndexOf(i, plan.loopbacks[e].to) /\ cursor' = i
    BY <1>6 DEF LoopsBack
  <2>2. plan' = plan /\ plan.loopbacks[e].from = plan.names[cursor]
    BY <1>6 DEF LoopsBack, Recoveries
  <2>3. plan.names[i] = DefaultLoopBacks[e].to /\ phase = DefaultLoopBacks[e].from
    BY <2>1, <2>2 DEF IsIndexOf, At
  <2>4. NumPhases' = NumPhases /\ Place' = NumDefault - NumPhases + i
    BY <2>1, <2>2 DEF NumPhases, Place, NumDefault
  <2>5. NumDefault - NumPhases + i \in 1 .. NumDefault
    <3>1. NumDefault = 15 /\ NumPhases \in 1 .. 15 /\ i \in 1 .. NumPhases
      BY <1>1, <2>1
    <3>2. QED
      BY ONLY <3>1
  <2>6. PhaseNames[Place'] = DefaultLoopBacks[e].to /\ Place' \in 1 .. NumDefault
    BY <1>1, <2>1, <2>3, <2>4, <2>5
  <2>7. e = 1 \/ e = 2 \/ e = 3 \/ e = 4 \/ e = 5 \/ e = 6
    BY DEF DefaultLoopBacks, Edges
  <2>8. /\ DefaultLoopBacks[1] = Edge("ConstraintVerification", "ConstraintExtraction")
        /\ DefaultLoopBacks[2] = Edge("ErcVerification", "SchematicPlanning")
        /\ DefaultLoopBacks[3] = Edge("BomVerification", "BomPlanning")
        /\ DefaultLoopBacks[4] = Edge("DrcVerification", "RoutingPlanning")
        /\ DefaultLoopBacks[5] = Edge("DfmVerification", "ComponentPlacement")
        /\ DefaultLoopBacks[6] = Edge("EmcAnalysis", "RoutingPlanning")
    BY DEF DefaultLoopBacks
  <2>9. PhaseFails
    BY <1>6 DEF PhaseFails
  <2>10. Place' <= Place
    BY <1>1, <2>9, FailureMoves, PlaceMoves
  <2>11. Place' >= 3
    BY <2>6, <2>7, <2>8, PhasePlaces DEF Edge
  <2>12. phase \in Gates
    BY <2>3, <2>7, <2>8 DEF Edge, Gates
  <2>13. <<Place, Place'>> \in LeadBack
    <3>1. /\ PhaseNames[Place] = DefaultLoopBacks[e].from
          /\ PhaseNames[Place'] = DefaultLoopBacks[e].to
      BY <1>3, <2>3, <2>6
    <3>2. QED
      BY <1>3, <2>6, <2>7, <2>8, <3>1, PhasePlaces DEF Edge, LeadBack
  <2>14. QED
    BY <1>1, <1>3, <2>6, <2>10, <2>11, <2>12, <2>13
<1>7. QED
  BY <1>2, <1>3, <1>4, <1>5, <1>6 DEF PhaseFails

(* A phase run commits the first of its requests, or all of them. *)
LEMMA RunCommits ==
  ASSUME NEW phase, NEW requests, IsList(requests), NEW passes, PhaseRun(phase, requests, passes)
  PROVE  \E k \in 0 .. Len(requests) : design' = Committed(SubSeq(requests, 1, k))
<1>1. CASE Interrupted(requests)
  BY <1>1 DEF Interrupted
<1>2. CASE design' = Committed(requests)
  <2>1. Len(requests) \in 0 .. Len(requests) /\ SubSeq(requests, 1, Len(requests)) = requests
    BY DEF IsList
  <2>2. QED
    BY <1>2, <2>1
<1>3. QED
  BY <1>1, <1>2 DEF PhaseRun

(* A phase run builds on what is built. *)
LEMMA RunBuilds ==
  ASSUME WorkflowInv, Built, NEW phase, NEW requests, NEW passes,
         PhaseRun(phase, requests, passes), NEW kinds \in SUBSET DesignKinds,
         SendsOnly(requests, kinds), WellMade(requests),
         requests = SchematicPlan \/ kinds \cap {"component", "net"} = {}
  PROVE  Built'
<1>1. DesignLists
  BY DEF WorkflowInv
<1>2. PICK k \in 0 .. Len(requests) : design' = Committed(SubSeq(requests, 1, k))
  BY RunCommits DEF SendsOnly
<1> DEFINE sent == SubSeq(requests, 1, k)
<1>3. SendsOnly(sent, kinds) /\ WellMade(sent)
  BY SendsPrefix, WellMadePrefix DEF SendsOnly
<1>4. candidates' = candidates
  BY DEF PhaseRun, Interrupted
<1>5. design'["component"] = design["component"] \/ design["component"] = <<>>
  <2>1. CASE kinds \cap {"component", "net"} = {}
    <3> HIDE DEF sent
    <3>1. "component" \in DesignKinds /\ "component" \notin kinds
      BY <2>1 DEF DesignKinds
    <3>2. design' = Committed(sent)
      BY <1>2 DEF sent
    <3>3. QED
      BY <1>1, <1>3, <3>1, <3>2, CommittedFacts
  <2>2. CASE requests = SchematicPlan /\ design["component"] /= <<>>
    <3>1. requests = <<>>
      BY <2>2 DEF SchematicPlan
    <3>2. SendsOnly(requests, {})
      BY <3>1, SendsNothing
    <3>3. SendsOnly(sent, {})
      BY <3>2, SendsPrefix
    <3> HIDE DEF sent
    <3>4. {} \in SUBSET DesignKinds /\ "component" \in DesignKinds
      BY DEF DesignKinds
    <3>5. design' = Committed(sent)
      BY <1>2 DEF sent
    <3>6. QED
      BY <1>1, <3>3, <3>4, <3>5, CommittedFacts
  <2>3. QED
    BY <2>1, <2>2
<1>6. NetsAfter'
  <2>1. NetsAfter
    BY DEF Built
  <2>2. CASE kinds \cap {"component", "net"} = {}
    <3> HIDE DEF sent
    <3>1. /\ "component" \in DesignKinds /\ "component" \notin kinds
          /\ "net" \in DesignKinds /\ "net" \notin kinds
      BY <2>2 DEF DesignKinds
    <3>2. design' = Committed(sent)
      BY <1>2 DEF sent
    <3>3. design'["component"] = design["component"] /\ design'["net"] = design["net"]
      BY <1>1, <1>3, <3>1, <3>2, CommittedFacts
    <3>4. QED
      BY <2>1, <3>3 DEF NetsAfter
  <2>3. CASE requests = SchematicPlan
    BY <1>1, <1>2, <2>1, <2>3, SchematicOrder
  <2>4. QED
    BY <2>2, <2>3
<1> HIDE DEF sent
<1>7. design' = Committed(sent)
  BY <1>2 DEF sent
<1>8. QED
  BY <1>1, <1>3, <1>4, <1>5, <1>6, <1>7, Builds

(* The planning phases after the agent's, and the gates. *)
LEMMA RunsBuild ==
  ASSUME WorkflowInv, Built,
         \/ EngineeringAnalysis \/ ConstraintExtraction \/ SchematicPlanning \/ BomPlanning
         \/ PcbFloorPlanning \/ ComponentPlacement \/ RoutingPlanning
         \/ \E gate \in Gates : Verifying(gate)
  PROVE  Built'
<1>1. DesignLists /\ candidates \in Seq(Candidate) /\ Made("requirement") \subseteq DOMAIN candidates
  BY WorkflowAssumption DEF WorkflowInv, WorkflowTypeOK, Made
<1>2. /\ WellMade(Analyzing) /\ WellMade(Extracting) /\ WellMade(SchematicPlan)
      /\ WellMade(BomPlan) /\ WellMade(FloorPlan) /\ WellMade(Placing) /\ WellMade(Routing)
      /\ \A gate \in Gates : WellMade(Raising(gate))
  BY <1>1, PlanningWellMade
<1>3. /\ SendsOnly(Analyzing, {"block"}) /\ SendsOnly(Extracting, {"constraint"})
      /\ SendsOnly(SchematicPlan, {"component", "net"}) /\ SendsOnly(BomPlan, {"part", "line"})
      /\ SendsOnly(FloorPlan, {"board"}) /\ SendsOnly(Placing, {"placement"}) /\ SendsOnly(Routing, {"track"})
  BY <1>1, PlanningSends
<1>4. \A kinds \in {{"block"}, {"constraint"}, {"part", "line"}, {"board"}, {"placement"}, {"track"},
                    {"violation"}} :
        kinds \in SUBSET DesignKinds /\ kinds \cap {"component", "net"} = {}
  BY DEF DesignKinds
<1>5. {"component", "net"} \in SUBSET DesignKinds
  BY DEF DesignKinds
<1>6. CASE EngineeringAnalysis
  BY <1>2, <1>3, <1>4, <1>6, RunBuilds DEF EngineeringAnalysis
<1>7. CASE ConstraintExtraction
  BY <1>2, <1>3, <1>4, <1>7, RunBuilds DEF ConstraintExtraction
<1>8. CASE SchematicPlanning
  BY <1>2, <1>3, <1>5, <1>8, RunBuilds DEF SchematicPlanning
<1>9. CASE BomPlanning
  BY <1>2, <1>3, <1>4, <1>9, RunBuilds DEF BomPlanning
<1>10. CASE PcbFloorPlanning
  BY <1>2, <1>3, <1>4, <1>10, RunBuilds DEF PcbFloorPlanning
<1>11. CASE ComponentPlacement
  BY <1>2, <1>3, <1>4, <1>11, RunBuilds DEF ComponentPlacement
<1>12. CASE RoutingPlanning
  BY <1>2, <1>3, <1>4, <1>12, RunBuilds DEF RoutingPlanning
<1>13. ASSUME NEW gate \in Gates, Verifying(gate) PROVE Built'
  <2>1. SendsOnly(Raising(gate), {"violation"})
    BY <1>1, RaisingFacts
  <2>2. QED
    BY <1>2, <1>4, <1>13, <2>1, RunBuilds DEF Verifying
<1>14. QED
  BY <1>6, <1>7, <1>8, <1>9, <1>10, <1>11, <1>12, <1>13

(* The agent's phase: its candidates have numbers of their own. *)
LEMMA RequirementPlanningBuilds ==
  ASSUME BuildInv, RequirementPlanning
  PROVE  Built'
<1>1. ReleaseInv /\ DesignLists /\ Built /\ Untouched /\ plan.loopbacks = DefaultLoopBacks
      /\ candidates \in Seq(Candidate)
  BY WorkflowAssumption DEF BuildInv, WorkflowInv, WorkflowTypeOK
<1> DEFINE places == [c \in DOMAIN candidates |-> c]
<1>2. PICK lost \in SUBSET DOMAIN candidates :
        design' = Committed(Create("requirement", Keep(places, DOMAIN candidates \ lost)))
  BY DEF RequirementPlanning
<1> DEFINE kept == Keep(places, DOMAIN candidates \ lost)
           sent == Create("requirement", kept)
<1>3. At("RequirementPlanning") /\ candidates' = candidates /\ (PhaseSucceeds \/ PhaseFails)
  BY DEF RequirementPlanning
<1>4. design["requirement"] = <<>>
  <2>1. pc = "running" /\ Place \in 1 .. NumDefault /\ PhaseNames[Place] = "RequirementPlanning"
    BY <1>1, <1>3, Moves
  <2>2. Place = 1
    BY <2>1, PhasePlaces
  <2>3. QED
    BY <1>1, <2>1, <2>2 DEF Untouched
<1>5. IsList(kept) /\ IsInjective(kept)
  <2>1. places = [c \in 1 .. Len(candidates) |-> places[c]] /\ DOMAIN places = 1 .. Len(candidates)
        /\ Len(candidates) \in Nat
    BY <1>1
  <2>2. IsInjective(places)
    BY DEF IsInjective
  <2>3. IsList(places)
    <3> HIDE DEF places
    <3>1. QED
      BY <2>1, ListOfFunction
  <2> HIDE DEF places
  <2>4. QED
    BY <2>2, <2>3, KeepFacts
<1>6. design' = Committed(sent)
  BY <1>2
<1> HIDE DEF kept, places
<1>7. SendsOnly(sent, {"requirement"}) /\ Fresh(sent)
  <2>1. Made("requirement") = {}
    BY <1>4, EmptyList DEF Made
  <2>2. QED
    BY <1>5, <2>1, CreateFacts, FreshCreate
<1> HIDE DEF sent
<1>8. WellMade(sent)
  BY <1>7 DEF WellMade, SendsOnly
<1>9. /\ {"requirement"} \in SUBSET DesignKinds /\ "component" \in DesignKinds \ {"requirement"}
      /\ "net" \in DesignKinds \ {"requirement"}
  BY DEF DesignKinds
<1>10. design'["component"] = design["component"] /\ design'["net"] = design["net"]
  BY <1>1, <1>6, <1>7, <1>9, CommittedFacts
<1>11. NetsAfter'
  BY <1>1, <1>10 DEF Built, NetsAfter
<1>12. QED
  BY <1>1, <1>3, <1>6, <1>7, <1>8, <1>9, <1>10, <1>11, Builds

(* A design to which nothing is added, or a waiver of what is not waived. *)
LEMMA GrantWaiverBuilds ==
  ASSUME WorkflowInv, Built, NEW violation, GrantWaiver(violation)
  PROVE  Built'
<1>1. DesignLists
  BY DEF WorkflowInv
<1>2. /\ candidates' = candidates /\ violation \in ToSet(design["violation"]) \ ToSet(design["waiver"])
      /\ design' = [design EXCEPT !["waiver"] = Append(@, violation)]
  <2>1. violation \in OpenBlocking(design)
    BY DEF GrantWaiver
  <2>2. QED
    BY <2>1 DEF GrantWaiver, OpenBlocking
<1>3. "waiver" \in DesignKinds
  BY DEF DesignKinds
<1>4. design' = [kind \in DesignKinds |->
                   IF kind = "waiver" THEN Append(design["waiver"], violation) ELSE design[kind]]
  <2>1. design = [kind \in DesignKinds |-> design[kind]]
    BY <1>1 DEF DesignLists
  <2>2. QED
    BY <1>2, <1>3, <2>1
<1>5. Once'
  <2>1. IsInjective(Append(design["waiver"], violation))
    BY <1>1, <1>2, <1>3, InjectiveAppend DEF DesignLists, Built, Once
  <2>2. \A kind \in DesignKinds : IsInjective(design'[kind])
    <3>1. \A kind \in DesignKinds : IsInjective(design[kind])
      BY DEF Built, Once
    <3>2. QED
      BY <1>4, <2>1, <3>1
  <2>3. QED
    BY <2>2 DEF Once, IsInjective
<1>6. /\ design'["component"] = design["component"] /\ design'["net"] = design["net"]
      /\ design'["placement"] = design["placement"] /\ design'["track"] = design["track"]
      /\ design'["board"] = design["board"]
  BY <1>4 DEF DesignKinds
<1>7. /\ Made("placement")' = Made("placement") /\ Made("track")' = Made("track")
      /\ Made("board")' = Made("board")
  BY <1>6 DEF Made
<1>8. InARow'
  <2>1. \A i, c : PlacementAt(i, c)' = PlacementAt(i, c)
    BY <1>2 DEF PlacementAt, ClassOf
  <2>2. QED
    BY <1>6, <1>7, <2>1 DEF Built, InARow
<1>9. \A t \in Made("track")' : OnCentres(t)'
  BY <1>7 DEF Built, OnCentres
<1>10. QED
  BY <1>5, <1>6, <1>7, <1>8, <1>9 DEF Built, NetsAfter

(* A design that does not change. *)
LEMMA SameBuilt ==
  ASSUME Built, UNCHANGED designVars
  PROVE  Built'
<1>1. candidates' = candidates /\ design' = design
  BY DEF designVars
<1>2. \A kind : Made(kind)' = Made(kind)
  BY <1>1 DEF Made
<1>3. \A i, c : PlacementAt(i, c)' = PlacementAt(i, c)
  BY <1>1 DEF PlacementAt, ClassOf
<1>4. InARow'
  BY <1>1, <1>2, <1>3 DEF Built, InARow
<1>5. \A t \in Made("track")' : OnCentres(t)'
  BY <1>2 DEF Built, OnCentres
<1>6. QED
  BY <1>1, <1>2, <1>4, <1>5 DEF Built, NetsAfter, Once, IsInjective

(* Every step keeps it. *)
LEMMA BuildInvStep ==
  ASSUME BuildInv, WorkflowNext
  PROVE  BuildInv'
<1>1. /\ WorkflowInv /\ Built /\ Untouched /\ DesignLists
      /\ ReleaseInv /\ plan.loopbacks = DefaultLoopBacks
  BY DEF BuildInv, WorkflowInv
<1>2. WorkflowInv'
  BY <1>1, WorkflowInvStep
<1>3. ASSUME NEW phase, At(phase), PhaseSucceeds \/ PhaseFails PROVE Untouched'
  <2>1. Place \in 1 .. NumDefault /\ (Place' = Place + 1 \/ GivenUp' \/ Place' \in 3 .. Place)
    BY <1>1, <1>3, Moves
  <2>2. Place' /= 1 \/ GivenUp'
    BY <2>1 DEF NumDefault
  <2>3. QED
    BY <2>2 DEF Untouched, GivenUp
<1>4. CASE RequirementPlanning
  BY <1>2, <1>3, <1>4, RequirementPlanningBuilds DEF BuildInv, RequirementPlanning
<1>5. CASE \/ EngineeringAnalysis \/ ConstraintExtraction \/ SchematicPlanning \/ BomPlanning
           \/ PcbFloorPlanning \/ ComponentPlacement \/ RoutingPlanning
           \/ \E gate \in Gates : Verifying(gate)
  <2>1. Built'
    BY <1>1, <1>5, RunsBuild
  <2>2. \A phase, requests, passes : PhaseRun(phase, requests, passes) =>
          At(phase) /\ (PhaseSucceeds \/ PhaseFails)
    BY DEF PhaseRun, Interrupted
  <2>3. \E phase : At(phase) /\ (PhaseSucceeds \/ PhaseFails)
    BY <1>5, <2>2 DEF EngineeringAnalysis, ConstraintExtraction, SchematicPlanning, BomPlanning,
                      PcbFloorPlanning, ComponentPlacement, RoutingPlanning, Verifying
  <2>4. QED
    BY <1>2, <1>3, <2>1, <2>3 DEF BuildInv
<1>6. CASE \/ ConstraintVerification \/ ErcVerification \/ BomVerification
           \/ DrcVerification \/ DfmVerification \/ EmcAnalysis
  <2>1. \E gate \in Gates : Verifying(gate)
    BY <1>6 DEF ConstraintVerification, ErcVerification, BomVerification, DrcVerification,
                DfmVerification, EmcAnalysis, Gates
  <2>2. QED
    BY <1>5, <2>1
<1>7. CASE ManufacturingGeneration
  <2>1. UNCHANGED designVars
    BY <1>1, <1>7, ManufacturingMakesNothing
  <2>2. At("ManufacturingGeneration") /\ (PhaseSucceeds \/ PhaseFails)
    BY <1>7 DEF ManufacturingGeneration, Interrupted
  <2>3. QED
    BY <1>1, <1>2, <1>3, <2>1, <2>2, SameBuilt DEF BuildInv
<1>8. CASE Finishes /\ UNCHANGED <<designVars, runVars>>
  <2>1. Untouched'
    BY <1>8 DEF Finishes, Untouched
  <2>2. QED
    BY <1>1, <1>2, <1>8, <2>1, SameBuilt DEF BuildInv
<1>9. ASSUME NEW violation, GrantWaiver(violation) PROVE BuildInv'
  <2>1. Untouched'
    BY <1>9 DEF GrantWaiver, GivenUp, Untouched, vars
  <2>2. QED
    BY <1>1, <1>2, <1>9, <2>1, GrantWaiverBuilds DEF BuildInv
<1>10. ASSUME NEW i \in Positions, RunAgain(i) PROVE BuildInv'
  <2>1. UNCHANGED designVars
    BY <1>10 DEF RunAgain
  <2>2. Untouched'
    <3>1. /\ NumPhases \in 1 .. 15 /\ i \in 1 .. NumPhases /\ NumDefault = 15
          /\ plan.names[i] = PhaseNames[NumDefault - NumPhases + i]
          /\ plan.names[i] /= "RequirementPlanning"
      BY <1>1, <1>10 DEF ReleaseInv, PlanIsTail, NumDefault, NumPhases, Positions, RunAgain
    <3>2. Place' = NumDefault - NumPhases + i
      BY <1>1, <1>10, PlaceAgain
    <3>3. Place' /= 1
      BY <3>1, <3>2 DEF PhaseNames
    <3>4. QED
      BY <3>3 DEF Untouched
  <2>3. QED
    BY <1>1, <1>2, <2>1, <2>2, SameBuilt DEF BuildInv
<1>11. QED
  BY <1>4, <1>5, <1>6, <1>7, <1>8, <1>9, <1>10 DEF WorkflowNext

(* Nothing is built yet. *)
LEMMA BuildInvInit ==
  ASSUME WorkflowInit
  PROVE  BuildInv
<1>1. design = [kind \in DesignKinds |-> <<>>]
  BY DEF WorkflowInit, EmptyDesign
<1>2. \A kind \in DesignKinds : design[kind] = <<>> /\ Made(kind) = {} /\ IsInjective(design[kind])
  BY <1>1, EmptyList DEF Made, IsInjective
<1>3. Built
  BY <1>2 DEF Built, Once, NetsAfter, InARow, DesignKinds
<1>4. Untouched
  BY <1>2 DEF Untouched, DesignKinds
<1>5. QED
  BY <1>3, <1>4, WorkflowInvInit DEF BuildInv

(* A step that changes nothing does. *)
LEMMA BuildInvKept ==
  ASSUME BuildInv, UNCHANGED workflowVars
  PROVE  BuildInv'
<1>1. WorkflowInv' /\ Built'
  BY RestKeeps, SameBuilt DEF BuildInv, workflowVars, vars
<1>2. Untouched'
  BY DEF BuildInv, Untouched, Place, NumPhases, NumDefault, workflowVars, vars, designVars
<1>3. QED
  BY <1>1, <1>2 DEF BuildInv

(* The invariant holds throughout. *)
LEMMA BuildInvariant == WorkflowSpec => []BuildInv
<1>1. WorkflowInit => BuildInv
  BY BuildInvInit
<1>2. BuildInv /\ [WorkflowNext]_workflowVars => BuildInv'
  BY BuildInvStep, BuildInvKept
<1>3. QED
  BY <1>1, <1>2, PTL DEF WorkflowSpec

-----------------------------------------------------------------------------
(* The invariant of a run on its own: nothing is left out *)

\* Every block is a component, and the nets are those that have pads.
Wired ==
  /\ Made("component") = Made("block")
  /\ Made("net") = {net \in ToSet(NetNames) : PadsOf(net, Made("component")) /= {}}

\* The net's chain is whole.
Routed(net) == ToSet(ChainOf(net)) \subseteq Made("track")

\* What a run that has not given up has done so far.
Whole ==
  /\ Place <= 2 => design["component"] = <<>>
  /\ Place > 2 => Made("requirement") \subseteq Made("block")
  /\ design["component"] /= <<>> \/ Place > 5 => Wired
  /\ design["track"] /= <<>> => PcbIr(design)
  /\ \A net \in Made("net") : TracksOf(net) = <<>> \/ Routed(net)
  /\ Place > 11 => \A net \in Made("net") : Routed(net)

WholeInv == runs = 1 /\ ~GivenUp => Whole

(* A net has the pads and the chain it had. *)
LEMMA ChainKept ==
  ASSUME candidates' = candidates, design'["component"] = design["component"],
         design'["placement"] = design["placement"], NEW net
  PROVE  MembersOf(net)' = MembersOf(net) /\ ChainOf(net)' = ChainOf(net)
<1>1. Made("component")' = Made("component") /\ Made("placement")' = Made("placement")
  BY DEF Made
<1>2. MembersOf(net)' = MembersOf(net)
  BY <1>1 DEF MembersOf, PadsOf, DriversOf, ConsumersOf, ClassOf
<1>3. ChainOf(net)' = ChainOf(net)
  BY <1>2 DEF ChainOf
<1>4. QED
  BY <1>2, <1>3

(* And the tracks it had. *)
LEMMA TracksKept ==
  ASSUME design'["track"] = design["track"], NEW net
  PROVE  TracksOf(net)' = TracksOf(net)
BY DEF TracksOf, Made

(* The components are wired as they were. *)
LEMMA WiredKept ==
  ASSUME Wired, candidates' = candidates, design'["component"] = design["component"],
         design'["net"] = design["net"], Made("block")' = Made("block")
  PROVE  Wired'
<1>1. Made("component")' = Made("component") /\ Made("net")' = Made("net")
  BY DEF Made
<1>2. \A net : PadsOf(net, Made("component"))' = PadsOf(net, Made("component"))
  BY <1>1 DEF PadsOf, DriversOf, ConsumersOf, ClassOf
<1>3. QED
  BY <1>1, <1>2 DEF Wired

\* What a run is judged by.
JudgedKinds ==
  {"requirement", "block", "component", "net", "placement", "track", "board"}

(* A step that makes nothing of that, and passes no planning phase. *)
LEMMA WholeKept ==
  ASSUME Whole, candidates' = candidates, \A kind \in JudgedKinds : design'[kind] = design[kind],
         Place' <= 2 => Place <= 2, Place' > 2 => Place > 2,
         Place' > 5 => Place > 5, Place' > 11 => Place > 11
  PROVE  Whole'
<1>1. /\ design'["requirement"] = design["requirement"] /\ design'["block"] = design["block"]
      /\ design'["component"] = design["component"] /\ design'["net"] = design["net"]
      /\ design'["placement"] = design["placement"] /\ design'["track"] = design["track"]
      /\ design'["board"] = design["board"]
  BY DEF JudgedKinds
<1>2. /\ Made("requirement")' = Made("requirement") /\ Made("block")' = Made("block")
      /\ Made("net")' = Made("net") /\ Made("track")' = Made("track")
  BY <1>1 DEF Made
<1>3. Wired => Wired'
  BY <1>1, <1>2, WiredKept
<1>4. PcbIr(design) => PcbIr(design')
  BY <1>1 DEF PcbIr
<1>5. \A net : TracksOf(net)' = TracksOf(net)
  BY <1>1, TracksKept
<1>6. \A net : Routed(net) => Routed(net)'
  <2>1. \A net : ChainOf(net)' = ChainOf(net)
    BY <1>1, ChainKept
  <2>2. QED
    BY <1>2, <2>1 DEF Routed, ToSet
<1>7. QED
  BY <1>1, <1>2, <1>3, <1>4, <1>5, <1>6 DEF Whole

(* A planning phase of a run that does not give up there has done its work. *)
LEMMA PlanningSucceeds ==
  ASSUME WorkflowInv, NEW phase, phase \notin Gates, NEW requests, NEW passes,
         PhaseRun(phase, requests, passes), ~GivenUp'
  PROVE  /\ passes /\ design' = Committed(requests) /\ candidates' = candidates
         /\ Place \in 1 .. NumDefault /\ PhaseNames[Place] = phase /\ Place' = Place + 1
<1>1. At(phase) /\ candidates' = candidates /\ (PhaseSucceeds \/ PhaseFails)
  BY DEF PhaseRun, Interrupted
<1>2. /\ Place \in 1 .. NumDefault /\ PhaseNames[Place] = phase
      /\ PhaseSucceeds => Place' = Place + 1
      /\ ~PhaseFails
  BY <1>1, Moves DEF WorkflowInv
<1>3. passes /\ design' = Committed(requests) /\ PhaseSucceeds
  <2>1. ~Interrupted(requests)
    BY <1>2 DEF Interrupted
  <2>2. design' = Committed(requests) /\ (IF passes THEN PhaseSucceeds ELSE PhaseFails)
    BY <2>1, Zenon DEF PhaseRun
  <2>3. QED
    BY <1>2, <2>2, Zenon
<1>4. QED
  BY <1>1, <1>2, <1>3

(* A planning phase that makes nothing that the run is judged by. *)
LEMMA AsideKeeps ==
  ASSUME WorkflowInv, Whole, NEW phase \in {"ConstraintExtraction", "BomPlanning"}, NEW requests,
         NEW passes, PhaseRun(phase, requests, passes), ~GivenUp',
         NEW kinds \in SUBSET DesignKinds, SendsOnly(requests, kinds), kinds \cap JudgedKinds = {}
  PROVE  Whole'
<1>1. /\ design' = Committed(requests) /\ candidates' = candidates
      /\ Place \in 1 .. NumDefault /\ PhaseNames[Place] = phase /\ Place' = Place + 1
  BY PlanningSucceeds DEF Gates
<1>2. Place = 3 \/ Place = 7
  BY <1>1, PhasePlaces
<1>3. \A kind \in JudgedKinds : design'[kind] = design[kind]
  <2>1. JudgedKinds \subseteq DesignKinds
    BY DEF JudgedKinds, DesignKinds
  <2>2. QED
    BY <1>1, <2>1, CommittedFacts DEF WorkflowInv
<1>4. QED
  BY <1>1, <1>2, <1>3, WholeKept

(* A gate makes nothing of it either, and goes on, back or nowhere. *)
LEMMA GateKeeps ==
  ASSUME WorkflowInv, Whole, NEW gate \in Gates, Verifying(gate), ~GivenUp'
  PROVE  Whole'
<1>1. DesignLists
  BY DEF WorkflowInv
<1>2. PhaseRun(gate, Raising(gate), OwnOpenBlocking(gate, design') = {})
  BY DEF Verifying
<1>3. At(gate) /\ candidates' = candidates /\ (PhaseSucceeds \/ PhaseFails)
  BY <1>2 DEF PhaseRun, Interrupted
<1>4. /\ Place \in 1 .. NumDefault /\ PhaseNames[Place] = gate
      /\ Place' = Place + 1 \/ Place' \in 3 .. Place
  BY <1>3, Moves DEF WorkflowInv
<1>5. Place \in {4, 6, 8, 12, 13, 14}
  BY <1>4, PhasePlaces
<1>6. /\ Place' <= 2 => Place <= 2
      /\ Place' > 2 => Place > 2
      /\ Place' > 5 => Place > 5
      /\ Place' > 11 => Place > 11
  BY <1>4, <1>5
<1>7. \A kind \in JudgedKinds : design'[kind] = design[kind]
  <2>1. SendsOnly(Raising(gate), {"violation"})
    BY <1>1, RaisingFacts
  <2>2. PICK k \in 0 .. Len(Raising(gate)) : design' = Committed(SubSeq(Raising(gate), 1, k))
    BY <1>2, <2>1, RunCommits DEF SendsOnly
  <2> DEFINE sent == SubSeq(Raising(gate), 1, k)
  <2>3. SendsOnly(sent, {"violation"})
    BY <2>1, SendsPrefix
  <2>4. design' = Committed(sent)
    BY <2>2
  <2> HIDE DEF sent
  <2>5. {"violation"} \in SUBSET DesignKinds /\ JudgedKinds \subseteq DesignKinds \ {"violation"}
    BY DEF JudgedKinds, DesignKinds
  <2>6. QED
    BY <1>1, <2>3, <2>4, <2>5, CommittedFacts
<1>8. QED
  BY <1>3, <1>6, <1>7, WholeKept

(* What a planning phase that succeeds makes. *)
LEMMA Adds ==
  ASSUME DesignLists, NEW requests, NEW kinds \in SUBSET DesignKinds, SendsOnly(requests, kinds),
         design' = Committed(requests)
  PROVE  /\ \A kind \in DesignKinds :
              /\ Made(kind)' = Made(kind) \cup {r.item : r \in {q \in ToSet(requests) : q.kind = kind}}
              /\ kind \notin kinds => design'[kind] = design[kind] /\ Made(kind)' = Made(kind)
         /\ JudgedKinds \subseteq DesignKinds
<1>1. \A kind \in DesignKinds :
        /\ ToSet(design'[kind])
             = Made(kind) \cup {r.item : r \in {q \in ToSet(requests) : q.kind = kind}}
        /\ kind \notin kinds => design'[kind] = design[kind]
  BY CommittedFacts
<1>2. QED
  BY <1>1 DEF Made, JudgedKinds, DesignKinds

(* The agent's phase. *)
LEMMA RequirementPlanningWhole ==
  ASSUME WorkflowInv, Whole, RequirementPlanning, ~GivenUp'
  PROVE  Whole'
<1>1. DesignLists
  BY DEF WorkflowInv
<1>2. At("RequirementPlanning") /\ candidates' = candidates /\ (PhaseSucceeds \/ PhaseFails)
  BY DEF RequirementPlanning
<1>3. /\ Place \in 1 .. NumDefault /\ PhaseNames[Place] = "RequirementPlanning"
      /\ Place' = Place + 1 \/ Place' \in 3 .. Place
  BY <1>2, Moves DEF WorkflowInv
<1>4. Place = 1 /\ Place' = 2
  BY <1>3, PhasePlaces
<1>5. \A kind \in DesignKinds \ {"requirement"} : design'[kind] = design[kind]
  <2> DEFINE places == [c \in DOMAIN candidates |-> c]
  <2>1. PICK lost \in SUBSET DOMAIN candidates :
          design' = Committed(Create("requirement", Keep(places, DOMAIN candidates \ lost)))
    BY DEF RequirementPlanning
  <2> DEFINE kept == Keep(places, DOMAIN candidates \ lost)
  <2>2. IsList(kept)
    <3>1. candidates \in Seq(Candidate)
      BY WorkflowAssumption DEF WorkflowInv, WorkflowTypeOK
    <3>2. places = [c \in 1 .. Len(candidates) |-> places[c]] /\ DOMAIN places = 1 .. Len(candidates)
          /\ Len(candidates) \in Nat
      BY <3>1
    <3>3. IsList(places)
      <4> HIDE DEF places
      <4>1. QED
        BY <3>2, ListOfFunction
    <3> HIDE DEF places
    <3>4. QED
      BY <3>3, KeepFacts
  <2>3. design' = Committed(Create("requirement", kept))
    BY <2>1
  <2> HIDE DEF kept
  <2>4. SendsOnly(Create("requirement", kept), {"requirement"}) /\ {"requirement"} \in SUBSET DesignKinds
    BY <2>2, CreateFacts DEF DesignKinds
  <2>5. QED
    BY <1>1, <2>3, <2>4, CommittedFacts
<1>6. /\ design'["component"] = design["component"] /\ design'["net"] = design["net"]
      /\ design'["placement"] = design["placement"] /\ design'["track"] = design["track"]
      /\ design'["board"] = design["board"]
  BY <1>5 DEF DesignKinds
<1>7. design["component"] = <<>>
  BY <1>4 DEF Whole
<1>8. PcbIr(design) => PcbIr(design')
  BY <1>6 DEF PcbIr
<1>9. \A net : /\ TracksOf(net)' = TracksOf(net)
               /\ ChainOf(net)' = ChainOf(net)
  BY <1>2, <1>6, TracksKept, ChainKept
<1>10. Made("net")' = Made("net") /\ \A net : Routed(net) => Routed(net)'
  BY <1>6, <1>9 DEF Routed, Made, ToSet
<1>11. QED
  BY <1>4, <1>6, <1>7, <1>8, <1>9, <1>10 DEF Whole

(* The analysis makes a block of every requirement. *)
LEMMA AnalysisWhole ==
  ASSUME WorkflowInv, Whole, EngineeringAnalysis, ~GivenUp'
  PROVE  Whole'
<1>1. DesignLists
  BY DEF WorkflowInv
<1>2. /\ design' = Committed(Analyzing) /\ candidates' = candidates
      /\ Place \in 1 .. NumDefault /\ PhaseNames[Place] = "EngineeringAnalysis" /\ Place' = Place + 1
  BY PlanningSucceeds DEF Gates, EngineeringAnalysis
<1>3. Place = 2 /\ Place' = 3
  BY <1>2, PhasePlaces
<1>4. SendsOnly(Analyzing, {"block"}) /\ {"block"} \in SUBSET DesignKinds
  BY <1>1, PlanningSends DEF DesignKinds
<1>5. /\ \A kind \in DesignKinds :
           /\ Made(kind)' = Made(kind) \cup {r.item : r \in {q \in ToSet(Analyzing) : q.kind = kind}}
           /\ kind \notin {"block"} => design'[kind] = design[kind] /\ Made(kind)' = Made(kind)
      /\ JudgedKinds \subseteq DesignKinds
  BY <1>1, <1>2, <1>4, Adds
<1>6. /\ design'["component"] = design["component"] /\ design'["net"] = design["net"]
      /\ design'["placement"] = design["placement"] /\ design'["track"] = design["track"]
      /\ design'["board"] = design["board"]
  BY <1>5 DEF JudgedKinds
<1>7. Made("requirement")' \subseteq Made("block")'
  <2>1. ToSet(Analyzing) = {[kind |-> "block", item |-> x] : x \in Made("requirement") \ Made("block")}
    <3>1. IsList(design["requirement"])
      BY <1>1 DEF DesignLists, DesignKinds
    <3>2. QED
      BY <3>1, MissingFacts DEF Analyzing, Made
  <2>2. Made("requirement")' = Made("requirement") /\ "block" \in DesignKinds
    BY <1>5 DEF JudgedKinds
  <2> DEFINE new == {q \in ToSet(Analyzing) : q.kind = "block"}
  <2>3. \A x \in Made("requirement") \ Made("block") : [kind |-> "block", item |-> x] \in new
    BY <2>1
  <2>4. Made("block")' = Made("block") \cup {r.item : r \in new}
    BY <1>5, <2>2
  <2> HIDE DEF new
  <2>5. \A x : [kind |-> "block", item |-> x].item = x
    OBVIOUS
  <2>6. \A x \in Made("requirement") \ Made("block") : x \in {r.item : r \in new}
    BY <2>3, <2>5
  <2>7. QED
    BY <2>2, <2>4, <2>6
<1>8. design["component"] = <<>>
  BY <1>3 DEF Whole
<1>9. PcbIr(design) => PcbIr(design')
  BY <1>6 DEF PcbIr
<1>10. \A net : /\ TracksOf(net)' = TracksOf(net)
                /\ ChainOf(net)' = ChainOf(net)
  BY <1>2, <1>6, TracksKept, ChainKept
<1>11. Made("net")' = Made("net") /\ \A net : Routed(net) => Routed(net)'
  BY <1>6, <1>10 DEF Routed, Made, ToSet
<1>12. QED
  BY <1>3, <1>6, <1>7, <1>8, <1>9, <1>10, <1>11 DEF Whole

(* Without components there are no nets, placements and tracks. *)
LEMMA NothingBuilt ==
  ASSUME DesignLists, Built, design["component"] = <<>>
  PROVE  /\ Made("component") = {} /\ Made("net") = {}
         /\ Made("placement") = {} /\ design["track"] = <<>>
<1>1. Made("component") = {}
  BY EmptyList DEF Made
<1>2. Made("net") = {}
  BY EmptyList DEF Built, NetsAfter, Made
<1>3. Made("placement") = {}
  BY DEF Built, InARow
<1>4. Made("track") = {}
  BY <1>3 DEF Built, OnCentres
<1>5. design["track"] \in Seq({})
  BY <1>4 DEF Made, DesignLists, DesignKinds, IsList
<1>6. QED
  BY <1>1, <1>2, <1>3, <1>5

(* The synthesis makes a component of every block, and their nets. *)
LEMMA SchematicWhole ==
  ASSUME WorkflowInv, Built, Whole, SchematicPlanning, ~GivenUp'
  PROVE  Whole'
<1>1. DesignLists
  BY DEF WorkflowInv
<1>2. /\ design' = Committed(SchematicPlan) /\ candidates' = candidates
      /\ Place \in 1 .. NumDefault /\ PhaseNames[Place] = "SchematicPlanning" /\ Place' = Place + 1
  BY PlanningSucceeds DEF Gates, SchematicPlanning
<1>3. Place = 5 /\ Place' = 6
  BY <1>2, PhasePlaces
<1>4. CASE design["component"] /= <<>>
  <2>1. SchematicPlan = <<>>
    BY <1>4 DEF SchematicPlan
  <2>2. SendsOnly(SchematicPlan, {}) /\ {} \in SUBSET DesignKinds
    BY <2>1, SendsNothing
  <2>3. \A kind \in DesignKinds : design'[kind] = design[kind]
    BY <1>1, <1>2, <2>2, CommittedFacts
  <2>4. \A kind \in DesignKinds : Made(kind)' = Made(kind)
    BY <2>3 DEF Made
  <2>5. /\ design'["component"] = design["component"] /\ design'["net"] = design["net"]
        /\ design'["placement"] = design["placement"] /\ design'["track"] = design["track"]
        /\ design'["board"] = design["board"]
        /\ Made("block")' = Made("block") /\ Made("requirement")' = Made("requirement")
        /\ Made("net")' = Made("net") /\ Made("track")' = Made("track")
    BY <2>3, <2>4 DEF DesignKinds
  <2>6. Wired'
    <3>1. Wired
      BY <1>4 DEF Whole
    <3>2. QED
      BY <1>2, <2>5, <3>1, WiredKept
  <2>7. PcbIr(design) => PcbIr(design')
    BY <2>5 DEF PcbIr
  <2>8. \A net : /\ TracksOf(net)' = TracksOf(net)
                 /\ ChainOf(net)' = ChainOf(net)
    BY <1>2, <2>5, TracksKept, ChainKept
  <2>9. \A net : Routed(net) => Routed(net)'
    BY <2>5, <2>8 DEF Routed, ToSet
  <2>10. QED
    BY <1>3, <2>5, <2>6, <2>7, <2>8, <2>9 DEF Whole
<1>5. CASE design["component"] = <<>>
  <2> DEFINE set == {net \in ToSet(NetNames) : PadsOf(net, Made("block")) /= {}}
             nets == Keep(NetNames, set)
             comps == Create("component", design["block"])
             joins == Create("net", nets)
             all == SchematicPlan
  <2>1. /\ Made("component") = {} /\ Made("net") = {}
        /\ Made("placement") = {} /\ design["track"] = <<>>
    BY <1>1, <1>5, NothingBuilt
  <2>2. IsList(nets) /\ ToSet(nets) = set
    <3>1. IsList(NetNames)
      BY DEF NetNames, IsList, ToSet
    <3>2. ToSet(nets) = ToSet(NetNames) \cap set /\ IsList(nets)
      <4> HIDE DEF set
      <4>1. QED
        BY <3>1, KeepFacts
    <3>3. QED
      BY <3>2
  <2>3. all = comps \o joins
    BY <1>5 DEF SchematicPlan
  <2> HIDE DEF nets, all
  <2>4. /\ IsList(comps) /\ ToSet(comps) = {[kind |-> "component", item |-> x] : x \in Made("block")}
        /\ IsList(joins) /\ ToSet(joins) = {[kind |-> "net", item |-> x] : x \in set}
    <3>1. IsList(design["block"])
      BY <1>1 DEF DesignLists, DesignKinds
    <3>2. QED
      BY <2>2, <3>1, CreateFacts DEF SendsOnly, Made
  <2> HIDE DEF comps, joins
  <2>5. ToSet(all) = ToSet(comps) \cup ToSet(joins)
    BY <2>3, <2>4, ListConcat
  <2>6. SendsOnly(all, {"component", "net"}) /\ {"component", "net"} \in SUBSET DesignKinds
    BY <1>1, PlanningSends DEF all, DesignKinds
  <2>7. design' = Committed(all)
    BY <1>2 DEF all
  <2>8. /\ \A kind \in DesignKinds :
             /\ Made(kind)' = Made(kind) \cup {r.item : r \in {q \in ToSet(all) : q.kind = kind}}
             /\ kind \notin {"component", "net"} =>
                  design'[kind] = design[kind] /\ Made(kind)' = Made(kind)
        /\ JudgedKinds \subseteq DesignKinds
    BY <1>1, <2>6, <2>7, Adds
  <2>9. /\ design'["track"] = <<>>
        /\ Made("block")' = Made("block") /\ Made("requirement")' = Made("requirement")
    BY <2>1, <2>8 DEF JudgedKinds
  <2>10. \A kind, x : [kind |-> kind, item |-> x].item = x /\ [kind |-> kind, item |-> x].kind = kind
    OBVIOUS
  <2>11. {r.item : r \in {q \in ToSet(all) : q.kind = "component"}} = Made("block")
    <3>1. {q \in ToSet(all) : q.kind = "component"} = ToSet(comps)
      BY <2>4, <2>5, <2>10
    <3>2. {r.item : r \in ToSet(comps)} = Made("block")
      <4>1. \A r \in ToSet(comps) : r.item \in Made("block")
        BY <2>4, <2>10
      <4>2. \A x \in Made("block") : \E r \in ToSet(comps) : r.item = x
        <5>1. \A x \in Made("block") : [kind |-> "component", item |-> x] \in ToSet(comps)
          BY <2>4
        <5>2. QED
          BY <2>10, <5>1
      <4>3. QED
        BY <4>1, <4>2
    <3>3. QED
      BY <3>1, <3>2
  <2>12. {r.item : r \in {q \in ToSet(all) : q.kind = "net"}} = set
    <3> HIDE DEF set
    <3>1. {q \in ToSet(all) : q.kind = "net"} = ToSet(joins)
      BY <2>4, <2>5, <2>10
    <3>2. {r.item : r \in ToSet(joins)} = set
      <4>1. \A r \in ToSet(joins) : r.item \in set
        BY <2>4, <2>10
      <4>2. \A x \in set : \E r \in ToSet(joins) : r.item = x
        <5>1. \A x \in set : [kind |-> "net", item |-> x] \in ToSet(joins)
          BY <2>4
        <5>2. QED
          BY <2>10, <5>1
      <4>3. QED
        BY <4>1, <4>2
    <3>3. QED
      BY <3>1, <3>2
  <2>13. Made("component")' = Made("block") /\ Made("net")' = set
    <3>1. "component" \in DesignKinds /\ "net" \in DesignKinds
      BY DEF DesignKinds
    <3> HIDE DEF set
    <3>2. QED
      BY <2>1, <2>8, <2>11, <2>12, <3>1
  <2>14. Wired'
    <3>1. \A net : PadsOf(net, Made("component"))' = PadsOf(net, Made("block"))
      <4>1. Made("component")' = Made("block")
        BY <2>13
      <4>2. QED
        BY <1>2, <4>1 DEF PadsOf, DriversOf, ConsumersOf, ClassOf
    <3>2. QED
      BY <2>9, <2>13, <3>1 DEF Wired
  <2>15. \A net : TracksOf(net)' = <<>>
    <3>1. \A net : TracksOf(net) = <<>>
      BY <2>1, NoTracks
    <3>2. QED
      BY <2>1, <2>9, <3>1, TracksKept
  <2>16. QED
    BY <1>3, <2>9, <2>14, <2>15 DEF Whole
<1>6. QED
  BY <1>4, <1>5

(* The floor plan makes the board. *)
LEMMA FloorWhole ==
  ASSUME WorkflowInv, Whole, PcbFloorPlanning, ~GivenUp'
  PROVE  Whole'
<1>1. DesignLists
  BY DEF WorkflowInv
<1>2. /\ design'["board"] /= <<>>
      /\ design' = Committed(FloorPlan) /\ candidates' = candidates
      /\ Place \in 1 .. NumDefault /\ PhaseNames[Place] = "PcbFloorPlanning" /\ Place' = Place + 1
  BY PlanningSucceeds DEF Gates, PcbFloorPlanning
<1>3. Place = 9 /\ Place' = 10
  BY <1>2, PhasePlaces
<1>4. SendsOnly(FloorPlan, {"board"}) /\ {"board"} \in SUBSET DesignKinds
  BY <1>1, PlanningSends DEF DesignKinds
<1>5. /\ \A kind \in DesignKinds :
           kind \notin {"board"} => design'[kind] = design[kind] /\ Made(kind)' = Made(kind)
      /\ JudgedKinds \subseteq DesignKinds
  BY <1>1, <1>2, <1>4, Adds
<1>6. /\ design'["component"] = design["component"] /\ design'["net"] = design["net"]
      /\ design'["placement"] = design["placement"] /\ design'["track"] = design["track"]
      /\ Made("block")' = Made("block") /\ Made("requirement")' = Made("requirement")
      /\ Made("net")' = Made("net") /\ Made("track")' = Made("track")
  BY <1>5 DEF JudgedKinds
<1>7. Wired'
  <2>1. Wired
    BY <1>3 DEF Whole
  <2>2. QED
    BY <1>2, <1>6, <2>1, WiredKept
<1>8. PcbIr(design) => PcbIr(design')
  BY <1>2, <1>6 DEF PcbIr
<1>9. \A net : /\ TracksOf(net)' = TracksOf(net)
               /\ ChainOf(net)' = ChainOf(net)
  BY <1>2, <1>6, TracksKept, ChainKept
<1>10. \A net : Routed(net) => Routed(net)'
  BY <1>6, <1>9 DEF Routed, ToSet
<1>11. QED
  BY <1>3, <1>6, <1>7, <1>8, <1>9, <1>10 DEF Whole

(* The row is filled up; once there is copper, there is no place left in it. *)
LEMMA PlacementWhole ==
  ASSUME WorkflowInv, Whole, ComponentPlacement, ~GivenUp'
  PROVE  Whole'
<1>1. DesignLists
  BY DEF WorkflowInv
<1>2. /\ PcbIr(design')
      /\ design' = Committed(Placing) /\ candidates' = candidates
      /\ Place \in 1 .. NumDefault /\ PhaseNames[Place] = "ComponentPlacement" /\ Place' = Place + 1
  BY PlanningSucceeds DEF Gates, ComponentPlacement
<1>3. Place = 10 /\ Place' = 11
  BY <1>2, PhasePlaces
<1>4. SendsOnly(Placing, {"placement"}) /\ {"placement"} \in SUBSET DesignKinds
  BY <1>1, PlanningSends DEF DesignKinds
<1>5. /\ \A kind \in DesignKinds :
           kind \notin {"placement"} => design'[kind] = design[kind] /\ Made(kind)' = Made(kind)
      /\ JudgedKinds \subseteq DesignKinds
  BY <1>1, <1>2, <1>4, Adds
<1>6. /\ design'["component"] = design["component"] /\ design'["net"] = design["net"]
      /\ design'["track"] = design["track"]
      /\ Made("block")' = Made("block") /\ Made("requirement")' = Made("requirement")
      /\ Made("net")' = Made("net") /\ Made("track")' = Made("track")
  BY <1>5 DEF JudgedKinds
<1>7. Wired'
  <2>1. Wired
    BY <1>3 DEF Whole
  <2>2. QED
    BY <1>2, <1>6, <2>1, WiredKept
<1>8. \A net : TracksOf(net)' = TracksOf(net)
  BY <1>6, TracksKept
<1>9. CASE design["track"] = <<>>
  <2>1. \A net : TracksOf(net)' = <<>>
    BY <1>8, <1>9, NoTracks
  <2>2. QED
    BY <1>2, <1>3, <1>6, <1>7, <2>1 DEF Whole
<1>10. CASE design["track"] /= <<>>
  <2>1. PcbIr(design)
    BY <1>10 DEF Whole
  <2>2. Placing = <<>>
    BY <1>1, <2>1, NothingToPlace
  <2>4. SendsOnly(Placing, {}) /\ {} \in SUBSET DesignKinds /\ "placement" \in DesignKinds
    BY <2>2, SendsNothing DEF DesignKinds
  <2>5. design'["placement"] = design["placement"]
    BY <1>1, <1>2, <2>4, CommittedFacts
  <2>6. \A net : ChainOf(net)' = ChainOf(net)
    BY <1>2, <1>6, <2>5, ChainKept
  <2>7. \A net : Routed(net) => Routed(net)'
    BY <1>6, <2>6 DEF Routed, ToSet
  <2>8. QED
    BY <1>2, <1>3, <1>6, <1>7, <1>8, <2>7 DEF Whole
<1>11. QED
  BY <1>9, <1>10

(* The router asks for the chain of every net that has no tracks. *)
LEMMA RoutingAsks ==
  ASSUME DesignLists, design["board"] /= <<>>, NEW net \in Made("net"), TracksOf(net) = <<>>,
         NEW t \in ToSet(ChainOf(net))
  PROVE  [kind |-> "track", item |-> t] \in ToSet(Routing)
<1> DEFINE set == {x \in Made("net") : TracksOf(x) = <<>>}
           unrouted == Keep(design["net"], set)
           seqs == [k \in DOMAIN unrouted |-> Create("track", ChainOf(unrouted[k]))]
<1>1. Routing = FlattenSeq(seqs)
  BY DEF Routing, OnBoard
<1>2. IsList(unrouted) /\ net \in ToSet(unrouted)
  <2>1. IsList(design["net"]) /\ net \in ToSet(design["net"]) \cap set
    BY DEF DesignLists, DesignKinds, Made
  <2> HIDE DEF set
  <2>2. QED
    BY <2>1, KeepFacts
<1> HIDE DEF unrouted
<1>3. PICK k \in DOMAIN unrouted : unrouted[k] = net
  BY <1>2 DEF ToSet
<1>4. Len(unrouted) \in Nat /\ DOMAIN unrouted = 1 .. Len(unrouted)
  BY <1>2, ListOfSeq DEF IsList
<1>5. /\ IsList(seqs) /\ DOMAIN seqs = DOMAIN unrouted
      /\ \A i \in DOMAIN seqs : IsList(seqs[i])
  BY <1>4, ListOfFunction, ChainList, CreateFacts DEF SendsOnly
<1>6. [kind |-> "track", item |-> t] \in ToSet(seqs[k])
  <2>1. ToSet(Create("track", ChainOf(net))) = {[kind |-> "track", item |-> x] : x \in ToSet(ChainOf(net))}
    BY ChainList, CreateFacts
  <2>2. seqs[k] = Create("track", ChainOf(net))
    BY <1>3
  <2>3. QED
    BY <2>1, <2>2
<1> HIDE DEF seqs
<1>7. QED
  BY <1>1, <1>3, <1>5, <1>6, FlattenFacts

(* When routing succeeds, every net is routed to its last pad. *)
LEMMA RoutingWhole ==
  ASSUME WorkflowInv, Whole, RoutingPlanning, ~GivenUp'
  PROVE  Whole'
<1>1. DesignLists
  BY DEF WorkflowInv
<1>2. /\ PcbIr(design')
      /\ design' = Committed(Routing) /\ candidates' = candidates
      /\ Place \in 1 .. NumDefault /\ PhaseNames[Place] = "RoutingPlanning" /\ Place' = Place + 1
  BY PlanningSucceeds DEF Gates, RoutingPlanning
<1>3. Place = 11 /\ Place' = 12
  BY <1>2, PhasePlaces
<1>4. SendsOnly(Routing, {"track"}) /\ {"track"} \in SUBSET DesignKinds
  BY <1>1, PlanningSends DEF DesignKinds
<1>5. /\ \A kind \in DesignKinds :
           /\ Made(kind)' = Made(kind) \cup {r.item : r \in {q \in ToSet(Routing) : q.kind = kind}}
           /\ kind \notin {"track"} => design'[kind] = design[kind] /\ Made(kind)' = Made(kind)
      /\ JudgedKinds \subseteq DesignKinds
  BY <1>1, <1>2, <1>4, Adds
<1>6. /\ design'["component"] = design["component"] /\ design'["net"] = design["net"]
      /\ design'["placement"] = design["placement"] /\ design'["board"] = design["board"]
      /\ Made("block")' = Made("block") /\ Made("requirement")' = Made("requirement")
      /\ Made("net")' = Made("net")
  BY <1>5 DEF JudgedKinds
<1>7. Wired'
  <2>1. Wired
    BY <1>3 DEF Whole
  <2>2. QED
    BY <1>2, <1>6, <2>1, WiredKept
<1>8. \A net : ChainOf(net)' = ChainOf(net)
  BY <1>2, <1>6, ChainKept
<1>9. design["board"] /= <<>>
  BY <1>2, <1>6 DEF PcbIr
<1>10. Made("track")' = Made("track") \cup {r.item : r \in {q \in ToSet(Routing) : q.kind = "track"}}
  BY <1>5 DEF JudgedKinds
<1>11. ASSUME NEW net \in Made("net")' PROVE Routed(net)'
  <2>1. net \in Made("net")
    BY <1>6, <1>11
  <2>2. SUFFICES ToSet(ChainOf(net)) \subseteq Made("track")'
    BY <1>8 DEF Routed, ToSet
  <2>3. CASE Routed(net)
    BY <1>10, <2>3 DEF Routed
  <2>4. CASE TracksOf(net) = <<>>
    <3>1. SUFFICES ASSUME NEW t \in ToSet(ChainOf(net)) PROVE t \in Made("track")'
      OBVIOUS
    <3>2. [kind |-> "track", item |-> t] \in ToSet(Routing)
      BY <1>1, <1>9, <2>1, <2>4, RoutingAsks
    <3>3. [kind |-> "track", item |-> t].item = t /\ [kind |-> "track", item |-> t].kind = "track"
      OBVIOUS
    <3>4. QED
      BY <1>10, <3>2, <3>3
  <2>5. QED
    BY <2>1, <2>3, <2>4 DEF Whole
<1>12. QED
  BY <1>2, <1>3, <1>6, <1>7, <1>11 DEF Whole

(* Every step of a run on its own that has not given up. *)
LEMMA WholeStep ==
  ASSUME BuildInv, Whole, WorkflowNext, ~GivenUp, ~GivenUp', runs' = 1, runs = 1
  PROVE  Whole'
<1>1. WorkflowInv /\ Built /\ DesignLists /\ ReleaseInv /\ plan.loopbacks = DefaultLoopBacks
  BY DEF BuildInv, WorkflowInv
<1>2. CASE RequirementPlanning
  BY <1>1, <1>2, RequirementPlanningWhole
<1>3. CASE EngineeringAnalysis
  BY <1>1, <1>3, AnalysisWhole
<1>4. CASE ConstraintExtraction
  <2>1. SendsOnly(Extracting, {"constraint"}) /\ {"constraint"} \in SUBSET DesignKinds
        /\ {"constraint"} \cap JudgedKinds = {}
    BY <1>1, PlanningSends DEF DesignKinds, JudgedKinds
  <2>2. QED
    BY <1>1, <1>4, <2>1, AsideKeeps DEF ConstraintExtraction
<1>5. CASE SchematicPlanning
  BY <1>1, <1>5, SchematicWhole
<1>6. CASE BomPlanning
  <2>1. SendsOnly(BomPlan, {"part", "line"}) /\ {"part", "line"} \in SUBSET DesignKinds
        /\ {"part", "line"} \cap JudgedKinds = {}
    BY <1>1, PlanningSends DEF DesignKinds, JudgedKinds
  <2>2. QED
    BY <1>1, <1>6, <2>1, AsideKeeps DEF BomPlanning
<1>7. CASE PcbFloorPlanning
  BY <1>1, <1>7, FloorWhole
<1>8. CASE ComponentPlacement
  BY <1>1, <1>8, PlacementWhole
<1>9. CASE RoutingPlanning
  BY <1>1, <1>9, RoutingWhole
<1>10. CASE \/ ConstraintVerification \/ ErcVerification \/ BomVerification
            \/ DrcVerification \/ DfmVerification \/ EmcAnalysis
  <2>1. \E gate \in Gates : Verifying(gate)
    BY <1>10 DEF ConstraintVerification, ErcVerification, BomVerification, DrcVerification,
                 DfmVerification, EmcAnalysis, Gates
  <2>2. QED
    BY <1>1, <2>1, GateKeeps
<1>11. CASE ManufacturingGeneration
  <2>1. design' = design /\ candidates' = candidates
    BY <1>1, <1>11, ManufacturingMakesNothing DEF designVars
  <2>2. At("ManufacturingGeneration") /\ (PhaseSucceeds \/ PhaseFails)
    BY <1>11 DEF ManufacturingGeneration, Interrupted
  <2>3. /\ Place \in 1 .. NumDefault /\ PhaseNames[Place] = "ManufacturingGeneration"
        /\ Place' = Place + 1
    BY <1>1, <2>2, Moves DEF Gates
  <2>4. Place = 15 /\ Place' = 16
    BY <2>3, PhasePlaces
  <2>5. QED
    BY <2>1, <2>4, WholeKept
<1>12. CASE Finishes /\ UNCHANGED <<designVars, runVars>>
  <2>1. design' = design /\ candidates' = candidates /\ Place' = Place
    BY <1>12 DEF Finishes, designVars, Place, NumPhases, NumDefault
  <2>2. QED
    BY <2>1, WholeKept
<1>13. ~ \E violation : GrantWaiver(violation)
  BY DEF GrantWaiver
<1>14. ~ \E i : RunAgain(i)
  BY DEF RunAgain
<1>15. QED
  BY <1>2, <1>3, <1>4, <1>5, <1>6, <1>7, <1>8, <1>9, <1>10, <1>11, <1>12, <1>13, <1>14
     DEF WorkflowNext

(* A run on its own that has not given up has not given up before. *)
LEMMA OwnRun ==
  ASSUME BuildInv, WorkflowNext, ~GivenUp', runs' = 1
  PROVE  ~GivenUp /\ runs = 1
<1>1. runs \in Nat /\ runs >= 1
  BY WorkflowAssumption DEF BuildInv, WorkflowInv, WorkflowTypeOK
<1>2. ASSUME NEW i, RunAgain(i) PROVE FALSE
  BY <1>1, <1>2 DEF RunAgain
<1>3. ASSUME NEW violation, GrantWaiver(violation) PROVE FALSE
  BY <1>3 DEF GrantWaiver, GivenUp, vars, NumPhases
<1>4. CASE pc = "running" /\ runs' = runs
  BY <1>4 DEF GivenUp
<1>5. \A phase, requests, passes : PhaseRun(phase, requests, passes) => pc = "running" /\ runs' = runs
  BY DEF PhaseRun, Interrupted, PhaseSucceeds, PhaseFails, Stops, LoopsBack, Iterates, runVars
<1>6. CASE \/ EngineeringAnalysis \/ ConstraintExtraction \/ SchematicPlanning \/ BomPlanning
           \/ PcbFloorPlanning \/ ComponentPlacement \/ RoutingPlanning
           \/ ConstraintVerification \/ ErcVerification \/ BomVerification
           \/ DrcVerification \/ DfmVerification \/ EmcAnalysis
  BY <1>4, <1>5, <1>6
     DEF EngineeringAnalysis, ConstraintExtraction, SchematicPlanning, BomPlanning,
         PcbFloorPlanning, ComponentPlacement, RoutingPlanning, Verifying, ConstraintVerification,
         ErcVerification, BomVerification, DrcVerification, DfmVerification, EmcAnalysis
<1>7. CASE RequirementPlanning \/ ManufacturingGeneration
  <2>1. (PhaseSucceeds \/ PhaseFails) /\ runs' = runs
    BY <1>7 DEF RequirementPlanning, ManufacturingGeneration, Interrupted, runVars
  <2>2. pc = "running"
    BY <2>1 DEF PhaseSucceeds, PhaseFails, Stops, LoopsBack, Iterates
  <2>3. QED
    BY <1>4, <2>1, <2>2
<1>8. CASE Finishes /\ UNCHANGED <<designVars, runVars>>
  BY <1>4, <1>8 DEF Finishes, Iterates, runVars
<1>9. QED
  BY <1>2, <1>3, <1>6, <1>7, <1>8 DEF WorkflowNext

(* The two invariants hold throughout. *)
LEMMA WholeInvariant == WorkflowSpec => [](BuildInv /\ WholeInv)
<1>1. WorkflowInit => BuildInv /\ WholeInv
  <2>1. ASSUME WorkflowInit PROVE WholeInv
    <3>1. /\ design["component"] = <<>> /\ design["track"] = <<>> /\ Made("net") = {}
      BY <2>1, EmptyList DEF WorkflowInit, EmptyDesign, DesignKinds, Made
    <3>2. Place = 1
      <4>1. plan.names = SubSeq(PhaseNames, 1, 15) /\ Len(PhaseNames) = 15 /\ cursor = 1
        BY <2>1, DefaultNamesShape DEF WorkflowInit, Init, PlanFrom, NumDefault
      <4>2. SubSeq(PhaseNames, 1, 15) = PhaseNames
        BY <4>1, DefaultNamesShape
      <4>3. QED
        BY <4>1, <4>2 DEF Place, NumPhases, NumDefault
    <3>3. QED
      BY <3>1, <3>2 DEF WholeInv, Whole
  <2>2. QED
    BY <2>1, BuildInvInit
<1>2. BuildInv /\ WholeInv /\ [WorkflowNext]_workflowVars => BuildInv' /\ WholeInv'
  <2>1. SUFFICES ASSUME BuildInv, WholeInv, [WorkflowNext]_workflowVars
                 PROVE  BuildInv' /\ WholeInv'
    OBVIOUS
  <2>2. CASE WorkflowNext
    <3>1. ASSUME ~GivenUp', runs' = 1 PROVE Whole'
      BY <2>1, <2>2, <3>1, OwnRun, WholeStep DEF WholeInv
    <3>2. QED
      BY <2>1, <2>2, <3>1, BuildInvStep DEF WholeInv
  <2>3. CASE UNCHANGED workflowVars
    <3>1. BuildInv'
      BY <2>1, <2>3, BuildInvKept
    <3>2. /\ design' = design /\ candidates' = candidates /\ Place' = Place
          /\ runs' = runs /\ (GivenUp' <=> GivenUp)
      BY <2>3 DEF workflowVars, vars, designVars, runVars, Place, NumPhases, NumDefault, GivenUp
    <3>3. Whole => Whole'
      BY <3>2, WholeKept
    <3>4. QED
      BY <2>1, <3>1, <3>2, <3>3 DEF WholeInv
  <2>4. QED
    BY <2>1, <2>2, <2>3
<1>3. QED
  BY <1>1, <1>2, PTL DEF WorkflowSpec

(* The pads of a net are components. *)
LEMMA PadsAreComponents ==
  ASSUME NEW comps, NEW net \in ToSet(NetNames)
  PROVE  PadsOf(net, comps) \subseteq comps
<1>1. net = "VBUS" \/ net = "VOUT" \/ net = "GND"
  BY DEF NetNames, ToSet
<1>2. QED
  BY <1>1 DEF PadsOf, DriversOf, ConsumersOf

(* A chain that is whole joins all pads of its net. *)
LEMMA ChainJoins ==
  ASSUME DesignLists, Once, InARow, NEW net, Routed(net), MembersOf(net) /= {}
  PROVE  TracksOf(net) /= <<>> /\ ~Cut(net)
<1> DEFINE places == MembersOf(net)
           members == LeftToRight(places)
           n == Cardinality(places)
<1>1. IsFiniteSet(places) /\ n \in Nat
  BY MembersFinite, FS_CardinalityType
<1>2. n > 0
  <2> HIDE DEF places
  <2>1. n /= 0
    BY <1>1, FS_EmptySet DEF places
  <2>2. QED
    BY <1>1, <2>1
<1>3. /\ \A p \in places : Centre(p).x \in Int
      /\ \A p, q \in places : Centre(p).x = Centre(q).x => p = q
  <2>1. places \subseteq Made("placement")
    BY DEF MembersOf
  <2> HIDE DEF places
  <2>2. QED
    BY <2>1, RowFacts
<1>4. /\ members \in [1 .. n -> places]
      /\ \A p \in places : \E k \in 1 .. n : members[k] = p
  <2> HIDE DEF places
  <2>1. QED
    BY <1>1, <1>3, LeftToRightFacts
<1>5. ChainOf(net) = IF n = 1 THEN <<Track(net, members[1], members[1])>>
                     ELSE [k \in 1 .. n - 1 |-> Track(net, members[k], members[k + 1])]
  BY DEF ChainOf
<1> HIDE DEF places, members, n
<1>6. ASSUME NEW t \in ToSet(ChainOf(net)) PROVE t \in ToSet(TracksOf(net))
  <2>1. t \in Made("track") /\ t.net = net
    <3>1. PICK p \in MembersOf(net), q \in MembersOf(net) : t = Track(net, p, q)
      BY ChainFacts
    <3>2. QED
      BY <3>1 DEF Track, Routed
  <2>2. ToSet(TracksOf(net)) = ToSet(design["track"]) \cap {x \in Made("track") : x.net = net}
    BY KeepFacts DEF TracksOf, DesignLists, DesignKinds
  <2>3. QED
    BY <2>1, <2>2 DEF Made
<1>7. \A k \in 1 .. n - 1 : Track(net, members[k], members[k + 1]) \in ToSet(TracksOf(net))
  <2>1. SUFFICES ASSUME NEW k \in 1 .. n - 1
                 PROVE  Track(net, members[k], members[k + 1]) \in ToSet(TracksOf(net))
    OBVIOUS
  <2>2. n /= 1
    BY <1>1, <2>1
  <2>3. QED
    BY <1>5, <1>6, <2>2 DEF ToSet
<1>8. TracksOf(net) /= <<>>
  <2>1. \E t : t \in ToSet(TracksOf(net))
    <3>1. CASE n = 1
      BY <1>5, <1>6, <3>1, OneItem
    <3>2. CASE n /= 1
      <4>1. 1 \in 1 .. n - 1
        BY <1>1, <1>2, <3>2
      <4>2. QED
        BY <1>7, <4>1
    <3>3. QED
      BY <3>1, <3>2
  <2>2. QED
    BY <2>1, EmptyList
<1>9. ~Cut(net)
  <2>1. SUFFICES ASSUME NEW pads \in SUBSET places, pads /= {}, pads /= places,
                        \A p \in pads, q \in places \ pads, t \in ToSet(TracksOf(net)) :
                          {t.from, t.to} /= {Centre(p), Centre(q)}
                 PROVE  FALSE
    <3>1. ASSUME Cut(net)
          PROVE  \E pads \in SUBSET places :
                   /\ pads /= {} /\ pads /= places
                   /\ \A p \in pads, q \in places \ pads, t \in ToSet(TracksOf(net)) :
                        {t.from, t.to} /= {Centre(p), Centre(q)}
      <4>1. PICK pads \in (SUBSET places) \ {{}, places} :
              \A p \in pads, q \in places \ pads, t \in ToSet(TracksOf(net)) :
                {t.from, t.to} /= {Centre(p), Centre(q)}
        BY <3>1, Zenon DEF Cut, places
      <4>2. pads \in SUBSET places /\ pads /= {} /\ pads /= places
        OBVIOUS
      <4>3. QED
        BY <4>1, <4>2, Zenon
    <3>2. QED
      BY <3>1
  <2>2. ASSUME NEW k \in 1 .. n - 1 PROVE members[k] \in pads <=> members[k + 1] \in pads
    <3> DEFINE t == Track(net, members[k], members[k + 1])
    <3>1. t \in ToSet(TracksOf(net)) /\ t.from = Centre(members[k]) /\ t.to = Centre(members[k + 1])
      BY <1>7 DEF Track
    <3>2. members[k] \in places /\ members[k + 1] \in places
      <4>1. k \in 1 .. n /\ k + 1 \in 1 .. n
        BY <1>1
      <4>2. QED
        BY <1>4, <4>1
    <3> HIDE DEF t
    <3>3. {t.from, t.to} = {Centre(members[k]), Centre(members[k + 1])}
          /\ {t.from, t.to} = {Centre(members[k + 1]), Centre(members[k])}
      BY <3>1
    <3>4. QED
      BY <2>1, <3>1, <3>2, <3>3
  <2> DEFINE T == {k \in Nat : k + 1 <= n => (members[k + 1] \in pads <=> members[1] \in pads)}
  <2>3. 0 \in T
    OBVIOUS
  <2>4. ASSUME NEW k \in Nat, k \in T PROVE k + 1 \in T
    <3>1. SUFFICES ASSUME k + 1 + 1 <= n
                   PROVE  members[k + 1 + 1] \in pads <=> members[1] \in pads
      OBVIOUS
    <3>2. k + 1 <= n /\ k + 1 \in 1 .. n - 1
      BY <1>1, <3>1
    <3>3. QED
      BY <2>2, <2>4, <3>2
  <2>5. Nat \subseteq T
    <3> HIDE DEF T
    <3>1. QED
      BY <2>3, <2>4, NatInd
  <2>6. \A k \in 1 .. n : members[k] \in pads <=> members[1] \in pads
    <3>1. SUFFICES ASSUME NEW k \in 1 .. n PROVE members[k] \in pads <=> members[1] \in pads
      OBVIOUS
    <3>2. k - 1 \in Nat /\ k - 1 + 1 = k
      BY <1>1
    <3>3. k - 1 \in T
      BY <2>5, <3>2
    <3>4. k <= n
      BY <1>1
    <3>5. QED
      BY <3>2, <3>3, <3>4
  <2>7. PICK p \in pads, q \in places \ pads : TRUE
    BY <2>1
  <2>8. QED
    BY <1>4, <2>6, <2>7
<1>10. QED
  BY <1>8, <1>9

-----------------------------------------------------------------------------
(* What a planning phase asks again after it has succeeded: nothing *)

\* The planning phases.
Planning ==
  {"RequirementPlanning", "EngineeringAnalysis", "ConstraintExtraction", "SchematicPlanning",
   "BomPlanning", "PcbFloorPlanning", "ComponentPlacement", "RoutingPlanning"}

\* What a phase would ask, of those that a run can enter again.
Asks(phase) ==
  CASE phase = "ConstraintExtraction" -> Extracting
    [] phase = "SchematicPlanning" -> SchematicPlan
    [] phase = "BomPlanning" -> BomPlan
    [] phase = "ComponentPlacement" -> Placing
    [] phase = "RoutingPlanning" -> Routing
    [] OTHER -> <<>>

\* The kinds that it looks at for that.
Sees(phase) ==
  CASE phase = "ConstraintExtraction" -> {"requirement", "constraint"}
    [] phase = "SchematicPlanning" -> {"block", "component"}
    [] phase = "BomPlanning" -> {"component", "part", "line"}
    [] phase = "ComponentPlacement" -> {"board", "component", "placement"}
    [] phase = "RoutingPlanning" -> {"board", "component", "net", "placement", "track"}
    [] OTHER -> {}

(* What a phase asks depends on what it sees. *)
LEMMA SameAsks ==
  ASSUME NEW phase, Same(Sees(phase))
  PROVE  Asks(phase)' = Asks(phase)
<1>1. candidates' = candidates
  BY DEF Same
<1>2. \A kind : design'[kind] = design[kind] => Made(kind)' = Made(kind)
  BY DEF Made
<1>3. CASE phase = "ConstraintExtraction"
  <2>1. /\ design'["requirement"] = design["requirement"]
        /\ design'["constraint"] = design["constraint"]
    BY <1>3 DEF Same, Sees
  <2>2. Made("requirement")' = Made("requirement") /\ Made("constraint")' = Made("constraint")
    BY <1>2, <2>1
  <2>3. {r \in Made("requirement") : candidates[r].targets /= <<>>}'
          = {r \in Made("requirement") : candidates[r].targets /= <<>>}
    BY <1>1, <2>2
  <2>4. Extracting' = Extracting
    BY <2>1, <2>2, <2>3 DEF Extracting, CreateMissing
  <2>5. QED
    BY <1>3, <2>4 DEF Asks
<1>4. CASE phase = "SchematicPlanning"
  <2>1. design'["block"] = design["block"] /\ design'["component"] = design["component"]
    BY <1>4 DEF Same, Sees
  <2>2. Made("block")' = Made("block")
    BY <1>2, <2>1
  <2>3. \A net : PadsOf(net, Made("block"))' = PadsOf(net, Made("block"))
    BY <1>1, <2>2 DEF PadsOf, DriversOf, ConsumersOf, ClassOf
  <2>4. {net \in ToSet(NetNames) : PadsOf(net, Made("block")) /= {}}'
          = {net \in ToSet(NetNames) : PadsOf(net, Made("block")) /= {}}
    BY <2>3
  <2>5. SchematicPlan' = SchematicPlan
    BY <2>1, <2>4 DEF SchematicPlan
  <2>6. QED
    BY <1>4, <2>5 DEF Asks
<1>5. CASE phase = "BomPlanning"
  <2>1. /\ design'["component"] = design["component"]
        /\ design'["part"] = design["part"] /\ design'["line"] = design["line"]
    BY <1>5 DEF Same, Sees
  <2>2. ClassesInOrder' = ClassesInOrder
    BY <1>1, <2>1 DEF ClassesInOrder, ClassOf
  <2>3. Made("part")' = Made("part")
    BY <1>2, <2>1
  <2>4. BomPlan' = BomPlan
    BY <2>1, <2>2, <2>3 DEF BomPlan, CreateMissing
  <2>5. QED
    BY <1>5, <2>4 DEF Asks
<1>6. CASE phase = "ComponentPlacement"
  <2>1. /\ design'["component"] = design["component"] /\ design'["board"] = design["board"]
        /\ design'["placement"] = design["placement"]
    BY <1>6 DEF Same, Sees
  <2>2. Made("placement")' = Made("placement")
    BY <1>2, <2>1
  <2>3. Unplaced' = Unplaced
    BY <2>1, <2>2 DEF Unplaced
  <2>4. Placing' = Placing
    BY <1>1, <2>1, <2>3 DEF Placing, OnBoard, PlacementAt, ClassOf
  <2>5. QED
    BY <1>6, <2>4 DEF Asks
<1>7. CASE phase = "RoutingPlanning"
  <2>1. /\ design'["component"] = design["component"] /\ design'["board"] = design["board"]
        /\ design'["placement"] = design["placement"] /\ design'["net"] = design["net"]
        /\ design'["track"] = design["track"]
    BY <1>7 DEF Same, Sees
  <2>2. Made("net")' = Made("net")
    BY <1>2, <2>1
  <2>3. \A net : TracksOf(net)' = TracksOf(net) /\ ChainOf(net)' = ChainOf(net)
    BY <1>1, <2>1, TracksKept, ChainKept
  <2>4. Routing' = Routing
    BY <2>1, <2>2, <2>3 DEF Routing, OnBoard
  <2>5. QED
    BY <1>7, <2>4 DEF Asks
<1>8. CASE phase \notin {"ConstraintExtraction", "SchematicPlanning", "BomPlanning",
                         "ComponentPlacement", "RoutingPlanning"}
  BY <1>8 DEF Asks
<1>9. QED
  BY <1>3, <1>4, <1>5, <1>6, <1>7, <1>8

(* Extraction leaves no requirement with targets without its constraint. *)
LEMMA ExtractingDone ==
  ASSUME DesignLists, design' = Committed(Extracting), candidates' = candidates
  PROVE  Extracting' = <<>>
<1> DEFINE set == {r \in Made("requirement") : candidates[r].targets /= <<>>}
           items == Keep(design["requirement"], set)
<1>1. IsList(items) /\ ToSet(items) = set
  <2>1. IsList(design["requirement"]) /\ ToSet(design["requirement"]) \cap set = set
    BY DEF DesignLists, DesignKinds, Made
  <2> HIDE DEF set
  <2>2. QED
    BY <2>1, KeepFacts
<1>2. Extracting = CreateMissing("constraint", items)
  BY DEF Extracting
<1>3. SendsOnly(Extracting, {"constraint"}) /\ {"constraint"} \in SUBSET DesignKinds
      /\ "requirement" \in DesignKinds /\ "constraint" \in DesignKinds
  BY PlanningSends DEF DesignKinds
<1> HIDE DEF items, set
<1>4. ToSet(Extracting) = {[kind |-> "constraint", item |-> x] : x \in ToSet(items) \ Made("constraint")}
  BY <1>1, <1>2, MissingFacts
<1>5. /\ Made("constraint")'
           = Made("constraint") \cup {r.item : r \in {q \in ToSet(Extracting) : q.kind = "constraint"}}
      /\ design'["requirement"] = design["requirement"]
      /\ Made("requirement")' = Made("requirement")
  BY <1>3, Adds
<1>6. ASSUME NEW x \in ToSet(items) PROVE x \in Made("constraint")'
  <2>1. CASE x \in Made("constraint")
    BY <1>5, <2>1
  <2>2. CASE x \notin Made("constraint")
    <3>1. [kind |-> "constraint", item |-> x] \in ToSet(Extracting)
      BY <1>4, <1>6, <2>2
    <3>2. /\ [kind |-> "constraint", item |-> x].item = x
          /\ [kind |-> "constraint", item |-> x].kind = "constraint"
      OBVIOUS
    <3>3. QED
      BY <1>5, <3>1, <3>2
  <2>3. QED
    BY <2>1, <2>2
<1> DEFINE made == Made("constraint")'
<1>7. Extracting' = Create("constraint", Keep(items, ToSet(items) \ made))
  <2>1. Extracting' = Create("constraint", Keep(items', ToSet(items') \ made))
    BY <1>5 DEF Extracting, CreateMissing, items, set
  <2>2. items' = items
    BY <1>5 DEF items, set
  <2>3. QED
    BY <2>1, <2>2
<1>8. ToSet(items) \cap (ToSet(items) \ made) = {}
  BY <1>6
<1> HIDE DEF made
<1>9. Keep(items, ToSet(items) \ made) = <<>>
  BY <1>1, <1>8, KeepNothing
<1>10. QED
  <2>1. SendsOnly(Create("constraint", <<>>), {"constraint"}) /\ ToSet(Create("constraint", <<>>)) = {}
    BY EmptyList, CreateFacts
  <2>2. QED
    BY <1>7, <1>9, <2>1, NoItems DEF SendsOnly

(* What a list of requests makes is made. *)
LEMMA MadeAsAsked ==
  ASSUME DesignLists, NEW requests, NEW kinds \in SUBSET DesignKinds, SendsOnly(requests, kinds),
         design' = Committed(requests), NEW kind \in DesignKinds, NEW x,
         [kind |-> kind, item |-> x] \in ToSet(requests)
  PROVE  x \in Made(kind)'
<1>1. Made(kind)' = Made(kind) \cup {r.item : r \in {q \in ToSet(requests) : q.kind = kind}}
  BY Adds
<1>2. [kind |-> kind, item |-> x].item = x /\ [kind |-> kind, item |-> x].kind = kind
  OBVIOUS
<1>3. QED
  BY <1>1, <1>2

(* When routing succeeds, no net is left to route. *)
LEMMA RoutingDone ==
  ASSUME DesignLists, DesignLists', Built, design' = Committed(Routing), candidates' = candidates,
         PcbIr(design')
  PROVE  Routing' = <<>>
<1>1. SendsOnly(Routing, {"track"}) /\ {"track"} \in SUBSET DesignKinds /\ "track" \in DesignKinds
  BY PlanningSends DEF DesignKinds
<1>2. /\ design'["component"] = design["component"] /\ design'["net"] = design["net"]
      /\ design'["placement"] = design["placement"] /\ design'["board"] = design["board"]
      /\ Made("track") \subseteq Made("track")'
  BY <1>1, Adds DEF DesignKinds
<1>3. design["board"] /= <<>> /\ Made("net")' = Made("net")
  BY <1>2 DEF PcbIr, Made
<1>4. \A net : ChainOf(net)' = ChainOf(net)
  BY <1>2, ChainKept
<1>5. IsList(design["track"]) /\ IsList(design'["track"])
  BY DEF DesignLists, DesignKinds
<1>6. ASSUME NEW net, NEW t \in Made("track")', t.net = net PROVE TracksOf(net)' /= <<>>
  <2> DEFINE set == {u \in Made("track")' : u.net = net}
  <2>1. TracksOf(net)' = Keep(design'["track"], set)
    BY DEF TracksOf
  <2>2. t \in ToSet(design'["track"]) \cap set
    BY <1>6 DEF Made
  <2> HIDE DEF set
  <2>3. QED
    BY <1>5, <2>1, <2>2, KeptNothing
<1>7. ASSUME NEW net \in Made("net"), TracksOf(net) /= <<>> PROVE TracksOf(net)' /= <<>>
  <2> DEFINE set == {u \in Made("track") : u.net = net}
  <2>1. TracksOf(net) = Keep(design["track"], set)
    BY DEF TracksOf
  <2>2. PICK t : t \in set
    <3> HIDE DEF set
    <3>1. set /= {}
      BY <1>5, <1>7, <2>1, KeepNothing
    <3>2. QED
      BY <3>1
  <2>3. QED
    BY <1>2, <1>6, <2>2
<1>8. ASSUME NEW net \in Made("net"), TracksOf(net) = <<>>, ChainOf(net) /= <<>>
      PROVE  TracksOf(net)' /= <<>>
  <2>1. /\ IsList(ChainOf(net))
        /\ \A t \in ToSet(ChainOf(net)) : \E p, q \in MembersOf(net) : t = Track(net, p, q)
    BY ChainFacts DEF Built
  <2>2. PICK t \in ToSet(ChainOf(net)) : TRUE
    BY <1>8, <2>1, NoItems
  <2>3. t.net = net
    BY <2>1, <2>2 DEF Track
  <2>4. t \in Made("track")'
    <3>1. [kind |-> "track", item |-> t] \in ToSet(Routing)
      BY <1>3, <1>8, <2>2, RoutingAsks
    <3>2. QED
      BY <1>1, <3>1, MadeAsAsked
  <2>5. QED
    BY <1>6, <2>3, <2>4
<1>9. \A net \in Made("net")' : TracksOf(net)' = <<>> => ChainOf(net)' = <<>>
  BY <1>3, <1>4, <1>7, <1>8
<1>10. (/\ DesignLists
        /\ \A net \in Made("net") : TracksOf(net) = <<>> => ChainOf(net) = <<>>
        => Routing = <<>>)'
  BY NothingToRoute, PTL
<1>11. QED
  BY <1>9, <1>10

(* Synthesis leaves a component, or there is no block. *)
LEMMA SchematicDone ==
  ASSUME DesignLists, DesignLists', design' = Committed(SchematicPlan), candidates' = candidates
  PROVE  SchematicPlan' = <<>>
<1>1. /\ SendsOnly(SchematicPlan, {"component", "net"}) /\ {"component", "net"} \in SUBSET DesignKinds
      /\ "component" \in DesignKinds /\ "block" \in DesignKinds
  BY PlanningSends DEF DesignKinds
<1>2. IsList(design["block"]) /\ design'["block"] = design["block"] /\ Made("block")' = Made("block")
  BY <1>1, Adds DEF DesignLists
<1>3. SUFFICES ASSUME design'["component"] = <<>> PROVE SchematicPlan' = <<>>
  BY DEF SchematicPlan
<1>4. Made("component") \subseteq Made("component")' /\ Made("component")' = {}
  BY <1>1, <1>3, Adds, EmptyList DEF Made
<1>5. design["component"] = <<>>
  <2>1. IsList(design["component"])
    BY <1>1 DEF DesignLists
  <2>2. QED
    BY <1>4, <2>1, NoItems DEF Made
<1> DEFINE set == {net \in ToSet(NetNames) : PadsOf(net, Made("block")) /= {}}
           comps == Create("component", design["block"])
           joins == Create("net", Keep(NetNames, set))
<1>6. SchematicPlan = comps \o joins
  BY <1>5 DEF SchematicPlan
<1>7. IsList(NetNames)
  BY DEF NetNames, IsList, ToSet
<1>8. /\ IsList(comps)
      /\ ToSet(comps) = {[kind |-> "component", item |-> x] : x \in Made("block")}
  BY <1>2, CreateFacts DEF SendsOnly, Made
<1>9. IsList(Keep(NetNames, set)) /\ IsList(joins)
  <2> HIDE DEF set
  <2>1. IsList(Keep(NetNames, set))
    BY <1>7, KeepFacts
  <2>2. QED
    BY <2>1, CreateFacts DEF SendsOnly
<1>10. Made("block") = {}
  <2> HIDE DEF comps, joins, set
  <2>1. ToSet(SchematicPlan) = ToSet(comps) \cup ToSet(joins)
    BY <1>6, <1>8, <1>9, ListConcat
  <2>2. ASSUME NEW x \in Made("block") PROVE FALSE
    <3>1. [kind |-> "component", item |-> x] \in ToSet(SchematicPlan)
      BY <1>8, <2>1, <2>2
    <3>2. x \in Made("component")'
      BY <1>1, <3>1, MadeAsAsked
    <3>3. QED
      BY <1>4, <3>2
  <2>3. QED
    BY <2>2
<1>11. design["block"] = <<>> /\ design'["block"] = <<>>
  BY <1>2, <1>10, NoItems DEF Made
<1>12. \A net \in ToSet(NetNames) : PadsOf(net, Made("block"))' = {}
  <2>1. \A net : PadsOf(net, Made("block"))' = PadsOf(net, {})
    BY <1>2, <1>10 DEF PadsOf, DriversOf, ConsumersOf, ClassOf
  <2>2. ToSet(NetNames) = {"VBUS", "VOUT", "GND"}
    BY DEF ToSet, NetNames
  <2>3. /\ DriversOf("VBUS", {}) = {} /\ DriversOf("VOUT", {}) = {}
        /\ ConsumersOf("VBUS", {}) = {} /\ ConsumersOf("VOUT", {}) = {}
    BY DEF DriversOf, ConsumersOf
  <2>4. \A net \in ToSet(NetNames) : PadsOf(net, {}) = {}
    BY <2>2, <2>3 DEF PadsOf
  <2>5. QED
    BY <2>1, <2>4
<1> DEFINE none == {net \in ToSet(NetNames) : PadsOf(net, Made("block")) /= {}}'
<1>13. none = {}
  BY <1>12
<1>14. SchematicPlan' = Create("component", <<>>) \o Create("net", Keep(NetNames, none))
  BY <1>3, <1>11 DEF SchematicPlan
<1>15. Keep(NetNames, {}) = <<>>
  BY <1>7, KeepNothing
<1> HIDE DEF none
<1>16. \A kind : Create(kind, <<>>) = <<>>
  <2>1. \A kind : IsList(Create(kind, <<>>)) /\ ToSet(Create(kind, <<>>)) = {}
    BY EmptyList, CreateFacts DEF SendsOnly
  <2>2. QED
    BY <2>1, NoItems
<1>17. QED
  <2>1. SchematicPlan' = <<>> \o <<>>
    BY <1>13, <1>14, <1>15, <1>16
  <2>2. QED
    BY <2>1

(* One line per class: if there is a class there is a line. *)
LEMMA BomDone ==
  ASSUME DesignLists, DesignLists', design' = Committed(BomPlan), candidates' = candidates
  PROVE  BomPlan' = <<>>
<1>1. /\ SendsOnly(BomPlan, {"part", "line"}) /\ {"part", "line"} \in SUBSET DesignKinds
      /\ "line" \in DesignKinds /\ "component" \in DesignKinds
  BY PlanningSends DEF DesignKinds
<1>2. design'["component"] = design["component"] /\ Made("line") \subseteq Made("line")'
  BY <1>1, Adds
<1>3. SUFFICES ASSUME design'["line"] = <<>> PROVE BomPlan' = <<>>
  BY DEF BomPlan
<1>4. Made("line")' = {}
  BY <1>3, EmptyList DEF Made
<1>5. design["line"] = <<>>
  <2>1. IsList(design["line"])
    BY <1>1 DEF DesignLists
  <2>2. QED
    BY <1>2, <1>4, <2>1, NoItems DEF Made
<1> DEFINE classes == ClassesInOrder
           asked(k) == CreateMissing("part", <<classes[k]>>) \o Create("line", <<classes[k]>>)
           seqs == [k \in DOMAIN classes |-> asked(k)]
<1>6. BomPlan = FlattenSeq(seqs)
  BY <1>5 DEF BomPlan
<1>7. IsList(classes) /\ Len(classes) \in Nat /\ DOMAIN classes = 1 .. Len(classes)
  BY ClassesList, ListOfSeq DEF IsList
<1>8. classes' = classes
  BY <1>2 DEF ClassesInOrder, ClassOf
<1> HIDE DEF classes
<1>9. ASSUME NEW k \in DOMAIN classes
      PROVE  IsList(asked(k)) /\ [kind |-> "line", item |-> classes[k]] \in ToSet(asked(k))
  <2> DEFINE one == <<classes[k]>>
  <2>1. IsList(one) /\ ToSet(one) = {classes[k]}
    BY OneItem
  <2> HIDE DEF one
  <2>2. IsList(CreateMissing("part", one))
    BY <2>1, MissingFacts DEF SendsOnly
  <2>3. /\ IsList(Create("line", one))
        /\ ToSet(Create("line", one)) = {[kind |-> "line", item |-> x] : x \in {classes[k]}}
    BY <2>1, CreateFacts DEF SendsOnly
  <2>4. /\ IsList(CreateMissing("part", one) \o Create("line", one))
        /\ ToSet(Create("line", one)) \subseteq ToSet(CreateMissing("part", one) \o Create("line", one))
    BY <2>2, <2>3, ListConcat
  <2>5. QED
    BY <2>3, <2>4 DEF one
<1> HIDE DEF asked
<1>10. IsList(seqs) /\ DOMAIN seqs = DOMAIN classes /\ \A k \in DOMAIN seqs : seqs[k] = asked(k)
  BY <1>7, ListOfFunction
<1> HIDE DEF seqs
<1>11. ToSet(FlattenSeq(seqs)) = UNION {ToSet(seqs[k]) : k \in DOMAIN seqs}
  BY <1>9, <1>10, FlattenFacts
<1>12. ASSUME NEW k \in DOMAIN classes PROVE FALSE
  <2>1. [kind |-> "line", item |-> classes[k]] \in ToSet(BomPlan)
    BY <1>6, <1>9, <1>10, <1>11, <1>12
  <2>2. classes[k] \in Made("line")'
    BY <1>1, <2>1, MadeAsAsked
  <2>3. QED
    BY <1>4, <2>2
<1>13. classes = <<>>
  <2>1. ToSet(classes) = {}
    BY <1>12 DEF ToSet
  <2>2. QED
    BY <1>7, <2>1, NoItems
<1>14. DOMAIN seqs = {}
  BY <1>10, <1>12
<1>15. BomPlan = <<>>
  <2>1. ToSet(BomPlan) = {}
    BY <1>6, <1>11, <1>14
  <2>2. QED
    BY <1>1, <2>1, NoItems DEF SendsOnly
<1>16. design' = design
  BY <1>15, NothingCommitted
<1>17. Same(Sees("BomPlanning"))
  BY <1>16 DEF Same
<1>18. QED
  <2>1. Asks("BomPlanning")' = Asks("BomPlanning")
    BY <1>17, SameAsks
  <2>2. QED
    BY <1>15, <2>1 DEF Asks

-----------------------------------------------------------------------------
(* The invariant of re-entry *)

\* The place before which a run that has been through the phase does not go back.
Since(phase) ==
  CASE phase = "RequirementPlanning" -> 2
    [] phase \in {"EngineeringAnalysis", "ConstraintExtraction"} -> 3
    [] phase = "SchematicPlanning" -> 5
    [] phase = "BomPlanning" -> 7
    [] OTHER -> 10

\* What has succeeded in this run has nothing left to ask, and is not undone.
Done ==
  /\ IsList(results)
  /\ \A phase \in Planning :
       Succeeded(phase) => Place >= Since(phase) /\ Asks(phase) = <<>>
  /\ Succeeded("RoutingPlanning") => PcbIr(design)

(* What a phase that has run is remembered for. *)
LEMMA ResultsGrow ==
  ASSUME IsList(results), NEW phase, At(phase), PhaseSucceeds \/ PhaseFails
  PROVE  /\ IsList(results')
         /\ \A other : Succeeded(other)' => Succeeded(other) \/ (other = phase /\ PhaseSucceeds)
         /\ \A other : Succeeded(other) => Succeeded(other)'
         /\ PhaseSucceeds => Succeeded(phase)'
<1>1. \A other : /\ Succeeded(other) <=> [phase |-> other, outcome |-> "Success"] \in ToSet(results)
                 /\ Succeeded(other)' <=> [phase |-> other, outcome |-> "Success"] \in ToSet(results')
  BY DEF Succeeded, ToSet
<1>2. CASE PhaseSucceeds
  <2> DEFINE e == [phase |-> phase, outcome |-> "Success"]
  <2>1. results' = Append(results, e)
    BY <1>2 DEF PhaseSucceeds, Record, At
  <2>2. IsList(results') /\ ToSet(results') = ToSet(results) \cup {e}
    BY <2>1, ListAppend
  <2>3. ASSUME NEW other, [phase |-> other, outcome |-> "Success"] = e PROVE other = phase
    <3>1. [phase |-> other, outcome |-> "Success"].phase = e.phase
      BY <2>3
    <3>2. QED
      BY <3>1
  <2>4. e = [phase |-> phase, outcome |-> "Success"]
    OBVIOUS
  <2> HIDE DEF e
  <2>5. \A other : Succeeded(other) => Succeeded(other)'
    BY <1>1, <2>2
  <2>6. Succeeded(phase)'
    BY <1>1, <2>2, <2>4
  <2>7. \A other : Succeeded(other)' => Succeeded(other) \/ (other = phase /\ PhaseSucceeds)
    BY <1>1, <1>2, <2>2, <2>3
  <2>8. QED
    BY <2>2, <2>5, <2>6, <2>7
<1>3. CASE PhaseFails
  <2> DEFINE e == [phase |-> phase, outcome |-> "Failed"]
  <2>1. results' = Append(results, e)
    BY <1>3 DEF PhaseFails, Stops, LoopsBack, Record, At
  <2>2. IsList(results') /\ ToSet(results') = ToSet(results) \cup {e}
    BY <2>1, ListAppend
  <2>3. ASSUME NEW other PROVE [phase |-> other, outcome |-> "Success"] /= e
    <3>1. [phase |-> other, outcome |-> "Success"].outcome /= e.outcome
      OBVIOUS
    <3>2. QED
      BY <3>1
  <2>4. ~PhaseSucceeds
    BY <1>3 DEF PhaseSucceeds, PhaseFails, Stops, LoopsBack, Record
  <2> HIDE DEF e
  <2>5. \A other : Succeeded(other) => Succeeded(other)'
    BY <1>1, <2>2
  <2>6. \A other : Succeeded(other)' => Succeeded(other) \/ (other = phase /\ PhaseSucceeds)
    BY <1>1, <2>2, <2>3
  <2>7. QED
    BY <2>2, <2>4, <2>5, <2>6
<1>4. QED
  BY <1>2, <1>3

(* What succeeded earlier stays behind, and no later phase makes what it sees: but for *)
(* placement, of what routing sees.                                              *)
LEMMA StaysBehind ==
  ASSUME ReleaseInv, plan.loopbacks = DefaultLoopBacks, NEW phase, At(phase),
         PhaseSucceeds \/ PhaseFails, NEW old \in Planning, Place >= Since(old)
  PROVE  /\ Place' >= Since(old)
         /\ \/ phase = old
            \/ Sees(old) \cap Writes(phase) = {}
            \/ phase = "ComponentPlacement" /\ old = "RoutingPlanning"
<1>1. /\ Place \in 1 .. NumDefault /\ PhaseNames[Place] = phase
      /\ Place' \in {Place, Place + 1} \/ <<Place, Place'>> \in LeadBack
  BY Moves
<1>2. Place \in 1 .. 15
  BY <1>1 DEF NumDefault
<1>3. Since(old) \in {2, 3, 5, 7, 10}
  BY DEF Since
<1>4. Place' >= Since(old)
  <2>1. CASE Place' \in {Place, Place + 1}
    BY <1>2, <1>3, <2>1
  <2>2. CASE <<Place, Place'>> \in LeadBack
    <3>1. \A a, b : <<a, b>> \in LeadBack =>
            \/ a = 4 /\ b = 3
            \/ a = 6 /\ b = 5
            \/ a = 8 /\ b = 7
            \/ a = 12 /\ b = 11
            \/ a = 13 /\ b = 10
            \/ a = 14 /\ b = 11
      BY DEF LeadBack
    <3>2. QED
      BY <1>3, <2>2, <3>1
  <2>3. QED
    BY <1>1, <2>1, <2>2
<1>5. /\ PhaseNames[1] = "RequirementPlanning" /\ PhaseNames[2] = "EngineeringAnalysis"
      /\ PhaseNames[3] = "ConstraintExtraction" /\ PhaseNames[4] = "ConstraintVerification"
      /\ PhaseNames[5] = "SchematicPlanning" /\ PhaseNames[6] = "ErcVerification"
      /\ PhaseNames[7] = "BomPlanning" /\ PhaseNames[8] = "BomVerification"
      /\ PhaseNames[9] = "PcbFloorPlanning" /\ PhaseNames[10] = "ComponentPlacement"
      /\ PhaseNames[11] = "RoutingPlanning" /\ PhaseNames[12] = "DrcVerification"
      /\ PhaseNames[13] = "DfmVerification" /\ PhaseNames[14] = "EmcAnalysis"
      /\ PhaseNames[15] = "ManufacturingGeneration"
  BY DEF PhaseNames
<1>6. /\ Writes("ConstraintExtraction") = {"constraint"}
      /\ Writes("SchematicPlanning") = {"component", "net"}
      /\ Writes("BomPlanning") = {"part", "line"}
      /\ Writes("PcbFloorPlanning") = {"board"}
      /\ Writes("ComponentPlacement") = {"placement"}
      /\ Writes("RoutingPlanning") = {"track"}
      /\ \A gate \in Gates : Writes(gate) = {"violation"}
      /\ Writes("ManufacturingGeneration") = {}
  BY DEF Writes, Gates
<1>7. Place >= 2 => \/ phase = "EngineeringAnalysis" /\ Place = 2
                    \/ phase = "ConstraintExtraction" /\ Place = 3
                    \/ phase = "SchematicPlanning" /\ Place = 5
                    \/ phase = "BomPlanning" /\ Place = 7
                    \/ phase = "PcbFloorPlanning" /\ Place = 9
                    \/ phase = "ComponentPlacement" /\ Place = 10
                    \/ phase = "RoutingPlanning" /\ Place = 11
                    \/ phase = "ManufacturingGeneration" /\ Place = 15
                    \/ phase \in Gates
  <2>1. \A n \in 2 .. 15 : n \in {2, 3, 4, 5, 6, 7, 8, 9, 10, 11, 12, 13, 14, 15}
    OBVIOUS
  <2>2. QED
    BY <1>1, <1>2, <1>5, <2>1 DEF Gates
<1>8. CASE old \in {"RequirementPlanning", "EngineeringAnalysis", "PcbFloorPlanning"}
  BY <1>4, <1>8 DEF Sees
<1>9. CASE old = "ConstraintExtraction"
  <2>1. Since(old) = 3 /\ Sees(old) = {"requirement", "constraint"}
    BY <1>9 DEF Since, Sees
  <2>2. QED
    BY <1>2, <1>4, <1>6, <1>7, <1>9, <2>1
<1>10. CASE old = "SchematicPlanning"
  <2>1. Since(old) = 5 /\ Sees(old) = {"block", "component"}
    BY <1>10 DEF Since, Sees
  <2>2. QED
    BY <1>2, <1>4, <1>6, <1>7, <1>10, <2>1
<1>11. CASE old = "BomPlanning"
  <2>1. Since(old) = 7 /\ Sees(old) = {"component", "part", "line"}
    BY <1>11 DEF Since, Sees
  <2>2. QED
    BY <1>2, <1>4, <1>6, <1>7, <1>11, <2>1
<1>12. CASE old = "ComponentPlacement"
  <2>1. Since(old) = 10 /\ Sees(old) = {"board", "component", "placement"}
    BY <1>12 DEF Since, Sees
  <2>2. QED
    BY <1>2, <1>4, <1>6, <1>7, <1>12, <2>1
<1>13. CASE old = "RoutingPlanning"
  <2>1. /\ Since(old) = 10
        /\ Sees(old) = {"board", "component", "net", "placement", "track"}
    BY <1>13 DEF Since, Sees
  <2>2. QED
    BY <1>2, <1>4, <1>6, <1>7, <1>13, <2>1
<1>14. QED
  BY <1>8, <1>9, <1>10, <1>11, <1>12, <1>13 DEF Planning

\* The planning phases that a run can enter again.
Again ==
  {"ConstraintExtraction", "SchematicPlanning", "BomPlanning", "ComponentPlacement",
   "RoutingPlanning"}

(* A phase that succeeds has sent all its requests, and passes. *)
LEMMA SuccessIsWhole ==
  ASSUME ReleaseInv, plan.loopbacks = DefaultLoopBacks, NEW phase, NEW requests, NEW passes,
         PhaseRun(phase, requests, passes), PhaseSucceeds
  PROVE  passes /\ design' = Committed(requests) /\ candidates' = candidates
<1>1. At(phase) /\ candidates' = candidates
  BY DEF PhaseRun, Interrupted
<1>2. /\ Place \in 1 .. 15 /\ Place' = Place + 1
      /\ PhaseFails => Place' = Place \/ Place' \in 3 .. Place
  BY <1>1, Moves DEF NumDefault
<1>3. ~PhaseFails
  BY <1>2
<1>4. ~Interrupted(requests)
  BY <1>3 DEF Interrupted
<1>5. design' = Committed(requests) /\ (IF passes THEN PhaseSucceeds ELSE PhaseFails)
  BY <1>4, Zenon DEF PhaseRun
<1>6. QED
  BY <1>1, <1>3, <1>5, Zenon

(* A phase run that leaves nothing to ask if it succeeds. *)
LEMMA RunDone ==
  ASSUME BuildInv, Done, NEW phase, NEW requests, NEW passes, PhaseRun(phase, requests, passes),
         Writes(phase) \in SUBSET DesignKinds, SendsOnly(requests, Writes(phase)),
         phase \in Again => requests = Asks(phase),
         phase \in Again /\ PhaseSucceeds => Asks(phase)' = <<>>,
         phase = "RoutingPlanning" /\ PhaseSucceeds => PcbIr(design')
  PROVE  Done'
<1>1. ReleaseInv /\ plan.loopbacks = DefaultLoopBacks /\ DesignLists
  BY DEF BuildInv, WorkflowInv
<1>2. At(phase) /\ (PhaseSucceeds \/ PhaseFails) /\ candidates' = candidates
  BY DEF PhaseRun, Interrupted
<1>3. \A kinds \in SUBSET DesignKinds :
        SendsOnly(requests, kinds) =>
          /\ design' = [kind \in DesignKinds |-> design'[kind]]
          /\ \A kind \in DesignKinds \ kinds : design'[kind] = design[kind]
  <2>1. SUFFICES ASSUME NEW kinds \in SUBSET DesignKinds, SendsOnly(requests, kinds)
                 PROVE  /\ design' = [kind \in DesignKinds |-> design'[kind]]
                        /\ \A kind \in DesignKinds \ kinds : design'[kind] = design[kind]
    OBVIOUS
  <2>2. PICK sent : SendsOnly(sent, kinds) /\ design' = Committed(sent)
    BY <1>1, <2>1, RunSends
  <2>3. QED
    BY <1>1, <2>2, CommittedFacts
<1>4. requests = <<>> => design' = design
  <2>1. SUFFICES ASSUME requests = <<>> PROVE design' = design
    OBVIOUS
  <2>2. SendsOnly(requests, {}) /\ {} \in SUBSET DesignKinds
    BY <2>1, SendsNothing
  <2>3. /\ design' = [kind \in DesignKinds |-> design'[kind]]
        /\ \A kind \in DesignKinds : design'[kind] = design[kind]
    BY <1>3, <2>2
  <2>4. QED
    BY <1>1, <2>3 DEF DesignLists
<1>5. ASSUME NEW old \in Planning, Succeeded(old)
      PROVE  Place' >= Since(old) /\ Same(Sees(old))
  <2>1. Place >= Since(old) /\ Asks(old) = <<>>
    BY <1>5 DEF Done
  <2>2. /\ Place' >= Since(old)
        /\ \/ phase = old
           \/ Sees(old) \cap Writes(phase) = {}
           \/ phase = "ComponentPlacement" /\ old = "RoutingPlanning"
    BY <1>1, <1>2, <2>1, StaysBehind
  <2>3. Sees(old) \subseteq DesignKinds
    BY DEF Sees, DesignKinds
  <2>4. CASE phase = old /\ old \in Again
    BY <1>2, <1>4, <2>1, <2>2, <2>4 DEF Same
  <2>5. CASE phase = old /\ old \notin Again
    <3>1. Sees(old) = {}
      BY <2>5 DEF Sees, Again
    <3>2. QED
      BY <1>2, <2>2, <3>1 DEF Same
  <2>6. CASE Sees(old) \cap Writes(phase) = {}
    BY <1>2, <1>3, <2>2, <2>3, <2>6 DEF Same
  <2>7. CASE phase = "ComponentPlacement" /\ old = "RoutingPlanning"
    <3>1. Placing = <<>>
      BY <1>1, <1>5, <2>7, NothingToPlace DEF Done
    <3>2. requests = <<>>
      BY <2>7, <3>1 DEF Again, Asks
    <3>3. QED
      BY <1>2, <1>4, <2>2, <3>2 DEF Same
  <2>8. QED
    BY <2>2, <2>4, <2>5, <2>6, <2>7
<1>6. /\ Place \in 1 .. 15 /\ PhaseNames[Place] = phase
      /\ PhaseSucceeds => Place' = Place + 1
  BY <1>1, <1>2, Moves DEF NumDefault
<1>7. ASSUME PhaseSucceeds, phase \in Planning
      PROVE  /\ Place' >= Since(phase) /\ Asks(phase)' = <<>>
             /\ phase = "RoutingPlanning" => PcbIr(design')
  <2>1. Place' >= Since(phase)
    <3>1. \/ phase = "RequirementPlanning" /\ Place = 1
          \/ phase = "EngineeringAnalysis" /\ Place = 2
          \/ phase = "ConstraintExtraction" /\ Place = 3
          \/ phase = "SchematicPlanning" /\ Place = 5
          \/ phase = "BomPlanning" /\ Place = 7
          \/ phase = "PcbFloorPlanning" /\ Place = 9
          \/ phase = "ComponentPlacement" /\ Place = 10
          \/ phase = "RoutingPlanning" /\ Place = 11
      BY <1>6, <1>7, PhasePlaces DEF Planning, NumDefault
    <3>2. QED
      BY <1>6, <1>7, <3>1 DEF Since
  <2>2. Asks(phase)' = <<>>
    BY <1>7 DEF Asks, Again
  <2>3. QED
    BY <1>7, <2>1, <2>2
<1>8. /\ IsList(results')
      /\ \A other : Succeeded(other)' => Succeeded(other) \/ (other = phase /\ PhaseSucceeds)
  BY <1>2, ResultsGrow DEF Done
<1>9. ASSUME NEW other \in Planning, Succeeded(other)'
      PROVE  Place' >= Since(other) /\ Asks(other)' = <<>>
  <2>1. CASE Succeeded(other)
    <3>1. Asks(other) = <<>>
      BY <1>9, <2>1 DEF Done
    <3>2. QED
      BY <1>5, <1>9, <2>1, <3>1, SameAsks
  <2>2. CASE other = phase /\ PhaseSucceeds
    BY <1>7, <1>9, <2>2
  <2>3. QED
    BY <1>8, <1>9, <2>1, <2>2
<1>10. ASSUME Succeeded("RoutingPlanning")' PROVE PcbIr(design')
  <2>1. CASE Succeeded("RoutingPlanning")
    <3>1. Same(Sees("RoutingPlanning")) /\ PcbIr(design)
      BY <1>5, <2>1 DEF Planning, Done
    <3>2. /\ design'["board"] = design["board"] /\ design'["component"] = design["component"]
          /\ design'["placement"] = design["placement"]
      BY <3>1 DEF Same, Sees
    <3>3. QED
      BY <3>1, <3>2 DEF PcbIr
  <2>2. CASE phase = "RoutingPlanning" /\ PhaseSucceeds
    BY <1>7, <2>2 DEF Planning
  <2>3. QED
    BY <1>8, <1>10, <2>1, <2>2
<1>11. QED
  BY <1>8, <1>9, <1>10 DEF Done

(* A step that does not move the place of the run and makes at most a waiver. *)
LEMMA RestDone ==
  ASSUME Done, UNCHANGED <<results, cursor, plan, candidates>>,
         \A kind \in DesignKinds \ {"waiver"} : design'[kind] = design[kind]
  PROVE  Done'
<1>1. Place' = Place /\ \A phase : Succeeded(phase)' <=> Succeeded(phase)
  BY DEF Place, NumPhases, NumDefault, Succeeded
<1>2. \A phase : Same(Sees(phase))
  BY DEF Same, Sees, DesignKinds
<1>3. \A phase : Asks(phase)' = Asks(phase)
  BY <1>2, SameAsks
<1>4. PcbIr(design) => PcbIr(design')
  <2>1. /\ design'["board"] = design["board"] /\ design'["component"] = design["component"]
        /\ design'["placement"] = design["placement"]
    BY DEF DesignKinds
  <2>2. QED
    BY <2>1 DEF PcbIr
<1>5. QED
  BY <1>1, <1>3, <1>4 DEF Done

(* The agent's phase is the first, and is not entered again. *)
LEMMA RequirementPlanningDone ==
  ASSUME BuildInv, Done, RequirementPlanning
  PROVE  Done' /\ ~Succeeded("RequirementPlanning")
<1>1. ReleaseInv /\ plan.loopbacks = DefaultLoopBacks
  BY DEF BuildInv, WorkflowInv
<1>2. At("RequirementPlanning") /\ (PhaseSucceeds \/ PhaseFails)
  BY DEF RequirementPlanning
<1>3. /\ Place \in 1 .. NumDefault /\ PhaseNames[Place] = "RequirementPlanning"
      /\ PhaseSucceeds => Place' = Place + 1
  BY <1>1, <1>2, Moves
<1>4. Place = 1
  BY <1>3, PhasePlaces
<1>5. \A phase \in Planning : ~Succeeded(phase)
  BY <1>4 DEF Done, Since
<1>6. /\ IsList(results')
      /\ \A other : Succeeded(other)' =>
           Succeeded(other) \/ (other = "RequirementPlanning" /\ PhaseSucceeds)
  BY <1>2, ResultsGrow DEF Done
<1>7. ASSUME NEW phase \in Planning, Succeeded(phase)'
      PROVE  phase = "RequirementPlanning" /\ Place' = 2
  BY <1>3, <1>4, <1>5, <1>6, <1>7
<1>8. Since("RequirementPlanning") = 2 /\ Asks("RequirementPlanning")' = <<>>
  BY DEF Since, Asks
<1>9. QED
  BY <1>5, <1>6, <1>7, <1>8 DEF Done, Planning

(* A phase that makes nothing, and is no planning phase. *)
LEMMA AsideDone ==
  ASSUME BuildInv, Done, UNCHANGED designVars, NEW phase, phase \notin Planning, At(phase),
         PhaseSucceeds \/ PhaseFails
  PROVE  Done'
<1>1. ReleaseInv /\ plan.loopbacks = DefaultLoopBacks
  BY DEF BuildInv, WorkflowInv
<1>2. /\ IsList(results')
      /\ \A other \in Planning : Succeeded(other)' => Succeeded(other)
  BY ResultsGrow DEF Done
<1>3. \A old \in Planning : Succeeded(old) => Place' >= Since(old)
  BY <1>1, StaysBehind DEF Done
<1>4. \A old : Asks(old)' = Asks(old)
  BY SameAsks DEF designVars, Same
<1>5. PcbIr(design') = PcbIr(design)
  BY DEF designVars
<1>6. QED
  BY <1>2, <1>3, <1>4, <1>5 DEF Done, Planning

(* Every step keeps the invariant of re-entry. *)
LEMMA DoneStep ==
  ASSUME BuildInv, BuildInv', Done, WorkflowNext
  PROVE  Done'
<1>1. /\ WorkflowInv /\ Built /\ DesignLists /\ DesignLists' /\ DOMAIN design = DesignKinds
      /\ ReleaseInv /\ plan.loopbacks = DefaultLoopBacks
  BY DEF BuildInv, WorkflowInv, WorkflowTypeOK
<1>2. /\ SendsOnly(Analyzing, {"block"}) /\ SendsOnly(Extracting, {"constraint"})
      /\ SendsOnly(SchematicPlan, {"component", "net"}) /\ SendsOnly(BomPlan, {"part", "line"})
      /\ SendsOnly(FloorPlan, {"board"}) /\ SendsOnly(Placing, {"placement"}) /\ SendsOnly(Routing, {"track"})
      /\ \A gate \in Gates : SendsOnly(Raising(gate), {"violation"})
  BY <1>1, PlanningSends, RaisingFacts
<1>3. /\ Writes("EngineeringAnalysis") = {"block"}
      /\ Writes("ConstraintExtraction") = {"constraint"}
      /\ Writes("SchematicPlanning") = {"component", "net"}
      /\ Writes("BomPlanning") = {"part", "line"}
      /\ Writes("PcbFloorPlanning") = {"board"}
      /\ Writes("ComponentPlacement") = {"placement"}
      /\ Writes("RoutingPlanning") = {"track"}
      /\ \A gate \in Gates : Writes(gate) = {"violation"}
  BY DEF Writes, Gates
<1>4. \A phase : Writes(phase) \in SUBSET DesignKinds
  BY DEF Writes, DesignKinds
<1>5. /\ Asks("ConstraintExtraction") = Extracting /\ Asks("SchematicPlanning") = SchematicPlan
      /\ Asks("BomPlanning") = BomPlan /\ Asks("ComponentPlacement") = Placing
      /\ Asks("RoutingPlanning") = Routing
      /\ Asks("ConstraintExtraction")' = Extracting' /\ Asks("SchematicPlanning")' = SchematicPlan'
      /\ Asks("BomPlanning")' = BomPlan' /\ Asks("ComponentPlacement")' = Placing'
      /\ Asks("RoutingPlanning")' = Routing'
  BY DEF Asks
<1>6. \A phase, requests, passes : PhaseRun(phase, requests, passes) => candidates' = candidates
  BY DEF PhaseRun, Interrupted
<1>7. CASE RequirementPlanning
  BY <1>7, RequirementPlanningDone
<1>8. CASE EngineeringAnalysis
  <2>1. PhaseRun("EngineeringAnalysis", Analyzing, TRUE)
    BY <1>8 DEF EngineeringAnalysis
  <2>2. Writes("EngineeringAnalysis") \in SUBSET DesignKinds /\ SendsOnly(Analyzing, Writes("EngineeringAnalysis"))
    BY <1>2, <1>3, <1>4
  <2>3. "EngineeringAnalysis" \notin Again
    BY DEF Again
  <2>4. QED
    BY <2>1, <2>2, <2>3, RunDone
<1>9. CASE ConstraintExtraction
  <2>1. PhaseRun("ConstraintExtraction", Extracting, TRUE)
    BY <1>9 DEF ConstraintExtraction
  <2>2. PhaseSucceeds => Extracting' = <<>>
    BY <1>1, <1>6, <2>1, SuccessIsWhole, ExtractingDone
  <2>3. Writes("ConstraintExtraction") \in SUBSET DesignKinds /\ SendsOnly(Extracting, Writes("ConstraintExtraction"))
    BY <1>2, <1>3, <1>4
  <2>4. /\ Extracting = Asks("ConstraintExtraction")
        /\ PhaseSucceeds => Asks("ConstraintExtraction")' = <<>>
    BY <1>5, <2>2
  <2>5. QED
    BY <2>1, <2>3, <2>4, RunDone
<1>10. CASE SchematicPlanning
  <2>1. PhaseRun("SchematicPlanning", SchematicPlan, TRUE)
    BY <1>10 DEF SchematicPlanning
  <2>2. PhaseSucceeds => SchematicPlan' = <<>>
    BY <1>1, <1>6, <2>1, SuccessIsWhole, SchematicDone
  <2>3. Writes("SchematicPlanning") \in SUBSET DesignKinds /\ SendsOnly(SchematicPlan, Writes("SchematicPlanning"))
    BY <1>2, <1>3, <1>4
  <2>4. /\ SchematicPlan = Asks("SchematicPlanning")
        /\ PhaseSucceeds => Asks("SchematicPlanning")' = <<>>
    BY <1>5, <2>2
  <2>5. QED
    BY <2>1, <2>3, <2>4, RunDone
<1>11. CASE BomPlanning
  <2>1. PhaseRun("BomPlanning", BomPlan, BomIr(design'))
    BY <1>11 DEF BomPlanning
  <2>2. PhaseSucceeds => BomPlan' = <<>>
    BY <1>1, <1>6, <2>1, SuccessIsWhole, BomDone
  <2>3. Writes("BomPlanning") \in SUBSET DesignKinds /\ SendsOnly(BomPlan, Writes("BomPlanning"))
    BY <1>2, <1>3, <1>4
  <2>4. /\ BomPlan = Asks("BomPlanning")
        /\ PhaseSucceeds => Asks("BomPlanning")' = <<>>
    BY <1>5, <2>2
  <2>5. QED
    BY <2>1, <2>3, <2>4, RunDone
<1>12. CASE PcbFloorPlanning
  <2>1. PhaseRun("PcbFloorPlanning", FloorPlan, design'["board"] /= <<>>)
    BY <1>12 DEF PcbFloorPlanning
  <2>2. Writes("PcbFloorPlanning") \in SUBSET DesignKinds /\ SendsOnly(FloorPlan, Writes("PcbFloorPlanning"))
    BY <1>2, <1>3, <1>4
  <2>3. "PcbFloorPlanning" \notin Again
    BY DEF Again
  <2>4. QED
    BY <2>1, <2>2, <2>3, RunDone
<1>13. CASE ComponentPlacement
  <2>1. PhaseRun("ComponentPlacement", Placing, PcbIr(design'))
    BY <1>13 DEF ComponentPlacement
  <2>2. PhaseSucceeds => Placing' = <<>>
    <3>1. (DesignLists /\ PcbIr(design) => Placing = <<>>)'
      BY NothingToPlace, PTL
    <3>2. PhaseSucceeds => PcbIr(design')
      BY <1>1, <2>1, SuccessIsWhole
    <3>3. QED
      BY <1>1, <3>1, <3>2
  <2>3. Writes("ComponentPlacement") \in SUBSET DesignKinds /\ SendsOnly(Placing, Writes("ComponentPlacement"))
    BY <1>2, <1>3, <1>4
  <2>4. /\ Placing = Asks("ComponentPlacement")
        /\ PhaseSucceeds => Asks("ComponentPlacement")' = <<>>
    BY <1>5, <2>2
  <2>5. QED
    BY <2>1, <2>3, <2>4, RunDone
<1>14. CASE RoutingPlanning
  <2>1. PhaseRun("RoutingPlanning", Routing, PcbIr(design'))
    BY <1>14 DEF RoutingPlanning
  <2>2. PhaseSucceeds => PcbIr(design') /\ design' = Committed(Routing)
    BY <1>1, <2>1, SuccessIsWhole
  <2>3. PhaseSucceeds => Routing' = <<>>
    BY <1>1, <1>6, <2>1, <2>2, RoutingDone
  <2>4. Writes("RoutingPlanning") \in SUBSET DesignKinds /\ SendsOnly(Routing, Writes("RoutingPlanning"))
    BY <1>2, <1>3, <1>4
  <2>5. /\ Routing = Asks("RoutingPlanning")
        /\ PhaseSucceeds => Asks("RoutingPlanning")' = <<>>
    BY <1>5, <2>3
  <2>6. QED
    BY <2>1, <2>4, <2>5, <2>2, RunDone
<1>15. ASSUME NEW gate \in Gates, Verifying(gate) PROVE Done'
  <2>1. PhaseRun(gate, Raising(gate), OwnOpenBlocking(gate, design') = {})
    BY <1>15 DEF Verifying
  <2>2. gate \notin Again
    BY DEF Gates, Again
  <2>3. Writes(gate) \in SUBSET DesignKinds /\ SendsOnly(Raising(gate), Writes(gate))
    BY <1>2, <1>3, <1>4
  <2>4. gate /= "RoutingPlanning"
    BY DEF Gates
  <2>5. QED
    BY <2>1, <2>2, <2>3, <2>4, RunDone
<1>16. CASE \/ ConstraintVerification \/ ErcVerification \/ BomVerification
            \/ DrcVerification \/ DfmVerification \/ EmcAnalysis
  <2>1. \E gate \in Gates : Verifying(gate)
    BY <1>16 DEF ConstraintVerification, ErcVerification, BomVerification, DrcVerification,
                 DfmVerification, EmcAnalysis, Gates
  <2>2. QED
    BY <1>15, <2>1
<1>17. CASE ManufacturingGeneration
  <2>1. UNCHANGED designVars
    BY <1>1, <1>17, ManufacturingMakesNothing
  <2>2. At("ManufacturingGeneration") /\ (PhaseSucceeds \/ PhaseFails)
    BY <1>17 DEF ManufacturingGeneration, Interrupted
  <2>3. "ManufacturingGeneration" \notin Planning
    BY DEF Planning
  <2>4. QED
    BY <2>1, <2>2, <2>3, AsideDone
<1>18. CASE Finishes /\ UNCHANGED <<designVars, runVars>>
  BY <1>18, RestDone DEF Finishes, designVars
<1>19. ASSUME NEW violation, GrantWaiver(violation) PROVE Done'
  <2>1. \A kind \in DesignKinds \ {"waiver"} : design'[kind] = design[kind]
    BY <1>1, <1>19 DEF GrantWaiver
  <2>2. UNCHANGED <<results, cursor, plan, candidates>>
    BY <1>19 DEF GrantWaiver, vars
  <2>3. QED
    BY <2>1, <2>2, RestDone
<1>20. ASSUME NEW i, RunAgain(i) PROVE Done'
  <2>1. results' = <<>>
    BY <1>20 DEF RunAgain
  <2>2. IsList(results') /\ \A phase : ~Succeeded(phase)'
    BY <2>1, EmptyList DEF Succeeded
  <2>3. QED
    BY <2>2 DEF Done, Planning
<1>21. QED
  BY <1>7, <1>8, <1>9, <1>10, <1>11, <1>12, <1>13, <1>14, <1>16, <1>17, <1>18, <1>19, <1>20
     DEF WorkflowNext

(* What has succeeded in this run has nothing left to ask, whatever the store did. *)
LEMMA DoneInvariant == WorkflowSpec => [](BuildInv /\ Done)
<1>1. WorkflowInit => Done
  <2>1. WorkflowInit => results = <<>>
    BY DEF WorkflowInit, Init
  <2>2. results = <<>> => IsList(results) /\ \A phase : ~Succeeded(phase)
    BY EmptyList DEF Succeeded
  <2>3. QED
    BY <2>1, <2>2 DEF Done, Planning
<1>2. BuildInv /\ BuildInv' /\ Done /\ [WorkflowNext]_workflowVars => Done'
  <2>1. SUFFICES ASSUME BuildInv, BuildInv', Done, [WorkflowNext]_workflowVars PROVE Done'
    OBVIOUS
  <2>2. CASE UNCHANGED workflowVars
    BY <2>1, <2>2, RestDone DEF workflowVars, vars, designVars
  <2>3. QED
    BY <2>1, <2>2, DoneStep
<1>3. QED
  BY <1>1, <1>2, BuildInvariant, PTL DEF WorkflowSpec

(* What has succeeded makes nothing when it is entered again. *)
LEMMA ReentryStep ==
  ASSUME BuildInv, Done, WorkflowNext, NEW phase \in DefaultNames \ Gates,
         At(phase), Succeeded(phase), pc = "running"
  PROVE  design' = design
<1>1. DesignLists
  BY DEF BuildInv, WorkflowInv
<1>2. ReleaseInv /\ Place \in 1 .. NumDefault /\ PhaseNames[Place] = phase
  BY AtPlace DEF BuildInv, WorkflowInv
<1>3. \A other : At(other) => other = phase
  BY DEF At
<1>4. ASSUME NEW requests, NEW passes, PhaseRun(phase, requests, passes), requests = <<>>
      PROVE  design' = design
  <2>1. SendsOnly(requests, {}) /\ {} \in SUBSET DesignKinds
    BY <1>4, SendsNothing
  <2>2. PICK sent : SendsOnly(sent, {}) /\ design' = Committed(sent)
    BY <1>2, <1>4, <2>1, RunSends
  <2>3. sent = <<>>
    <3>1. ToSet(sent) = {} /\ IsList(sent)
      BY <2>2 DEF SendsOnly
    <3>2. QED
      BY <3>1, NoItems
  <2>4. QED
    BY <1>1, <2>2, <2>3, NothingCommitted
<1>5. \A other, requests, passes : PhaseRun(other, requests, passes) => At(other)
  BY DEF PhaseRun
<1>6. phase \in Planning => Place >= Since(phase) /\ Asks(phase) = <<>>
  BY DEF Done
<1>7. CASE RequirementPlanning
  BY <1>3, <1>7, RequirementPlanningDone DEF RequirementPlanning
<1>8. CASE EngineeringAnalysis
  <2>1. phase = "EngineeringAnalysis"
    BY <1>3, <1>5, <1>8 DEF EngineeringAnalysis
  <2>2. Place = 2 /\ Place >= 3
    BY <1>2, <1>6, <2>1, PhasePlaces DEF Planning, Since
  <2>3. QED
    BY <2>2
<1>9. CASE ConstraintExtraction
  <2>1. PhaseRun("ConstraintExtraction", Extracting, TRUE)
    BY <1>9 DEF ConstraintExtraction
  <2>2. phase = "ConstraintExtraction"
    BY <1>3, <1>5, <2>1
  <2>3. QED
    BY <1>4, <1>6, <2>1, <2>2 DEF Planning, Asks
<1>10. CASE SchematicPlanning
  <2>1. PhaseRun("SchematicPlanning", SchematicPlan, TRUE)
    BY <1>10 DEF SchematicPlanning
  <2>2. phase = "SchematicPlanning"
    BY <1>3, <1>5, <2>1
  <2>3. QED
    BY <1>4, <1>6, <2>1, <2>2 DEF Planning, Asks
<1>11. CASE BomPlanning
  <2>1. PhaseRun("BomPlanning", BomPlan, BomIr(design'))
    BY <1>11 DEF BomPlanning
  <2>2. phase = "BomPlanning"
    BY <1>3, <1>5, <2>1
  <2>3. QED
    BY <1>4, <1>6, <2>1, <2>2 DEF Planning, Asks
<1>12. CASE PcbFloorPlanning
  <2>1. phase = "PcbFloorPlanning"
    BY <1>3, <1>5, <1>12 DEF PcbFloorPlanning
  <2>2. Place = 9 /\ Place >= 10
    BY <1>2, <1>6, <2>1, PhasePlaces DEF Planning, Since
  <2>3. QED
    BY <2>2
<1>13. CASE ComponentPlacement
  <2>1. PhaseRun("ComponentPlacement", Placing, PcbIr(design'))
    BY <1>13 DEF ComponentPlacement
  <2>2. phase = "ComponentPlacement"
    BY <1>3, <1>5, <2>1
  <2>3. QED
    BY <1>4, <1>6, <2>1, <2>2 DEF Planning, Asks
<1>14. CASE RoutingPlanning
  <2>1. PhaseRun("RoutingPlanning", Routing, PcbIr(design'))
    BY <1>14 DEF RoutingPlanning
  <2>2. phase = "RoutingPlanning"
    BY <1>3, <1>5, <2>1
  <2>3. QED
    BY <1>4, <1>6, <2>1, <2>2 DEF Planning, Asks
<1>15. CASE \/ ConstraintVerification \/ ErcVerification \/ BomVerification
            \/ DrcVerification \/ DfmVerification \/ EmcAnalysis
  <2>1. PICK gate \in Gates : At(gate)
    BY <1>5, <1>15 DEF ConstraintVerification, ErcVerification, BomVerification, DrcVerification,
                 DfmVerification, EmcAnalysis, Gates, Verifying
  <2>2. QED
    BY <1>3, <2>1
<1>16. CASE ManufacturingGeneration
  BY <1>1, <1>16, ManufacturingMakesNothing DEF designVars
<1>17. CASE Finishes /\ UNCHANGED <<designVars, runVars>>
  BY <1>17 DEF designVars
<1>18. ASSUME NEW violation, GrantWaiver(violation) PROVE FALSE
  BY <1>18 DEF GrantWaiver, GivenUp
<1>19. ASSUME NEW i, RunAgain(i) PROVE FALSE
  BY <1>19 DEF RunAgain, GivenUp
<1>20. QED
  BY <1>7, <1>8, <1>9, <1>10, <1>11, <1>12, <1>13, <1>14, <1>15, <1>16, <1>17, <1>18, <1>19
     DEF WorkflowNext

-----------------------------------------------------------------------------
(* What a gate finds it finds again *)

\* Every phase before the cursor has succeeded.
Passed == \A k \in 1 .. NumDefault : k < Place => Succeeded(PhaseNames[k])

\* A gate finds it, and every phase before that gate has succeeded.
Foreseen(f) ==
  \E g \in 1 .. NumDefault :
    /\ PhaseNames[g] \in Gates
    /\ f \in ToSet(Findings(PhaseNames[g]))
    /\ \A k \in 1 .. NumDefault : k < g => Succeeded(PhaseNames[k])

(* A phase run, but the agent's, makes only what is its own. *)
LEMMA RunMakesOwn ==
  ASSUME WorkflowInv, NEW phase \in DefaultNames, NEW requests, NEW passes,
         PhaseRun(phase, requests, passes), SendsOnly(requests, Writes(phase))
  PROVE  At(phase) /\ (PhaseSucceeds \/ PhaseFails) /\ Same(DesignKinds \ Writes(phase))
<1>1. ReleaseInv /\ DesignLists
  BY DEF WorkflowInv
<1>2. At(phase) /\ candidates' = candidates /\ (PhaseSucceeds \/ PhaseFails)
  BY DEF PhaseRun, Interrupted
<1>3. PICK sent : SendsOnly(sent, Writes(phase)) /\ design' = Committed(sent)
  BY <1>1, RunSends
<1>4. Writes(phase) \in SUBSET DesignKinds
  BY DEF Writes, DesignKinds
<1>5. \A kind \in DesignKinds \ Writes(phase) : design'[kind] = design[kind]
  BY <1>1, <1>3, <1>4, CommittedFacts
<1>6. QED
  BY <1>2, <1>5 DEF Same

(* A step of a run is one of its phases, or the end. *)
LEMMA StepOfPhase ==
  ASSUME WorkflowInv, WorkflowNext, pc = "running"
  PROVE  \/ Finishes /\ UNCHANGED <<designVars, runVars>>
         \/ \E phase \in DefaultNames :
              /\ At(phase) /\ (PhaseSucceeds \/ PhaseFails)
              /\ phase /= "RequirementPlanning" => Same(DesignKinds \ Writes(phase))
<1>1. DesignLists
  BY DEF WorkflowInv
<1>2. /\ SendsOnly(Analyzing, {"block"}) /\ SendsOnly(Extracting, {"constraint"})
      /\ SendsOnly(SchematicPlan, {"component", "net"}) /\ SendsOnly(BomPlan, {"part", "line"})
      /\ SendsOnly(FloorPlan, {"board"}) /\ SendsOnly(Placing, {"placement"}) /\ SendsOnly(Routing, {"track"})
      /\ \A gate \in Gates : SendsOnly(Raising(gate), {"violation"})
  BY <1>1, PlanningSends, RaisingFacts
<1>3. /\ Writes("EngineeringAnalysis") = {"block"}
      /\ Writes("ConstraintExtraction") = {"constraint"}
      /\ Writes("SchematicPlanning") = {"component", "net"}
      /\ Writes("BomPlanning") = {"part", "line"}
      /\ Writes("PcbFloorPlanning") = {"board"}
      /\ Writes("ComponentPlacement") = {"placement"}
      /\ Writes("RoutingPlanning") = {"track"}
      /\ \A gate \in Gates : Writes(gate) = {"violation"}
  BY DEF Writes, Gates
<1>4. {"RequirementPlanning", "EngineeringAnalysis", "ConstraintExtraction", "SchematicPlanning",
       "BomPlanning", "PcbFloorPlanning", "ComponentPlacement", "RoutingPlanning",
       "ManufacturingGeneration"} \cup Gates \subseteq DefaultNames
  BY DefaultNamesShape DEF PhaseNames, DefaultNames, ToSet, Gates
<1> DEFINE goal == \E phase \in DefaultNames :
              /\ At(phase) /\ (PhaseSucceeds \/ PhaseFails)
              /\ phase /= "RequirementPlanning" => Same(DesignKinds \ Writes(phase))
<1>5. ASSUME NEW phase \in DefaultNames, NEW requests, NEW passes,
             PhaseRun(phase, requests, passes), SendsOnly(requests, Writes(phase))
      PROVE  goal
  BY <1>5, RunMakesOwn
<1>6. CASE RequirementPlanning
  <2>1. At("RequirementPlanning") /\ (PhaseSucceeds \/ PhaseFails)
    BY <1>6 DEF RequirementPlanning
  <2>2. QED
    BY <1>4, <2>1
<1>7. CASE ManufacturingGeneration
  <2>1. At("ManufacturingGeneration") /\ (PhaseSucceeds \/ PhaseFails)
    BY <1>7 DEF ManufacturingGeneration, Interrupted
  <2>2. Same(DesignKinds \ Writes("ManufacturingGeneration"))
    BY <1>1, <1>7, ManufacturingMakesNothing DEF designVars, Same
  <2>3. QED
    BY <1>4, <2>1, <2>2
<1> HIDE DEF goal
<1>8. /\ EngineeringAnalysis => PhaseRun("EngineeringAnalysis", Analyzing, TRUE)
      /\ ConstraintExtraction => PhaseRun("ConstraintExtraction", Extracting, TRUE)
      /\ SchematicPlanning => PhaseRun("SchematicPlanning", SchematicPlan, TRUE)
      /\ BomPlanning => PhaseRun("BomPlanning", BomPlan, BomIr(design'))
      /\ PcbFloorPlanning => PhaseRun("PcbFloorPlanning", FloorPlan, design'["board"] /= <<>>)
      /\ ComponentPlacement => PhaseRun("ComponentPlacement", Placing, PcbIr(design'))
      /\ RoutingPlanning => PhaseRun("RoutingPlanning", Routing, PcbIr(design'))
  BY DEF EngineeringAnalysis, ConstraintExtraction, SchematicPlanning, BomPlanning,
         PcbFloorPlanning, ComponentPlacement, RoutingPlanning
<1>9. CASE \/ EngineeringAnalysis \/ ConstraintExtraction \/ SchematicPlanning \/ BomPlanning
           \/ PcbFloorPlanning \/ ComponentPlacement \/ RoutingPlanning
  <2>1. EngineeringAnalysis => goal
    <3>1. "EngineeringAnalysis" \in DefaultNames /\ SendsOnly(Analyzing, Writes("EngineeringAnalysis"))
      BY <1>2, <1>3, <1>4
    <3>2. QED
      BY <1>5, <1>8, <3>1
  <2>2. ConstraintExtraction => goal
    <3>1. "ConstraintExtraction" \in DefaultNames /\ SendsOnly(Extracting, Writes("ConstraintExtraction"))
      BY <1>2, <1>3, <1>4
    <3>2. QED
      BY <1>5, <1>8, <3>1
  <2>3. SchematicPlanning => goal
    <3>1. "SchematicPlanning" \in DefaultNames /\ SendsOnly(SchematicPlan, Writes("SchematicPlanning"))
      BY <1>2, <1>3, <1>4
    <3>2. QED
      BY <1>5, <1>8, <3>1
  <2>4. BomPlanning => goal
    <3>1. "BomPlanning" \in DefaultNames /\ SendsOnly(BomPlan, Writes("BomPlanning"))
      BY <1>2, <1>3, <1>4
    <3>2. QED
      BY <1>5, <1>8, <3>1
  <2>5. PcbFloorPlanning => goal
    <3>1. "PcbFloorPlanning" \in DefaultNames /\ SendsOnly(FloorPlan, Writes("PcbFloorPlanning"))
      BY <1>2, <1>3, <1>4
    <3>2. QED
      BY <1>5, <1>8, <3>1
  <2>6. ComponentPlacement => goal
    <3>1. "ComponentPlacement" \in DefaultNames /\ SendsOnly(Placing, Writes("ComponentPlacement"))
      BY <1>2, <1>3, <1>4
    <3>2. QED
      BY <1>5, <1>8, <3>1
  <2>7. RoutingPlanning => goal
    <3>1. "RoutingPlanning" \in DefaultNames /\ SendsOnly(Routing, Writes("RoutingPlanning"))
      BY <1>2, <1>3, <1>4
    <3>2. QED
      BY <1>5, <1>8, <3>1
  <2>8. QED
    BY <1>9, <2>1, <2>2, <2>3, <2>4, <2>5, <2>6, <2>7 DEF goal
<1>10. ASSUME NEW gate \in Gates, Verifying(gate) PROVE goal
  <2>1. PhaseRun(gate, Raising(gate), OwnOpenBlocking(gate, design') = {})
    BY <1>10 DEF Verifying
  <2>2. gate \in DefaultNames /\ SendsOnly(Raising(gate), Writes(gate))
    BY <1>2, <1>3, <1>4
  <2>3. QED
    BY <1>5, <2>1, <2>2
<1>11. CASE \/ ConstraintVerification \/ ErcVerification \/ BomVerification
            \/ DrcVerification \/ DfmVerification \/ EmcAnalysis
  <2>1. \E gate \in Gates : Verifying(gate)
    BY <1>11 DEF ConstraintVerification, ErcVerification, BomVerification, DrcVerification,
                 DfmVerification, EmcAnalysis, Gates
  <2>2. QED
    BY <1>10, <2>1 DEF goal
<1>12. ASSUME NEW violation, GrantWaiver(violation) PROVE FALSE
  BY <1>12 DEF GrantWaiver, GivenUp
<1>13. ASSUME NEW i, RunAgain(i) PROVE FALSE
  BY <1>13 DEF RunAgain, GivenUp
<1>14. QED
  BY <1>6, <1>7, <1>9, <1>11, <1>12, <1>13 DEF WorkflowNext, goal

(* A run keeps what it has passed, and passes the phase that succeeds. *)
LEMMA PassedStays ==
  ASSUME BuildInv, Done, WorkflowNext, pc = "running", Passed
  PROVE  Passed' /\ \A other : Succeeded(other) => Succeeded(other)'
<1>1. WorkflowInv /\ ReleaseInv /\ plan.loopbacks = DefaultLoopBacks /\ IsList(results)
  BY DEF BuildInv, WorkflowInv, Done
<1>2. CASE Finishes /\ UNCHANGED <<designVars, runVars>>
  <2>1. results' = results /\ Place' = Place
    BY <1>2 DEF Finishes, Place, NumPhases, NumDefault
  <2>2. QED
    BY <2>1 DEF Passed, Succeeded
<1>3. ASSUME NEW phase \in DefaultNames, At(phase), PhaseSucceeds \/ PhaseFails
      PROVE  Passed' /\ \A other : Succeeded(other) => Succeeded(other)'
  <2>1. /\ \A other : Succeeded(other) => Succeeded(other)'
        /\ PhaseSucceeds => Succeeded(phase)'
    BY <1>1, <1>3, ResultsGrow
  <2>2. /\ Place \in 1 .. 15 /\ PhaseNames[Place] = phase
        /\ PhaseSucceeds => Place' = Place + 1
        /\ PhaseFails => Place' = Place \/ Place' \in 3 .. Place
    BY <1>1, <1>3, Moves DEF NumDefault
  <2>3. ASSUME NEW k \in 1 .. NumDefault, k < Place' PROVE Succeeded(PhaseNames[k])'
    <3>1. k < Place \/ (PhaseSucceeds /\ k = Place)
      <4>1. k \in Int
        BY DEF NumDefault
      <4>2. QED
        BY <1>3, <2>2, <2>3, <4>1
    <3>2. QED
      BY <2>1, <2>2, <3>1 DEF Passed
  <2>4. Passed'
    BY <2>3 DEF Passed, NumDefault
  <2>5. QED
    BY <2>1, <2>4
<1>4. QED
  BY <1>1, <1>2, <1>3, StepOfPhase

(* What a gate finds once all before it have succeeded it finds for the rest of the run:   *)
(* a planning phase before it makes nothing when it is entered again, and no later phase    *)
(* makes anything that it reads.                                                       *)
LEMMA ForeseenStays ==
  ASSUME BuildInv, Done, WorkflowNext, pc = "running", Passed, NEW f, Foreseen(f)
  PROVE  Foreseen(f)'
<1>1. WorkflowInv /\ ReleaseInv
  BY DEF BuildInv, WorkflowInv
<1>2. PICK g \in 1 .. NumDefault :
        /\ PhaseNames[g] \in Gates
        /\ f \in ToSet(Findings(PhaseNames[g]))
        /\ \A k \in 1 .. NumDefault : k < g => Succeeded(PhaseNames[k])
  BY DEF Foreseen
<1>3. \A other : Succeeded(other) => Succeeded(other)'
  BY PassedStays
<1>4. Same(Reads(PhaseNames[g]))
  <2>1. Reads(PhaseNames[g]) \subseteq DesignKinds \ {"violation"}
    BY DEF Reads, DesignKinds
  <2>2. CASE Finishes /\ UNCHANGED <<designVars, runVars>>
    BY <2>2 DEF designVars, Same
  <2>3. ASSUME NEW phase \in DefaultNames, At(phase), PhaseSucceeds \/ PhaseFails,
               phase /= "RequirementPlanning" => Same(DesignKinds \ Writes(phase))
        PROVE  Same(Reads(PhaseNames[g]))
    <3>1. Place \in 1 .. NumDefault /\ PhaseNames[Place] = phase
      BY <1>1, <2>3, AtPlace
    <3>2. CASE Place < g
      <4>1. Succeeded(phase)
        BY <1>2, <3>1, <3>2
      <4>2. phase /= "RequirementPlanning"
        <5>1. ASSUME phase = "RequirementPlanning" PROVE FALSE
          <6>1. Place = 1
            BY <3>1, <5>1, PhasePlaces
          <6>2. "RequirementPlanning" \in Planning /\ Since("RequirementPlanning") = 2
            BY DEF Planning, Since
          <6>3. QED
            BY <4>1, <5>1, <6>1, <6>2 DEF Done
        <5>2. QED
          BY <5>1
      <4>3. candidates' = candidates
        BY <2>3, <4>2 DEF Same
      <4>4. CASE phase \in Gates
        <5>1. Writes(phase) = {"violation"}
          BY <4>4 DEF Writes, Gates
        <5>2. QED
          BY <2>1, <2>3, <4>2, <5>1 DEF Same
      <4>5. CASE phase \notin Gates
        <5>1. design' = design
          BY <2>3, <4>1, <4>5, ReentryStep
        <5>2. QED
          BY <4>3, <5>1 DEF Same
      <4>6. QED
        BY <4>4, <4>5
    <3>3. CASE g <= Place
      <4>1. Reads(PhaseNames[g]) \cap Writes(phase) = {}
        BY <1>2, <3>1, <3>3, WritesAhead
      <4>2. phase /= "RequirementPlanning"
        <5>1. g /= 1 /\ g >= 1
          BY <1>2, PhasePlaces DEF NumDefault
        <5>2. phase = "RequirementPlanning" => Place = 1
          BY <3>1, PhasePlaces
        <5>3. QED
          BY <3>3, <5>1, <5>2 DEF NumDefault
      <4>3. QED
        BY <2>1, <2>3, <4>1, <4>2 DEF Same
    <3>4. QED
      BY <3>1, <3>2, <3>3 DEF NumDefault
  <2>4. QED
    BY <1>1, <2>2, <2>3, StepOfPhase
<1>5. Findings(PhaseNames[g])' = Findings(PhaseNames[g])
  BY <1>2, <1>4, SameFindings
<1>6. QED
  BY <1>2, <1>3, <1>5 DEF Foreseen, NumDefault

-----------------------------------------------------------------------------
(* The invariant of failures: what a phase that has succeeded lowers to *)

(* Every class of a component has its place among the classes. *)
LEMMA ClassesCover ==
  ASSUME DesignLists, NEW c \in Made("component")
  PROVE  ClassOf(c) \in ToSet(ClassesInOrder)
<1> DEFINE comps == design["component"]
           places == [i \in DOMAIN comps |-> i]
           first == {i \in DOMAIN comps : \A j \in 1 .. i - 1 : ClassOf(comps[j]) /= ClassOf(comps[i])}
           firsts == Keep(places, first)
           alike == {j \in DOMAIN comps : ClassOf(comps[j]) = ClassOf(c)}
<1>1. IsList(comps)
  BY DEF DesignLists, DesignKinds
<1>2. Len(comps) \in Nat /\ DOMAIN comps = 1 .. Len(comps)
  BY <1>1, ListOfSeq DEF IsList
<1>3. PICK j \in alike : \A k \in alike : j <= k
  <2>1. alike \in SUBSET Nat /\ alike /= {}
    BY <1>2 DEF Made, ToSet
  <2> HIDE DEF alike
  <2>2. QED
    BY <2>1, LeastNat
<1>4. j \in first
  <2>1. ASSUME NEW k \in 1 .. j - 1 PROVE ClassOf(comps[k]) /= ClassOf(comps[j])
    <3>1. j \in 1 .. Len(comps) /\ ClassOf(comps[j]) = ClassOf(c)
      BY <1>2, <1>3
    <3>2. k \in DOMAIN comps /\ ~(j <= k)
      BY <1>2, <2>1, <3>1
    <3>3. QED
      BY <1>3, <3>1, <3>2
  <2>2. QED
    BY <1>3, <2>1
<1>5. IsList(places) /\ j \in ToSet(places)
  <2>1. IsList(places)
    BY <1>2, ListOfFunction
  <2>2. j \in DOMAIN places /\ places[j] = j
    BY <1>3
  <2>3. QED
    BY <2>1, <2>2 DEF ToSet
<1>6. j \in ToSet(firsts)
  <2> HIDE DEF places, first
  <2>1. QED
    BY <1>4, <1>5, KeepFacts
<1>7. PICK k \in DOMAIN firsts : firsts[k] = j
  BY <1>6 DEF ToSet
<1>8. k \in DOMAIN ClassesInOrder /\ ClassesInOrder[k] = ClassOf(comps[j])
  BY <1>7 DEF ClassesInOrder
<1>9. QED
  BY <1>3, <1>8 DEF ToSet

(* Without components there are no classes. *)
LEMMA NoClasses ==
  ASSUME DesignLists, design["component"] = <<>>
  PROVE  BomPlan = <<>>
<1>1. Keep([i \in DOMAIN <<>> |-> i],
        {i \in DOMAIN <<>> : \A j \in 1 .. i - 1 : ClassOf(<<>>[j]) /= ClassOf(<<>>[i])}) = <<>>
  <2>1. IsList([i \in DOMAIN <<>> |-> i])
    <3>1. [i \in DOMAIN <<>> |-> i] = <<>>
      OBVIOUS
    <3>2. QED
      BY <3>1, EmptyList
  <2>2. {i \in DOMAIN <<>> : \A j \in 1 .. i - 1 : ClassOf(<<>>[j]) /= ClassOf(<<>>[i])} = {}
    OBVIOUS
  <2>3. QED
    BY <2>1, <2>2, KeepNothing
<1>2. DOMAIN ClassesInOrder = {}
  BY <1>1 DEF ClassesInOrder
<1> DEFINE asked(k) == CreateMissing("part", <<ClassesInOrder[k]>>)
                       \o Create("line", <<ClassesInOrder[k]>>)
           seqs == [k \in DOMAIN ClassesInOrder |-> asked(k)]
<1>3. BomPlan = <<>> \/ BomPlan = FlattenSeq(seqs)
  BY DEF BomPlan
<1> HIDE DEF asked
<1>4. DOMAIN seqs = {} /\ IsList(seqs)
  <2>1. 0 \in Nat /\ DOMAIN seqs = {} /\ DOMAIN seqs = 1 .. 0
    BY <1>2
  <2>2. seqs = [k \in 1 .. 0 |-> seqs[k]]
    BY <1>2
  <2> HIDE DEF seqs
  <2>3. QED
    BY <2>1, <2>2, ListOfFunction
<1> HIDE DEF seqs
<1>5. IsList(FlattenSeq(seqs)) /\ ToSet(FlattenSeq(seqs)) = {}
  BY <1>4, FlattenFacts
<1>6. QED
  BY <1>3, <1>5, NoItems

(* A line is asked for each class, unless there is one. *)
LEMMA BomAsks ==
  ASSUME DesignLists, design["line"] = <<>>, NEW class \in ToSet(ClassesInOrder)
  PROVE  [kind |-> "line", item |-> class] \in ToSet(BomPlan)
<1> DEFINE classes == ClassesInOrder
           asked(k) == CreateMissing("part", <<classes[k]>>) \o Create("line", <<classes[k]>>)
           seqs == [k \in DOMAIN classes |-> asked(k)]
<1>1. BomPlan = FlattenSeq(seqs)
  BY DEF BomPlan
<1>2. IsList(classes) /\ Len(classes) \in Nat /\ DOMAIN classes = 1 .. Len(classes)
  BY ClassesList, ListOfSeq DEF IsList
<1>3. PICK n \in DOMAIN classes : classes[n] = class
  BY DEF ToSet
<1> HIDE DEF classes
<1>4. ASSUME NEW k \in DOMAIN classes
      PROVE  IsList(asked(k)) /\ [kind |-> "line", item |-> classes[k]] \in ToSet(asked(k))
  <2> DEFINE one == <<classes[k]>>
  <2>1. IsList(one) /\ ToSet(one) = {classes[k]}
    BY OneItem
  <2> HIDE DEF one
  <2>2. IsList(CreateMissing("part", one))
    BY <2>1, MissingFacts DEF SendsOnly
  <2>3. /\ IsList(Create("line", one))
        /\ ToSet(Create("line", one)) = {[kind |-> "line", item |-> x] : x \in {classes[k]}}
    BY <2>1, CreateFacts DEF SendsOnly
  <2>4. /\ IsList(CreateMissing("part", one) \o Create("line", one))
        /\ ToSet(Create("line", one)) \subseteq ToSet(CreateMissing("part", one) \o Create("line", one))
    BY <2>2, <2>3, ListConcat
  <2>5. QED
    BY <2>3, <2>4 DEF one
<1> HIDE DEF asked
<1>5. IsList(seqs) /\ DOMAIN seqs = DOMAIN classes /\ \A k \in DOMAIN seqs : seqs[k] = asked(k)
  BY <1>2, ListOfFunction
<1> HIDE DEF seqs
<1>6. ToSet(FlattenSeq(seqs)) = UNION {ToSet(seqs[k]) : k \in DOMAIN seqs}
  BY <1>4, <1>5, FlattenFacts
<1>7. QED
  BY <1>1, <1>3, <1>4, <1>5, <1>6

(* The lines of a phase that is not cut short cover every component. *)
LEMMA BomCovers ==
  ASSUME DesignLists, design["line"] = <<>>, design' = Committed(BomPlan), candidates' = candidates
  PROVE  BomIr(design')
<1>1. /\ SendsOnly(BomPlan, {"part", "line"}) /\ {"part", "line"} \in SUBSET DesignKinds
      /\ "line" \in DesignKinds /\ "component" \in DesignKinds
  BY PlanningSends DEF DesignKinds
<1>2. design'["component"] = design["component"]
  BY <1>1, Adds
<1>3. ASSUME NEW c \in ToSet(design'["component"]) PROVE ClassOf(c)' \in ToSet(design'["line"])
  <2>1. c \in Made("component")
    BY <1>2, <1>3 DEF Made
  <2>2. [kind |-> "line", item |-> ClassOf(c)] \in ToSet(BomPlan)
    BY <2>1, ClassesCover, BomAsks
  <2>3. ClassOf(c) \in Made("line")'
    BY <1>1, <2>2, MadeAsAsked
  <2>4. QED
    BY <2>3 DEF Made, ClassOf
<1>4. QED
  BY <1>3 DEF BomIr, Covers, ClassOf

(* On a board, every component is placed by a phase that is not cut short. *)
LEMMA PlacingCovers ==
  ASSUME DesignLists, design["board"] /= <<>>, design' = Committed(Placing)
  PROVE  PcbIr(design')
<1>1. /\ SendsOnly(Placing, {"placement"}) /\ {"placement"} \in SUBSET DesignKinds
      /\ "placement" \in DesignKinds /\ "component" \in DesignKinds /\ "board" \in DesignKinds
  BY PlanningSends DEF DesignKinds
<1>2. /\ design'["component"] = design["component"] /\ design'["board"] = design["board"]
      /\ Made("placement") \subseteq Made("placement")'
  BY <1>1, Adds
<1> DEFINE comps == design["component"]
           free == [k \in DOMAIN Unplaced |-> PlacementAt(Unplaced[k], comps[Unplaced[k]])]
<1>3. ASSUME NEW i \in DOMAIN comps
      PROVE  \E p \in Made("placement")' : p.component = comps[i]
  <2>1. CASE \E p \in Made("placement") : p.component = comps[i]
    BY <1>2, <2>1
  <2>2. CASE \A p \in Made("placement") : p.component /= comps[i]
    <3>1. /\ IsList(Unplaced) /\ i \in ToSet(Unplaced)
          /\ Len(Unplaced) \in Nat /\ DOMAIN Unplaced = 1 .. Len(Unplaced)
      BY <2>2, UnplacedList, ListOfSeq DEF IsList
    <3>2. PICK k \in DOMAIN Unplaced : Unplaced[k] = i
      BY <3>1 DEF ToSet
    <3>3. IsList(free) /\ PlacementAt(i, comps[i]) \in ToSet(free)
      <4>1. IsList(free)
        BY <3>1, ListOfFunction
      <4>2. k \in DOMAIN free /\ free[k] = PlacementAt(i, comps[i])
        BY <3>2
      <4>3. QED
        BY <4>1, <4>2 DEF ToSet
    <3>4. Placing = Create("placement", free)
      BY DEF Placing, OnBoard
    <3> HIDE DEF free
    <3>5. [kind |-> "placement", item |-> PlacementAt(i, comps[i])] \in ToSet(Placing)
      BY <3>3, <3>4, CreateFacts
    <3>6. PlacementAt(i, comps[i]) \in Made("placement")'
      BY <1>1, <3>5, MadeAsAsked
    <3>7. QED
      BY <3>6 DEF PlacementAt
  <2>3. QED
    BY <2>1, <2>2
<1>4. QED
  BY <1>2, <1>3 DEF PcbIr, Made, ToSet

\* What lies behind the run lowers, and lines that no store error cut short cover the
\* components.
Lowered ==
  /\ Place > 7 => BomIr(design)
  /\ Place > 9 => design["board"] /= <<>>
  /\ Place > 10 => PcbIr(design)
  /\ faults = 0 /\ design["line"] /= <<>> => BomIr(design)
  /\ design["component"] = <<>> => design["line"] = <<>>

(* What lowers goes on to, as long as the components are the same. *)
LEMMA LowersStill ==
  ASSUME candidates' = candidates, design'["component"] = design["component"],
         Made("line") \subseteq Made("line")', Made("placement") \subseteq Made("placement")'
  PROVE  /\ BomIr(design) => BomIr(design')
         /\ design'["board"] /= <<>> /\ PcbIr(design) => PcbIr(design')
<1>1. BomIr(design) => BomIr(design')
  BY DEF BomIr, Covers, ClassOf, Made
<1>2. design'["board"] /= <<>> /\ PcbIr(design) => PcbIr(design')
  BY DEF PcbIr, Made
<1>3. QED
  BY <1>1, <1>2

(* A phase run, that of BOM planning whole if no error cuts it short. *)
LEMMA RunLowers ==
  ASSUME BuildInv, Lowered, DesignLists', NEW phase, NEW requests, NEW passes,
         PhaseRun(phase, requests, passes),
         Writes(phase) \in SUBSET DesignKinds, SendsOnly(requests, Writes(phase)),
         phase = "SchematicPlanning" => requests = SchematicPlan,
         phase = "BomPlanning" => requests = BomPlan,
         phase = "BomPlanning" /\ PhaseSucceeds => BomIr(design'),
         phase = "PcbFloorPlanning" /\ PhaseSucceeds => design'["board"] /= <<>>,
         phase = "ComponentPlacement" /\ PhaseSucceeds => PcbIr(design')
  PROVE  Lowered'
<1>1. /\ ReleaseInv /\ plan.loopbacks = DefaultLoopBacks /\ DesignLists /\ faults \in Nat
      /\ MaxFaults \in Nat
  BY WorkflowAssumption DEF BuildInv, WorkflowInv, WorkflowTypeOK
<1>2. At(phase) /\ (PhaseSucceeds \/ PhaseFails) /\ candidates' = candidates
  BY DEF PhaseRun, Interrupted
<1>3. PICK sent : SendsOnly(sent, Writes(phase)) /\ design' = Committed(sent)
  BY <1>1, RunSends
<1>4. /\ \A kind \in DesignKinds : Made(kind) \subseteq Made(kind)'
      /\ \A kind \in DesignKinds \ Writes(phase) : design'[kind] = design[kind]
  BY <1>1, <1>3, Adds
<1>5. requests = <<>> => design' = design
  <2>1. SUFFICES ASSUME requests = <<>> PROVE design' = design
    OBVIOUS
  <2>2. SendsOnly(requests, {}) /\ {} \in SUBSET DesignKinds
    BY <2>1, SendsNothing
  <2>3. PICK none : SendsOnly(none, {}) /\ design' = Committed(none)
    BY <1>1, <2>2, RunSends
  <2>4. none = <<>>
    <3>1. ToSet(none) = {} /\ IsList(none)
      BY <2>3 DEF SendsOnly
    <3>2. QED
      BY <3>1, NoItems
  <2>5. QED
    BY <1>1, <2>3, <2>4, NothingCommitted
<1>6. /\ Place \in 1 .. 15 /\ PhaseNames[Place] = phase
      /\ \/ PhaseSucceeds /\ Place' = Place + 1
         \/ Place' \in 1 .. Place
  BY <1>1, <1>2, Moves DEF NumDefault
<1>7. faults' = 0 => faults = 0 /\ design' = Committed(requests)
  BY <1>1 DEF PhaseRun, Interrupted, runVars
<1>8. \A kind \in DesignKinds : design[kind] /= <<>> => design'[kind] /= <<>>
  <2>1. SUFFICES ASSUME NEW kind \in DesignKinds, design[kind] /= <<>> PROVE design'[kind] /= <<>>
    OBVIOUS
  <2>2. IsList(design[kind])
    BY <1>1 DEF DesignLists
  <2>3. Made(kind) /= {}
    BY <2>1, <2>2, NoItems DEF Made
  <2>4. QED
    BY <1>4, <2>3, EmptyList DEF Made
<1>9. /\ "component" \in DesignKinds /\ "line" \in DesignKinds /\ "board" \in DesignKinds
      /\ "placement" \in DesignKinds
  BY DEF DesignKinds
<1>10. phase /= "SchematicPlanning" => design'["component"] = design["component"]
  <2>1. phase /= "SchematicPlanning" => "component" \notin Writes(phase)
    BY DEF Writes
  <2>2. QED
    BY <1>4, <1>9, <2>1
<1>11. phase /= "BomPlanning" => design'["line"] = design["line"]
  <2>1. phase /= "BomPlanning" => "line" \notin Writes(phase)
    BY DEF Writes
  <2>2. QED
    BY <1>4, <1>9, <2>1
<1>12. phase /= "SchematicPlanning" =>
         /\ BomIr(design) => BomIr(design')
         /\ design["board"] /= <<>> /\ PcbIr(design) => PcbIr(design')
  BY <1>2, <1>4, <1>8, <1>9, <1>10, LowersStill
<1>13. /\ phase = "SchematicPlanning" => Place = 5
       /\ phase = "BomPlanning" <=> Place = 7
       /\ phase = "PcbFloorPlanning" => Place = 9
       /\ phase = "ComponentPlacement" <=> Place = 10
  BY <1>6, PhasePlaces DEF NumDefault
<1>14. Place = 9 => phase = "PcbFloorPlanning"
  BY <1>6 DEF PhaseNames
<1>15. Place' > 7 => BomIr(design')
  BY <1>6, <1>12, <1>13 DEF Lowered
<1>16. Place' > 9 => design'["board"] /= <<>>
  BY <1>6, <1>8, <1>9, <1>14 DEF Lowered
<1>17. Place' > 10 => PcbIr(design')
  <2>1. Place > 10 => design["board"] /= <<>>
    BY <1>6 DEF Lowered
  <2>2. QED
    BY <1>6, <1>12, <1>13, <2>1 DEF Lowered
<1>18. design'["component"] = <<>> => design'["line"] = <<>>
  <2>1. SUFFICES ASSUME design'["component"] = <<>> PROVE design'["line"] = <<>>
    OBVIOUS
  <2>2. design["component"] = <<>> /\ design["line"] = <<>>
    BY <1>8, <1>9, <2>1 DEF Lowered
  <2>3. CASE phase /= "BomPlanning"
    BY <1>11, <2>2, <2>3
  <2>4. CASE phase = "BomPlanning"
    BY <1>1, <1>5, <2>2, <2>4, NoClasses
  <2>5. QED
    BY <2>3, <2>4
<1>19. faults' = 0 /\ design'["line"] /= <<>> => BomIr(design')
  <2>1. SUFFICES ASSUME faults' = 0, design'["line"] /= <<>> PROVE BomIr(design')
    OBVIOUS
  <2>2. faults = 0 /\ design' = Committed(requests)
    BY <1>7, <2>1
  <2>3. CASE design["line"] = <<>>
    <3>1. phase = "BomPlanning"
      BY <1>11, <2>1, <2>3
    <3>2. QED
      BY <1>1, <1>2, <2>2, <2>3, <3>1, BomCovers
  <2>4. CASE design["line"] /= <<>>
    <3>1. BomIr(design) /\ design["component"] /= <<>>
      BY <2>2, <2>4 DEF Lowered
    <3>2. CASE phase = "SchematicPlanning"
      <4>1. design' = design
        BY <1>5, <3>1, <3>2 DEF SchematicPlan
      <4>2. QED
        BY <1>2, <3>1, <4>1 DEF BomIr, Covers, ClassOf
    <3>3. CASE phase /= "SchematicPlanning"
      BY <1>12, <3>1, <3>3
    <3>4. QED
      BY <3>2, <3>3
  <2>5. QED
    BY <2>3, <2>4
<1>20. BomIr(design') => BomIr(design)'
  BY <1>2 DEF BomIr, Covers, ClassOf
<1>21. PcbIr(design') => PcbIr(design)'
  BY DEF PcbIr
<1>22. QED
  BY <1>15, <1>16, <1>17, <1>18, <1>19, <1>20, <1>21 DEF Lowered

(* A step that makes at most requirements, blocks, findings or waivers, and moves the run   *)
(* forward over no phase that lowers.                                             *)
LEMMA RestLowers ==
  ASSUME Lowered, candidates' = candidates, faults \in Nat, faults' >= faults, faults' \in Nat,
         \A kind \in {"component", "line", "board", "placement"} : design'[kind] = design[kind],
         Place' > 7 => Place > 7, Place' > 9 => Place > 9, Place' > 10 => Place > 10
  PROVE  Lowered'
<1>1. /\ design'["component"] = design["component"] /\ design'["line"] = design["line"]
      /\ design'["board"] = design["board"] /\ design'["placement"] = design["placement"]
  OBVIOUS
<1>2. (BomIr(design) => BomIr(design')) /\ (PcbIr(design) => PcbIr(design'))
  BY <1>1 DEF BomIr, PcbIr, Covers, ClassOf
<1>3. faults' = 0 => faults = 0
  OBVIOUS
<1>4. BomIr(design') => BomIr(design)'
  BY DEF BomIr, Covers, ClassOf
<1>5. PcbIr(design') => PcbIr(design)'
  BY DEF PcbIr
<1>6. QED
  BY <1>1, <1>2, <1>3, <1>4, <1>5 DEF Lowered

(* The agent's phase makes nothing but requirements; if it keeps one and no error hits   *)
(* it, it succeeds.                                                             *)
LEMMA RequirementPlanningKeepsSome ==
  ASSUME BuildInv, RequirementPlanning
  PROVE  /\ candidates' = candidates /\ faults \in Nat /\ faults' \in Nat /\ faults' >= faults
         /\ \A kind \in DesignKinds \ {"requirement"} : design'[kind] = design[kind]
         /\ faults' = 0 /\ design'["requirement"] /= <<>> => PhaseSucceeds
<1>1. ReleaseInv /\ DesignLists /\ Untouched /\ plan.loopbacks = DefaultLoopBacks
      /\ candidates \in Seq(Candidate) /\ faults \in Nat
  BY WorkflowAssumption DEF BuildInv, WorkflowInv, WorkflowTypeOK
<1> DEFINE places == [c \in DOMAIN candidates |-> c]
<1>2. PICK lost \in SUBSET DOMAIN candidates :
        LET kept == Keep(places, DOMAIN candidates \ lost)
        IN  /\ design' = Committed(Create("requirement", kept))
            /\ \/ /\ faults' = faults + Cardinality(lost)
                  /\ IF kept = <<>> THEN PhaseFails ELSE PhaseSucceeds
               \/ /\ faults' = faults + 1 + (IF kept = <<>> THEN 0 ELSE Cardinality(lost))
                  /\ PhaseFails
  BY DEF RequirementPlanning
<1> DEFINE kept == Keep(places, DOMAIN candidates \ lost)
           sent == Create("requirement", kept)
<1>3. At("RequirementPlanning") /\ candidates' = candidates /\ (PhaseSucceeds \/ PhaseFails)
  BY DEF RequirementPlanning
<1>4. Len(candidates) \in Nat /\ DOMAIN candidates = 1 .. Len(candidates)
  BY <1>1, LenProperties
<1>5. Cardinality(lost) \in Nat
  <2>1. IsFiniteSet(1 .. Len(candidates))
    BY <1>4, FS_Interval
  <2>2. QED
    BY <1>4, <2>1, FS_Subset, FS_CardinalityType
<1>6. IsList(kept)
  <2>1. places = [c \in 1 .. Len(candidates) |-> places[c]] /\ DOMAIN places = 1 .. Len(candidates)
    BY <1>4
  <2> HIDE DEF places
  <2>2. IsList(places)
    BY <1>4, <2>1, ListOfFunction
  <2>3. QED
    BY <2>2, KeepFacts
<1>7. /\ design' = Committed(sent)
      /\ \/ faults' = faults + Cardinality(lost) /\ (kept = <<>> \/ PhaseSucceeds)
         \/ faults' = faults + 1
         \/ faults' = faults + 1 + Cardinality(lost)
  BY <1>1, <1>2
<1> HIDE DEF places, kept
<1>8. SendsOnly(sent, {"requirement"}) /\ ToSet(sent) = {[kind |-> "requirement", item |-> x] : x \in ToSet(kept)}
  BY <1>6, CreateFacts
<1> HIDE DEF sent
<1>9. \A kind \in DesignKinds \ {"requirement"} : design'[kind] = design[kind]
  <2>1. {"requirement"} \in SUBSET DesignKinds
    BY DEF DesignKinds
  <2>2. QED
    BY <1>1, <1>7, <1>8, <2>1, CommittedFacts
<1>10. kept = <<>> => design'["requirement"] = <<>>
  <2>1. SUFFICES ASSUME kept = <<>> PROVE design'["requirement"] = <<>>
    OBVIOUS
  <2>2. ToSet(sent) = {} /\ IsList(sent)
    BY <1>8, <2>1, EmptyList DEF SendsOnly
  <2>3. design' = design
    BY <1>1, <1>7, <2>2, NoItems, NothingCommitted
  <2>4. pc = "running" /\ Place \in 1 .. NumDefault /\ PhaseNames[Place] = "RequirementPlanning"
    BY <1>1, <1>3, Moves
  <2>5. QED
    BY <1>1, <2>3, <2>4, PhasePlaces DEF Untouched
<1>11. faults' \in Nat /\ faults' >= faults /\ (faults' = 0 => kept = <<>> \/ PhaseSucceeds)
  BY <1>1, <1>5, <1>7
<1>12. QED
  BY <1>1, <1>3, <1>9, <1>10, <1>11

(* Every step keeps the invariant of failures. *)
LEMMA LoweredStep ==
  ASSUME BuildInv, BuildInv', Lowered, WorkflowNext
  PROVE  Lowered'
<1>1. /\ WorkflowInv /\ DesignLists /\ DesignLists' /\ DOMAIN design = DesignKinds
      /\ ReleaseInv /\ ReleaseInv' /\ plan.loopbacks = DefaultLoopBacks
      /\ faults \in Nat /\ faults' \in Nat
  BY WorkflowAssumption DEF BuildInv, WorkflowInv, WorkflowTypeOK
<1>2. /\ SendsOnly(Analyzing, {"block"}) /\ SendsOnly(Extracting, {"constraint"})
      /\ SendsOnly(SchematicPlan, {"component", "net"}) /\ SendsOnly(BomPlan, {"part", "line"})
      /\ SendsOnly(FloorPlan, {"board"}) /\ SendsOnly(Placing, {"placement"}) /\ SendsOnly(Routing, {"track"})
      /\ \A gate \in Gates : SendsOnly(Raising(gate), {"violation"})
  BY <1>1, PlanningSends, RaisingFacts
<1>3. /\ Writes("EngineeringAnalysis") = {"block"}
      /\ Writes("ConstraintExtraction") = {"constraint"}
      /\ Writes("SchematicPlanning") = {"component", "net"}
      /\ Writes("BomPlanning") = {"part", "line"}
      /\ Writes("PcbFloorPlanning") = {"board"}
      /\ Writes("ComponentPlacement") = {"placement"}
      /\ Writes("RoutingPlanning") = {"track"}
      /\ \A gate \in Gates : Writes(gate) = {"violation"}
  BY DEF Writes, Gates
<1>4. \A phase : Writes(phase) \in SUBSET DesignKinds
  BY DEF Writes, DesignKinds
<1>5. {"component", "line", "board", "placement"} \subseteq DesignKinds \ {"requirement", "waiver"}
  BY DEF DesignKinds
<1>6. Place \in Int /\ Place' \in Int
  <2>1. /\ NumPhases \in Int /\ cursor \in Int
        /\ NumPhases' \in Int /\ cursor' \in Int
    BY <1>1 DEF ReleaseInv, PlanIsTail, NumDefault
  <2>2. QED
    BY <2>1 DEF Place, NumDefault
<1>7. CASE RequirementPlanning
  <2>1. At("RequirementPlanning") /\ (PhaseSucceeds \/ PhaseFails)
    BY <1>7 DEF RequirementPlanning
  <2>2. /\ Place \in 1 .. 15 /\ PhaseNames[Place] = "RequirementPlanning"
        /\ Place' = Place + 1 \/ Place' = Place \/ Place' \in 3 .. Place
    BY <1>1, <2>1, Moves DEF NumDefault
  <2>3. Place = 1
    BY <2>2, PhasePlaces DEF NumDefault
  <2>4. ~(Place' > 7) /\ ~(Place' > 9) /\ ~(Place' > 10)
    BY <2>2, <2>3
  <2>5. QED
    BY <1>5, <1>7, <2>4, RequirementPlanningKeepsSome, RestLowers
<1>8. CASE EngineeringAnalysis
  <2>1. PhaseRun("EngineeringAnalysis", Analyzing, TRUE)
    BY <1>8 DEF EngineeringAnalysis
  <2>2. Writes("EngineeringAnalysis") \in SUBSET DesignKinds /\ SendsOnly(Analyzing, Writes("EngineeringAnalysis"))
    BY <1>2, <1>3, <1>4
  <2>3. QED
    BY <1>1, <2>1, <2>2, RunLowers
<1>9. CASE ConstraintExtraction
  <2>1. PhaseRun("ConstraintExtraction", Extracting, TRUE)
    BY <1>9 DEF ConstraintExtraction
  <2>2. Writes("ConstraintExtraction") \in SUBSET DesignKinds /\ SendsOnly(Extracting, Writes("ConstraintExtraction"))
    BY <1>2, <1>3, <1>4
  <2>3. QED
    BY <1>1, <2>1, <2>2, RunLowers
<1>10. CASE SchematicPlanning
  <2>1. PhaseRun("SchematicPlanning", SchematicPlan, TRUE)
    BY <1>10 DEF SchematicPlanning
  <2>2. Writes("SchematicPlanning") \in SUBSET DesignKinds /\ SendsOnly(SchematicPlan, Writes("SchematicPlanning"))
    BY <1>2, <1>3, <1>4
  <2>3. QED
    BY <1>1, <2>1, <2>2, RunLowers
<1>11. CASE BomPlanning
  <2>1. PhaseRun("BomPlanning", BomPlan, BomIr(design'))
    BY <1>11 DEF BomPlanning
  <2>2. Writes("BomPlanning") \in SUBSET DesignKinds /\ SendsOnly(BomPlan, Writes("BomPlanning"))
    BY <1>2, <1>3, <1>4
  <2>3. PhaseSucceeds => BomIr(design')
    BY <1>1, <2>1, SuccessIsWhole
  <2>4. QED
    BY <1>1, <2>1, <2>2, <2>3, RunLowers
<1>12. CASE PcbFloorPlanning
  <2>1. PhaseRun("PcbFloorPlanning", FloorPlan, design'["board"] /= <<>>)
    BY <1>12 DEF PcbFloorPlanning
  <2>2. Writes("PcbFloorPlanning") \in SUBSET DesignKinds /\ SendsOnly(FloorPlan, Writes("PcbFloorPlanning"))
    BY <1>2, <1>3, <1>4
  <2>3. PhaseSucceeds => design'["board"] /= <<>>
    BY <1>1, <2>1, SuccessIsWhole
  <2>4. QED
    BY <1>1, <2>1, <2>2, <2>3, RunLowers
<1>13. CASE ComponentPlacement
  <2>1. PhaseRun("ComponentPlacement", Placing, PcbIr(design'))
    BY <1>13 DEF ComponentPlacement
  <2>2. Writes("ComponentPlacement") \in SUBSET DesignKinds /\ SendsOnly(Placing, Writes("ComponentPlacement"))
    BY <1>2, <1>3, <1>4
  <2>3. PhaseSucceeds => PcbIr(design')
    BY <1>1, <2>1, SuccessIsWhole
  <2>4. QED
    BY <1>1, <2>1, <2>2, <2>3, RunLowers
<1>14. CASE RoutingPlanning
  <2>1. PhaseRun("RoutingPlanning", Routing, PcbIr(design'))
    BY <1>14 DEF RoutingPlanning
  <2>2. Writes("RoutingPlanning") \in SUBSET DesignKinds /\ SendsOnly(Routing, Writes("RoutingPlanning"))
    BY <1>2, <1>3, <1>4
  <2>3. QED
    BY <1>1, <2>1, <2>2, RunLowers
<1>15. ASSUME NEW gate \in Gates, Verifying(gate) PROVE Lowered'
  <2>1. PhaseRun(gate, Raising(gate), OwnOpenBlocking(gate, design') = {})
    BY <1>15 DEF Verifying
  <2>2. Writes(gate) \in SUBSET DesignKinds /\ SendsOnly(Raising(gate), Writes(gate))
    BY <1>2, <1>3, <1>4
  <2>3. /\ gate /= "SchematicPlanning" /\ gate /= "BomPlanning" /\ gate /= "PcbFloorPlanning"
        /\ gate /= "ComponentPlacement"
    BY DEF Gates
  <2>4. QED
    BY <1>1, <2>1, <2>2, <2>3, RunLowers
<1>16. CASE \/ ConstraintVerification \/ ErcVerification \/ BomVerification
            \/ DrcVerification \/ DfmVerification \/ EmcAnalysis
  <2>1. \E gate \in Gates : Verifying(gate)
    BY <1>16 DEF ConstraintVerification, ErcVerification, BomVerification, DrcVerification,
                 DfmVerification, EmcAnalysis, Gates
  <2>2. QED
    BY <1>15, <2>1
<1>17. CASE ManufacturingGeneration
  <2>1. UNCHANGED designVars
    BY <1>1, <1>17, ManufacturingMakesNothing
  <2>2. At("ManufacturingGeneration") /\ (PhaseSucceeds \/ PhaseFails) /\ faults' >= faults
    BY <1>1, <1>17 DEF ManufacturingGeneration, Interrupted, runVars
  <2>3. Place \in 1 .. 15 /\ PhaseNames[Place] = "ManufacturingGeneration"
    BY <1>1, <2>2, Moves DEF NumDefault
  <2>4. Place = 15
    BY <2>3, PhasePlaces DEF NumDefault
  <2>5. Place > 7 /\ Place > 9 /\ Place > 10
    BY <2>4
  <2>6. QED
    BY <1>1, <2>1, <2>2, <2>5, RestLowers DEF designVars
<1>18. CASE Finishes /\ UNCHANGED <<designVars, runVars>>
  <2>1. Place' = Place /\ design' = design /\ candidates' = candidates /\ faults' = faults
    BY <1>18 DEF Finishes, Place, NumPhases, NumDefault, designVars, runVars
  <2>2. QED
    BY <1>1, <2>1, RestLowers
<1>19. ASSUME NEW violation, GrantWaiver(violation) PROVE Lowered'
  <2>1. \A kind \in DesignKinds \ {"waiver"} : design'[kind] = design[kind]
    BY <1>1, <1>19 DEF GrantWaiver
  <2>2. Place' = Place /\ candidates' = candidates /\ faults' = faults
    BY <1>19 DEF GrantWaiver, vars, runVars, Place, NumPhases, NumDefault
  <2>3. QED
    BY <1>1, <1>5, <2>1, <2>2, RestLowers
<1>20. ASSUME NEW i \in Positions, RunAgain(i) PROVE Lowered'
  <2>1. design' = design /\ candidates' = candidates /\ faults' = faults
    BY <1>20 DEF RunAgain, designVars
  <2>2. Place' = 15 - NumPhases + i /\ Place = 15 - NumPhases + cursor
    BY <1>1, <1>20, PlaceAgain DEF NumDefault, Place
  <2>3. NumPhases \in Int /\ cursor \in Int /\ i \in Int /\ i <= cursor
    BY <1>1, <1>20 DEF RunAgain, ReleaseInv, PlanIsTail, NumDefault
  <2>4. Place' <= Place
    <3> DEFINE n == NumPhases
    <3>1. n \in Int /\ Place' = 15 - n + i /\ Place = 15 - n + cursor
      BY <2>2, <2>3
    <3> HIDE DEF n
    <3>2. QED
      BY ONLY <2>3, <3>1
  <2>5. (Place' > 7 => Place > 7) /\ (Place' > 9 => Place > 9) /\ (Place' > 10 => Place > 10)
    BY ONLY <1>6, <2>4
  <2>6. QED
    BY <1>1, <2>1, <2>5, RestLowers
<1>21. QED
  BY <1>7, <1>8, <1>9, <1>10, <1>11, <1>12, <1>13, <1>14, <1>16, <1>17, <1>18, <1>19, <1>20
     DEF WorkflowNext

(* It holds of the empty design. *)
LEMMA LoweredInit ==
  ASSUME WorkflowInit
  PROVE  Lowered
<1>1. ReleaseInv /\ NumPhases = 15 /\ cursor = 1
  <2>1. SubSeq(PhaseNames, 1, Len(PhaseNames)) = PhaseNames
    BY DefaultNamesShape DEF NumDefault
  <2>2. plan = [names |-> PhaseNames, loopbacks |-> DefaultLoopBacks]
    BY <2>1 DEF WorkflowInit, PlanFrom
  <2>3. NumPhases = 15
    BY <2>2, DefaultNamesShape DEF NumPhases, NumDefault
  <2>4. cursor = 1
    BY DEF WorkflowInit, Init
  <2>5. QED
    BY <2>3, <2>4, ReleaseInvInit
<1>2. Place = 1
  BY <1>1 DEF Place, NumDefault
<1>3. design["component"] = <<>> /\ design["line"] = <<>>
  BY DEF WorkflowInit, EmptyDesign, DesignKinds
<1>4. QED
  BY <1>2, <1>3 DEF Lowered

(* It stays when nothing changes. *)
LEMMA LoweredKept ==
  ASSUME BuildInv, Lowered, UNCHANGED workflowVars
  PROVE  Lowered'
<1>1. Place' = Place /\ design' = design /\ candidates' = candidates /\ faults' = faults
  BY DEF workflowVars, vars, designVars, runVars, Place, NumPhases, NumDefault
<1>2. faults \in Nat /\ faults >= faults
  BY WorkflowAssumption DEF BuildInv, WorkflowInv, WorkflowTypeOK
<1>3. QED
  BY <1>1, <1>2, RestLowers

(* What lies behind the run lowers, whatever the store did. *)
LEMMA LoweredInvariant == WorkflowSpec => [](BuildInv /\ Lowered)
<1>1. WorkflowInit => Lowered
  BY LoweredInit
<1>2. BuildInv /\ BuildInv' /\ Lowered /\ [WorkflowNext]_workflowVars => Lowered'
  BY LoweredStep, LoweredKept
<1>3. QED
  BY <1>1, <1>2, BuildInvariant, PTL DEF WorkflowSpec

(* Where a phase run gives up without an error, it has sent all and does not pass. *)
LEMMA GivesUpOpenly ==
  ASSUME BuildInv, NEW phase, NEW requests, NEW passes, PhaseRun(phase, requests, passes),
         GivenUp', faults' = 0
  PROVE  /\ passes => FALSE
         /\ design' = Committed(requests) /\ candidates' = candidates /\ faults = 0
         /\ plan.names[cursor'] = phase
<1>1. faults \in Nat
  BY WorkflowAssumption DEF BuildInv, WorkflowInv, WorkflowTypeOK
<1>2. ~Interrupted(requests)
  BY <1>1 DEF Interrupted
<1>3. /\ design' = Committed(requests) /\ UNCHANGED <<candidates, runVars>>
      /\ IF passes THEN PhaseSucceeds ELSE PhaseFails
  BY <1>2, Zenon DEF PhaseRun
<1>4. pc' = "returned"
  BY DEF GivenUp
<1>5. ~PhaseSucceeds
  BY <1>4 DEF PhaseSucceeds, Iterates
<1>6. \A e : ~LoopsBack(e)
  BY <1>4 DEF LoopsBack, Iterates
<1>7. (passes => FALSE) /\ PhaseFails
  BY <1>3, <1>5, Zenon
<1>8. Stops
  BY <1>6, <1>7 DEF PhaseFails
<1>9. plan.names[cursor'] = phase
  BY <1>8 DEF Stops, PhaseRun, At
<1>10. faults = 0
  BY <1>3 DEF runVars
<1>11. QED
  BY <1>3, <1>7, <1>9, <1>10, Zenon

-----------------------------------------------------------------------------
(* The theorems *)

(* "No design with an open blocking defect is ever released to manufacture"             *)
(* (manufacturing_generation.rs), nor one that does not lower to manufacture: whatever   *)
(* fails, whatever is waived, and however often the phases are run again.               *)
THEOREM ReleasedIsSound == WorkflowSpec => [](released => Sound(design))
<1>1. ReleaseInv => (released => Sound(design))
  BY DEF ReleaseInv
<1>2. QED
  BY <1>1, ReleaseInvariant, PTL

(* What is released stays as it is: no phase and no caller touches it again.             *)
THEOREM ReleaseIsFinal ==
  WorkflowSpec => [][released => released' /\ UNCHANGED designVars]_workflowVars
<1>1. ReleaseInv /\ [WorkflowNext]_workflowVars
        => [released => released' /\ UNCHANGED designVars]_workflowVars
  <2> SUFFICES ASSUME ReleaseInv, WorkflowNext, released
               PROVE  released' /\ UNCHANGED designVars
    OBVIOUS
  <2>1. ~GivenUp /\ \A phase : ~At(phase)
    BY NothingAfterRelease
  <2>2. Finishes /\ UNCHANGED <<designVars, runVars>>
    BY <2>1
       DEF WorkflowNext, PhaseRun, EngineeringAnalysis, ConstraintExtraction,
           SchematicPlanning, BomPlanning, PcbFloorPlanning, ComponentPlacement,
           RoutingPlanning, Verifying, ConstraintVerification, ErcVerification,
           BomVerification, DrcVerification, DfmVerification, EmcAnalysis,
           RequirementPlanning, ManufacturingGeneration, GrantWaiver, RunAgain
  <2>3. QED
    BY <2>2 DEF runVars
<1>2. QED
  BY <1>1, ReleaseInvariant, PTL DEF WorkflowSpec

(* The types of the workflow's variables. *)
THEOREM WorkflowTypes == WorkflowSpec => []WorkflowTypeOK
<1>1. WorkflowInv => WorkflowTypeOK
  BY DEF WorkflowInv
<1>2. QED
  BY <1>1, WorkflowInvariant, PTL

(* No gate can be slipped. *)
THEOREM NoGateIsSlipped == WorkflowSpec => []ReleasedIsVerified
<1>1. ASSUME WorkflowInv PROVE ReleasedIsVerified
  <2>1. SUFFICES ASSUME released
                 PROVE  /\ \A gate \in Gates : ToSet(Findings(gate)) \subseteq Made("violation")
                        /\ OpenBlocking(design) = {}
    BY DEF ReleasedIsVerified
  <2>2. ReleaseInv /\ GatesBehind
    BY <1>1 DEF WorkflowInv
  <2>3. OpenBlocking(design) = {}
    BY <2>1, <2>2 DEF ReleaseInv, Sound
  <2>4. ASSUME NEW gate \in Gates
        PROVE  ToSet(Findings(gate)) \subseteq Made("violation")
    <3>1. PICK k \in {4, 6, 8, 12, 13, 14} : PhaseNames[k] = gate
      BY <2>4 DEF Gates, PhaseNames
    <3>2. k \in 1 .. NumDefault /\ k < 15
      BY <3>1 DEF NumDefault
    <3>3. cursor > NumPhases /\ NumPhases \in Int /\ cursor \in Int
      BY <2>1, <2>2 DEF ReleaseInv, PlanIsTail
    <3>4. Place = 15 - NumPhases + cursor
      BY DEF Place, NumDefault
    <3>5. 15 < 15 - NumPhases + cursor /\ 15 - NumPhases + cursor \in Int
      BY ONLY <3>3
    <3>6. k < Place
      BY <3>1, <3>4, <3>5
    <3>7. QED
      BY <2>2, <3>1, <3>2, <3>6 DEF GatesBehind
  <2>5. QED
    BY <2>3, <2>4
<1>2. QED
  BY <1>1, WorkflowInvariant, PTL

(* Nothing is made twice, however often a phase is re-entered, with a store error in  *)
(* the middle of its requests or not.                                               *)
THEOREM NothingIsMadeTwice == WorkflowSpec => []NothingTwice
<1>1. ASSUME BuildInv PROVE NothingTwice
  <2>1. DesignLists /\ Once /\ InARow
    BY <1>1 DEF BuildInv, WorkflowInv, Built
  <2>2. QED
    BY <2>1, RowFacts DEF NothingTwice, Once
<1>2. QED
  BY <1>1, BuildInvariant, PTL

(* The row never makes two courtyards collide, wherever placement was interrupted     *)
(* before it was run again.                                                        *)
THEOREM CourtyardsStayApart == WorkflowSpec => []CourtyardsNeverOverlap
<1>1. ASSUME BuildInv PROVE CourtyardsNeverOverlap
  <2> DEFINE ps == design["placement"]
             clashes == {n \in ToSet(PairsOf(ps)) : Overlap(ps[n[1]], ps[n[2]])}
  <2>1. DesignLists /\ Once /\ InARow
    BY <1>1 DEF BuildInv, WorkflowInv, Built
  <2>2. IsList(ps) /\ IsInjective(ps)
    BY <2>1 DEF DesignLists, Once, DesignKinds
  <2>3. Len(ps) \in Nat /\ DOMAIN ps = 1 .. Len(ps) /\ \A i \in DOMAIN ps : ps[i] \in Made("placement")
    BY <2>2, ListOfSeq DEF IsList, Made
  <2>4. \A i, j \in DOMAIN ps : i < j => ~Overlap(ps[i], ps[j])
    <3>1. SUFFICES ASSUME NEW i \in DOMAIN ps, NEW j \in DOMAIN ps, i < j
                   PROVE  ~Overlap(ps[i], ps[j])
      OBVIOUS
    <3> DEFINE p == ps[i]
               q == ps[j]
    <3>2. p \in Made("placement") /\ q \in Made("placement") /\ p /= q
      <4>1. i /= j
        BY <2>3, <3>1
      <4>2. QED
        BY <2>2, <2>3, <4>1 DEF IsInjective
    <3> HIDE DEF p, q
    <3>3. /\ p.x \in Nat /\ p.edge \in {24, 36} /\ q.x \in Nat /\ q.edge \in {24, 36}
          /\ p.x + p.edge < q.x \/ q.x + q.edge < p.x
      BY <2>1, <3>2, RowFacts
    <3>4. ~Overlap(p, q)
      BY <3>3 DEF Overlap
    <3>5. QED
      BY <3>4 DEF p, q
  <2>5. clashes = {}
    <3>1. \A n \in ToSet(PairsOf(ps)) : n[1] \in DOMAIN ps /\ n[2] \in DOMAIN ps /\ n[1] < n[2]
      <4>1. ToSet(PairsOf(ps)) = {p \in (1 .. Len(ps)) \X (1 .. Len(ps)) : p[1] < p[2]}
        BY <2>2, PairsFacts
      <4> HIDE DEF ps
      <4>2. QED
        BY <2>3, <4>1
    <3>2. QED
      BY <2>4, <3>1
  <2>6. Keep(PairsOf(ps), clashes) = <<>>
    <3> HIDE DEF clashes
    <3>1. QED
      BY <2>2, <2>5, PairsFacts, KeepNothing
  <2>7. DrcCourtyardOverlap = FindPairs("drc-courtyard-overlap", "placement", ps, <<>>)
    BY <2>6 DEF DrcCourtyardOverlap
  <2> HIDE DEF ps
  <2>8. FindPairs("drc-courtyard-overlap", "placement", ps, <<>>) = <<>>
    BY DEF FindPairs
  <2>9. QED
    BY <2>7, <2>8 DEF CourtyardsNeverOverlap
<1>2. QED
  BY <1>1, BuildInvariant, PTL

(* Copper runs between the courtyards' centres: if they keep clear of the board's edge, *)
(* so does every track, and nothing is out of bounds.                               *)
THEOREM CopperStaysInside == WorkflowSpec => []CopperInsideCourtyards
<1>1. ASSUME BuildInv PROVE CopperInsideCourtyards
  <2>1. /\ DesignLists /\ Once /\ InARow /\ \A t \in Made("track") : OnCentres(t)
        /\ Made("board") \subseteq Nat /\ candidates \in Seq(Candidate)
        /\ Made("requirement") \subseteq DOMAIN candidates
    BY <1>1, WorkflowAssumption DEF BuildInv, WorkflowInv, Built, WorkflowTypeOK, Made
  <2>2. SUFFICES ASSUME DfmEdgeClearance = <<>>
                 PROVE  DfmTraceEdgeClearance = <<>> /\ DrcOutOfBounds = <<>>
    BY DEF CopperInsideCourtyards
  <2>3. CASE design["board"] = <<>>
    BY <2>3 DEF DfmTraceEdgeClearance, DrcOutOfBounds
  <2>4. CASE design["board"] /= <<>>
    <3> DEFINE near == {p \in Made("placement") :
                          NearEdge(p.x, p.x + p.edge) \/ NearEdge(p.y, p.y + p.edge)}
               out == {p \in Made("placement") : \/ p.x < 0 \/ p.y < 0
                                                \/ p.x + p.edge > BoardEdge \/ p.y + p.edge > BoardEdge}
               copper == {t \in Made("track") : \E v \in {t.from.x, t.from.y, t.to.x, t.to.y} :
                            NearEdge(v - t.width \div 2, v + t.width \div 2)}
               keepout == EdgeKeepout
               edge == BoardEdge
    <3>1. IsList(design["placement"]) /\ IsList(design["track"]) /\ IsList(design["board"])
      BY <2>1 DEF DesignLists, DesignKinds
    <3>2. keepout \in Nat
      <4>1. FabricationLengths \in Seq(Nat)
        BY <2>1, StatedValues DEF FabricationLengths
      <4>2. QED
        BY <4>1 DEF EdgeKeepout
    <3>3. edge \in Nat
      <4>1. design["board"] \in Seq(Nat)
        BY <2>1, <3>1, ListOfWider DEF Made
      <4>2. QED
        BY <2>4, <4>1 DEF BoardEdge
    <3>4. near = {}
      <4>1. DfmEdgeClearance = FindEach("dfm-edge-clearance", "placement", Keep(design["placement"], near))
        BY <2>4 DEF DfmEdgeClearance
      <4> DEFINE kept == Keep(design["placement"], near)
      <4>2. IsList(kept) /\ Len(kept) \in Nat
        <5> HIDE DEF near
        <5>1. QED
          BY <3>1, KeepFacts, ListOfSeq DEF IsList
      <4>3. DOMAIN kept = {}
        <5> HIDE DEF kept
        <5>1. DOMAIN FindEach("dfm-edge-clearance", "placement", kept) = DOMAIN kept
          BY DEF FindEach
        <5>2. DOMAIN <<>> = {}
          OBVIOUS
        <5>3. QED
          BY <2>2, <4>1, <5>1, <5>2 DEF kept
      <4>4. kept = <<>>
        <5> HIDE DEF kept
        <5>1. ToSet(kept) = {}
          BY <4>3 DEF ToSet
        <5>2. kept \in Seq({})
          BY <4>2, <5>1 DEF IsList
        <5>3. QED
          BY <5>2
      <4> HIDE DEF near
      <4>5. ToSet(design["placement"]) \cap near = {}
        BY <3>1, <4>4, KeptNothing
      <4>6. QED
        BY <4>5 DEF near, Made
    <3> HIDE DEF edge, keepout
    <3>5. ASSUME NEW p \in Made("placement")
          PROVE  /\ p.x \in Nat /\ p.y = 8 /\ p.edge \in {24, 36}
                 /\ keepout <= p.x /\ p.x + p.edge <= edge - keepout
                 /\ keepout <= p.y /\ p.y + p.edge <= edge - keepout
      <4>1. p.x \in Nat /\ p.y = 8 /\ p.edge \in {24, 36}
        BY <2>1, RowFacts
      <4>2. ~NearEdge(p.x, p.x + p.edge) /\ ~NearEdge(p.y, p.y + p.edge)
        BY <3>4
      <4>3. QED
        BY <3>2, <3>3, <4>1, <4>2 DEF NearEdge, edge, keepout
    <3>6. DrcOutOfBounds = <<>>
      <4>1. out = {}
        <5>1. ASSUME NEW p \in Made("placement")
              PROVE  ~(\/ p.x < 0 \/ p.y < 0
                       \/ p.x + p.edge > edge \/ p.y + p.edge > edge)
          BY <3>2, <3>3, <3>5
        <5>2. QED
          BY <5>1 DEF edge
      <4>2. Keep(design["placement"], out) = <<>>
        <5> HIDE DEF out
        <5>1. QED
          BY <3>1, <4>1, KeepNothing
      <4>3. DrcOutOfBounds = FindEach("drc-out-of-bounds", "placement", <<>>)
        BY <2>4, <4>2 DEF DrcOutOfBounds
      <4>4. FindEach("drc-out-of-bounds", "placement", <<>>) = <<>>
        BY DEF FindEach
      <4>5. QED
        BY <4>3, <4>4
    <3>7. ASSUME NEW p \in Made("placement")
          PROVE  /\ ~NearEdge(Centre(p).x - 1, Centre(p).x + 1)
                 /\ ~NearEdge(Centre(p).y - 1, Centre(p).y + 1)
      <4>1. 24 \div 2 = 12 /\ 36 \div 2 = 18
        OBVIOUS
      <4>2. Centre(p).x = p.x + p.edge \div 2 /\ Centre(p).y = p.y + p.edge \div 2
        BY DEF Centre
      <4>3. \/ p.edge = 24 /\ p.edge \div 2 = 12
            \/ p.edge = 36 /\ p.edge \div 2 = 18
        BY <3>5, <4>1
      <4>4. /\ Centre(p).x \in Int /\ Centre(p).y \in Int
            /\ keepout <= Centre(p).x - 1 /\ Centre(p).x + 1 <= edge - keepout
            /\ keepout <= Centre(p).y - 1 /\ Centre(p).y + 1 <= edge - keepout
        BY <3>2, <3>3, <3>5, <4>2, <4>3
      <4>5. QED
        BY <3>2, <3>3, <4>4 DEF NearEdge, edge, keepout
    <3>8. DfmTraceEdgeClearance = <<>>
      <4>1. copper = {}
        <5>1. SUFFICES ASSUME NEW t \in Made("track"), NEW v \in {t.from.x, t.from.y, t.to.x, t.to.y}
                       PROVE  ~NearEdge(v - t.width \div 2, v + t.width \div 2)
          OBVIOUS
        <5>2. PICK p \in Made("placement"), q \in Made("placement") :
                t.from = Centre(p) /\ t.to = Centre(q)
          BY <2>1 DEF OnCentres
        <5>3. t.width \div 2 = 1
          <6>1. t.width = 2
            BY <2>1 DEF OnCentres, TraceWidth
          <6>2. QED
            BY <6>1
        <5>4. QED
          BY <3>7, <5>1, <5>2, <5>3
      <4>2. Keep(design["track"], copper) = <<>>
        <5> HIDE DEF copper
        <5>1. QED
          BY <3>1, <4>1, KeepNothing
      <4>3. DfmTraceEdgeClearance = FindEach("dfm-trace-edge-clearance", "track", <<>>)
        BY <2>4, <4>2 DEF DfmTraceEdgeClearance
      <4>4. FindEach("dfm-trace-edge-clearance", "track", <<>>) = <<>>
        BY DEF FindEach
      <4>5. QED
        BY <4>3, <4>4
    <3>9. QED
      BY <3>6, <3>8
  <2>5. QED
    BY <2>3, <2>4
<1>2. QED
  BY <1>1, BuildInvariant, PTL

(* A run past routing has the chain of every net that has a pad. *)
LEMMA RoutedToTheLast ==
  ASSUME BuildInv, Whole, Place > 5, Place > 11, ManufacturingIr(design), NEW net \in Made("net")
  PROVE  TracksOf(net) /= <<>> /\ ~Cut(net)
<1>1. DesignLists /\ Once /\ InARow
  BY DEF BuildInv, WorkflowInv, Built
<1>2. Wired /\ Routed(net)
  BY DEF Whole
<1>3. net \in ToSet(NetNames) /\ PadsOf(net, Made("component")) /= {}
  BY <1>2 DEF Wired
<1>4. PICK c \in PadsOf(net, Made("component")) : TRUE
  BY <1>3
<1>5. c \in Made("component")
  BY <1>3, PadsAreComponents
<1>6. PICK p \in Made("placement") : p.component = c
  BY <1>5 DEF ManufacturingIr, PcbIr, Made
<1>7. p \in MembersOf(net)
  BY <1>4, <1>6 DEF MembersOf
<1>8. QED
  BY <1>1, <1>2, <1>7, ChainJoins

(* A run on its own, retries and store errors included, releases only complete designs: *)
(* every requirement kept is a component that is sourced and placed, its pins are on   *)
(* the nets, and every net is routed to its last pad.                              *)
THEOREM OwnReleaseIsComplete == WorkflowSpec => []ReleasedIsComplete
<1>1. ASSUME BuildInv, WholeInv PROVE ReleasedIsComplete
  <2>1. SUFFICES ASSUME released, runs = 1
                 PROVE  /\ Made("requirement") \subseteq Made("component")
                        /\ ManufacturingIr(design)
                        /\ Connected
                        /\ \A net \in Made("net") : TracksOf(net) /= <<>> /\ ~Cut(net)
    BY DEF ReleasedIsComplete
  <2>2. ReleaseInv /\ DesignLists /\ Once /\ InARow
    BY <1>1 DEF BuildInv, WorkflowInv, Built
  <2>3. Whole
    BY <1>1, <2>1, <2>2, NothingAfterRelease DEF WholeInv
  <2>4. Place \in Int /\ Place > 15
    <3>1. cursor \in Nat /\ NumPhases \in 1 .. 15 /\ cursor > NumPhases
      BY <2>1, <2>2 DEF ReleaseInv, PlanIsTail, NumDefault
    <3> DEFINE n == NumPhases
    <3>2. n \in Int /\ cursor \in Int /\ cursor > n /\ Place = 15 - n + cursor
      BY <3>1 DEF Place, NumDefault
    <3> HIDE DEF n
    <3>3. QED
      BY ONLY <3>2
  <2>5. ManufacturingIr(design)
    BY <2>1, <2>2 DEF ReleaseInv, Sound
  <2>6. Place > 2 /\ Place > 5 /\ Place > 11
    BY <2>4
  <2>7. Wired /\ Made("requirement") \subseteq Made("block") /\ \A net \in Made("net") : Routed(net)
    BY <2>3, <2>6 DEF Whole
  <2>8. Made("requirement") \subseteq Made("component") /\ Connected
    BY <2>7 DEF Wired, Connected
  <2>9. \A net \in Made("net") : TracksOf(net) /= <<>> /\ ~Cut(net)
    BY <1>1, <2>3, <2>5, <2>6, RoutedToTheLast
  <2>10. QED
    BY <2>5, <2>8, <2>9
<1>2. QED
  BY <1>1, WholeInvariant, PTL

(* Two nets that have copper at one pad, and a spacing that the fabrication states, are  *)
(* released only if somebody waives the clearance.                                 *)
THEOREM SpacingIsWaived == WorkflowSpec => []StatedSpacingIsWaived
<1>1. ASSUME BuildInv, ReleasedIsVerified PROVE StatedSpacingIsWaived
  <2>1. SUFFICES ASSUME released, Len(FabricationLengths) >= 3,
                        NEW s \in Made("track"), NEW t \in Made("track"),
                        s.net /= t.net, {s.from, s.to} \cap {t.from, t.to} /= {}
                 PROVE  \E waiver \in Made("waiver") : waiver.rule = "drc-copper-clearance"
    BY DEF StatedSpacingIsWaived
  <2>2. /\ DesignLists /\ Once /\ InARow /\ OnCentres(s) /\ OnCentres(t)
        /\ candidates \in Seq(Candidate) /\ Made("requirement") \subseteq DOMAIN candidates
    BY <1>1, WorkflowAssumption DEF BuildInv, WorkflowInv, Built, WorkflowTypeOK, Made
  <2>3. FabricationLengths \in Seq(Nat)
    BY <2>2, StatedValues DEF FabricationLengths
  <2>4. FabricationLengths[3] \in Nat
    BY <2>1, <2>3
  <2>5. TooNear(s, t, FabricationLengths[3]) /\ TooNear(t, s, FabricationLengths[3])
    <3>1. {t.from, t.to} \cap {s.from, s.to} /= {}
      BY <2>1
    <3>2. QED
      BY <2>1, <2>2, <2>4, <3>1, SharedPadIsTooNear
  <2>6. PICK f \in ToSet(DrcCopperClearance) : f.rule = "drc-copper-clearance"
    BY <2>1, <2>2, <2>3, <2>5, ClearanceFinds
  <2>7. f \in ToSet(Findings("DrcVerification"))
    <3>1. "DrcVerification" \in Gates
      BY DEF Gates
    <3>2. "drc-copper-clearance" \in RulesBy("DrcVerification")
      BY <3>1, RulesFacts
    <3>3. Evaluate("drc-copper-clearance") = DrcCopperClearance
      BY DEF Evaluate
    <3>4. QED
      BY <2>2, <2>6, <3>1, <3>2, <3>3, RuleFinds
  <2>8. f \in Made("violation") /\ OpenBlocking(design) = {}
    BY <1>1, <2>1, <2>7 DEF ReleasedIsVerified, Gates
  <2>9. f \in Made("waiver")
    BY <2>8 DEF OpenBlocking, Made
  <2>10. QED
    BY <2>6, <2>9
<1>2. QED
  BY <1>1, BuildInvariant, NoGateIsSlipped, PTL

-----------------------------------------------------------------------------
(* Islands of pads *)

(* Whatever copper there is on the pads, a net is open if it falls apart, and only    *)
(* then if all copper is from pad to pad.                                     *)
LEMMA FindsIslands == OpenFindsIslands
<1>1. SUFFICES ASSUME NEW tracks \in Wirings
               PROVE  /\ FallApart(tracks) => IsOpen(tracks, PadRow)
                      /\ IsOpen(tracks, PadRow) /\ AllAtPads(tracks) => FallApart(tracks)
  BY DEF OpenFindsIslands
<1>2. /\ IsList(PadRow)
      /\ \A i, j \in DOMAIN PadRow : Centre(PadRow[i]) = Centre(PadRow[j]) => i = j
      /\ MaxTracks \in Nat
  BY LayoutAssumption DEF IsList
<1>3. PICK n \in 1 .. MaxTracks :
        tracks \in [1 .. n -> [from : PadCentres \cup {OffPad}, to : PadCentres \cup {OffPad}]]
  BY DEF Wirings
<1>4. IsList(tracks) /\ tracks /= <<>> /\ Len(tracks) = n /\ n \in Nat
  <2>1. n \in Nat /\ n >= 1
    BY <1>2
  <2>2. DOMAIN tracks = 1 .. n /\ tracks = [k \in 1 .. n |-> tracks[k]]
    BY <1>3
  <2>3. IsList(tracks) /\ Len(tracks) = n
    BY <2>1, <2>2, ListOfFunction
  <2>4. QED
    BY <2>1, <2>3
<1>5. \E N \in Nat : DOMAIN PadRow = 1 .. N
  BY <1>2, ListOfSeq DEF IsList
<1>6. IsOpen(tracks, PadRow) <=> \E C : IsIsland(C, tracks, PadRow)
  BY <1>2, <1>4, OpenIsIsland
<1>7. ASSUME NEW m \in 1 .. n, Joins(tracks[m], PadRow)
      PROVE  /\ NodeAt(tracks[m].from, PadRow) \in DOMAIN PadRow
             /\ NodeAt(tracks[m].to, PadRow) \in DOMAIN PadRow
             /\ Centre(PadRow[NodeAt(tracks[m].from, PadRow)]) = tracks[m].from
             /\ Centre(PadRow[NodeAt(tracks[m].to, PadRow)]) = tracks[m].to
  BY <1>5, <1>7, NodeAtFacts DEF Joins
<1>8. ASSUME FallApart(tracks) PROVE IsOpen(tracks, PadRow)
  <2>1. PICK island \in SUBSET (PadCentres \cup {OffPad}) :
          /\ PadCentres \cap island /= {} /\ ~(PadCentres \subseteq island)
          /\ \A i \in DOMAIN tracks : tracks[i].from \in island <=> tracks[i].to \in island
    BY <1>8 DEF FallApart
  <2> DEFINE C == {i \in DOMAIN PadRow : Centre(PadRow[i]) \in island}
  <2>2. C \subseteq DOMAIN PadRow /\ C /= {} /\ C /= DOMAIN PadRow
    BY <2>1 DEF PadCentres
  <2>3. Respects(C, tracks, PadRow, n)
    <3>1. ASSUME NEW m \in 1 .. n, Joins(tracks[m], PadRow)
          PROVE  NodeAt(tracks[m].from, PadRow) \in C <=> NodeAt(tracks[m].to, PadRow) \in C
      <4>1. tracks[m].from \in island <=> tracks[m].to \in island
        BY <1>3, <2>1
      <4>2. QED
        BY <1>7, <3>1, <4>1
    <3> HIDE DEF C
    <3>2. QED
      BY <3>1 DEF Respects
  <2> HIDE DEF C
  <2>4. QED
    BY <1>4, <1>6, <2>2, <2>3 DEF IsIsland
<1>9. ASSUME IsOpen(tracks, PadRow), AllAtPads(tracks) PROVE FallApart(tracks)
  <2>1. PICK C : IsIsland(C, tracks, PadRow)
    BY <1>6, <1>9
  <2>2. C \subseteq DOMAIN PadRow /\ C /= {} /\ C /= DOMAIN PadRow /\ Respects(C, tracks, PadRow, n)
    BY <1>4, <2>1 DEF IsIsland
  <2> DEFINE island == {Centre(PadRow[i]) : i \in C}
  <2>3. \A i \in DOMAIN PadRow : Centre(PadRow[i]) \in island <=> i \in C
    BY <1>2, <2>2
  <2>4. island \in SUBSET (PadCentres \cup {OffPad})
    BY <2>2 DEF PadCentres
  <2> HIDE DEF island
  <2>5. PadCentres \cap island /= {}
    <3>1. PICK i \in C : i \in DOMAIN PadRow
      BY <2>2
    <3>2. QED
      BY <2>3, <3>1 DEF PadCentres
  <2>6. ~(PadCentres \subseteq island)
    <3>1. PICK i \in DOMAIN PadRow : i \notin C
      BY <2>2
    <3>2. QED
      BY <2>3, <3>1 DEF PadCentres
  <2>7. ASSUME NEW m \in DOMAIN tracks PROVE tracks[m].from \in island <=> tracks[m].to \in island
    <3>1. m \in 1 .. n
      BY <1>3
    <3>2. tracks[m].from \in PadCentres /\ tracks[m].to \in PadCentres
      BY <1>9 DEF AllAtPads
    <3>3. Joins(tracks[m], PadRow)
      BY <3>2 DEF Joins, NodesAt, PadCentres
    <3>4. NodeAt(tracks[m].from, PadRow) \in C <=> NodeAt(tracks[m].to, PadRow) \in C
      BY <2>2, <3>1, <3>3 DEF Respects
    <3>5. QED
      BY <1>7, <2>3, <3>1, <3>3, <3>4
  <2>8. QED
    BY <2>4, <2>5, <2>6, <2>7 DEF FallApart
<1>10. QED
  BY <1>8, <1>9

-----------------------------------------------------------------------------
(* The nets of the design *)

(* An order of finitely many items has each of them once. *)
LEMMA OrderFacts ==
  ASSUME NEW S, IsFiniteSet(S), NEW nodes \in SetToSeqs(S)
  PROVE  /\ IsList(nodes) /\ IsInjective(nodes)
         /\ \A i \in DOMAIN nodes : nodes[i] \in S
         /\ \A p \in S : \E i \in DOMAIN nodes : nodes[i] = p
<1> DEFINE n == Cardinality(S)
<1>1. n \in Nat /\ IsFiniteSet(1 .. n) /\ Cardinality(1 .. n) = n
  <2>1. n \in Nat
    BY FS_CardinalityType
  <2>2. QED
    BY <2>1, FS_Interval
<1>2. nodes \in [1 .. n -> S] /\ \A i, j \in 1 .. n : i # j => nodes[i] # nodes[j]
  BY DEF SetToSeqs
<1> HIDE DEF n
<1>3. IsList(nodes)
  <2>1. DOMAIN nodes = 1 .. n /\ nodes = [k \in 1 .. n |-> nodes[k]]
    BY <1>2
  <2>2. QED
    BY <1>1, <2>1, ListOfFunction
<1>4. IsInjective(nodes)
  BY <1>2 DEF IsInjective
<1>5. \A p \in S : \E i \in 1 .. n : nodes[i] = p
  <2>1. nodes \in Injection(1 .. n, S)
    BY <1>2, <1>4 DEF Injection, IsInjective
  <2>2. nodes \in Surjection(1 .. n, S)
    BY <1>1, <2>1, FS_Injection DEF n
  <2>3. QED
    BY <2>2 DEF Surjection
<1>6. QED
  BY <1>2, <1>3, <1>4, <1>5

(* The open-net rule finds a net open if and only if its pads fall apart. *)
LEMMA OpenNetIsCut ==
  ASSUME DesignLists, Once, InARow, NEW net \in Made("net"), TracksOf(net) /= <<>>,
         NEW nodes \in SetToSeqs(MembersOf(net))
  PROVE  IsOpen(TracksOf(net), nodes) <=> Cut(net)
<1> DEFINE members == MembersOf(net)
           tracks == TracksOf(net)
<1>1. IsFiniteSet(members)
  BY MembersFinite
<1>2. \A p, q \in members : Centre(p) = Centre(q) => p = q
  <2>1. members \subseteq Made("placement")
    BY DEF MembersOf
  <2>2. QED
    BY <2>1, RowFacts
<1>3. IsList(tracks)
  BY KeepFacts DEF TracksOf, DesignLists, DesignKinds
<1>4. /\ IsList(nodes) /\ IsInjective(nodes)
      /\ \A i \in DOMAIN nodes : nodes[i] \in members
      /\ \A p \in members : \E i \in DOMAIN nodes : nodes[i] = p
  BY <1>1, OrderFacts
<1> HIDE DEF members, tracks
<1>5. \E N \in Nat : DOMAIN nodes = 1 .. N
  BY <1>4, ListOfSeq DEF IsList
<1>6. IsOpen(tracks, nodes) <=> \E C : IsIsland(C, tracks, nodes)
  BY <1>3, <1>4, OpenIsIsland DEF tracks
<1>7. DOMAIN tracks = 1 .. Len(tracks) /\ ToSet(tracks) = {tracks[m] : m \in 1 .. Len(tracks)}
  BY <1>3, ListOfSeq DEF IsList, ToSet
<1>8. ASSUME NEW t, Joins(t, nodes)
      PROVE  /\ NodeAt(t.from, nodes) \in DOMAIN nodes /\ NodeAt(t.to, nodes) \in DOMAIN nodes
             /\ Centre(nodes[NodeAt(t.from, nodes)]) = t.from
             /\ Centre(nodes[NodeAt(t.to, nodes)]) = t.to
  BY <1>5, <1>8, NodeAtFacts DEF Joins
<1>9. \A i, j \in DOMAIN nodes : Centre(nodes[i]) = Centre(nodes[j]) => i = j
  BY <1>2, <1>4 DEF IsInjective
<1>10. Cut(net) <=>
         \E pads \in (SUBSET members) \ {{}, members} :
           \A p \in pads, q \in members \ pads, t \in ToSet(tracks) :
             {t.from, t.to} /= {Centre(p), Centre(q)}
  BY DEF Cut, members, tracks
<1>11. ASSUME NEW C, IsIsland(C, tracks, nodes) PROVE Cut(net)
  <2>1. /\ C \subseteq DOMAIN nodes /\ C /= {} /\ C /= DOMAIN nodes
        /\ \A m \in 1 .. Len(tracks) : Joins(tracks[m], nodes) =>
             (NodeAt(tracks[m].from, nodes) \in C <=> NodeAt(tracks[m].to, nodes) \in C)
    BY <1>11 DEF IsIsland, Respects
  <2> DEFINE pads == {nodes[i] : i \in C}
  <2>2. \A i \in DOMAIN nodes : nodes[i] \in pads <=> i \in C
    BY <1>4, <2>1 DEF IsInjective
  <2>3. pads \subseteq members /\ pads /= {}
    BY <1>4, <2>1
  <2> HIDE DEF pads
  <2>4. pads /= members
    BY <1>4, <2>1, <2>2
  <2>5. ASSUME NEW p \in pads, NEW q \in members \ pads, NEW t \in ToSet(tracks),
               {t.from, t.to} = {Centre(p), Centre(q)}
        PROVE  FALSE
    <3>1. PICK m \in 1 .. Len(tracks) : t = tracks[m]
      BY <1>7
    <3>2. PICK i \in DOMAIN nodes : nodes[i] = p
      BY <1>4, <2>3
    <3>3. PICK j \in DOMAIN nodes : nodes[j] = q
      BY <1>4
    <3>4. i \in C /\ j \notin C
      BY <2>2, <3>2, <3>3
    <3>5. \/ t.from = Centre(p) /\ t.to = Centre(q)
          \/ t.from = Centre(q) /\ t.to = Centre(p)
      BY <2>5
    <3>6. Joins(t, nodes)
      BY <3>2, <3>3, <3>5 DEF Joins, NodesAt
    <3>7. \/ NodeAt(t.from, nodes) = i /\ NodeAt(t.to, nodes) = j
          \/ NodeAt(t.from, nodes) = j /\ NodeAt(t.to, nodes) = i
      BY <1>8, <1>9, <3>2, <3>3, <3>5, <3>6
    <3>8. QED
      BY <2>1, <3>1, <3>4, <3>6, <3>7
  <2>6. QED
    BY <1>10, <2>3, <2>4, <2>5
<1>12. ASSUME Cut(net) PROVE \E C : IsIsland(C, tracks, nodes)
  <2>1. PICK pads \in (SUBSET members) \ {{}, members} :
          \A p \in pads, q \in members \ pads, t \in ToSet(tracks) :
            {t.from, t.to} /= {Centre(p), Centre(q)}
    BY <1>10, <1>12
  <2> DEFINE C == {i \in DOMAIN nodes : nodes[i] \in pads}
  <2>2. C \subseteq DOMAIN nodes /\ C /= {} /\ C /= DOMAIN nodes
    BY <1>4, <2>1
  <2>3. ASSUME NEW m \in 1 .. Len(tracks), Joins(tracks[m], nodes)
        PROVE  NodeAt(tracks[m].from, nodes) \in C <=> NodeAt(tracks[m].to, nodes) \in C
    <3> DEFINE t == tracks[m]
               a == NodeAt(t.from, nodes)
               b == NodeAt(t.to, nodes)
    <3>1. /\ a \in DOMAIN nodes /\ b \in DOMAIN nodes
          /\ Centre(nodes[a]) = t.from /\ Centre(nodes[b]) = t.to
      BY <1>8, <2>3
    <3>2. t \in ToSet(tracks) /\ nodes[a] \in members /\ nodes[b] \in members
      BY <1>4, <1>7, <3>1
    <3> HIDE DEF t, a, b
    <3>3. nodes[a] \in pads <=> nodes[b] \in pads
      <4>1. {t.from, t.to} = {Centre(nodes[a]), Centre(nodes[b])}
        BY <3>1
      <4>2. {t.from, t.to} = {Centre(nodes[b]), Centre(nodes[a])}
        BY <3>1
      <4>3. QED
        BY <2>1, <3>2, <4>1, <4>2
    <3>4. QED
      BY <3>1, <3>3 DEF a, b, t
  <2> HIDE DEF C
  <2>4. QED
    BY <2>2, <2>3 DEF IsIsland, Respects
<1>13. QED
  BY <1>6, <1>11, <1>12 DEF tracks

(* The union-find of the open-net rule decides connectivity, on any row of pads with any    *)
(* copper, and on every net that a run makes: whatever candidates, faults, waivers and      *)
(* runs there are, and in whatever order the rule takes a net's pads, it finds the net      *)
(* open if and only if its pads fall apart.                                      *)
THEOREM OpenNetsAreCut == WorkflowSpec => []OpenIsCut
<1>1. ASSUME BuildInv PROVE OpenIsCut
  <2>1. DesignLists /\ Once /\ InARow
    BY <1>1 DEF BuildInv, WorkflowInv, Built
  <2>2. QED
    BY <2>1, FindsIslands, OpenNetIsCut DEF OpenIsCut
<1>2. QED
  BY <1>1, BuildInvariant, PTL

(* A planning phase that has succeeded makes nothing when the same run re-enters it,    *)
(* whatever candidates, faults, waivers and runs there are: "the loop is a no-op        *)
(* recovery" (eak-cli).                                                          *)
THEOREM ReentryIsIdempotent == WorkflowSpec => ReentryMakesNothing
<1>1. BuildInv /\ Done /\ [WorkflowNext]_workflowVars
        => [\A phase \in DefaultNames \ Gates :
              At(phase) /\ Succeeded(phase) /\ pc = "running" => design' = design]_workflowVars
  BY ReentryStep
<1>2. QED
  BY <1>1, DoneInvariant, PTL DEF WorkflowSpec, ReentryMakesNothing

(* Unless the store or the reasoning fails, a workflow that kept a requirement and gives *)
(* up leaves an open violation to say why, or has no board: whatever the store did        *)
(* before, and whatever was waived, no gate fails for nothing.                          *)
THEOREM FailuresAreExplained == WorkflowSpec => FailureIsExplained
<1>1. ASSUME BuildInv, Lowered, WorkflowNext, ~GivenUp, GivenUp', faults' = 0,
             design'["requirement"] /= <<>>
      PROVE  OpenBlocking(design') /= {} \/ plan.names[cursor'] = "PcbFloorPlanning"
  <2>1. /\ ReleaseInv /\ plan.loopbacks = DefaultLoopBacks /\ DesignLists /\ faults \in Nat
    BY <1>1, WorkflowAssumption DEF BuildInv, WorkflowInv, WorkflowTypeOK
  <2>2. \A phase : At(phase) => Place \in 1 .. NumDefault /\ PhaseNames[Place] = phase
    BY <2>1, AtPlace
  <2>3. \A phase, requests, passes : PhaseRun(phase, requests, passes) => At(phase)
    BY DEF PhaseRun
  <2>4. \A requests : \A kinds \in SUBSET DesignKinds :
          SendsOnly(requests, kinds) /\ design' = Committed(requests) =>
            \A kind \in DesignKinds :
              /\ Made(kind) \subseteq Made(kind)'
              /\ kind \notin kinds => design'[kind] = design[kind]
    BY <2>1, Adds
  <2>5. /\ "component" \in DesignKinds /\ "line" \in DesignKinds /\ "board" \in DesignKinds
        /\ "placement" \in DesignKinds /\ {"part", "line"} \in SUBSET DesignKinds
        /\ {"track"} \in SUBSET DesignKinds
    BY DEF DesignKinds
  <2>6. /\ SendsOnly(BomPlan, {"part", "line"}) /\ SendsOnly(Routing, {"track"})
    BY <2>1, PlanningSends
  <2>7. CASE RequirementPlanning
    <3>1. PhaseSucceeds
      BY <1>1, <2>7, RequirementPlanningKeepsSome
    <3>2. QED
      BY <1>1, <3>1 DEF PhaseSucceeds, Iterates, GivenUp
  <2>8. CASE EngineeringAnalysis
    <3>1. PhaseRun("EngineeringAnalysis", Analyzing, TRUE)
      BY <2>8 DEF EngineeringAnalysis
    <3>2. QED
      BY <1>1, <3>1, GivesUpOpenly
  <2>9. CASE ConstraintExtraction
    <3>1. PhaseRun("ConstraintExtraction", Extracting, TRUE)
      BY <2>9 DEF ConstraintExtraction
    <3>2. QED
      BY <1>1, <3>1, GivesUpOpenly
  <2>10. CASE SchematicPlanning
    <3>1. PhaseRun("SchematicPlanning", SchematicPlan, TRUE)
      BY <2>10 DEF SchematicPlanning
    <3>2. QED
      BY <1>1, <3>1, GivesUpOpenly
  <2>11. CASE BomPlanning
    <3>1. PhaseRun("BomPlanning", BomPlan, BomIr(design'))
      BY <2>11 DEF BomPlanning
    <3>2. /\ BomIr(design') => FALSE
          /\ design' = Committed(BomPlan) /\ candidates' = candidates /\ faults = 0
      BY <1>1, <3>1, GivesUpOpenly
    <3>3. design["line"] /= <<>>
      BY <2>1, <3>2, BomCovers
    <3>4. BomIr(design)
      BY <1>1, <3>2, <3>3 DEF Lowered
    <3>5. /\ design'["component"] = design["component"] /\ Made("line") \subseteq Made("line")'
          /\ Made("placement") \subseteq Made("placement")'
      BY <2>4, <2>5, <2>6, <3>2
    <3>6. QED
      BY <3>2, <3>4, <3>5, LowersStill
  <2>12. CASE PcbFloorPlanning
    <3>1. PhaseRun("PcbFloorPlanning", FloorPlan, design'["board"] /= <<>>)
      BY <2>12 DEF PcbFloorPlanning
    <3>2. QED
      BY <1>1, <3>1, GivesUpOpenly
  <2>13. CASE ComponentPlacement
    <3>1. PhaseRun("ComponentPlacement", Placing, PcbIr(design'))
      BY <2>13 DEF ComponentPlacement
    <3>2. (PcbIr(design') => FALSE) /\ design' = Committed(Placing)
      BY <1>1, <3>1, GivesUpOpenly
    <3>3. Place = 10
      BY <2>2, <2>3, <3>1, PhasePlaces
    <3>4. design["board"] /= <<>>
      BY <1>1, <3>3 DEF Lowered
    <3>5. QED
      BY <2>1, <3>2, <3>4, PlacingCovers
  <2>14. CASE RoutingPlanning
    <3>1. PhaseRun("RoutingPlanning", Routing, PcbIr(design'))
      BY <2>14 DEF RoutingPlanning
    <3>2. /\ PcbIr(design') => FALSE
          /\ design' = Committed(Routing) /\ candidates' = candidates
      BY <1>1, <3>1, GivesUpOpenly
    <3>3. Place = 11
      BY <2>2, <2>3, <3>1, PhasePlaces
    <3>4. PcbIr(design)
      BY <1>1, <3>3 DEF Lowered
    <3>5. /\ design'["component"] = design["component"] /\ design'["board"] = design["board"]
          /\ Made("line") \subseteq Made("line")' /\ Made("placement") \subseteq Made("placement")'
      BY <2>4, <2>5, <2>6, <3>2
    <3>6. design["board"] /= <<>>
      BY <3>4 DEF PcbIr
    <3>7. QED
      BY <3>2, <3>4, <3>5, <3>6, LowersStill
  <2>15. CASE \/ ConstraintVerification \/ ErcVerification \/ BomVerification
              \/ DrcVerification \/ DfmVerification \/ EmcAnalysis
    <3>1. PICK gate \in Gates : PhaseRun(gate, Raising(gate), OwnOpenBlocking(gate, design') = {})
      BY <2>15 DEF ConstraintVerification, ErcVerification, BomVerification, DrcVerification,
                   DfmVerification, EmcAnalysis, Gates, Verifying
    <3>2. OwnOpenBlocking(gate, design') = {} => FALSE
      BY <1>1, <3>1, GivesUpOpenly
    <3>3. OwnOpenBlocking(gate, design') \subseteq OpenBlocking(design')
      BY DEF OwnOpenBlocking
    <3>4. QED
      BY <3>2, <3>3
  <2>16. CASE ManufacturingGeneration
    <3>1. design' = design
      BY <2>1, <2>16, ManufacturingMakesNothing DEF designVars
    <3>2. At("ManufacturingGeneration") /\ ~Interrupted(<<>>)
      BY <1>1, <2>1, <2>16 DEF ManufacturingGeneration, Interrupted
    <3>3. Place = 15
      BY <2>2, <3>2, PhasePlaces
    <3>4. ManufacturingIr(design)
      BY <1>1, <3>3 DEF Lowered, ManufacturingIr
    <3>5. ~PhaseSucceeds
      BY <1>1 DEF PhaseSucceeds, Iterates, GivenUp
    <3>6. OpenBlocking(design) /= {}
      BY <2>16, <3>2, <3>4, <3>5 DEF ManufacturingGeneration
    <3>7. QED
      BY <3>1, <3>6
  <2>17. CASE Finishes /\ UNCHANGED <<designVars, runVars>>
    <3>1. /\ cursor' = cursor /\ cursor > NumPhases /\ NumPhases' = NumPhases
          /\ cursor \in Nat /\ NumPhases \in Int
      BY <2>1, <2>17 DEF Finishes, ReleaseInv, PlanIsTail, NumDefault, NumPhases
    <3>2. cursor' <= NumPhases'
      BY <1>1 DEF GivenUp
    <3>3. QED
      BY <3>1, <3>2
  <2>18. ASSUME NEW violation, GrantWaiver(violation) PROVE FALSE
    BY <1>1, <2>18 DEF GrantWaiver
  <2>19. ASSUME NEW i, RunAgain(i) PROVE FALSE
    BY <1>1, <2>19 DEF RunAgain
  <2>20. QED
    BY <1>1, <2>7, <2>8, <2>9, <2>10, <2>11, <2>12, <2>13, <2>14, <2>15, <2>16, <2>17, <2>18, <2>19
       DEF WorkflowNext
<1>2. BuildInv /\ Lowered /\ [WorkflowNext]_workflowVars
        => [~GivenUp /\ GivenUp' /\ faults' = 0 /\ design'["requirement"] /= <<>> =>
             \/ OpenBlocking(design') /= {}
             \/ plan.names[cursor'] = "PcbFloorPlanning"]_workflowVars
  BY <1>1
<1>3. QED
  BY <1>2, LoweredInvariant, PTL DEF WorkflowSpec, FailureIsExplained
=============================================================================
