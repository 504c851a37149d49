------------------------------ MODULE Workflow ------------------------------
(***************************************************************************)
(* The default workflow (eak-cli) on one design: the orchestrator of          *)
(* Orchestrator drives the fifteen phases whose work Design and Verification    *)
(* define.  A phase run is one step: it sends its requests in order, and an error   *)
(* of the store at any of them leaves those before it committed and fails it.       *)
(*                                                                         *)
(* As in the tests of eak-phases, the caller of a workflow that has returned may  *)
(* grant waivers on the violations it left and run phases again on the same        *)
(* kernel: here, the phases from some point up to the one that failed, and on.      *)
(***************************************************************************)
EXTENDS Orchestrator, Verification

CONSTANTS
  CandidateLists,  \* the candidates that the reasoning engine may propose
  MaxFaults,       \* bound on the errors of the store
  MaxRuns          \* bound on the runs of the orchestrator on one design

ASSUME WorkflowAssumption ==
  /\ CandidateLists \subseteq Seq(Candidate)
  /\ MaxFaults \in Nat
  /\ MaxRuns \in Nat \ {0}

VARIABLES
  released,  \* ManufacturingGenerated is in the log
  faults,    \* errors of the store so far
  runs       \* runs of the orchestrator so far

runVars == <<released, faults, runs>>

workflowVars == <<vars, designVars, runVars>>

PhaseNames ==
  <<"RequirementPlanning", "EngineeringAnalysis", "ConstraintExtraction",
    "ConstraintVerification", "SchematicPlanning", "ErcVerification", "BomPlanning",
    "BomVerification", "PcbFloorPlanning", "ComponentPlacement", "RoutingPlanning",
    "DrcVerification", "DfmVerification", "EmcAnalysis", "ManufacturingGeneration">>

Edge(from, to) == [from |-> from, to |-> to, max_retries |-> 2]

DefaultLoopBacks ==
  <<Edge("ConstraintVerification", "ConstraintExtraction"),
    Edge("ErcVerification", "SchematicPlanning"),
    Edge("BomVerification", "BomPlanning"),
    Edge("DrcVerification", "RoutingPlanning"),
    Edge("DfmVerification", "ComponentPlacement"),
    Edge("EmcAnalysis", "RoutingPlanning")>>

\* The default workflow from its phase i on.
PlanFrom(i) ==
  [names |-> SubSeq(PhaseNames, i, Len(PhaseNames)), loopbacks |-> DefaultLoopBacks]

DefaultNames == ToSet(PhaseNames)

DefaultPlans == {PlanFrom(i) : i \in DOMAIN PhaseNames}

-----------------------------------------------------------------------------
WorkflowInit ==
  /\ Init
  /\ plan = PlanFrom(1)
  /\ candidates \in CandidateLists
  /\ design = EmptyDesign
  /\ released = FALSE
  /\ faults = 0
  /\ runs = 1

At(phase) == cursor <= NumPhases /\ plan.names[cursor] = phase

\* The design with the requests committed.
Committed(requests) ==
  LET after[n \in 0 .. Len(requests)] ==
        IF n = 0 THEN design
        ELSE [after[n - 1] EXCEPT ![requests[n].kind] = Append(@, requests[n].item)]
  IN  after[Len(requests)]

(* A store error: at a request, at the milestone after the last one, or at an  *)
(* event of the engine.                                                         *)
Interrupted(requests) ==
  /\ faults < MaxFaults
  /\ faults' = faults + 1
  /\ \E k \in 0 .. Len(requests) : design' = Committed(SubSeq(requests, 1, k))
  /\ PhaseFails
  /\ UNCHANGED <<candidates, released, runs>>

(* A phase sends its requests; then it passes or fails. *)
PhaseRun(phase, requests, passes) ==
  /\ At(phase)
  /\ \/ Interrupted(requests)
     \/ /\ design' = Committed(requests)
        /\ IF passes THEN PhaseSucceeds ELSE PhaseFails
        /\ UNCHANGED <<candidates, runVars>>

-----------------------------------------------------------------------------
(* The phases *)

(* The agent drops a candidate whose request fails, and goes on.  If none is    *)
(* left, if there was none, or if it cannot reason, the phase fails; and so it    *)
(* does on an error of the events that follow.                                  *)
RequirementPlanning ==
  /\ At("RequirementPlanning")
  /\ \E lost \in SUBSET DOMAIN candidates :
       LET kept == Keep([c \in DOMAIN candidates |-> c], DOMAIN candidates \ lost)
       IN  /\ design' = Committed(Create("requirement", kept))
           /\ \/ /\ faults' = faults + Cardinality(lost)
                 /\ IF kept = <<>> THEN PhaseFails ELSE PhaseSucceeds
              \/ /\ faults' = faults + 1 + (IF kept = <<>> THEN 0 ELSE Cardinality(lost))
                 /\ PhaseFails
  /\ faults' <= MaxFaults
  /\ UNCHANGED <<candidates, released, runs>>

EngineeringAnalysis == PhaseRun("EngineeringAnalysis", Analyzing, TRUE)

ConstraintExtraction == PhaseRun("ConstraintExtraction", Extracting, TRUE)

SchematicPlanning == PhaseRun("SchematicPlanning", SchematicPlan, TRUE)

BomPlanning == PhaseRun("BomPlanning", BomPlan, BomIr(design'))

PcbFloorPlanning == PhaseRun("PcbFloorPlanning", FloorPlan, design'["board"] /= <<>>)

ComponentPlacement == PhaseRun("ComponentPlacement", Placing, PcbIr(design'))

RoutingPlanning == PhaseRun("RoutingPlanning", Routing, PcbIr(design'))

Gates ==
  {"ConstraintVerification", "ErcVerification", "BomVerification", "DrcVerification",
   "DfmVerification", "EmcAnalysis"}

(* A gate records what it finds, and fails on its own open violations only. *)
Verifying(gate) ==
  PhaseRun(gate, Raising(gate), OwnOpenBlocking(gate, design') = {})

ConstraintVerification == Verifying("ConstraintVerification")

ErcVerification == Verifying("ErcVerification")

BomVerification == Verifying("BomVerification")

DrcVerification == Verifying("DrcVerification")

DfmVerification == Verifying("DfmVerification")

EmcAnalysis == Verifying("EmcAnalysis")

(* The global gate, and the release. *)
ManufacturingGeneration ==
  /\ At("ManufacturingGeneration")
  /\ \/ Interrupted(<<>>)
     \/ /\ OpenBlocking(design) = {} /\ ManufacturingIr(design)
        /\ released' = TRUE
        /\ PhaseSucceeds
        /\ UNCHANGED <<designVars, faults, runs>>
     \/ /\ ~(OpenBlocking(design) = {} /\ ManufacturingIr(design))
        /\ PhaseFails
        /\ UNCHANGED <<designVars, runVars>>

-----------------------------------------------------------------------------
(* The caller, between two runs *)

GivenUp == pc = "returned" /\ cursor <= NumPhases

GrantWaiver(violation) ==
  /\ GivenUp
  /\ runs < MaxRuns
  /\ violation \in OpenBlocking(design)
  /\ design' = [design EXCEPT !["waiver"] = Append(@, violation)]
  /\ UNCHANGED <<vars, candidates, runVars>>

(* New machines for the phases from the i-th on, up to the one that failed. *)
RunAgain(i) ==
  /\ GivenUp
  /\ runs < MaxRuns
  /\ runs' = runs + 1
  /\ i \in 1 .. cursor
  /\ plan.names[i] /= "RequirementPlanning"
  /\ plan' = [plan EXCEPT !.names = SubSeq(@, i, NumPhases)]
  /\ cursor' = 1
  /\ steps' = 0
  /\ used' = [e \in Edges |-> 0]
  /\ results' = <<>>
  /\ pc' = "running"
  /\ UNCHANGED <<designVars, released, faults>>

WorkflowNext ==
  \/ RequirementPlanning \/ EngineeringAnalysis \/ ConstraintExtraction
  \/ SchematicPlanning \/ BomPlanning \/ PcbFloorPlanning
  \/ ComponentPlacement \/ RoutingPlanning
  \/ ConstraintVerification \/ ErcVerification \/ BomVerification
  \/ DrcVerification \/ DfmVerification \/ EmcAnalysis
  \/ ManufacturingGeneration
  \/ Finishes /\ UNCHANGED <<designVars, runVars>>
  \/ \E violation \in OpenBlocking(design) : GrantWaiver(violation)
  \/ \E i \in Positions : RunAgain(i)

WorkflowSpec == WorkflowInit /\ [][WorkflowNext]_workflowVars

(* One thread: a run that has started goes on.  Whatever phase it runs, the step  *)
(* is one of these for the orchestrator.                                       *)
FairWorkflowSpec == WorkflowSpec /\ WF_vars(PhaseSucceeds \/ PhaseFails \/ Finishes)
-----------------------------------------------------------------------------
(* Properties *)

\* The types of the workflow's variables.
WorkflowTypeOK ==
  /\ candidates \in CandidateLists
  /\ DOMAIN design = DesignKinds
  /\ ToSet(design["requirement"]) \subseteq DOMAIN candidates
  /\ ToSet(design["waiver"]) \subseteq ToSet(design["violation"])
  /\ released \in BOOLEAN
  /\ faults \in 0 .. MaxFaults
  /\ runs \in 1 .. MaxRuns

\* No gate can be slipped: when a design is released, whatever any rule would find
\* in it now is on record and waived, through retries, store errors, waivers and
\* new runs ("no design with an open blocking defect is ever released to
\* manufacture", manufacturing_generation.rs).
ReleasedIsVerified ==
  released =>
    /\ \A gate \in Gates : ToSet(Findings(gate)) \subseteq Made("violation")
    /\ OpenBlocking(design) = {}

\* Nothing is made twice, however often a phase is re-entered, with a store error
\* in the middle of its requests or not: one block, component and placement per
\* requirement, one track per segment, one violation per finding.
NothingTwice ==
  /\ \A kind \in DesignKinds : IsInjective(design[kind])
  /\ \A p, q \in Made("placement") : p.component = q.component => p = q

\* Every pin is on the net that its class says.
Connected ==
  \A net \in ToSet(NetNames) :
    PadsOf(net, Made("component")) /= {} => net \in Made("net")

\* Some pads of the net have no copper to the others.
Cut(net) ==
  \E pads \in (SUBSET MembersOf(net)) \ {{}, MembersOf(net)} :
    \A p \in pads, q \in MembersOf(net) \ pads, t \in ToSet(TracksOf(net)) :
      {t.from, t.to} /= {Centre(p), Centre(q)}

\* A run on its own, retries and store errors included, releases only complete
\* designs: every requirement kept is a component that is sourced and placed, its
\* pins are on the nets, and every net is routed to its last pad.
ReleasedIsComplete ==
  released /\ runs = 1 =>
    /\ Made("requirement") \subseteq Made("component")
    /\ ManufacturingIr(design)
    /\ Connected
    /\ \A net \in Made("net") : TracksOf(net) /= <<>> /\ ~Cut(net)

\* The row never makes two courtyards collide, wherever placement was interrupted
\* before it was run again: "positions and ids stay reproducible" (component_placement.rs).
CourtyardsNeverOverlap == DrcCourtyardOverlap = <<>>

\* Copper runs between the courtyards' centres: if the courtyards keep clear of the
\* board's edge, by the default or by the fabrication's own band, so does every track, and
\* nothing is out of bounds.
CopperInsideCourtyards ==
  DfmEdgeClearance = <<>> => DfmTraceEdgeClearance = <<>> /\ DrcOutOfBounds = <<>>

\* The router lays the nets over each other, which "any non-zero floor would
\* (correctly) flag" (DrcCopperClearanceRule): a design where two nets have copper at one
\* pad and whose fabrication states a spacing is released only if somebody waives it.
StatedSpacingIsWaived ==
  /\ released
  /\ Len(FabricationLengths) >= 3
  /\ \E s, t \in Made("track") : s.net /= t.net /\ {s.from, s.to} \cap {t.from, t.to} /= {}
  => \E waiver \in Made("waiver") : waiver.rule = "drc-copper-clearance"

\* Unless the store or the reasoning fails, a workflow that kept a requirement and
\* gives up leaves an open violation to say why, or has no board: no gate fails for
\* nothing.
FailureIsExplained ==
  [][~GivenUp /\ GivenUp' /\ faults' = 0 /\ design'["requirement"] /= <<>> =>
       \/ OpenBlocking(design') /= {}
       \/ plan.names[cursor'] = "PcbFloorPlanning"]_workflowVars

Succeeded(phase) ==
  \E k \in DOMAIN results : results[k] = [phase |-> phase, outcome |-> "Success"]

\* "Because extraction, schematic planning, BOM planning, routing planning, and
\* component placement are idempotent ..., the loop is a no-op recovery" (eak-cli):
\* a planning phase that has succeeded makes nothing when the same run re-enters it.
ReentryMakesNothing ==
  [][\A phase \in DefaultNames \ Gates :
       At(phase) /\ Succeeded(phase) /\ pc = "running" => design' = design]_workflowVars

\* Every run returns.
RunReturns == pc = "running" ~> pc = "returned"

\* "A re-entry mints exactly the missing chains" (routing_planning.rs): whenever
\* routing succeeds, every net is routed to its last pad.
RoutingMintsMissingChains ==
  [][RoutingPlanning /\ PhaseSucceeds =>
       \A net \in Made("net") : ToSet(ChainOf(net)) \subseteq ToSet(design'["track"])]_workflowVars

\* "Ground collects every ground pin" (schematic_planning.rs): a design that is
\* released has its pins on nets, whatever store errors and new runs it went through.
ReleasedIsConnected == released => Connected

\* "The binary's exit code reflects design health" (eak-cli): a process whose
\* design was not released does not exit with success, which it does when no
\* blocking violation is open.
ExitCodeReflectsHealth ==
  pc = "returned" /\ OpenBlocking(design) = {} => released
=============================================================================
