------------------------------ MODULE Pipeline ------------------------------
(***************************************************************************)
(* One `eak run`, from the removal of the old log to the end of the process:   *)
(* the orchestrator drives the phases, a phase sends the kernel one request after  *)
(* another, and the kernel writes each to the log and folds it (eak-cli, run_with). *)
(*                                                                         *)
(* What the phases plan is as in Workflow, where a phase run is one step, and what  *)
(* the seam and the log make of a request is as in Kernel; a design's item is here    *)
(* an entity, whose id is the item and a number that makes it new.  That the steps     *)
(* of a phase together are a step of Workflow is the property ImplementsWorkflow.       *)
(***************************************************************************)
EXTENDS Workflow

CONSTANTS
  Unreadable,  \* a line of the log that does not parse
  Intents,     \* the design intents the run may be started with
  Autonomy,    \* "Autonomous" or "Supervised"
  Faults       \* what may go wrong with the log: "write", "crash"

VARIABLES
  file, records, live, issued, status, boots,  \* of Kernel
  stage,       \* "idle", or what the running phase does: "sending", "passing", "failing"
  todo,        \* the requests that it has yet to send
  lost,        \* the errors that it has met
  dropped      \* the closing events lost so far

\* The kernel and its readers, in one process.  Its requests are those that the phases make
\* below, whose ids are not drawn from a set.
K == INSTANCE Readers WITH Id <- {intent.id : intent \in Intents}, Requests <- {}, MaxBoots <- 1

kernelVars == <<file, records, live, issued, status, boots>>

phaseVars == <<stage, todo, lost, dropped>>

pipelineVars == <<kernelVars, workflowVars, phaseVars>>

ASSUME PipelineAssumption ==
  /\ Intents \subseteq K!OfKind("intent")
  /\ Autonomy \in {"Autonomous", "Supervised"}
  /\ Faults \subseteq K!FaultKinds

-----------------------------------------------------------------------------
(* Entities *)

\* What the phases read of the Engineering State, an item for each entity.
DesignOf(state) ==
  [kind \in DesignKinds |-> [i \in DOMAIN state[kind] |-> state[kind][i].id[1]]]

EntityOf(kind, id, names) ==
  [kind |-> kind, id |-> id, names |-> names, finite |-> TRUE, waived |-> FALSE]

\* An id that this process has not minted.
NewId(kind, item) ==
  <<item, Cardinality({n \in issued : n[1] = kind /\ n[2][1] = item})>>

\* The names in the live state of the items of a kind.
NamesIn(kind, items) ==
  {K!NameOf(e) : e \in {e \in K!Entities(live, kind) : e.id[1] \in items}}

\* What the entity of an item names.
ReferencesOf(kind, item) ==
  LET components == ToSet(DesignOf(live)["component"])
  IN  CASE kind = "requirement" -> {K!NameOf(e) : e \in K!Entities(live, "intent")}
        [] kind \in {"block", "constraint"} -> NamesIn("requirement", {item})
        [] kind = "component" -> NamesIn("block", {item})
        [] kind = "net" -> NamesIn("pin", PadsOf(item, components))
        [] kind \in {"part", "board"} -> {}
        [] kind = "line" ->
             NamesIn("part", {item})
             \cup NamesIn("component", {c \in components : ClassOf(c) = item})
        [] kind = "placement" -> NamesIn("component", {item.component})
        [] kind = "track" -> NamesIn("net", {item.net})
        [] kind = "violation" -> UNION {NamesIn(s[1], {s[2]}) : s \in item.subjects}

LinkTo(from, to) == EntityOf("link", <<from, to>>, {from, to})

\* The links from an entity to all that it names; none are made of nets.
LinksOf(entity) ==
  IF entity.kind = "net" THEN <<>>
  ELSE LET names == SetToSeq(entity.names)
       IN  [i \in DOMAIN names |-> LinkTo(K!NameOf(entity), names[i])]

\* The request for an item: a requirement with its evidence, decision and links (the
\* agent), a component with its pins, of which one stands for all.
RequestFor(kind, item) ==
  LET entity == EntityOf(kind, NewId(kind, item), ReferencesOf(kind, item))
      evidence == EntityOf("evidence", entity.id, {})
      decision == EntityOf("decision", entity.id, {K!NameOf(entity), K!NameOf(evidence)})
      judged == kind = "requirement"
  IN  [entity |-> entity, valid |-> Validates(kind, item),
       evidence |-> IF judged THEN <<evidence>> ELSE <<>>,
       decision |-> IF judged THEN <<decision>> ELSE <<>>,
       pins |-> IF kind = "component"
                THEN <<EntityOf("pin", entity.id, {K!NameOf(entity)})>> ELSE <<>>,
       links |-> IF judged
                 THEN <<LinkTo(K!NameOf(entity), K!NameOf(decision))>> \o LinksOf(entity)
                      \o <<LinkTo(K!NameOf(decision), K!NameOf(evidence))>>
                 ELSE LinksOf(entity)]

\* An event of the engine or of a phase: no entity.
EventFor(item) ==
  [entity |-> EntityOf("audit", NewId("audit", item), {}), valid |-> TRUE,
   evidence |-> <<>>, decision |-> <<>>, pins |-> <<>>, links |-> <<>>]

-----------------------------------------------------------------------------
(* The kernel's answer to a request, and what may go wrong *)

Answers(r) == status' = "running" /\ records' = records \o K!Records(Len(records), K!Events(r))

Refuses(r) ==
  /\ status' = "running"
  /\ records' /= records \o K!Records(Len(records), K!Events(r))
  /\ faults + lost + dropped < MaxFaults

\* The process died in it, and everything stays as it is.
NoAnswer ==
  /\ status' = "down"
  /\ UNCHANGED <<workflowVars, phaseVars>>

Starts ==
  /\ K!Boot \/ \E intent \in Intents : K!CaptureIntent(intent)
  /\ UNCHANGED <<workflowVars, phaseVars>>

-----------------------------------------------------------------------------
(* A phase *)

Running == plan.names[cursor]

\* What a phase sends for the design it finds.
Planned ==
  CASE Running = "RequirementPlanning"  ->
         Create("requirement", [c \in DOMAIN candidates |-> c])
    [] Running = "EngineeringAnalysis"  -> Analyzing
    [] Running = "ConstraintExtraction" -> Extracting
    [] Running = "SchematicPlanning"    -> SchematicPlan
    [] Running = "BomPlanning"          -> BomPlan
    [] Running = "PcbFloorPlanning"     -> FloorPlan
    [] Running = "ComponentPlacement"   -> Placing
    [] Running = "RoutingPlanning"      -> Routing
    [] Running \in Gates              -> Raising(Running)
    [] OTHER                            -> <<>>

\* Whether the design it leaves can be lowered, or passes the gate.
Passes ==
  CASE Running = "RequirementPlanning"  -> live["requirement"] /= <<>> /\ K!LowersToRequirement(live)
    [] Running = "EngineeringAnalysis"  -> K!LowersToRequirement(live) /\ K!EngineeringIr(live) = {}
    [] Running = "ConstraintExtraction" -> TRUE
    [] Running = "SchematicPlanning"    -> K!LowersToSchematic(live)
    [] Running = "BomPlanning"          -> K!LowersToBom(live)
    [] Running = "PcbFloorPlanning"     -> live["board"] /= <<>>
    [] Running \in {"ComponentPlacement", "RoutingPlanning"} -> K!LowersToPcb(live)
    [] Running \in Gates              -> OwnOpenBlocking(Running, DesignOf(live)) = {}
    [] Running = "ManufacturingGeneration" ->
         OpenBlocking(DesignOf(live)) = {} /\ K!LowersToManufacturing(live)

\* The events that open a phase, and the reasoning of the agent.
Enters ==
  /\ stage = "idle"
  /\ Iterates
  /\ \E r \in {EventFor("entered")} :
         /\ K!Emit(r)
         /\ \/ /\ Answers(r)
               /\ stage' = "sending"
               /\ todo' = Planned
               /\ UNCHANGED <<vars, design, released, faults, lost>>
            \/ /\ Refuses(r)
               /\ PhaseFails
               /\ design' = DesignOf(live)
               /\ faults' = faults + 1
               /\ UNCHANGED <<stage, todo, lost, released>>
            \/ NoAnswer
  /\ UNCHANGED <<candidates, runs, dropped>>

\* Mutant: every phase goes on after a request that failed.
MutantGivesUp == FALSE

\* A failed request is the end of the phase; the agent goes on to the next candidate.
GivesUp == Running /= "RequirementPlanning"

Sends ==
  /\ stage = "sending"
  /\ todo /= <<>>
  /\ \E r \in {RequestFor(Head(todo).kind, Head(todo).item)} :
         /\ K!Handles(r)
         /\ \/ /\ Answers(r)
               /\ todo' = Tail(todo)
               /\ UNCHANGED <<stage, lost>>
            \/ /\ Refuses(r)
               /\ lost' = lost + 1
               /\ stage' = IF GivesUp THEN "failing" ELSE stage
               /\ todo' = IF GivesUp THEN <<>> ELSE Tail(todo)
            \/ NoAnswer
  /\ UNCHANGED <<workflowVars, dropped>>

\* A gate records its milestone in any case, the others once the design is lowered.
HasMilestone == (Passes \/ Running \in Gates) /\ Running /= "PcbFloorPlanning"

Judged == IF Passes THEN "passing" ELSE "failing"

(* All is sent: the design is lowered or the gate decides, and the milestone is   *)
(* recorded.                                                                    *)
Judges ==
  /\ stage = "sending"
  /\ todo = <<>>
  /\ status = "running"
  /\ \/ /\ ~HasMilestone
        /\ stage' = Judged
        /\ UNCHANGED <<kernelVars, lost>>
     \/ /\ HasMilestone
        /\ \E r \in {EventFor(Running)} :
               /\ K!Emit(r)
               /\ \/ /\ Answers(r)
                     /\ stage' = Judged
                     /\ UNCHANGED lost
                  \/ /\ Refuses(r)
                     /\ lost' = lost + 1
                     /\ stage' = "failing"
                  \/ NoAnswer
  /\ UNCHANGED <<workflowVars, todo, dropped>>

(* The closing event, whose error is dropped; the phase returns. *)
Closes ==
  /\ stage \in {"passing", "failing"}
  /\ \E r \in {EventFor("closed")} :
         /\ K!Emit(r)
         /\ \/ /\ \/ Answers(r) /\ UNCHANGED dropped
                  \/ Refuses(r) /\ dropped' = dropped + 1
               /\ IF stage = "passing" THEN PhaseSucceeds ELSE PhaseFails
               /\ design' = DesignOf(live)
               /\ released' = (released \/ (stage = "passing" /\ Running = "ManufacturingGeneration"))
               /\ faults' = faults + lost
               /\ stage' = "idle"
               /\ lost' = 0
               /\ UNCHANGED todo
            \/ NoAnswer
  /\ UNCHANGED <<candidates, runs>>

(* The orchestrator returns, and the process exits. *)
Returns ==
  /\ status = "running"
  /\ Finishes
  /\ UNCHANGED <<kernelVars, designVars, runVars, phaseVars>>

Ends ==
  /\ pc = "returned"
  /\ K!Exit
  /\ UNCHANGED <<workflowVars, phaseVars>>

PipelineInit ==
  /\ K!Init
  /\ WorkflowInit
  /\ stage = "idle"
  /\ todo = <<>>
  /\ lost = 0
  /\ dropped = 0

PipelineNext == Starts \/ Enters \/ Sends \/ Judges \/ Closes \/ Returns \/ Ends

(* One thread: the process goes on until it ends or dies. *)
PipelineSpec == PipelineInit /\ [][PipelineNext]_pipelineVars /\ WF_pipelineVars(PipelineNext)
-----------------------------------------------------------------------------
(* Properties *)

\* The phases, run request by request against the seam and a log that fails and dies,
\* do what Workflow has them do in one step: what a phase that returns has left is all
\* of its requests or, after an error, a first part of them; and the conditions of
\* Design on which a design can be lowered are those of the compiler.
ImplementsWorkflow == WorkflowSpec

\* Every process ends.  A request that the seam rejected would be no step of it: no
\* phase sends one, on any design that the others leave and after any error.
ProcessEnds == <>(boots = 1 /\ status = "down")

\* The log has ManufacturingGenerated, whether or not the process came to know.
SaysReleased ==
  \E i \in DOMAIN K!History :
    K!History[i].kind = "audit" /\ K!History[i].id[1] = "ManufacturingGeneration"

\* "No design with an open blocking defect is ever released to manufacture"
\* (manufacturing_generation.rs), told by the log: if one that can be read says that it
\* was released, its replay can be lowered to manufacture, has a track on every net, and
\* no open violation, whichever write had failed and wherever the process died.
ReleaseIsOnRecord ==
  K!Readable(file) /\ SaysReleased =>
    LET state == K!Replay(K!History)
    IN  /\ K!LowersToManufacturing(state)
        /\ \A n \in K!Entities(state, "net") : K!Naming(state, "track", K!NameOf(n)) /= {}
        /\ OpenBlocking(DesignOf(state)) = {}
=============================================================================
