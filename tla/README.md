# A TLA+ verification of the Engineering Agent Kit runtime

This directory holds TLA+ modules that model the Rust program under `eak/`, the TLC
configurations that model-check them, and theorems about them whose proofs TLAPS checks.
`PROJECT.json` lists the components, the runs, the source lines each definition stands
for, the hazards, the findings and the theorems. Paths below are relative to `eak/crates/`.

## 1. The system

A command runs one design intent through a fixed workflow of fifteen phases and leaves an
append-only event log; a second command replays the log. Everything runs on one thread:
nothing interleaves but the process with its own crashes, with a store that may fail at
any write, and with the caller that runs phases again.

| Component | Source | State | Operations |
|---|---|---|---|
| Workflow orchestrator | `eak-runtime/src/orchestrator.rs` | cursor, steps, retry budget used per edge, the log of outcomes | `run` |
| Execution engine | `eak-runtime/src/fsm.rs` | state of the machine, steps left | `run`: emit, step, emit |
| Runtime kernel | `eak-runtime/src/runtime_core.rs`, `protocol.rs` | the Engineering State, the log, the id source | `commit`, `capture_intent`, twelve `handle_*`, `reason`, `emit` |
| Engineering State, replay | `eak-runtime/src/state.rs`, `replay.rs` | one list per kind of entity, the intent, the board | `apply`, queries, `replay` |
| Event store | `eak-store/src/lib.rs` | the file, the cache of its records | `open`, `append`, `read_all` |
| Planning phases | `eak-phases/src/*_planning.rs`, `agent.rs`, `engineering_analysis.rs`, `constraint_extraction.rs`, `component_placement.rs` | none kept between runs but a redraft counter | `step` |
| Verification phases | `eak-phases/src/*_verification.rs`, `emc_analysis.rs` | none | `step`: evaluate, deduplicate, raise, gate |
| Manufacturing Generation | `eak-phases/src/manufacturing_generation.rs` | none | the global gate and the release |
| Rules and engines | `eak-engines/src/lib.rs` | none | `evaluate` of 17 rules |
| Design compiler | `eak-compiler/src/lib.rs` | none | six projections |
| CLI | `eak-cli/src/lib.rs` | none | `run_with`, `replay_cmd`, `trace_cmd`, exit code |
| Domain, units, clocks, reasoning adapters | `eak-domain`, `eak-units`, `clock.rs`, `eak-reasoning` | the id source's counter | `validate`, `fresh`, `request_judgement` |

How they interact: the CLI builds the kernel on a fresh log and gives it to the
orchestrator; the orchestrator asks the execution engine to run a phase machine; the
machine reads the state and sends capability requests; the kernel validates a request,
appends its events to the log and only then folds them into the state; the gates read the
state, raise violations the same way, and fail; a failed gate sends the orchestrator back
along a loop-back edge, or ends the workflow; the caller may then waive violations and run
phases again.

What is hard about it, and what the properties are for:

* **failed and partial writes**: a batch of events is written line by line, each line in
  two writes, and an error in the middle leaves what was written, in the file and in the
  cache, of a request that the caller is told has failed;
* **crashes** between two lines or inside one, and the log that the next process finds;
* **ordering**: append before fold, and references checked against a state that a failed
  append has left behind the log;
* **rework**: loop-back edges that form cycles, retry budgets, a step cap in 32-bit
  arithmetic, gates that must pass again after what they checked was redone;
* **re-entry**: every planning phase claims to be idempotent and recoverable, each with a
  test of its own for what is already done, met by a store error half-way through;
* **dropped errors**: of the closing lifecycle events, of the removal of the old log, of
  the agent's requests.

## 2. The modules

| Module | Models | Composes |
|---|---|---|
| `ReworkLoop` | abstract: what a workflow loop promises | |
| `Orchestrator` | `Orchestrator::run` | implements `ReworkLoop` |
| `ExecutionEngine` | `ExecutionEngine::run` and its lifecycle events | `Orchestrator` |
| `EngineeringState` | the fold, replay and queries, as operators | |
| `EventStore` | the log file as lines and a terminator, as operators | |
| `Kernel` | `RuntimeCore`, the process around it | `EngineeringState`, `EventStore` |
| `Design` | what the planning phases make, and the projections, as operators on a design | |
| `Verification` | what the rules find in it, and what a gate raises | `Design` |
| `Workflow` | the default workflow on one design, a phase in a step | `Orchestrator`, `Verification` |
| `Compiler` | on what each projection fails, as operators on an Engineering State | `EngineeringState` |
| `Readers` | the provenance trace, and what every reader of the state may rely on | `Kernel`, `Compiler` |
| `Pipeline` | one `eak run`, request by request | `Workflow`, `Readers`; implements `Workflow` |
| `Layout` | definitions of what the helpers of the layout rules compute | `Workflow` |
| `MC*` | instances for TLC | |
| `SequenceFacts` | lemmas on numbers, recursions and lists that no part of the system appears in | |
| `OrchestratorProofs`, `EngineProofs`, `KernelProofs`, `ReaderProofs`, `DesignProofs`, `WorkflowProofs`, `PipelineProofs` | theorems, and the lemmas they rest on (of `Design` and `Verification` in `DesignProofs`) | |

### Orchestrator

The state is the local variables of `run`; `plan` is its argument, a variable that no
action changes so that one run of TLC covers many plans. An iteration of the loop is one
action: `PhaseSucceeds`, `LoopsBack(e)` for the edge that recovers, `Stops`, `CapExceeded`,
and `Finishes` when the loop condition fails. A phase is opaque: it may succeed or fail
whenever it runs. Positions are 1-based. `Cap` is computed modulo `U32`. The sum
of the budgets is the cardinality of a set of tokens, one per retry; wrapping that sum
before or after the product gives the same residue, so one `%` is enough. A build with
overflow checks panics where this model wraps.

`ReworkLoop` has a position, a stock of retries and a status. The mapping gives the
position the cursor, and the stock what the budgets have left.

### ExecutionEngine

Each arm of `ExecutionEngine::run` is an action, split at every `emit`, which may fail if
`StoreFails`. The errors of `PhaseEntered` and `PhaseStateChanged` fail the phase; those of
`PhaseCompleted` and `PhaseFailed` are dropped. The outcome is handed to the orchestrator's
actions in the same step. A machine is opaque; its state is the number of transitions.

### EngineeringState, EventStore, Kernel

An entity is its kind, its id, the entities it names, whether its numbers are finite and
whether it is waived. A capability request is its entity with the companions the handler
commits in the same batch, and the verdict of the entity's `validate`. One action per
handler; its guards are the handler's checks, in terms of the *live* state, and `Submit` is
`commit`. `Fold` is the fold of a batch in closed form, kind by kind; the invariant
`LiveIsReplay` compares it with `Replay`, the recursion over the events, one `Apply` each. A rejected request
changes nothing and is no step.

A line of the file is the record that reads back from it, or `Unreadable`. `WriteAll` and
`WriteSome` say what a batch, or the part of it that got through, does to the file: a
record may be cut to nothing, to a fragment, or to its whole text without the newline, and
what is written next continues an unterminated line. `Boot` is the start of `run_with`,
`CaptureIntent` the first commit, `Exit` and the crash disjuncts the end of a process.
`Readable(file)` is the condition on which `open`, and so a replay, succeeds.

`RequestsAssumption` says of the requests what only a client of the kernel could break and
no phase does: a violation is raised unwaived, a waiver names one violation, a
placement one component. `AgentAssumption`, in `Readers`, says what the agent sends along with a
requirement: the evidence that its decision names, at most one decision, and the link to it, under
an id of its own and with the intent of the run as its source.

Ids are fresh within a process, as `SeededIdSource` makes them, and a new process starts
again from its seed.

### Design, Verification, Workflow

An item goes back to the requirement it was made for, so an item needs no id: block 2 and
component 2 are those of requirement 2. A candidate has the class that `classify` reads
in its wording, the sense that `infer_kind` does, its category and its targets. Pins are
given by the class of a component, nets by name; a placement is the square that a component
occupies, a track the segment of a net between two centres. Lengths are integers, in quarters
of a millimetre, which makes every constant of placement and routing and every centre exact.
The planning operators (`Analyzing`, `Extracting`, `SchematicPlan`, `BomPlan`, `FloorPlan`,
`Placing`, `Routing`) give the sequence of requests a phase sends for the design it finds.

`Verification` has one operator per rule, which gives its findings on the present design in
the order the code finds them, and one per helper that has something to get wrong: the
disjoint set with path halving (`Find`, `Union`, `ComponentCount`), the distance of segments
(`PointNearer`, `SegmentsNearer`: compared with a bound, and squared, so that no root is
taken), the fabrication floors by position. Squares of integers stay far below 2^31.
Ampacity and impedance match find nothing, as no net that the phases make states a
current or an impedance.

A phase run is one action: it commits all its requests and passes or fails, or the store
fails at one of them, or at an event after them, and those before stay (`Interrupted`). A
crash inside a phase is not here: the process is gone and its log belongs to `Kernel`.
`RequirementPlanning` differs, as the agent goes on after a request that failed. The caller
of a workflow that has returned may grant waivers and run phases again on the same kernel,
as the tests of `eak-phases` do; the binary does not.

The recursions are functions of a number of turns (`Find` takes as many turns of its loop as
there are nodes, and stands still once it is at a root), which TLC and the proofs both
evaluate.

`Layout` has the reference definitions of two of these helpers: the distance of two segments
as the least distance of their points, taken at enough points of each to be exact, and a net
that is open as an island of pads that no copper leaves. The phases make layouts of one
shape only, which would not tell a right helper from a wrong one.

All findings are errors: the one rule that only warns does so of parts that the catalog
does not have.

### Compiler, Readers

A projection is the set of its errors, each the variant of `IrError` and the entity it names;
the code returns the first one it meets. `LowersToBom` and the others are the chains in
which the phases make the projections. Which line sources a placed component matters: it
is the first one that covers it (`IsLineOf`).

`Trace` is what `trace_cmd` finds for a requirement: the decision at the end of the first
link that justifies it, the evidence of that decision, the intent. A link is an entity that
names its two ends; their kinds tell its relation.

### Pipeline

The composition of everything: the orchestrator's actions drive the phases, a phase sends
one request after another to the actions of `Kernel`, each appended to the file and folded,
and the projections are those of `Compiler` on the live state. Whether a request passes the
`validate` of its entity is computed from the item (`Validates`), so that a phase that sent
a board without extent or a line that orders nothing would be stuck. The entity of an item of
`Design` has the item and a number as its id. What it names, and its links, are built as the
phases build them; one pin stands for those of its component. `Enters` are the events that
open a phase up to the point where it reads the state and plans its requests, `Sends` one
request, `Judges` the projection or the gate with the milestone event, `Closes` the closing
event whose error is dropped, with the orchestrator's step. The transitions between are
events like the opening one, and stand under it.

`Pipeline` extends `Workflow`, whose `design` is here the design at the last return of a phase,
and instantiates the kernel with its readers as `K`. `ImplementsWorkflow` is the refinement: the
steps of a phase together are one step of `Workflow`, and all its other steps are none. So what
`Workflow` assumes of a phase, that it leaves all of its requests or a first part of them, and
that a design can be lowered on the conditions `Design` states, is checked, and proved, against
the kernel, the file and the compiler.

## 3. What TLC checks

Passing runs:

| Run | Instance | Properties |
|---|---|---|
| `OrchestratorPlans` | every plan over five phase lists (empty, one, two, three phases, a repeated name) and up to two edges among three phases and a missing one, budgets 0 to 2, and a plan whose step cap wraps; with fairness | `TypeOK`, `CapNeverExceeded`, `UpstreamPassed`, `FailuresPaidFor`, `RerunsPaidFor`, `GivesUpLast`, `ImplementsReworkLoop`, `Terminates` |
| `EngineLostEvents` | two phases, one edge, 3 steps per machine, any event lost; a plan whose cap fits and one whose cap wraps | `EngineTypeOK`, `LogIsContiguous`, `NothingInvented`, `EngineTerminates` |
| `KernelFaults` | a component, two placements of it and a board, or requirement, constraint, violation, waiver and audit event; crashes, failed writes, logs that stay; two processes | `TypeOK`, `CacheIsFile`, `LiveReferences`, `ReplayReferences`, `PersistedBeforeObserved`, `LiveConsistent` |
| `KernelCrash` | a whole design, from a requirement with its evidence, decision and links to a track, with two lines that may cover one component; crashes | `LiveIsReplay`, `ReplayConsistent`, `OnlyUnfinished`, `AssemblyMatchesOrder`, `TracesAreWhole` |
| `PipelineSteps` | the 16 designs of `WorkflowResumed`, one process, one failed write, a crash at any append, with fairness | `ReleaseIsOnRecord`, `ImplementsWorkflow`, `ProcessEnds` |
| `WorkflowResumed` | 16 lists of requirements, one store error anywhere, three runs with waivers between, with fairness; every two segments of a 4 by 4 grid, every list of up to three tracks on four pads and a point beside them | `WorkflowTypeOK`, `ReleasedIsVerified`, `NothingTwice`, `ReleasedIsComplete`, `OpenIsCut`, `CourtyardsNeverOverlap`, `CopperInsideCourtyards`, `StatedSpacingIsWaived`, `CopperRuleIsExact`, `FailureIsExplained`, `ReentryMakesNothing`, `RunReturns` |

What they show. *Orchestrator*: rework is paid for exactly, a gate that rework passed over
is passed again before the run goes on, no edge is left unspent when the workflow gives
up, the step cap is never what ends a run, and every plan ends. *ExecutionEngine*: the log of
lifecycle events may fall short but has no gap inside a phase run and tells no outcome that
did not happen. *Kernel*: whichever writes fail, the live state is closed under references
and is in the log; a log that can be read is the cache but for one unterminated record, and
every prefix of it is closed; with crashes only, a replay gives the live state and what a
crash leaves is consistent. *Readers*: no projection meets a dangling reference, of the live
state or of a replay, and the last one never fails where those before it passed; what the
assembly builds in is what the bill of materials orders; a trace is whole, or stops at the
requirement if a crash cut its batch. *Pipeline*: the phases, sent request by request
through seam, log and compiler, do what `Workflow` says in one step; they send nothing that
the seam rejects, on any design that the others leave after any error; and a log that tells
of a release replays to a design that can be lowered, is routed and has no open violation,
also when the process never came to know of the release. *Workflow*: a released design has no finding, of any rule as it
would be evaluated now, that is not recorded and waived; nothing is made twice; what a
single run releases is complete; a workflow that gives up without a store error leaves an
open violation to say why, unless it could have no board; re-entry of a phase that succeeded
makes nothing. *Geometry*: the union-find answers as the definition of a cut does, on whole
chains, on those that a store error cut short, in every order of the pads, and on copper of
any shape; where tracks meet beside the pads the rule does not follow them, so it errs to the
safe side; the distance of traces is the least one, however they lie; the row of
placements never overlaps itself, however it was interrupted; courtyards that pass the
keep-out make tracks that pass it and nothing out of bounds; and a stated copper spacing
can be met by a waiver only, because the router lays the nets over each other.

Runs that end in a violation, each with the line of the repository it disagrees with (see
`findings` in `PROJECT.json`):

| Run | What the code does |
|---|---|
| `EngineLostOutcome` | the error of `PhaseCompleted` is dropped, so `run` reports a success that the log does not have (other lost events fail the phase or belong to one that failed, and are not held against it) |
| `KernelTornBatch` | a crash inside `append` leaves part of a batch in a readable log |
| `KernelRetriedWrite` | a write that failed after the text was out stays in the log; the request is repeated with new ids; the replay places a component twice |
| `WorkflowHalfRouted` | routing re-entered takes a half-routed net for routed |
| `WorkflowUnconnected` | a schematic cut short between components and nets is never completed, no rule sees it, and a second run releases it |
| `WorkflowExitCode` | a phase that fails without a violation ends the process with success |

`WorkflowUnconnected` and `WorkflowHalfRouted` need a second run on the same kernel, which
a library caller can make and the binary does not. In the second the gate `drc-net-open`
does stop the release.

Four things the models contain and no property is about, because nothing in the repository says
otherwise (they are hazards without a property in `PROJECT.json`): a step cap that wraps
in `u32` ends a run with retries left (termination holds with either cap, and what is shown of
budgets is of plans whose cap fits); requirements that the store refused are gone and the
phase succeeds with the rest (completeness of a release is relative to those kept); a bill of
materials that an error cut short makes its phase fail in every later run (to the safe side:
it is never released); and a mechanical length of zero fails the floor plan without a violation,
which is the exception in `FailureIsExplained`.

**Bounds.** Three phases and two edges give every shape the loop distinguishes: edges
back, forward, to the phase itself, to a name that is missing or repeated, and two edges of
one phase. Budgets of 2 let an edge be used, reused and exhausted. `U32 = 20`
(8 in `EngineLostEvents`) is above every cap of the instance but that of one plan added for
it, whose cap wraps. Two processes are a run and one that may
inherit its log; a third finds nothing new, as `open` starts from the file alone. A batch
has up to three events in `KernelFaults` (a component, its pin, its link) and six in
`KernelCrash`, so a write fails at the first, in the middle and at the last. `KernelFaults`
has two scenarios that name nothing of each other; its action constraint keeps a log to one
of them, which leaves out only interleavings of requests that do not meet. Three
requirements give a net with three pads, whose chain can be cut in the middle. Four pads and
three tracks make the deepest tree the disjoint set can have on four nodes; a grid of
four by four has crossings with all ends out of reach, touches at an end and inside, overlaps,
parallels, points, and feet of perpendiculars at fractions of a unit. The lists
of requirements in the workflow's runs are the scenarios of the repository's tests, in two or three requirements
each: between them, each rule that can find anything at all there does so. `BomCoverage`,
`DrcUnroutedNet` and `DrcNetOpen` find something only after a store error or not at all, as
the phases before them are their guards, and `DrcCourtyardOverlap` never does. Three runs
let a waiver be followed by another gate's failure and another waiver. `MaxSteps = 3` stands
for 64: a machine below, at and above the budget. `MaxFaults`, `MaxRuns`, `MaxBoots` and
the sets of requests are the only bounds on what may happen. In `PipelineSteps` one write
fails, at any of the events of the run, those of the lifecycle too: a second error would fail a
phase that has failed, or meet a re-entry that one error has led to already.

**Fairness** is weak fairness of the next-state relation, on the grounds that the program
is one thread that never waits: `Orchestrator!FairSpec`, `FairEngineSpec`, and in `Workflow`
only of the orchestrator's own steps (a phase succeeds, a phase fails, the run ends); nothing
obliges the caller to waive or to run again. In
`PipelineSpec` the process goes on until it ends or dies. The kernel alone has no liveness: it
only answers. `CHECK_DEADLOCK FALSE` is there because every
instance ends: a run returns, a process exits for the last time.

## 4. What TLAPS proves

For every value of the constants that satisfies the modules' assumptions: any plan with any
edges and budgets, any number of processes, requests, failed writes and crashes, any list of
requirements with any values, any number of store errors, waivers and runs.

**`SequenceFacts`**: what all the other proofs lack otherwise. The library's induction theorems take a
predicate as an operator and cannot be used; here induction is over a *set* of numbers
(`NatInd`), and is had from the fact that strict inclusion is well founded on finite sets.
From it follow that a recursion of given steps exists (`Iteration`: a recursive function is a
`CHOOSE`, of which nothing is known before), and what appending, concatenating, flattening and
cutting do to lists. Filters in the model are written with the set of what they keep (`Keep`),
as an operator argument could not be reasoned about.

**`OrchestratorProofs`**: `TypeCorrect`, `CapIsNeverMet`, `ReworkReRunsGates`, `Refinement`,
`FailuresArePaidFor`, `GivesUpOnlyAtTheEnd`, `RerunsArePaidFor`.
The types alone are inductive once the budgets are in them. `CapIsNeverMet` needs to relate
steps to budgets: with `n` phases and `u` retries spent, a run has made at most
`n * u + cursor - 1` steps, so it is below the cap `n * (total + 1) + 1`. The spent retries
are counted as tokens, a subset of the tokens of the plan, which turns sums over edges into
cardinalities of finite sets. `ReworkReRunsGates` strengthens `UpstreamPassed` with
nothing but types; the step that matters is that a jump back leaves the passes in
front of it standing and that the executions since have positions behind it. `Refinement`
maps each action to a step of `ReworkLoop`: it needs the token count to fall by one
exactly, and `CapIsNeverMet` is not needed, as the end by cap is a `GiveUp`.
`RerunsArePaidFor` is about the executions of one phase and the retries of the edges that lead
over it. Neither side is a fold: both are cardinalities. The strengthening splits the
bound at the cursor: a phase behind it has at most one execution more than the retries that
led back over it, one in front of it at most as many, and a jump, which takes the phases
between from the first case to the second, spends a retry that led over each of them.

**`EngineProofs`**: `EngineDrivesOrchestrator`, `EngineTypeCorrect`, `LogHasNoGap`, `LogTellsNoTale`.
The engine implements `Orchestrator`: an event is a stutter, the return of a machine is the
step of the loop. So each theorem above holds of the engine too, and the proofs of this module
use `TypeCorrect` in that way. `LogIsContiguous` speaks of two neighbours in the log, of
which the invariant must know the earlier one before the later is there: while a
machine runs, the last event in the log is open, is the machine's own phase, and its state is
where the machine was before the event that is to come. `LogTellsNoTale` is inductive as it
stands: `Recorded` and `PartsOf` are recursions, each turned into one step per append; an
outcome and its event are appended together, or the outcome alone, or an event that tells
none.

**`KernelProofs`**: `KernelTypeCorrect`, `CacheMirrorsFile`, `LiveIsClosed`, `PersistsFirst`,
`ReplayIsClosed`, all from the inductive invariant
`KernelInv == TypeOK /\ LogInv /\ LiveInv`. `LogInv` says that the cache is always
sound (numbered from zero, and closed under references at every prefix), and that the file
is sound and mirrors the cache whenever it can be read; `LiveInv` says that the live state
is closed, that all of it is in the cache, and that a process that is down has none. Neither is inductive alone: that a reference in the log points
back follows from the check against the live state only because the live state is
in the cache, and that is kept by a failed append only because the cache never shrinks.
The proof has one lemma per way a batch can end (written, failed, died) and
one step per action of the life of a process.

**`ReaderProofs`**: `LiveStateIsConsistent`, that nothing is placed or sourced twice, and that
what is waived has its waiver and the other way round. The invariant is `ConsistencyInv`:
`KernelInv`, and that every id in the live state has been issued, so that a new entity is
none of those there, and `Ledger`, which is about the four lists (placements, lines,
violations, waivers) that a fold may change. A batch that touches none of them keeps it;
each of the four handlers that do has a lemma.
`LiveProjects`, that no projection of the live state meets an error the seam
should have kept out and that the last projection never fails where those before it
passed; `AssemblyIsOrdered`, that the parts of the assembly are those the bill of materials
orders. The invariant `ReadersInv` adds that every entity names what its handler made
sure it names. For the second theorem, a line and a component it covers are put
against the placement of that component: with single sourcing and single placement this is
a bijection between finite sets, and the two counts are their cardinalities.

In the same module, on the replay of a log: `ReplayIsLive`, `CrashedLogIsConsistent`,
`ReplayProjects`, `RequirementsTrace`. A replay of a longer
history is one `Apply` more (`ReplayAppend`), and the replay of a history with a batch at its
end is the `Fold` of the batch on what was before (`ReplayBatch`): this is where the closed form
and the recursion are shown to agree. So the replay of the cache is the live state, as an
invariant, and what a crash leaves is the replay of a live state and of the first events of one
batch, whose companions no reader looks at before their entity is there. The first two theorems
have a hypothesis, and need it: `OnlyCrashes` (`Faults \subseteq {"crash"}`), because a failed
write does break both (the run `KernelRetriedWrite` is the counterexample), and for
`ReplayIsLive` also `OnlyFinite`, because a number that is not finite makes the log unreadable
(see section 5). `ReplayProjects` has none: whatever fails, a log that can be read is closed
under references, and its projections refuse it only for what is not finished.
`RequirementsTrace` is about the provenance trace, along `TracesInv`: the log has, in front of every
requirement, its evidence, its decision and its intent; every link came with a request that
names its ends; no two decisions of the log share a name; and the live state has the link of
every decided requirement. What a requirement needs is written before it, so a log cut inside a
batch keeps the first three, and the link alone, which is written last, may be missing. The
hypothesis `OwnLog` (`"remove" \notin Faults`) says that the log is of one process: ids are new
only within one, so a log inherited from another may hold a second decision of the same name.
Failed writes and crashes it allows.

**`DesignProofs`** has no theorem of its own: what each planning phase sends (`PlanningSends`), that
it asks for nothing twice and for nothing that is there (`PlanningFresh`), that what it asks for
fits its design (`PlanningWellMade`), the same of the gates (`RaisingFresh`), what the rules find
and do not (`RuleFinds`, `KeptNothing`), the row of placements (`RowFacts`), the chain of a net
(`ChainFacts`), and the disjoint set of the open-net rule. Of that: halving a path keeps every
node below its root (`Halves`); the heights of the nodes strictly rise along the way, so `Find`
is at the root after as many turns as there are nodes (`FindGives`); `Union` joins what is below
two roots and nothing else (`UnionGives`); and so two nodes have one root if and only if
no set that respects every track has one of them alone (`JoinedGives`, `OpenIsIsland`).

**`WorkflowProofs`**, along invariants each of which rests on the one before:

* `ReleaseInv`: the plan is a tail of the fifteen phases, so that Manufacturing Generation is last in
  it and nothing follows a release in the same run, and a released run has its cursor
  past the end and a design without an open violation that lowers. From it: `ReleasedIsSound`,
  `ReleaseIsFinal`.
* `WorkflowInv` adds `GatesBehind`: what each gate before the cursor would find, were it
  evaluated now, is on record. A step keeps this because no phase after a gate writes a kind of
  item that the gate reads (`SameFindings`), and because an edge leads back to before every gate
  of what will be redone. From it: `WorkflowTypes`, `NoGateIsSlipped`.
* `BuildInv` adds `Built`: every list is without repetition, every placement is at its
  component's place in the row, every track ends at the centres of placements. Any first part
  of a phase's requests keeps it, which is all that a store error can do.
  From it: `NothingIsMadeTwice`, `CourtyardsStayApart`, `CopperStaysInside`, `OpenNetsAreCut`, and
  with `NoGateIsSlipped` `SpacingIsWaived`: two tracks with a common end are at distance 0.
* `WholeInv`: a run on its own that has not given up has, once past the phase that makes it, a block for every
  requirement, a component for every block, every net that has pads, and the whole chain of every
  net. From it `OwnReleaseIsComplete`; that a net with its whole chain is not cut is an induction
  along the chain.
* `Done`, for `ReentryIsIdempotent`: a planning phase that has succeeded in this run asks for nothing
  more, as later phases write none of what it reads (`Sees`), and the run does not go back to
  before the place from which that holds (`Since`). The one exception is placement, which
  comes again after routing has read its placements: it finds every component placed, because
  routing succeeded only on a board that lowers (`PcbIr`).
* `Lowered`, for `FailuresAreExplained`: what has been lowered lowers still, and the lines of a
  bill of materials that no error cut short cover the components, so that without a store
  error only a gate fails, or the outline of the board; and a gate fails of an open violation.

`OpenNetsAreCut` also states the rule for any row of pads with any copper: for those of the constant
`PadRow`, of any length, as long as no two have one centre.
`StatedSpacingIsWaived` asks, of a released design with two nets at one pad and a stated spacing, for
a waiver of the clearance rule. It does not say that every such pair is waived by name: the
rule finds each pair once, in the order of the tracks, and a waiver is of what was found.

**`PipelineProofs`**: `ProcessInvariant`, `PipelineImplementsWorkflow`, `ProcessReleasesVerified`,
`ReleasesAreOnRecord`.
The inductive invariant is `PipelineInv == BuildInv /\ Lowered /\ ProcessInv`. `ProcessInv` relates
the kernel to the design. Between two phases the design is that of the live state, `DesignOf(live)`.
Inside a phase it is not: the live state is then the design with the first `k` requests of the
plan committed, what is left to send is the rest of the plan, and the phase has met no error while
it sends, one if it is to fail of one, and none if it is to fail of its projection or its gate
(`SentUpTo`). The agent goes on after an error, so what it has made is of the candidates that did
not meet one, and its errors are as many as the others (`TriedUpTo`). It is needed that a
phase's plan, made when the phase opens, is the one `Workflow` would make at its return:
nothing that it reads changes in between (`PlannedStays`).

The other part is `LiveInv`, on the entities of the live state: of every kind a list, each
entity under its own kind; every name it holds is of an entity that is there; a requirement names
the intent, a block its requirement, a component its block, a placement its component; a line
names exactly the components of its class, and a placement exactly its component. That a
component comes when there is no line or placement yet follows from what
`Workflow` is known to do (`Lowered`: no lines without components; `NothingBuilt`). On such a state
the projections of the compiler fail exactly when `Design` says so (`BomLowers`, `PcbLowers`,
`ManufacturingLowers`, `PassesMeans`), and no unknown reference is ever met
(`NothingUnknown`). A request that the kernel answers adds one item to the design and nothing else
(`ItemAdded`), and keeps all this (`MadeKeepsLive`); one that it refuses adds nothing,
though the log may have a part of it. Each action of the process is a lemma (`StartsMaps`,
`EntersMaps`, `PhaseSendsMaps`, `AgentSendsMaps`, `JudgesMaps`, `ClosesMaps`, `ReturnsMaps`,
`EndsMaps`), and `ClosesMaps` is where a phase becomes a step of `Workflow`. With the refinement
every safety theorem of `WorkflowProofs` holds of the process: `ProcessReleasesVerified` is two
of them. TLC checked `PipelineInv` on the instance of `PipelineSteps` before it was proved.

`ReleasesAreOnRecord` is about the log, not the process: what a file that can be read replays to,
after a write that failed half-way and a process that went on. On top of `PipelineInv` and of what
`WorkflowProofs` knows (`Done`, `WholeInv`) it takes the inductive invariant
`RecordInv == RunInv /\ FileInv /\ LiveOnFile /\ ReleaseOnFile`:

* `RunInv`: every phase before the place of the running one has succeeded in this run. The CLI makes one
  run in a process, so the log is of that run.
* `FileInv`: only the last line of the file may want its newline, a log that can be read has no waiver, and
  a requirement in it names an intent.
* `LiveOnFile`: all that is live is in a log that can be read. And the log has no more than that which
  would matter (`Expected`): audits, evidence, decisions and links, which no projection reads; a
  requirement whose write failed, as the agent goes on after an error; and a violation whose write
  failed, as a gate may fail of it and be run again. Of such a violation it is known that its gate
  would find it again (`Foreseen`): what the gate reads does not change before the gate is passed.
  Anything else in the log that is not live is of a phase that is about to fail for good (`Stuck`).
* `ReleaseOnFile`: a log that says that the design was released replays to one that can be
  (`Releasable`), and nothing is sent any more but audits (`Over`).

The step that matters is the milestone of the last phase (`JudgesRecord`). There the live state can be
released (`LiveIsReleasable`: the gate of the phase, `Whole` for the tracks, `OnNets` for whose they
are); every gate is behind, so a violation that is foreseen is on record, and there is none; hence
the log has of each kind that a projection reads just what is live, but for requirements
(`LogIsReleasable`), and requirements that are not live take nothing from it
(`ReleasableStill`). Lemmas on the file come first: what a batch, or a part of one, adds to the
lines that can be read (`AllWritten`, `SomeWritten`, `LogGrows`), and that a log without waivers
replays to exactly its entities, by kind (`ReplayIs`, by induction over the steps of the fold).
There is a lemma for each action (`StartsRecord`, `EntersRecord`, `SendsRecord`, `JudgesRecord`,
`ClosesRecord`, `EndsRecord`). `RecordInv` holds as an invariant of the instance of `PipelineSteps` in
TLC too, in its 239185 states.

The assumptions are those named in the modules: `PlansAssumption` (plans are plans, the
modulus is positive, `<workflow>` is no phase), `EngineAssumption` (a machine has a positive
number of steps), `KernelAssumption` (requests and intents are what the types say;
companions come with an entity), `RequestsAssumption` and `AgentAssumption` (see *Kernel* above),
`WorkflowAssumption` (lists are lists of candidates, the bounds are numbers) and
`LayoutAssumption` (the pads of `Layout` have distinct centres) and `PipelineAssumption` (intents
are entities of that kind, and the faults are among those of the kernel).

**Only model-checked**: every liveness property (`Terminates`, `EngineTerminates`, `RunReturns`,
`ProcessEnds`), as fairness and `ENABLED` are beyond the provers; and `CopperRuleIsExact`, whose
reference definition is of points on a grid and whose proof would be nonlinear arithmetic. Every
other property of a passing run is a theorem.

## 5. Not modelled

* Floating point and `eak-units`: lengths, temperatures and frequencies are exact, and the
  instances keep away from comparisons of equal values, where a rounding would decide.
* The formulas of ampacity and impedance, and the widths that follow from them.
* Boards that are not square, copper on the bottom side, signal nets, passive parts: no
  phase makes any.
* The text of prompts, cassettes, messages, and all printing.
* Power loss: `flush` on an unbuffered file does not reach the disk, and the model's file
  is what the operating system holds.
* The rounding of floats through JSON, and collisions of 64-bit-seeded ids.
* The `Supervised` autonomy rejects two requests; it is a constant of `Kernel`, and the
  runs use `Autonomous`, as the CLI does.
* The contents of an IR, which are copies, and its error `UntestableAccepted`: an accepted
  requirement that is not testable does not pass its own `validate`, which is a flag of the
  request.
* A non-finite number is modelled in the types and the theorems (`Line` makes it
  unreadable), and no run has one: no input of the program was found that makes one. If one
  were committed, `LiveIsReplay` would fail.
* The removal of an old log whose error is dropped is modelled (`"remove"` in `Faults`) and
  part of `KernelFaults`: a run then starts on a log that is not empty.

## 6. Plan

1. *(done)* the orchestrator, its abstract specification and their theorems.
2. *(done)* the kernel, its fold and its store, with crashes and failed writes, and theorems.
3. *(done)* the execution engine under the orchestrator.
4. *(done)* the default workflow on small designs, with the geometry of its layouts.
5. *(done)* the helpers of the layout rules against reference definitions, not only on the
   layouts the phases make.
6. *(done)* the real phases split at their requests, on the kernel and its file.
7. *(done)* the projections of the compiler in full, against the seam's checks, and the trace.
8. *(done)* theorems about the engine, the consistency of the live state, its readers and the
   release.
9. *(done)* theorems about the replay, and about what the workflow makes of every list of
   requirements: gates, geometry, completeness, re-entry and failures.
10. *(done)* the provenance trace of a requirement, for every set of requests.
11. *(done)* the refinement `ImplementsWorkflow` as a theorem, for every list of candidates and
   every failure of the log.
12. *(done)* `ReleaseIsOnRecord` as a theorem: what a log says of a release, after failed writes and
    crashes.
