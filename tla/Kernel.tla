------------------------------- MODULE Kernel -------------------------------
(***************************************************************************)
(* The Engineering Runtime kernel (runtime_core.rs): the only writer of the   *)
(* Engineering State.  A capability request is re-validated at the seam, its   *)
(* events are appended to the event log, and only then folded into the live    *)
(* state.  The module composes the fold (EngineeringState) and the file-backed  *)
(* log (EventStore) with the life of the process around them (eak-cli, run_with *)
(* and replay_cmd).                                                           *)
(*                                                                         *)
(* The machines that send the requests are left out: any request of Requests   *)
(* may come at any time.  Its ids are fresh, as IdSource::fresh makes them, so   *)
(* a process sees it at most once.  A request that the seam rejects changes     *)
(* nothing and is no step here.                                               *)
(***************************************************************************)
EXTENDS EngineeringState, EventStore, FiniteSets

CONSTANTS
  Requests,   \* the requests that machines may send
  Intents,    \* the design intents a run may be started with
  Autonomy,   \* "Autonomous" or "Supervised"
  Faults,     \* what may go wrong: a subset of FaultKinds
  MaxBoots    \* bound on the number of processes started

\* A write to the log fails; the process dies inside an append; the old log
\* cannot be removed when a run starts.
FaultKinds == {"write", "crash", "remove"}

OfKind(kind) == {e \in Entity : e.kind = kind}

\* What a capability request carries: the entity, and whether it passes its own
\* validate; with a requirement its evidence and its decision, with a component
\* its pins, and with any of them provenance links.
Request ==
  [entity : Entity, valid : BOOLEAN,
   evidence : Seq(OfKind("evidence")), decision : Seq(OfKind("decision")),
   pins : Seq(OfKind("pin")), links : Seq(OfKind("link"))]

\* A record of the log.
Record == [seq : Nat, event : Entity]

\* The kinds of entity that only come with another one.
Companions == {"evidence", "decision", "pin", "link"}

ASSUME KernelAssumption ==
  /\ Unreadable \notin Record
  /\ Requests \subseteq {r \in Request : r.entity.kind \notin Companions}
  /\ Intents \subseteq OfKind("intent")
  /\ Autonomy \in {"Autonomous", "Supervised"}
  /\ Faults \subseteq FaultKinds
  /\ MaxBoots \in Nat

\* A violation is raised open; a waiver is of one violation, and a placement of one
\* component.
ASSUME RequestsAssumption ==
  \A r \in Requests :
    /\ ~r.entity.waived
    /\ r.entity.kind = "waiver" => \A m, n \in r.entity.names : m = n
    /\ r.entity.kind = "placement" => \A m, n \in NamesOfKind(r.entity, "component") : m = n

VARIABLES
  file,     \* the log file: its lines, and whether the last one is terminated
  records,  \* FileEventLog.records: the cache of the process
  live,     \* RuntimeCore.state
  issued,   \* the names minted by this process
  status,   \* "down", "starting" (no intent captured yet) or "running"
  boots     \* processes started so far

vars == <<file, records, live, issued, status, boots>>

-----------------------------------------------------------------------------
(* The commit path *)

\* Mutant: the evidence is pushed last.
MutantEvents(r) == r.decision \o <<r.entity>> \o r.pins \o r.links \o r.evidence

\* The batch of a request, in the order the handlers push it.
Events(r) == r.evidence \o r.decision \o <<r.entity>> \o r.pins \o r.links

\* Mutant: the live fold forgets the pins.
MutantFold(state, r) ==
  [kind \in StateKinds |->
     CASE kind = "evidence" -> state[kind] \o r.evidence
       [] kind = "decision" -> state[kind] \o r.decision
       [] kind = "link"     -> state[kind] \o r.links
       [] OTHER             -> Apply(state, r.entity)[kind]]

\* The batch folded: the companions' lists grow by theirs, and the entity is
\* applied.
Fold(state, r) ==
  [kind \in StateKinds |->
     CASE kind = "evidence" -> state[kind] \o r.evidence
       [] kind = "decision" -> state[kind] \o r.decision
       [] kind = "pin"      -> state[kind] \o r.pins
       [] kind = "link"     -> state[kind] \o r.links
       [] OTHER             -> Apply(state, r.entity)[kind]]

NamesOf(events) == {NameOf(events[i]) : i \in DOMAIN events}

\* The process and its memory are gone; the file stays.
Dies ==
  /\ status' = "down"
  /\ live' = EmptyState
  /\ records' = <<>>
  /\ issued' = {}

\* None of the events' ids was minted before: IdSource::fresh.
Fresh(events) == NamesOf(events) \cap issued = {}

Mints(events) == issued' = issued \cup NamesOf(events)

\* append writes every event and keeps it in the cache.
Appends(events) ==
  LET batch == Records(Len(records), events)
  IN  /\ file' = WriteAll(file, batch)
      /\ records' = records \o batch

(* A write fails: append returns the error, and what it wrote stays written, *)
(* in the file and in the cache.                                               *)
FailsToAppend(events) ==
  LET batch == Records(Len(records), events)
  IN  /\ "write" \in Faults
      /\ \E k \in 0 .. Len(batch) - 1, torn \in Torn :
           /\ file' = WriteSome(file, batch, k, torn)
           /\ records' = records \o SubSeq(batch, 1, k)

(* The process dies inside append, or after it and before anything else. *)
DiesInAppend(events) ==
  LET batch == Records(Len(records), events)
  IN  /\ "crash" \in Faults
      /\ \/ \E k \in 0 .. Len(batch) - 1, torn \in Torn :
              file' = WriteSome(file, batch, k, torn)
         \/ file' = WriteAll(file, batch)
      /\ Dies

\* Mutant: observed even if it could not be persisted.
MutantSubmit(r) ==
  /\ Fresh(Events(r))
  /\ \/ /\ Appends(Events(r)) \/ FailsToAppend(Events(r))
        /\ live' = Fold(live, r)
        /\ Mints(Events(r))
        /\ UNCHANGED status
     \/ DiesInAppend(Events(r))
  /\ UNCHANGED boots

(* commit: append, and only if that succeeds fold. *)
Submit(r) ==
  /\ Fresh(Events(r))
  /\ \/ DiesInAppend(Events(r))
     \/ /\ FailsToAppend(Events(r))
        /\ Mints(Events(r))
        /\ UNCHANGED <<live, status>>
     \/ /\ Appends(Events(r))
        /\ live' = Fold(live, r)
        /\ Mints(Events(r))
        /\ UNCHANGED status
  /\ UNCHANGED boots

-----------------------------------------------------------------------------
(* The life of a process *)

Init ==
  /\ file = EmptyFile
  /\ records = <<>>
  /\ live = EmptyState
  /\ issued = {}
  /\ status = "down"
  /\ boots = 0

(* run_with removes the old log, opens it and builds the kernel on an empty   *)
(* state.  The error of the removal is ignored, so the old log may still be     *)
(* there; open then loads it, or fails and the process ends.                    *)
Boot ==
  /\ status = "down"
  /\ boots < MaxBoots
  /\ boots' = boots + 1
  /\ \/ /\ file' = EmptyFile
        /\ records' = <<>>
     \/ /\ "remove" \in Faults
        /\ Readable(file)
        /\ records' = file.lines
        /\ UNCHANGED file
  /\ status' = "starting"
  /\ UNCHANGED <<live, issued>>

(* capture_intent; run_with returns its error. *)
CaptureIntent(intent) ==
  /\ status = "starting"
  /\ \/ /\ Appends(<<intent>>)
        /\ live' = Apply(live, intent)
        /\ Mints(<<intent>>)
        /\ status' = "running"
     \/ /\ "write" \in Faults
        /\ \E torn \in Torn :
             file' = WriteSome(file, Records(Len(records), <<intent>>), 0, torn)
        /\ Dies
     \/ DiesInAppend(<<intent>>)
  /\ UNCHANGED boots

(* The workflow is over, or the process is killed between two commits. *)
Exit ==
  /\ status /= "down"
  /\ Dies
  /\ UNCHANGED <<file, boots>>

-----------------------------------------------------------------------------
(* The capability handlers *)

Requested(r, kind) ==
  /\ status = "running"
  /\ r.entity.kind = kind
  /\ r.valid

\* Every entity of the kind that e names is in the live state.
Resolves(e, kind) == \A n \in NamesOfKind(e, kind) : Holds(live, n)

CreateRequirement(r) ==
  /\ Requested(r, "requirement")
  /\ Autonomy /= "Supervised"
  /\ Submit(r)

CreateConstraint(r) ==
  /\ Requested(r, "constraint")
  /\ NamesOfKind(r.entity, "requirement") /= {}
  /\ Resolves(r.entity, "requirement")
  /\ Submit(r)

\* The subjects are not looked up.
RaiseViolation(r) ==
  /\ Requested(r, "violation")
  /\ r.entity.names /= {}
  /\ Submit(r)

\* Mutant: the violation is not looked up.
MutantGrantWaiver(r) ==
  /\ Requested(r, "waiver")
  /\ Autonomy /= "Supervised"
  /\ NamesOfKind(r.entity, "violation") /= {}
  /\ Submit(r)

GrantWaiver(r) ==
  /\ Requested(r, "waiver")
  /\ Autonomy /= "Supervised"
  /\ NamesOfKind(r.entity, "violation") /= {}
  /\ Resolves(r.entity, "violation")
  /\ Submit(r)

CreateFunctionalBlock(r) ==
  /\ Requested(r, "block")
  /\ NamesOfKind(r.entity, "requirement") /= {}
  /\ Resolves(r.entity, "requirement")
  /\ Submit(r)

\* The component its pins name is not checked.
RealizeComponent(r) ==
  /\ Requested(r, "component")
  /\ NamesOfKind(r.entity, "block") /= {}
  /\ Resolves(r.entity, "block")
  /\ r.pins /= <<>>
  /\ Submit(r)

CreateNet(r) ==
  /\ Requested(r, "net")
  /\ NamesOfKind(r.entity, "pin") /= {}
  /\ Resolves(r.entity, "pin")
  /\ Submit(r)

CreatePart(r) ==
  /\ Requested(r, "part")
  /\ Submit(r)

\* Mutant: a component may be on two lines.
MutantCreateBomLineItem(r) ==
  /\ Requested(r, "line")
  /\ NamesOfKind(r.entity, "part") /= {}
  /\ Resolves(r.entity, "part")
  /\ Resolves(r.entity, "component")
  /\ Submit(r)

\* A component is on one line only.
CreateBomLineItem(r) ==
  /\ Requested(r, "line")
  /\ NamesOfKind(r.entity, "part") /= {}
  /\ Resolves(r.entity, "part")
  /\ \A c \in NamesOfKind(r.entity, "component") :
       Holds(live, c) /\ Naming(live, "line", c) = {}
  /\ Submit(r)

CreateBoard(r) ==
  /\ Requested(r, "board")
  /\ live["board"] = <<>>
  /\ Submit(r)

\* Mutant: a component is placed without a board.
MutantPlaceComponent(r) ==
  /\ Requested(r, "placement")
  /\ NamesOfKind(r.entity, "component") /= {}
  /\ Resolves(r.entity, "component")
  /\ \A c \in NamesOfKind(r.entity, "component") : Naming(live, "placement", c) = {}
  /\ Submit(r)

\* Mutant: a component may be placed twice.
MutantPlaceTwice(r) ==
  /\ Requested(r, "placement")
  /\ NamesOfKind(r.entity, "component") /= {}
  /\ Resolves(r.entity, "component")
  /\ live["board"] /= <<>>
  /\ Submit(r)

\* A component is placed once.
PlaceComponent(r) ==
  /\ Requested(r, "placement")
  /\ NamesOfKind(r.entity, "component") /= {}
  /\ Resolves(r.entity, "component")
  /\ live["board"] /= <<>>
  /\ \A c \in NamesOfKind(r.entity, "component") : Naming(live, "placement", c) = {}
  /\ Submit(r)

\* Mutant: the net is not looked up.
MutantRouteNet(r) ==
  /\ Requested(r, "track")
  /\ NamesOfKind(r.entity, "net") /= {}
  /\ live["board"] /= <<>>
  /\ Submit(r)

\* A net may have any number of tracks.
RouteNet(r) ==
  /\ Requested(r, "track")
  /\ NamesOfKind(r.entity, "net") /= {}
  /\ Resolves(r.entity, "net")
  /\ live["board"] /= <<>>
  /\ Submit(r)

(* emit and reason: an event that no seam checks and no fold sees. *)
Emit(r) ==
  /\ Requested(r, "audit")
  /\ Submit(r)

Handles(r) ==
  \/ CreateRequirement(r) \/ CreateConstraint(r) \/ RaiseViolation(r)
  \/ GrantWaiver(r) \/ CreateFunctionalBlock(r) \/ RealizeComponent(r)
  \/ CreateNet(r) \/ CreatePart(r) \/ CreateBomLineItem(r)
  \/ CreateBoard(r) \/ PlaceComponent(r) \/ RouteNet(r) \/ Emit(r)

Next ==
  \/ Boot
  \/ \E intent \in Intents : CaptureIntent(intent)
  \/ \E r \in Requests : Handles(r)
  \/ Exit

Spec == Init /\ [][Next]_vars
-----------------------------------------------------------------------------
(* Properties *)

\* The kinds of which the seam looks up the entities that an entity names.
CheckedKinds(e) ==
  CASE e.kind \in {"constraint", "block"} -> {"requirement"}
    [] e.kind = "waiver"                  -> {"violation"}
    [] e.kind = "component"               -> {"block"}
    [] e.kind = "net"                     -> {"pin"}
    [] e.kind = "line"                    -> {"part", "component"}
    [] e.kind = "placement"               -> {"component"}
    [] e.kind = "track"                   -> {"net"}
    [] OTHER                              -> {}

CheckedNames(e) == {n \in e.names : n[1] \in CheckedKinds(e)}

NeedsBoard(e) == e.kind \in {"placement", "track"}

\* The history the file holds, and what a replay makes of it.
History == EventsOf(file.lines)

\* The types of the kernel's variables.
TypeOK ==
  /\ file \in [lines : Seq(Record \cup {Unreadable}), terminated : BOOLEAN]
  /\ records \in Seq(Record)
  /\ live \in [StateKinds -> Seq(Entity)]
  /\ issued \subseteq Kinds \X Id
  /\ status \in {"down", "starting", "running"}
  /\ boots \in Nat

\* A log that can be read is the cache of the running process, but for one
\* record whose newline never came; its seqs are consecutive from 0 ("assigns
\* consecutive Seqs", eak-ports).
CacheIsFile ==
  Readable(file) =>
    /\ \A i \in DOMAIN file.lines : file.lines[i].seq = i - 1
    /\ status /= "down" =>
         \/ file.lines = records
         \/ /\ ~file.terminated
            /\ Len(file.lines) = Len(records) + 1
            /\ SubSeq(file.lines, 1, Len(records)) = records

\* The live state never dangles: whatever the seam looks up is in the state, and
\* so is a board under every placement and track, whichever appends fail.
LiveReferences ==
  \A kind \in StateKinds : \A i \in DOMAIN live[kind] :
    /\ \A n \in CheckedNames(live[kind][i]) : Holds(live, n)
    /\ NeedsBoard(live[kind][i]) => live["board"] /= <<>>

\* So does no log that can be read, crashed, half-written or inherited: every
\* reference is to an event before it, so the fold of any prefix is closed.
ReplayReferences ==
  Readable(file) =>
    \A i \in DOMAIN History :
      /\ \A n \in CheckedNames(History[i]) : \E j \in 1 .. i - 1 : NameOf(History[j]) = n
      /\ NeedsBoard(History[i]) => \E j \in 1 .. i - 1 : History[j].kind = "board"

\* The running state has nothing that its log does not ("persist before
\* observe", eak-store): what is live is in the cache, for ever readable or not.
PersistedBeforeObserved ==
  \A kind \in StateKinds : \A i \in DOMAIN live[kind] :
    \E j \in DOMAIN records : NameOf(records[j].event) = NameOf(live[kind][i])

\* A component is placed once and ordered once, and a violation is waived
\* exactly when a waiver names it.
Consistent(state) ==
  /\ \A kind \in {"placement", "line"} : \A i, j \in DOMAIN state[kind] :
       i /= j => NamesOfKind(state[kind][i], "component")
                   \cap NamesOfKind(state[kind][j], "component") = {}
  /\ \A i \in DOMAIN state["violation"] :
       state["violation"][i].waived <=>
         Naming(state, "waiver", NameOf(state["violation"][i])) /= {}

LiveConsistent == Consistent(live)

\* Whatever a crash leaves behind, if the log can be read its replay is
\* consistent: no crash is between a check at the seam and what it protects.
ReplayConsistent == Readable(file) => Consistent(Replay(History))

\* While the process runs, a replay of its log gives its state ("the same fold
\* runs live during a run and during replay", state.rs).
LiveIsReplay ==
  status /= "down" => Readable(file) /\ Replay(History) = live

\* What ports promises of append: "Append timestamped events atomically".  Of
\* every batch, the log has all the events or none.
AppendIsAtomic ==
  Readable(file) =>
    \A r \in Requests :
      \/ NamesOf(Events(r)) \subseteq NamesOf(History)
      \/ NamesOf(Events(r)) \cap NamesOf(History) = {}
=============================================================================
