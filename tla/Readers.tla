------------------------------ MODULE Readers ------------------------------
(***************************************************************************)
(* The readers of the Engineering State: the projections of the compiler,     *)
(* which a phase makes of the live state, and the provenance trace of a          *)
(* requirement (eak-cli, trace_cmd), made of the replay of a log.               *)
(*                                                                         *)
(* A link names its two ends, and their kinds tell its relation: a requirement  *)
(* is JustifiedBy a decision.  A decision names its evidence too.               *)
(***************************************************************************)
EXTENDS Kernel, Compiler

\* What comes with a requirement (agent.rs): its evidence, at most one decision, which
\* names just that evidence, and links, of which one leads to the decision; no other
\* link joins a requirement and a decision.  Its id is its own, and its source is the
\* intent that the run was started with.
ASSUME AgentAssumption ==
  /\ \A r \in Requests :
       /\ Len(r.decision) <= 1
       /\ \A i \in DOMAIN r.links :
            LET link == r.links[i]
            IN  NamesOfKind(link, "decision") /= {} =>
                  /\ NamesOfKind(link, "requirement") \subseteq {NameOf(r.entity)}
                  /\ NamesOfKind(link, "decision") = NamesOf(r.decision)
  /\ \A r \in {r \in Requests : r.entity.kind = "requirement"} :
       /\ NamesOf(r.evidence) =
            UNION {NamesOfKind(r.decision[i], "evidence") : i \in DOMAIN r.decision}
       /\ r.decision /= <<>> =>
            \E i \in DOMAIN r.links :
              /\ NameOf(r.entity) \in r.links[i].names
              /\ NamesOfKind(r.links[i], "decision") /= {}
       /\ \A s \in Requests : NameOf(s.entity) = NameOf(r.entity) => s = r
       /\ \A intent \in Intents : NamesOfKind(r.entity, "intent") \subseteq {NameOf(intent)}

(* trace_cmd *)

\* The first link that justifies the requirement by a decision.
IsJustificationOf(i, state, requirement) ==
  LET justifies(j) == NamesOfKind(state["link"][j], "decision") /= {}
  IN  /\ i \in Naming(state, "link", NameOf(requirement)) /\ justifies(i)
      /\ \A j \in Naming(state, "link", NameOf(requirement)) : justifies(j) => i <= j

\* The decision at the end of that link, if the state has it.
DecisionsOf(state, requirement) ==
  {d \in Entities(state, "decision") :
     \E i \in DOMAIN state["link"] :
       IsJustificationOf(i, state, requirement) /\ NameOf(d) \in state["link"][i].names}

\* What the trace shows: the decision, the evidence it found, and the intent if it
\* is the requirement's source.
Trace(state, requirement) ==
  [decisions |-> {NameOf(d) : d \in DecisionsOf(state, requirement)},
   evidence |-> UNION {{n \in NamesOfKind(d, "evidence") : Holds(state, n)} :
                         d \in DecisionsOf(state, requirement)},
   intents |-> {n \in NamesOfKind(requirement, "intent") : Holds(state, n)}]

-----------------------------------------------------------------------------
(* Properties *)

\* The errors that say of a design that it is not finished, or of a requirement that
\* it names no source, which the seam lets pass.  The others say that something dangles.
Unfinished == {"OrphanRequirement", "NoBoard", "UncoveredComponent", "UnplacedComponent"}

ProjectsSoundly(state) ==
  /\ \A error \in RequirementIr(state) \cup EngineeringIr(state) \cup SchematicIr(state)
                    \cup BomIr(state) \cup PcbIr(state) : error.variant \in Unfinished
  /\ LowersToBom(state) /\ LowersToPcb(state) => LowersToManufacturing(state)

\* No projection ever meets a dangling reference, of the live state nor of the replay
\* of a log that can be read: what they fail of is a design that is not finished; and
\* what "re-asserts it at the manufacturing join" (eak-compiler) never fails.
OnlyUnfinished ==
  /\ ProjectsSoundly(live)
  /\ Readable(file) => ProjectsSoundly(Replay(History))

\* "An assembly directive carries both a position and a part" (eak-compiler): of a
\* design that lowers to manufacture, each part is built in as often as it is ordered.
AssemblyMatchesOrder ==
  LowersToManufacturing(live) =>
    \A part \in Entities(live, "part") :
      Cardinality(Assembled(live, NameOf(part))) = Cardinality(Ordered(live, NameOf(part)))

\* What the whole trace of a requirement shows.
WholeTrace(r) ==
  [decisions |-> NamesOf(r.decision), evidence |-> NamesOf(r.evidence),
   intents |-> NamesOfKind(r.entity, "intent")]

\* A requirement traces to its decision, all the evidence of it and the intent.  In
\* a log that a crash has cut inside its batch the trace may stop at the requirement, but
\* never half-way: what the links lead to is there before they are.
TracesAreWhole ==
  LET traced(state) ==
        {<<Trace(state, r.entity), WholeTrace(r)>> :
           r \in {r \in Requests : r.entity \in Entities(state, "requirement")}}
  IN  /\ \A t \in traced(live) : t[1] = t[2]
      /\ Readable(file) =>
           \A t \in traced(Replay(History)) :
             t[1] \in {t[2], [t[2] EXCEPT !.decisions = {}, !.evidence = {}]}
=============================================================================
