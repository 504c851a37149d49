------------------------------ MODULE Compiler ------------------------------
(***************************************************************************)
(* The design compiler (eak-compiler): six projections that lower an          *)
(* Engineering State, each from the ones before it.  A projection that cannot   *)
(* be made returns the first error it meets; here, the set of all its errors,    *)
(* an error being its variant and the entity it names.                          *)
(*                                                                         *)
(* What only copies, the contents of an IR and its versions, is left out; so is  *)
(* UntestableAccepted, as an entity does not say whether it is testable: what     *)
(* passes its own validate is.                                                *)
(***************************************************************************)
EXTENDS EngineeringState

Error(variant, name) == [variant |-> variant, name |-> name]

Entities(state, kind) == ToSet(state[kind])

\* One error for each entity of a set.
ErrorEach(variant, entities) == {Error(variant, NameOf(e)) : e \in entities}

\* One error for each of the names that the state does not have.
ErrorUnknown(variant, state, names) ==
  {Error(variant, n) : n \in {n \in names : ~Holds(state, n)}}

\* What the entities of a kind name of another one.
NamedBy(state, kind, other) ==
  UNION {NamesOfKind(e, other) : e \in Entities(state, kind)}

-----------------------------------------------------------------------------
(* The errors of each projection, once those before it are made *)

RequirementIr(state) ==
  ErrorEach("OrphanRequirement",
    {r \in Entities(state, "requirement") : NamesOfKind(r, "intent") = {}})

EngineeringIr(state) ==
  ErrorEach("BlockWithoutRequirement",
    {b \in Entities(state, "block") :
       \/ NamesOfKind(b, "requirement") = {}
       \/ \E n \in NamesOfKind(b, "requirement") : ~Holds(state, n)})

SchematicIr(state) ==
  ErrorEach("OrphanComponent",
    {c \in Entities(state, "component") :
       \A n \in NamesOfKind(c, "block") : ~Holds(state, n)})
  \cup ErrorUnknown("UnknownNetMember", state, NamedBy(state, "net", "pin"))

BomIr(state) ==
  ErrorUnknown("UnknownPart", state, NamedBy(state, "line", "part"))
  \cup ErrorUnknown("LineItemUnknownComponent", state, NamedBy(state, "line", "component"))
  \cup ErrorEach("UncoveredComponent",
         {c \in Entities(state, "component") : Naming(state, "line", NameOf(c)) = {}})

PcbIr(state) ==
  IF state["board"] = <<>> THEN {Error("NoBoard", "board")}
  ELSE ErrorUnknown("PlacementUnknownComponent", state,
         NamedBy(state, "placement", "component"))
       \cup ErrorEach("UnplacedComponent",
              {c \in Entities(state, "component") :
                 Naming(state, "placement", NameOf(c)) = {}})
       \cup ErrorUnknown("TrackUnknownNet", state, NamedBy(state, "track", "net"))

\* The component of a placement.
Placed(p) == CHOOSE n \in p.names : n[1] = "component"

\* The line that sources a component: the first one that covers it.
IsLineOf(i, state, component) ==
  /\ i \in Naming(state, "line", component)
  /\ \A j \in Naming(state, "line", component) : i <= j

\* The join: the line of each placement's component, and the part it orders.
ManufacturingIr(state) ==
  UNION {IF ~Holds(state, Placed(p))
         THEN {Error("PlacementUnknownComponent", Placed(p))}
         ELSE IF Naming(state, "line", Placed(p)) = {}
         THEN {Error("UnsourcedPlacement", Placed(p))}
         ELSE UNION {ErrorUnknown("UnknownPart", state, NamesOfKind(state["line"][i], "part")) :
                       i \in {i \in DOMAIN state["line"] : IsLineOf(i, state, Placed(p))}} :
         p \in Entities(state, "placement")}

\* The placements that the assembly builds of a part.
Assembled(state, part) ==
  {k \in DOMAIN state["placement"] :
     \E i \in DOMAIN state["line"] :
       /\ IsLineOf(i, state, Placed(state["placement"][k]))
       /\ part \in state["line"][i].names}

\* The components that the lines order a part for, line by line: a line's quantity is
\* the number of its components.
Ordered(state, part) ==
  UNION {{<<i, n>> : n \in NamesOfKind(state["line"][i], "component")} :
           i \in {i \in DOMAIN state["line"] : part \in state["line"][i].names}}

-----------------------------------------------------------------------------
(* Lowering: a phase makes every projection up to its own *)

LowersToRequirement(state) == RequirementIr(state) = {}

LowersToSchematic(state) ==
  LowersToRequirement(state) /\ EngineeringIr(state) = {} /\ SchematicIr(state) = {}

LowersToBom(state) == LowersToSchematic(state) /\ BomIr(state) = {}

LowersToPcb(state) == LowersToSchematic(state) /\ PcbIr(state) = {}

LowersToManufacturing(state) ==
  LowersToBom(state) /\ LowersToPcb(state) /\ ManufacturingIr(state) = {}
=============================================================================
