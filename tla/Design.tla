------------------------------- MODULE Design -------------------------------
(***************************************************************************)
(* A design and what the workflow's planning phases make of it: the requests  *)
(* that each sends for the design it finds, and what the projections to an IR    *)
(* insist on (eak-phases, eak-compiler).                                       *)
(*                                                                         *)
(* A design has a sequence of items per kind, in commit order.  A requirement  *)
(* is a candidate's number; a block, component or constraint is the number of     *)
(* the requirement it goes back to; a part or line is its class; a net is its      *)
(* name; a board is its edge; placements and tracks are records; a violation or    *)
(* a waiver is a finding.  Pins are not kept: the class of a component gives them.  *)
(*                                                                         *)
(* Lengths are in quarters of a millimetre, so that the margin, the pitch, every   *)
(* courtyard's centre and half the width of a trace are integers.                *)
(***************************************************************************)
EXTENDS Integers, Sequences, FiniteSets, SequencesExt

VARIABLES
  candidates,  \* the requirements that survive the agent's checks
  design       \* the Engineering State, a sequence of items per kind

designVars == <<candidates, design>>

DesignKinds ==
  {"requirement", "block", "constraint", "component", "net", "part", "line", "board",
   "placement", "track", "violation", "waiver"}

\* Lengths in quarter millimetres, frequencies in GHz, temperatures in degrees
\* Celsius, power in W and thermal resistance in degrees per W.
Quantity ==
  [dimension : {"Length", "Frequency", "Temperature", "Power", "ThermalResistance"},
   value : Nat]

\* What is made of a requirement: the class that classify gives it, only functional ones
\* being connectors, the sense that infer_kind does, its category and its targets.
Candidate ==
  {c \in [class : {"Connector", "Regulator", "Ic"}, sense : {"Max", "Min"},
          category : {"Functional", "Electrical", "Mechanical", "Thermal", "Fabrication"},
          targets : Seq(Quantity)] :
     c.class = "Connector" => c.category = "Functional"}

EmptyDesign == [kind \in DesignKinds |-> <<>>]

Made(kind) == ToSet(design[kind])

\* The items of a list that are in the set, in order.
Keep(items, set) ==
  LET upTo[n \in 0 .. Len(items)] ==
        IF n = 0 THEN <<>>
        ELSE IF items[n] \in set THEN Append(upTo[n - 1], items[n])
        ELSE upTo[n - 1]
  IN  upTo[Len(items)]

ClassOf(c) == candidates[c].class

\* The targets of one dimension, of one requirement.
TargetsOf(r, dimension) ==
  LET targets == candidates[r].targets
  IN  Keep(targets, {t \in ToSet(targets) : t.dimension = dimension})

\* The values of the targets of one dimension on the requirements of one category,
\* in commit order.
Stated(category, dimension) ==
  LET own == Keep(design["requirement"],
                  {r \in Made("requirement") : candidates[r].category = category})
      targets == FlattenSeq([k \in DOMAIN own |-> TargetsOf(own[k], dimension)])
  IN  [k \in DOMAIN targets |-> targets[k].value]

-----------------------------------------------------------------------------
(* Nets: which pins a power or ground net joins *)

NetNames == <<"VBUS", "VOUT", "GND">>

\* The nets that the components' pins make, as the components on each.  The
\* driver of a rail is a connector's VBUS or a regulator's VOUT.
DriversOf(net, comps) ==
  LET regulators == {c \in comps : ClassOf(c) = "Regulator"}
      connectors == {c \in comps : ClassOf(c) = "Connector"}
  IN  CASE net = "VBUS" -> connectors
        [] net = "VOUT" -> regulators
        [] net = "GND"  -> {}

ConsumersOf(net, comps) ==
  LET regulators == {c \in comps : ClassOf(c) = "Regulator"}
      ics        == {c \in comps : ClassOf(c) = "Ic"}
  IN  CASE net = "VBUS" -> IF regulators = {} THEN ics ELSE regulators
        [] net = "VOUT" -> IF regulators = {} THEN {} ELSE ics
        [] net = "GND"  -> {}

PadsOf(net, comps) ==
  IF net = "GND" THEN comps ELSE DriversOf(net, comps) \cup ConsumersOf(net, comps)

-----------------------------------------------------------------------------
(* Geometry: where a component is placed, and the copper of a net *)

Margin == 8

Pitch == 48

Courtyard(class) == IF class = "Connector" THEN 36 ELSE 24

DefaultEdge == 400

\* Of power and ground nets: no signal net is made.
TraceWidth == 2

\* A component at the i-th place of the row.
PlacementAt(i, c) ==
  [component |-> c, x |-> Margin + (i - 1) * Pitch, y |-> Margin,
   edge |-> Courtyard(ClassOf(c))]

Centre(p) == [x |-> p.x + p.edge \div 2, y |-> p.y + p.edge \div 2]

\* The placements of the net's pads.
MembersOf(net) ==
  {p \in Made("placement") : p.component \in PadsOf(net, Made("component"))}

Track(net, p, q) == [net |-> net, from |-> Centre(p), to |-> Centre(q), width |-> TraceWidth]

\* The placements from left to right.
LeftToRight(places) ==
  CHOOSE s \in [1 .. Cardinality(places) -> places] :
    /\ IsInjective(s)
    /\ \A j, k \in DOMAIN s : j < k => Centre(s[j]).x <= Centre(s[k]).x

\* The daisy chain over the members, from left to right: a segment between
\* neighbours, or one on itself.
ChainOf(net) ==
  LET members == LeftToRight(MembersOf(net))
      n == Cardinality(MembersOf(net))
  IN  IF n = 1 THEN <<Track(net, members[1], members[1])>>
      ELSE [k \in 1 .. n - 1 |-> Track(net, members[k], members[k + 1])]

TracksOf(net) == Keep(design["track"], {t \in Made("track") : t.net = net})

-----------------------------------------------------------------------------
(* What the seam asks of an entity itself, of what is kept of it here: no phase   *)
(* sends a blank name or statement                                              *)

ValidBoard(edge) == edge > 0

ValidPlacement(p) == p.edge > 0

ValidTrack(t) == t.width > 0

\* A line orders its part for each component of the class, at least for one.
ValidLine(class) == \E c \in Made("component") : ClassOf(c) = class

Validates(kind, item) ==
  CASE kind = "board"     -> ValidBoard(item)
    [] kind = "placement" -> ValidPlacement(item)
    [] kind = "track"     -> ValidTrack(item)
    [] kind = "line"      -> ValidLine(item)
    [] OTHER              -> TRUE

-----------------------------------------------------------------------------
(* Planning: the requests of a phase, in the order it sends them *)

Create(kind, items) == [i \in DOMAIN items |-> [kind |-> kind, item |-> items[i]]]

CreateMissing(kind, items) == Create(kind, Keep(items, ToSet(items) \ Made(kind)))

Analyzing == CreateMissing("block", design["requirement"])

\* Mutant: a constraint that exists is extracted again.
MutantExtracting ==
  Create("constraint",
    Keep(design["requirement"], {r \in Made("requirement") : candidates[r].targets /= <<>>}))

Extracting ==
  CreateMissing("constraint",
    Keep(design["requirement"], {r \in Made("requirement") : candidates[r].targets /= <<>>}))

\* Mutant: the ground net is forgotten.
MutantSchematicPlan ==
  IF design["component"] /= <<>> THEN <<>>
  ELSE Create("component", design["block"])
       \o Create("net", Keep(<<"VBUS", "VOUT">>,
                          {net \in ToSet(NetNames) : PadsOf(net, Made("block")) /= {}}))

\* Synthesis is skipped as soon as there is a component.
SchematicPlan ==
  IF design["component"] /= <<>> THEN <<>>
  ELSE Create("component", design["block"])
       \o Create("net", Keep(NetNames,
                          {net \in ToSet(NetNames) : PadsOf(net, Made("block")) /= {}}))

\* The classes of the components, each at its first appearance.
ClassesInOrder ==
  LET comps == design["component"]
      firsts == Keep([i \in DOMAIN comps |-> i],
                  {i \in DOMAIN comps : \A j \in 1 .. i - 1 : ClassOf(comps[j]) /= ClassOf(comps[i])})
  IN  [k \in DOMAIN firsts |-> ClassOf(comps[firsts[k]])]

\* One line per class, skipped as soon as there is a line.
BomPlan ==
  IF design["line"] /= <<>> THEN <<>>
  ELSE FlattenSeq([k \in DOMAIN ClassesInOrder |->
         CreateMissing("part", <<ClassesInOrder[k]>>)
         \o Create("line", <<ClassesInOrder[k]>>)])

\* One square board: the first length of a mechanical requirement.  The seam
\* rejects an outline without extent.
FloorPlan ==
  LET lengths == Stated("Mechanical", "Length")
      edge == IF lengths = <<>> THEN DefaultEdge ELSE lengths[1]
  IN  IF design["board"] /= <<>> \/ ~ValidBoard(edge) THEN <<>> ELSE Create("board", <<edge>>)

OnBoard(requests) == IF design["board"] = <<>> THEN <<>> ELSE requests

\* The places, in the row of components, of those that have no placement.
Unplaced ==
  LET comps == design["component"]
  IN  Keep([i \in DOMAIN comps |-> i],
        {i \in DOMAIN comps : \A p \in Made("placement") : p.component /= comps[i]})

\* Mutant: the row starts again at every run.
MutantPlacing ==
  OnBoard(Create("placement",
    [k \in DOMAIN Unplaced |-> PlacementAt(k, design["component"][Unplaced[k]])]))

\* Mutant: a component that has its placement is placed again.
MutantPlacingAgain ==
  OnBoard(Create("placement",
    [i \in DOMAIN design["component"] |-> PlacementAt(i, design["component"][i])]))

Placing ==
  OnBoard(Create("placement",
    [k \in DOMAIN Unplaced |-> PlacementAt(Unplaced[k], design["component"][Unplaced[k]])]))

\* A net with a track counts as routed.
Routing ==
  LET unrouted == Keep(design["net"], {net \in Made("net") : TracksOf(net) = <<>>})
  IN  OnBoard(FlattenSeq([k \in DOMAIN unrouted |-> Create("track", ChainOf(unrouted[k]))]))

-----------------------------------------------------------------------------
(* Projections: what lowering a design to an IR insists on *)

Covers(d, c) == ClassOf(c) \in ToSet(d["line"])

BomIr(d) == \A c \in ToSet(d["component"]) : Covers(d, c)

PcbIr(d) ==
  /\ d["board"] /= <<>>
  /\ \A c \in ToSet(d["component"]) : \E p \in ToSet(d["placement"]) : p.component = c

\* The join of the two.
ManufacturingIr(d) == BomIr(d) /\ PcbIr(d)
=============================================================================
