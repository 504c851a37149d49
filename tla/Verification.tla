---------------------------- MODULE Verification ----------------------------
(***************************************************************************)
(* The verification engine and its rules: what each finds in a design, and     *)
(* the violations that a verification phase raises (eak-engines, eak-phases).    *)
(*                                                                         *)
(* A finding is its rule and its subjects.  The tolerance of a comparison is far   *)
(* below a quarter of a millimetre, and is left out; so is the rounding of the      *)
(* comparisons that have none.                                                *)
(***************************************************************************)
EXTENDS Design

Finding(rule, subjects) == [rule |-> rule, subjects |-> subjects]

\* The findings of a rule that looks at one item at a time: one for each it objects to.
FindEach(rule, kind, items) ==
  [i \in DOMAIN items |-> Finding(rule, {<<kind, items[i]>>})]

\* The pairs i < j of positions, in the order in which two nested loops visit them.
PairsOf(items) ==
  FlattenSeq([i \in DOMAIN items |-> [d \in 1 .. Len(items) - i |-> <<i, i + d>>]])

\* The findings of a rule that looks at two items at a time, for the pairs it
\* objects to.
FindPairs(rule, kind, items, pairs) ==
  [n \in DOMAIN pairs |->
     Finding(rule, {<<kind, items[pairs[n][1]]>>, <<kind, items[pairs[n][2]]>>})]

-----------------------------------------------------------------------------
(* Requirements and constraints *)

\* A ceiling below a floor of the same dimension.
Contradicts(c, d) ==
  LET a == candidates[c].targets[1]
      b == candidates[d].targets[1]
  IN  /\ a.dimension = b.dimension
      /\ {candidates[c].sense, candidates[d].sense} = {"Max", "Min"}
      /\ IF candidates[c].sense = "Max" THEN a.value < b.value ELSE b.value < a.value

ConstraintConsistency ==
  LET cs == design["constraint"]
  IN  FindPairs("constraint-consistency", "constraint", cs,
        Keep(PairsOf(cs), {n \in ToSet(PairsOf(cs)) : Contradicts(cs[n[1]], cs[n[2]])}))

\* The ambient temperature plus what the power heats, against the second
\* temperature stated or 125 degrees.
Overheats(r) ==
  LET theta == TargetsOf(r, "ThermalResistance")
      power == TargetsOf(r, "Power")
      temps == TargetsOf(r, "Temperature")
  IN  /\ theta /= <<>> /\ power /= <<>> /\ temps /= <<>>
      /\ temps[1].value + theta[1].value * power[1].value
           > (IF Len(temps) > 1 THEN temps[2].value ELSE 125)

ThermalJunction ==
  FindEach("thermal-tj", "requirement",
    Keep(design["requirement"],
      {r \in Made("requirement") : candidates[r].category = "Thermal" /\ Overheats(r)}))

-----------------------------------------------------------------------------
(* The schematic and the bill of materials *)

ErcPowerNetUndriven ==
  FindEach("erc-power-net-undriven", "net",
    Keep(design["net"],
      {net \in Made("net") : /\ ConsumersOf(net, Made("component")) /= {}
                            /\ DriversOf(net, Made("component")) = {}}))

ErcMultipleDrivers ==
  FindEach("erc-multiple-drivers", "net",
    Keep(design["net"],
      {net \in Made("net") : Cardinality(DriversOf(net, Made("component"))) >= 2}))

BomCoverage ==
  FindEach("bom-coverage", "component",
    Keep(design["component"], {c \in Made("component") : ~Covers(design, c)}))

\* The catalog's only regulator is end-of-life.
BomLifecycle ==
  FindEach("bom-lifecycle", "line",
    Keep(design["line"], {"Regulator"}))

-----------------------------------------------------------------------------
(* The layout *)

\* The lengths of fabrication requirements, by position: the least width of a trace,
\* the keep-out at the board's edge, the least spacing of copper.
FabricationLengths == Stated("Fabrication", "Length")

BoardEdge == design["board"][1]

DrcOutOfBounds ==
  IF design["board"] = <<>> THEN <<>>
  ELSE FindEach("drc-out-of-bounds", "placement",
         Keep(design["placement"],
           {p \in Made("placement") : \/ p.x < 0 \/ p.y < 0
                                     \/ p.x + p.edge > BoardEdge \/ p.y + p.edge > BoardEdge}))

\* Touching is no overlap.
Overlap(p, q) ==
  /\ p.x < q.x + q.edge /\ q.x < p.x + p.edge
  /\ p.y < q.y + q.edge /\ q.y < p.y + p.edge

DrcCourtyardOverlap ==
  LET ps == design["placement"]
  IN  FindPairs("drc-courtyard-overlap", "placement", ps,
        Keep(PairsOf(ps), {n \in ToSet(PairsOf(ps)) : Overlap(ps[n[1]], ps[n[2]])}))

DrcTraceWidth ==
  IF FabricationLengths = <<>> THEN <<>>
  ELSE FindEach("drc-trace-width", "track",
         Keep(design["track"], {t \in Made("track") : t.width < FabricationLengths[1]}))

DrcUnroutedNet ==
  FindEach("drc-unrouted-net", "net",
    Keep(design["net"], {net \in Made("net") : TracksOf(net) = <<>>}))

\* find of the disjoint set, which halves the path it follows.  Each turn of its loop
\* goes up, so there are fewer turns than nodes.
Find(parent, x) ==
  LET at[n \in 0 .. Len(parent)] ==
        IF n = 0 THEN [node |-> x, parent |-> parent]
        ELSE LET last == at[n - 1]
                 up == last.parent[last.node]
             IN  IF up = last.node THEN last
                 ELSE [node   |-> last.parent[up],
                       parent |-> [last.parent EXCEPT ![last.node] = last.parent[up]]]
  IN  at[Len(parent)]

\* Mutant: nodes are joined, not the roots above them.
MutantUnion(parent, a, b) == [parent EXCEPT ![a] = b]

Union(parent, a, b) ==
  LET fa == Find(parent, a)
      fb == Find(fa.parent, b)
  IN  IF fa.node = fb.node THEN fb.parent
      ELSE [fb.parent EXCEPT ![fa.node] = fb.node]

ComponentCount(parent) ==
  LET found[n \in 0 .. Len(parent)] ==
        IF n = 0 THEN [roots |-> {}, parent |-> parent]
        ELSE LET f == Find(found[n - 1].parent, n)
             IN  [roots |-> found[n - 1].roots \cup {f.node}, parent |-> f.parent]
  IN  Cardinality(found[Len(parent)].roots)

\* The nodes whose centre is at the end of a track.
NodesAt(point, nodes) == {i \in DOMAIN nodes : Centre(nodes[i]) = point}

\* The first of them, as the code looks for it.
NodeAt(point, nodes) == Min(NodesAt(point, nodes))

\* The nodes in the sets that the tracks join them to.
Joined(tracks, nodes) ==
  LET after[n \in 0 .. Len(tracks)] ==
        IF n = 0 THEN [i \in DOMAIN nodes |-> i]
        ELSE LET t == tracks[n]
             IN  IF NodesAt(t.from, nodes) = {} \/ NodesAt(t.to, nodes) = {} THEN after[n - 1]
                 ELSE Union(after[n - 1], NodeAt(t.from, nodes), NodeAt(t.to, nodes))
  IN  after[Len(tracks)]

\* There is copper, which leaves two of the nodes apart.
IsOpen(tracks, nodes) ==
  /\ Len(nodes) >= 2
  /\ tracks /= <<>>
  /\ ComponentCount(Joined(tracks, nodes)) > 1

\* The nodes are in the order of their ids, which says nothing: any order.
DrcNetOpen ==
  FindEach("drc-net-open", "net",
    Keep(design["net"],
      {net \in Made("net") : IsOpen(TracksOf(net), SetToSeq(MembersOf(net)))}))

\* The signed area of a triangle, twice.
Orient(a, b, c) == (b.x - a.x) * (c.y - a.y) - (b.y - a.y) * (c.x - a.x)

Crosses(s, t) ==
  /\ Orient(t.from, t.to, s.from) * Orient(t.from, t.to, s.to) < 0
  /\ Orient(s.from, s.to, t.from) * Orient(s.from, s.to, t.to) < 0

Square(a, b) == (a.x - b.x) * (a.x - b.x) + (a.y - b.y) * (a.y - b.y)

\* Mutant: the foot of the perpendicular may be beyond an end.
MutantPointNearer(p, s, r) ==
  LET across == Orient(s.from, s.to, p)
  IN  across * across < r * r * Square(s.from, s.to)

\* The point is nearer than r to the segment: to its start, to its end, or to the
\* foot of the perpendicular between them.
PointNearer(p, s, r) ==
  LET length == Square(s.from, s.to)
      along == (p.x - s.from.x) * (s.to.x - s.from.x) + (p.y - s.from.y) * (s.to.y - s.from.y)
      across == Orient(s.from, s.to, p)
  IN  CASE along <= 0      -> Square(p, s.from) < r * r
        [] along >= length -> Square(p, s.to) < r * r
        [] OTHER           -> across * across < r * r * length

\* The segments are nearer than r to each other.
SegmentsNearer(s, t, r) ==
  \/ Crosses(s, t)
  \/ PointNearer(s.from, t, r) \/ PointNearer(s.to, t, r)
  \/ PointNearer(t.from, s, r) \/ PointNearer(t.to, s, r)

\* Mutant: only a net's own copper is looked at.
MutantTooNear(s, t, space) ==
  s.net = t.net /\ SegmentsNearer(s, t, space + (s.width + t.width) \div 2)

\* Copper of two nets, from edge to edge.  All of it is on the top side.
TooNear(s, t, space) ==
  s.net /= t.net /\ SegmentsNearer(s, t, space + (s.width + t.width) \div 2)

DrcCopperClearance ==
  LET ts == design["track"]
  IN  IF Len(FabricationLengths) < 3 THEN <<>>
      ELSE FindPairs("drc-copper-clearance", "track", ts,
             Keep(PairsOf(ts),
               {n \in ToSet(PairsOf(ts)) : TooNear(ts[n[1]], ts[n[2]], FabricationLengths[3])}))

\* Half a millimetre, if no fabrication requirement states it.
EdgeKeepout == IF Len(FabricationLengths) < 2 THEN 2 ELSE FabricationLengths[2]

\* Mutant: only the left and the lower edge are looked at.
MutantNearEdge(from, to) == from < EdgeKeepout

\* From and to are the extent of something in one axis.
NearEdge(from, to) == from < EdgeKeepout \/ to > BoardEdge - EdgeKeepout

DfmEdgeClearance ==
  IF design["board"] = <<>> THEN <<>>
  ELSE FindEach("dfm-edge-clearance", "placement",
         Keep(design["placement"],
           {p \in Made("placement") : NearEdge(p.x, p.x + p.edge) \/ NearEdge(p.y, p.y + p.edge)}))

DfmTraceEdgeClearance ==
  IF design["board"] = <<>> THEN <<>>
  ELSE FindEach("dfm-trace-edge-clearance", "track",
         Keep(design["track"],
           {t \in Made("track") : \E v \in {t.from.x, t.from.y, t.to.x, t.to.y} :
             NearEdge(v - t.width \div 2, v + t.width \div 2)}))

\* The square of a tenth of the light's way in a period of 1 GHz, 29.979 mm, rounded
\* down: a product of integers is above the one if and only if it is above the other.
CriticalSquare == 14380

\* A track longer than a tenth of the wavelength at the highest frequency that any
\* requirement states; if none of them is positive, that is the finding.
EmcAntennaLength ==
  LET stating == {r \in Made("requirement") : TargetsOf(r, "Frequency") /= <<>>}
      frequencies == {t.value : t \in UNION {ToSet(TargetsOf(r, "Frequency")) : r \in stating}}
      highest == Max(frequencies)
  IN  CASE stating = {} -> <<>>
        [] stating /= {} /\ highest = 0 ->
             <<Finding("emc-antenna-length", {<<"requirement", r>> : r \in stating})>>
        [] OTHER ->
             FindEach("emc-antenna-length", "track",
               Keep(design["track"],
                 {t \in Made("track") : Square(t.from, t.to) * highest * highest > CriticalSquare}))

-----------------------------------------------------------------------------
(* The engine and the violations *)

\* The rules each verification phase registers, in order.
RulesOf(phase) ==
  CASE phase = "ConstraintVerification" -> <<"constraint-consistency", "thermal-tj">>
    [] phase = "ErcVerification" -> <<"erc-power-net-undriven", "erc-multiple-drivers">>
    [] phase = "BomVerification" -> <<"bom-coverage", "bom-lifecycle">>
    [] phase = "DrcVerification" ->
         <<"drc-out-of-bounds", "drc-courtyard-overlap", "drc-trace-width",
           "drc-unrouted-net", "drc-net-open", "drc-copper-clearance",
           "drc-ampacity-width", "drc-impedance-match">>
    [] phase = "DfmVerification" -> <<"dfm-edge-clearance", "dfm-trace-edge-clearance">>
    [] phase = "EmcAnalysis" -> <<"emc-antenna-length">>

\* The nets that are made state no current and no impedance, and without one the
\* last two rules find nothing.
Evaluate(rule) ==
  CASE rule = "constraint-consistency"   -> ConstraintConsistency
    [] rule = "thermal-tj"               -> ThermalJunction
    [] rule = "erc-power-net-undriven"   -> ErcPowerNetUndriven
    [] rule = "erc-multiple-drivers"     -> ErcMultipleDrivers
    [] rule = "bom-coverage"             -> BomCoverage
    [] rule = "bom-lifecycle"            -> BomLifecycle
    [] rule = "drc-out-of-bounds"        -> DrcOutOfBounds
    [] rule = "drc-courtyard-overlap"    -> DrcCourtyardOverlap
    [] rule = "drc-trace-width"          -> DrcTraceWidth
    [] rule = "drc-unrouted-net"         -> DrcUnroutedNet
    [] rule = "drc-net-open"             -> DrcNetOpen
    [] rule = "drc-copper-clearance"     -> DrcCopperClearance
    [] rule = "dfm-edge-clearance"       -> DfmEdgeClearance
    [] rule = "dfm-trace-edge-clearance" -> DfmTraceEdgeClearance
    [] rule = "emc-antenna-length"       -> EmcAntennaLength
    [] rule = "drc-ampacity-width"       -> <<>>
    [] rule = "drc-impedance-match"      -> <<>>

\* The findings of the verification engine of a phase.
Findings(phase) ==
  FlattenSeq([i \in DOMAIN RulesOf(phase) |-> Evaluate(RulesOf(phase)[i])])

\* Mutant: one violation per rule.
MutantRaising(phase) ==
  Create("violation",
    Keep(Findings(phase),
      {f \in ToSet(Findings(phase)) : \A v \in Made("violation") : v.rule /= f.rule}))

\* Mutant: what is found is waived, not raised.
MutantWaiving(phase) == CreateMissing("waiver", Findings(phase))

\* The violations it raises: what no violation, open or waived, records yet.
Raising(phase) == CreateMissing("violation", Findings(phase))

\* The violations that nobody has waived.  All are errors: no part of the catalog
\* is one that the rules only warn about.
OpenBlocking(d) == ToSet(d["violation"]) \ ToSet(d["waiver"])

\* Mutant: a waived violation still blocks.
MutantOwnOpenBlocking(phase, d) ==
  {v \in ToSet(d["violation"]) : v.rule \in ToSet(RulesOf(phase))}

OwnOpenBlocking(phase, d) ==
  {v \in OpenBlocking(d) : v.rule \in ToSet(RulesOf(phase))}
=============================================================================
