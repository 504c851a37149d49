------------------------------- MODULE Layout -------------------------------
(***************************************************************************)
(* What the helpers of the layout rules compute, against definitions of it: for    *)
(* all segments on a small grid, for all copper on a few pads, and for the design.    *)
(* The phases make one shape of layout only; the rules are written for any.       *)
(***************************************************************************)
EXTENDS Workflow

CONSTANTS
  Side,       \* the coordinates of the grid
  PadRow,     \* placements, no two with the same centre
  OffPad,     \* a point that is the centre of none of them
  MaxTracks   \* how many tracks there may be on them

\* The pads of a net: placements one beside the other.
ASSUME LayoutAssumption ==
  /\ PadRow \in Seq(ToSet(PadRow))
  /\ \A i, j \in DOMAIN PadRow : Centre(PadRow[i]) = Centre(PadRow[j]) => i = j
  /\ MaxTracks \in Nat

-----------------------------------------------------------------------------
(* The distance of two segments *)

Points == [x : Side, y : Side]

Segments == [from : Points, to : Points]

\* Into how many parts a segment is divided, so that the foot of the perpendicular from
\* any point of the grid falls between two of them.
Parts(s) == Max({1, Square(s.from, s.to)})

\* The i-th of the points between the parts of s, all in parts of a unit.
Dividing(s, i, unit) ==
  [x |-> (s.from.x * Parts(s) + i * (s.to.x - s.from.x)) * unit,
   y |-> (s.from.y * Parts(s) + i * (s.to.y - s.from.y)) * unit]

\* Some point of one is nearer than r to some point of the other.  The nearest points of
\* segments that do not cross are an end and an end or a foot; of segments that do,
\* both have such points within 1 of each other.
SomePointsNearer(s, t, r) ==
  \E i \in 0 .. Parts(s), j \in 0 .. Parts(t) :
    Square(Dividing(s, i, Parts(t)), Dividing(t, j, Parts(s)))
      < (r * Parts(s) * Parts(t)) * (r * Parts(s) * Parts(t))

\* On the grid, whether they cross, touch, overlap, are points, or pass each other.
NearnessIsLeastDistance ==
  \A s, t \in Segments, r \in Side \ {0} :
    SegmentsNearer(s, t, r) <=> SomePointsNearer(s, t, r)

\* The copper spacing rule measures the least distance of two segments, of any two:
\* segment_distance is below a bound if and only if they have points that are.  So it
\* finds all copper of two nets that meets at a pad, as soon as a spacing is stated.
CopperRuleIsExact ==
  /\ NearnessIsLeastDistance
  /\ Len(FabricationLengths) >= 3 /\ FabricationLengths[3] > 0 =>
       \A s, t \in Made("track") :
         s.net /= t.net /\ {s.from, s.to} \cap {t.from, t.to} /= {} =>
           {<<"track", s>>, <<"track", t>>} \in {f.subjects : f \in ToSet(DrcCopperClearance)}

-----------------------------------------------------------------------------
(* The connectivity of a net *)

PadCentres == {Centre(PadRow[i]) : i \in DOMAIN PadRow}

Wirings ==
  LET ends == PadCentres \cup {OffPad}
  IN  UNION {[1 .. n -> [from : ends, to : ends]] : n \in 1 .. MaxTracks}

\* No copper leads from some of the pads, and what else it joins to them, to the others.
FallApart(tracks) ==
  \E island \in SUBSET (PadCentres \cup {OffPad}) :
    /\ PadCentres \cap island /= {} /\ ~(PadCentres \subseteq island)
    /\ \A i \in DOMAIN tracks : tracks[i].from \in island <=> tracks[i].to \in island

AllAtPads(tracks) ==
  \A i \in DOMAIN tracks : {tracks[i].from, tracks[i].to} \subseteq PadCentres

\* In any number of pieces, in any order, doubled, closed in itself or ending beside the
\* pads: no open net is missed, and none is called open whose copper joins it from pad to
\* pad.  Copper that meets elsewhere is not followed.
OpenFindsIslands ==
  \A tracks \in Wirings :
    /\ FallApart(tracks) => IsOpen(tracks, PadRow)
    /\ IsOpen(tracks, PadRow) /\ AllAtPads(tracks) => FallApart(tracks)

\* The union-find of DrcNetOpenRule decides connectivity: whatever copper there may be
\* on a few pads, and in whatever order it takes the pads of a net of the design, it finds
\* the net open when the pads fall apart, and only then.
OpenIsCut ==
  /\ OpenFindsIslands
  /\ \A net \in Made("net") : TracksOf(net) /= <<>> =>
       \A nodes \in SetToSeqs(MembersOf(net)) : IsOpen(TracksOf(net), nodes) <=> Cut(net)
=============================================================================
