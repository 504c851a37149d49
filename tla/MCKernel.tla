------------------------------ MODULE MCKernel ------------------------------
(***************************************************************************)
(* Instances of Kernel: small designs, each a set of requests that may come   *)
(* in any order, with requests that the seam must refuse among them.          *)
(***************************************************************************)
EXTENDS Readers

CONSTANTS i1, r1, r2, ev1, d1, k1, k2, k3, k4, k5, c1, v1, w1, a1, b1, u1, p1, n1, m1, l1, l2, o1, s1, s2, t1

MCId == {i1, r1, r2, ev1, d1, k1, k2, k3, k4, k5, c1, v1, w1, a1, b1, u1, p1, n1, m1, l1, l2, o1, s1, s2, t1}

MCEntity(kind, id, names) ==
  [kind |-> kind, id |-> id, names |-> names, finite |-> TRUE, waived |-> FALSE]

MCRequest(entity) ==
  [entity |-> entity, valid |-> TRUE, evidence |-> <<>>, decision |-> <<>>,
   pins |-> <<>>, links |-> <<>>]

MCIntents == {MCEntity("intent", i1, {})}

MCLink(id, from, to) == MCEntity("link", id, {from, to})

\* A requirement with its evidence, its decision and the links of the agent.
MCRequirement ==
  [MCRequest(MCEntity("requirement", r1, {<<"intent", i1>>})) EXCEPT
     !.evidence = <<MCEntity("evidence", ev1, {})>>,
     !.decision = <<MCEntity("decision", d1, {<<"requirement", r1>>, <<"evidence", ev1>>})>>,
     !.links = <<MCLink(k2, <<"requirement", r1>>, <<"decision", d1>>),
                 MCLink(k3, <<"requirement", r1>>, <<"intent", i1>>),
                 MCLink(k4, <<"decision", d1>>, <<"evidence", ev1>>)>>]

MCBlock == MCRequest(MCEntity("block", b1, {<<"requirement", r1>>}))

MCComponent ==
  [MCRequest(MCEntity("component", u1, {<<"block", b1>>})) EXCEPT
     !.pins = <<MCEntity("pin", p1, {<<"component", u1>>})>>,
     !.links = <<MCLink(k5, <<"component", u1>>, <<"block", b1>>)>>]

MCPlacement ==
  [MCRequest(MCEntity("placement", s1, {<<"component", u1>>})) EXCEPT
     !.links = <<MCLink(k1, <<"placement", s1>>, <<"component", u1>>)>>]

MCBoard == MCRequest(MCEntity("board", o1, {}))

MCWaiver == MCRequest(MCEntity("waiver", w1, {<<"violation", v1>>}))

\* A component that two requests place; its requirement names no source.
MCPlacing ==
  {MCRequest(MCEntity("requirement", r1, {})), MCBlock, MCComponent, MCBoard, MCPlacement,
   MCRequest(MCEntity("placement", s2, {<<"component", u1>>}))}

\* A constraint, a violation of it and the waiver, and an event of an engine.
MCVerifying ==
  {MCRequest(MCEntity("requirement", r2, {})),
   MCRequest(MCEntity("constraint", c1, {<<"requirement", r2>>})),
   MCRequest(MCEntity("violation", v1, {<<"constraint", c1>>})), MCWaiver,
   MCRequest(MCEntity("audit", a1, {}))}

MCBoth == MCPlacing \cup MCVerifying

\* A log and the process that writes it have the requests of one of the two.
OneOfTheTwo ==
  LET written == issued' \cup NamesOf(EventsOf(records'))
      apart(names) == written \cap names = {}
  IN  \/ apart({<<"requirement", r1>>, <<"board", o1>>})
      \/ apart({<<"requirement", r2>>, <<"violation", v1>>, <<"audit", a1>>})

\* A whole design: two lines of the bill of materials for one component, its placement,
\* a net with a track, and a waived violation of the component.
MCDesigning ==
  {MCRequirement, MCBlock, MCComponent, MCBoard, MCPlacement, MCWaiver,
   MCRequest(MCEntity("part", m1, {})),
   MCRequest(MCEntity("line", l1, {<<"part", m1>>, <<"component", u1>>})),
   MCRequest(MCEntity("line", l2, {<<"part", m1>>, <<"component", u1>>})),
   MCRequest(MCEntity("net", n1, {<<"pin", p1>>})),
   MCRequest(MCEntity("track", t1, {<<"net", n1>>})),
   MCRequest(MCEntity("violation", v1, {<<"component", u1>>}))}
=============================================================================
