--------------------------- MODULE MCOrchestrator ---------------------------
(***************************************************************************)
(* Instances of Orchestrator: every plan over a few phase lists, one with a *)
(* repeated name, with at most two loop-back edges that may lead backwards,  *)
(* forwards, to their own phase, or to a phase the plan does not have.       *)
(***************************************************************************)
EXTENDS Orchestrator

CONSTANTS p, q, r, missing, MaxRetries

MCEdge == [from : {p, q, r}, to : {p, q, r, missing}, max_retries : 0 .. MaxRetries]

MCName == {p, q, r, missing}

MCPlansOf(names, edges) ==
  {[names |-> n, loopbacks |-> l] :
     n \in names,
     l \in {<<>>} \cup {<<e>> : e \in edges} \cup {<<e, f>> : e, f \in edges}}

\* A plan whose step cap, 22, wraps modulo 20.
MCWrapping ==
  [names |-> <<p, q, r>>, loopbacks |-> <<[from |-> r, to |-> p, max_retries |-> 6]>>]

MCPlans ==
  MCPlansOf({<<>>, <<p>>, <<p, q>>, <<p, q, p>>, <<p, q, r>>}, MCEdge) \cup {MCWrapping}
=============================================================================
