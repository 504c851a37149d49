------------------------- MODULE MCExecutionEngine -------------------------
(* Instances of ExecutionEngine for TLC. *)
EXTENDS ExecutionEngine

MCName == {"plan", "verify"}

MCPlan(retries) ==
  [names |-> <<"plan", "verify">>,
   loopbacks |-> <<[from |-> "verify", to |-> "plan", max_retries |-> retries]>>]

\* A phase, and a gate with one loop-back to it: one retry, and as many as make the
\* step cap wrap if the arithmetic is modulo 8.
MCPlans == {MCPlan(1), MCPlan(3)}
=============================================================================
