---------------------------- MODULE Orchestrator ----------------------------
(***************************************************************************)
(* The workflow orchestrator: the loop of Orchestrator::run, which drives a *)
(* phase plan to its end, re-entering an earlier phase through a loop-back   *)
(* edge when a phase fails and the edge has retry budget left.               *)
(*                                                                         *)
(* A phase is opaque here: whenever it runs it may succeed or fail.  The    *)
(* plan is the argument of run; it is a variable so that one model-checking  *)
(* run can range over many plans, and no action changes it.  Positions are   *)
(* 1-based, as sequences are.                                               *)
(***************************************************************************)
EXTENDS Naturals, Sequences, FiniteSets

CONSTANTS
  PhaseName,    \* phase names
  Plans,        \* the plans run may be given
  U32,          \* the modulus of u32 arithmetic: 2^32 in the program
  WorkflowMark  \* the name "<workflow>", the pseudo-phase of the cap's result

LoopBack == [from : PhaseName, to : PhaseName, max_retries : 0 .. U32 - 1]

WorkflowPlan == [names : Seq(PhaseName), loopbacks : Seq(LoopBack)]

ASSUME PlansAssumption ==
  /\ U32 \in Nat \ {0}
  /\ Plans \subseteq WorkflowPlan
  /\ WorkflowMark \notin PhaseName

VARIABLES
  plan,     \* [names, loopbacks]
  cursor,   \* the phase the next iteration runs
  steps,    \* iterations so far
  used,     \* retry budget consumed, per loop-back edge
  results,  \* the log run returns: every phase execution, in order
  pc        \* "running" or "returned"

vars == <<plan, cursor, steps, used, results, pc>>

-----------------------------------------------------------------------------
(* The plan *)

Positions == DOMAIN plan.names
Edges == DOMAIN plan.loopbacks
NumPhases == Len(plan.names)

\* One token per retry that the plan's edges allow.
Tokens(p) ==
  UNION {{e} \X (1 .. p.loopbacks[e].max_retries) : e \in DOMAIN p.loopbacks}

\* The sum of the edges' max_retries, counted as tokens.
TotalRetries(p) == Cardinality(Tokens(p))

\* Mutant: the cap forgets that a retry re-runs every phase.
MutantCap(p) == (Len(p.names) + TotalRetries(p) + 1) % U32

\* The step cap, in wrapping u32 arithmetic.
Cap(p) == (Len(p.names) * (TotalRetries(p) + 1) + 1) % U32

NoOverflow(p) == Len(p.names) * (TotalRetries(p) + 1) + 1 < U32

\* i is the index index_of returns for the name: its first occurrence.
IsIndexOf(i, name) ==
  /\ plan.names[i] = name
  /\ \A j \in Positions : plan.names[j] = name => i <= j

Resolvable(name) == \E i \in Positions : plan.names[i] = name

-----------------------------------------------------------------------------
Init ==
  /\ plan \in Plans
  /\ cursor = 1
  /\ steps = 0
  /\ used = [e \in Edges |-> 0]
  /\ results = <<>>
  /\ pc = "running"

(* The while condition holds and this iteration is within the cap. *)
Iterates ==
  /\ pc = "running"
  /\ cursor <= NumPhases
  /\ steps + 1 <= Cap(plan)

Record(name, outcome) ==
  results' = Append(results, [phase |-> name, outcome |-> outcome])

\* Mutant: an edge recovers however often it has been used.
MutantRecoveries ==
  {e \in Edges : /\ plan.loopbacks[e].from = plan.names[cursor]
                 /\ Resolvable(plan.loopbacks[e].to)}

\* Mutant: only the first edge from the phase is looked at.
MutantFirstRecovery ==
  {e \in Edges : /\ plan.loopbacks[e].from = plan.names[cursor]
                 /\ \A f \in Edges :
                      plan.loopbacks[f].from = plan.names[cursor] => e <= f
                 /\ used[e] < plan.loopbacks[e].max_retries
                 /\ Resolvable(plan.loopbacks[e].to)}

\* The edges that may recover from a failure of the phase under the cursor.
Recoveries ==
  {e \in Edges : /\ plan.loopbacks[e].from = plan.names[cursor]
                 /\ used[e] < plan.loopbacks[e].max_retries
                 /\ Resolvable(plan.loopbacks[e].to)}

PhaseSucceeds ==
  /\ Iterates
  /\ steps' = steps + 1
  /\ Record(plan.names[cursor], "Success")
  /\ cursor' = cursor + 1
  /\ UNCHANGED <<plan, used, pc>>

\* Mutant: the run goes on after the failed phase.
MutantLoopsBack(e) ==
  /\ Iterates
  /\ e \in Recoveries
  /\ steps' = steps + 1
  /\ Record(plan.names[cursor], "Failed")
  /\ used' = [used EXCEPT ![e] = @ + 1]
  /\ cursor' = cursor + 1
  /\ UNCHANGED <<plan, pc>>

\* Mutant: the retry is not charged.
MutantFreeLoopsBack(e) ==
  /\ Iterates
  /\ e \in Recoveries
  /\ \A f \in Recoveries : e <= f
  /\ steps' = steps + 1
  /\ Record(plan.names[cursor], "Failed")
  /\ \E i \in Positions : /\ IsIndexOf(i, plan.loopbacks[e].to)
                          /\ cursor' = i
  /\ UNCHANGED <<plan, used, pc>>

(* The phase fails and e is the first edge that can recover from it. *)
LoopsBack(e) ==
  /\ Iterates
  /\ e \in Recoveries
  /\ \A f \in Recoveries : e <= f
  /\ steps' = steps + 1
  /\ Record(plan.names[cursor], "Failed")
  /\ used' = [used EXCEPT ![e] = @ + 1]
  /\ \E i \in Positions : /\ IsIndexOf(i, plan.loopbacks[e].to)
                          /\ cursor' = i
  /\ UNCHANGED <<plan, pc>>

(* The phase fails and no edge recovers from it: the workflow fails here. *)
Stops ==
  /\ Iterates
  /\ Recoveries = {}
  /\ steps' = steps + 1
  /\ Record(plan.names[cursor], "Failed")
  /\ pc' = "returned"
  /\ UNCHANGED <<plan, cursor, used>>

(* The phase under the cursor fails, and the loop deals with it. *)
PhaseFails == Stops \/ \E e \in Edges : LoopsBack(e)

CapExceeded ==
  /\ pc = "running"
  /\ cursor <= NumPhases
  /\ steps + 1 > Cap(plan)
  /\ steps' = steps + 1
  /\ Record(WorkflowMark, "Failed")
  /\ pc' = "returned"
  /\ UNCHANGED <<plan, cursor, used>>

\* Mutant: the end of the plan is off by one.
MutantFinishes ==
  /\ pc = "running"
  /\ cursor > NumPhases + 1
  /\ pc' = "returned"
  /\ UNCHANGED <<plan, cursor, steps, used, results>>

(* The cursor has passed the last phase: run returns its log. *)
Finishes ==
  /\ pc = "running"
  /\ cursor > NumPhases
  /\ pc' = "returned"
  /\ UNCHANGED <<plan, cursor, steps, used, results>>

Next ==
  \/ PhaseSucceeds
  \/ \E e \in Edges : LoopsBack(e)
  \/ Stops
  \/ CapExceeded
  \/ Finishes

Spec == Init /\ [][Next]_vars

(* run is a loop on one thread, and each phase run returns (its own step     *)
(* budget sees to that): the loop is never left waiting.                     *)
FairSpec == Spec /\ WF_vars(Next)
-----------------------------------------------------------------------------
(* Properties *)

\* The budget consumed so far, as a subset of the plan's tokens.
UsedTokens == UNION {{e} \X (1 .. used[e]) : e \in Edges}

DistinctNames ==
  \A i, j \in Positions : plan.names[i] = plan.names[j] => i = j

\* Every edge leads to its own phase or to an earlier one, as all six edges of
\* default_workflow do.
EdgesGoBack ==
  \A e \in Edges : \A i, j \in Positions :
    /\ plan.names[i] = plan.loopbacks[e].from
    /\ IsIndexOf(j, plan.loopbacks[e].to)
    => j <= i

Result == [phase : PhaseName \cup {WorkflowMark}, outcome : {"Success", "Failed"}]

\* The types of the loop's variables; a phase index never leaves the plan.
TypeOK ==
  /\ plan \in Plans
  /\ cursor \in 1 .. NumPhases + 1
  /\ steps \in Nat
  /\ used \in [Edges -> Nat]
  /\ \A e \in Edges : used[e] <= plan.loopbacks[e].max_retries
  /\ results \in Seq(Result)
  /\ pc \in {"running", "returned"}

\* The step cap is never what ends a run: as long as the cap itself fits in a
\* u32, the retry budgets end the loop first (orchestrator.rs, lines 70-72: the
\* cap "bounds the total executions well above" the worst case).
CapNeverExceeded ==
  NoOverflow(plan) =>
    \A k \in DOMAIN results : results[k].phase /= WorkflowMark

Runs(i) == {k \in DOMAIN results : results[k].phase = plan.names[i]}

\* Execution k of phase i succeeded and nothing up to phase i has run since.
StandsPassed(i, k) ==
  /\ k \in Runs(i)
  /\ results[k].outcome = "Success"
  /\ \A j \in 1 .. i : \A l \in Runs(j) : l <= k

\* Rework invalidates what it passes over: every phase before the cursor has a
\* success that no execution of it or of an earlier phase has followed, so a
\* gate downstream of a reworked phase has been re-run before the run goes on.
UpstreamPassed ==
  DistinctNames /\ EdgesGoBack =>
    \A i \in 1 .. cursor - 1 : \E k \in DOMAIN results : StandsPassed(i, k)

\* Every failed execution either spent exactly one retry or is the one that
\* ended the run: no failure is forgiven for free and none is charged twice.
FailuresPaidFor ==
  NoOverflow(plan) =>
    Cardinality({k \in DOMAIN results : results[k].outcome = "Failed"})
      = Cardinality(UsedTokens)
        + (IF pc = "returned" /\ cursor <= NumPhases THEN 1 ELSE 0)

\* A phase runs at most once more for each retry spent on an edge that leads
\* back over it ("a phase re-runs once per retry that can reach it").
RerunsPaidFor ==
  DistinctNames /\ EdgesGoBack =>
    \A i \in Positions :
      Cardinality(Runs(i)) <= 1 + Cardinality(
        {t \in UsedTokens :
           /\ \E j \in 1 .. i : plan.names[j] = plan.loopbacks[t[1]].to
           /\ \E j \in i .. NumPhases : plan.names[j] = plan.loopbacks[t[1]].from})

\* The workflow gives up on a failed phase only when every edge that leads from
\* it to a phase of the plan has spent its whole budget.
GivesUpLast ==
  pc = "returned" /\ cursor <= NumPhases /\ NoOverflow(plan) =>
    /\ results[Len(results)] = [phase |-> plan.names[cursor], outcome |-> "Failed"]
    /\ \A e \in Edges :
         /\ plan.loopbacks[e].from = plan.names[cursor]
         /\ Resolvable(plan.loopbacks[e].to)
         => used[e] = plan.loopbacks[e].max_retries

\* run returns, whatever the plan and whichever phases fail: no plan makes the
\* loop-back edges cycle for ever (orchestrator.rs, line 6).
Terminates == <>(pc = "returned")

(* The bookkeeping implements the promise of ReworkLoop. *)
Loop == INSTANCE ReworkLoop WITH
  size     <- NumPhases,
  position <- cursor,
  retries  <- TotalRetries(plan) - Cardinality(UsedTokens),
  status   <- IF pc = "running" THEN "running"
              ELSE IF cursor > NumPhases THEN "passed" ELSE "failed"

\* Every step of the loop is a step of ReworkLoop: forward by one phase, or
\* back at the cost of one retry of a finite stock, or an end.
ImplementsReworkLoop == Loop!Spec
=============================================================================
