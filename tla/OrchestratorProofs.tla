------------------------- MODULE OrchestratorProofs -------------------------
(***************************************************************************)
(* Proofs about Orchestrator, for every set of plans and every u32 width.    *)
(***************************************************************************)
EXTENDS Orchestrator, FiniteSetTheorems, TLAPS

-----------------------------------------------------------------------------
(* Arithmetic *)

(* A number below the modulus is its own remainder. *)
LEMMA ModOfSmall ==
  ASSUME NEW x \in Nat, NEW m \in Nat, x < m
  PROVE  x % m = x
BY Z3

(* Multiplication is monotonic in its second factor. *)
LEMMA TimesMonotonic ==
  ASSUME NEW n \in Nat, NEW a \in Nat, NEW b \in Nat, a <= b
  PROVE  n * a <= n * b /\ n * a \in Nat /\ n * b \in Nat
BY Z3

(* One more retry is one more pass over the plan. *)
LEMMA TimesSuccessor ==
  ASSUME NEW n \in Nat, NEW a \in Nat
  PROVE  n * (a + 1) = n * a + n /\ n * a \in Nat
BY Z3

-----------------------------------------------------------------------------
(* Tokens *)

(* The plan's edges are loop-back records, and there are finitely many. *)
LEMMA PlanShape ==
  ASSUME NEW p \in WorkflowPlan
  PROVE  /\ Len(p.names) \in Nat
         /\ DOMAIN p.names = 1 .. Len(p.names)
         /\ \A i \in DOMAIN p.names : p.names[i] \in PhaseName
         /\ Len(p.loopbacks) \in Nat
         /\ DOMAIN p.loopbacks = 1 .. Len(p.loopbacks)
         /\ \A e \in DOMAIN p.loopbacks :
              /\ p.loopbacks[e].max_retries \in 0 .. U32 - 1
              /\ p.loopbacks[e].to \in PhaseName
<1>1. p.loopbacks \in Seq(LoopBack) /\ p.names \in Seq(PhaseName)
  BY DEF WorkflowPlan
<1>2. /\ Len(p.names) \in Nat
      /\ DOMAIN p.names = 1 .. Len(p.names)
      /\ \A i \in DOMAIN p.names : p.names[i] \in PhaseName
  BY <1>1
<1>3. /\ Len(p.loopbacks) \in Nat
      /\ DOMAIN p.loopbacks = 1 .. Len(p.loopbacks)
      /\ \A e \in DOMAIN p.loopbacks : p.loopbacks[e] \in LoopBack
  BY <1>1
<1>4. \A l \in LoopBack : l.max_retries \in 0 .. U32 - 1 /\ l.to \in PhaseName
  BY DEF LoopBack
<1>5. QED
  BY <1>2, <1>3, <1>4

(* A plan's retry tokens are finitely many. *)
LEMMA TokensFinite ==
  ASSUME NEW p \in WorkflowPlan, U32 \in Nat
  PROVE  IsFiniteSet(Tokens(p)) /\ TotalRetries(p) \in Nat
<1> DEFINE Grid == (1 .. Len(p.loopbacks)) \X (1 .. U32)
<1>1. IsFiniteSet(Grid)
  <2>1. IsFiniteSet(1 .. Len(p.loopbacks)) /\ IsFiniteSet(1 .. U32)
    BY PlanShape, FS_Interval
  <2>2. QED
    BY <2>1, FS_Product
<1>2. Tokens(p) \subseteq Grid
  <2>1. \A e \in DOMAIN p.loopbacks : {e} \X (1 .. p.loopbacks[e].max_retries) \subseteq Grid
    BY PlanShape
  <2>2. QED
    BY <2>1 DEF Tokens
<1>3. QED
  BY <1>1, <1>2, FS_Subset, FS_CardinalityType DEF TotalRetries

-----------------------------------------------------------------------------
(* Types *)

(* The plan of a run is a plan. *)
LEMMA PlanOfTypeOK ==
  ASSUME PlansAssumption, TypeOK
  PROVE  plan \in WorkflowPlan /\ U32 \in Nat
BY DEF PlansAssumption, TypeOK

(* Every step keeps the types. *)
LEMMA TypeStep ==
  ASSUME PlansAssumption, TypeOK, Next
  PROVE  TypeOK'
<1> USE DEF NumPhases, Positions, Edges
<1>0. plan \in WorkflowPlan
  BY PlanOfTypeOK
<1>1. /\ Len(plan.names) \in Nat
      /\ DOMAIN plan.names = 1 .. Len(plan.names)
      /\ \A i \in DOMAIN plan.names : plan.names[i] \in PhaseName
      /\ \A e \in DOMAIN plan.loopbacks : plan.loopbacks[e].max_retries \in Nat
  BY <1>0, PlanShape DEF PlansAssumption
<1>2. \A name \in PhaseName \cup {WorkflowMark}, outcome \in {"Success", "Failed"} :
        Record(name, outcome) => results' \in Seq(Result)
  BY DEF Record, Result, TypeOK
<1>3. CASE PhaseSucceeds
  <2>1. results' \in Seq(Result)
    BY <1>1, <1>2, <1>3 DEF PhaseSucceeds, Iterates, TypeOK
  <2>2. QED
    BY <1>1, <1>3, <2>1 DEF PhaseSucceeds, Iterates, TypeOK
<1>4. ASSUME NEW e \in Edges, LoopsBack(e) PROVE TypeOK'
  <2>0. cursor \in DOMAIN plan.names /\ Record(plan.names[cursor], "Failed")
    BY <1>1, <1>4 DEF LoopsBack, Iterates, TypeOK
  <2>1. results' \in Seq(Result)
    BY <1>1, <1>2, <2>0
  <2>2. cursor' \in 1 .. Len(plan.names)
    BY <1>1, <1>4 DEF LoopsBack
  <2>3. /\ used' \in [DOMAIN plan.loopbacks -> Nat]
        /\ \A f \in DOMAIN plan.loopbacks : used'[f] <= plan.loopbacks[f].max_retries
    BY <1>1, <1>4 DEF LoopsBack, Recoveries, TypeOK
  <2>4. QED
    BY <1>1, <1>4, <2>1, <2>2, <2>3 DEF LoopsBack, TypeOK
<1>5. CASE Stops
  <2>1. results' \in Seq(Result)
    BY <1>1, <1>2, <1>5 DEF Stops, Iterates, TypeOK
  <2>2. QED
    BY <1>1, <1>5, <2>1 DEF Stops, Iterates, TypeOK
<1>6. CASE CapExceeded
  <2>1. results' \in Seq(Result)
    BY <1>2, <1>6 DEF CapExceeded
  <2>2. QED
    BY <1>1, <1>6, <2>1 DEF CapExceeded, TypeOK
<1>7. CASE Finishes
  BY <1>1, <1>7 DEF Finishes, TypeOK
<1>8. QED
  BY <1>3, <1>4, <1>5, <1>6, <1>7 DEF Next

(* A run starts well typed. *)
LEMMA TypeInit ==
  ASSUME PlansAssumption, Init
  PROVE  TypeOK
<1>1. plan \in WorkflowPlan
  BY DEF PlansAssumption, Init
<1>2. /\ Len(plan.names) \in Nat
      /\ \A e \in DOMAIN plan.loopbacks : plan.loopbacks[e].max_retries \in Nat
  BY <1>1, PlanShape DEF PlansAssumption
<1>3. QED
  BY <1>2 DEF Init, TypeOK, NumPhases, Edges

(* The loop's variables keep their types, and neither a phase index leaves the *)
(* plan nor an edge's count its budget.                                         *)
THEOREM TypeCorrect == Spec => []TypeOK
<1>1. Init => TypeOK
  BY TypeInit, PlansAssumption
<1>2. TypeOK /\ [Next]_vars => TypeOK'
  <2>1. CASE Next
    BY <2>1, TypeStep, PlansAssumption
  <2>2. CASE UNCHANGED vars
    BY <2>2 DEF vars, TypeOK, NumPhases, Edges
  <2>3. QED
    BY <2>1, <2>2
<1>3. QED
  BY <1>1, <1>2, PTL DEF Spec

-----------------------------------------------------------------------------
(* Spent retries *)

(* Counts within the budgets stand for some of the plan's tokens: finitely     *)
(* many, and no more than the plan allows.                                     *)
LEMMA SpentTokensBounded ==
  ASSUME PlansAssumption, NEW p \in WorkflowPlan, NEW u,
         \A e \in DOMAIN p.loopbacks : u[e] \in Nat /\ u[e] <= p.loopbacks[e].max_retries
  PROVE  LET spent == UNION {{e} \X (1 .. u[e]) : e \in DOMAIN p.loopbacks}
         IN  /\ IsFiniteSet(spent)
             /\ Cardinality(spent) \in Nat
             /\ TotalRetries(p) \in Nat
             /\ Cardinality(spent) <= TotalRetries(p)
<1> DEFINE spent == UNION {{e} \X (1 .. u[e]) : e \in DOMAIN p.loopbacks}
<1>1. IsFiniteSet(Tokens(p)) /\ TotalRetries(p) \in Nat
  BY TokensFinite DEF PlansAssumption
<1>2. spent \subseteq Tokens(p)
  <2>1. \A e \in DOMAIN p.loopbacks : p.loopbacks[e].max_retries \in Nat
    BY PlanShape
  <2>2. \A e \in DOMAIN p.loopbacks : 1 .. u[e] \subseteq 1 .. p.loopbacks[e].max_retries
    BY <2>1
  <2>3. QED
    BY <2>2 DEF Tokens
<1>3. QED
  BY <1>1, <1>2, FS_Subset, FS_CardinalityType DEF TotalRetries

(* The tokens spent are a finite part of those the plan allows. *)
LEMMA UsedTokensBounded ==
  ASSUME PlansAssumption, TypeOK
  PROVE  /\ IsFiniteSet(UsedTokens)
         /\ Cardinality(UsedTokens) \in Nat
         /\ TotalRetries(plan) \in Nat
         /\ Cardinality(UsedTokens) <= TotalRetries(plan)
<1>1. plan \in WorkflowPlan
      /\ \A e \in DOMAIN plan.loopbacks :
           used[e] \in Nat /\ used[e] <= plan.loopbacks[e].max_retries
  BY PlanOfTypeOK DEF TypeOK, Edges
<1>2. QED
  BY <1>1, SpentTokensBounded DEF UsedTokens, Edges

(* Nothing is spent at the start. *)
LEMMA NothingUsedInitially ==
  ASSUME Init
  PROVE  Cardinality(UsedTokens) = 0
<1>1. UsedTokens = {}
  BY DEF Init, UsedTokens, Edges
<1>2. QED
  BY <1>1, FS_EmptySet

(* Going back spends exactly one retry, of the edge it goes along. *)
LEMMA LoopBackSpendsOne ==
  ASSUME PlansAssumption, TypeOK, NEW e \in Edges, LoopsBack(e)
  PROVE  /\ UsedTokens' = UsedTokens \cup {<<e, used[e] + 1>>}
         /\ <<e, used[e] + 1>> \notin UsedTokens
         /\ Cardinality(UsedTokens') = Cardinality(UsedTokens) + 1
<1>1. UsedTokens' = UsedTokens \cup {<<e, used[e] + 1>>}
  <2>1. Edges' = Edges /\ used' = [used EXCEPT ![e] = used[e] + 1]
    BY DEF LoopsBack, Edges
  <2>2. used[e] \in Nat /\ used \in [Edges -> Nat]
    BY DEF TypeOK
  <2>3. 1 .. used[e] + 1 = (1 .. used[e]) \cup {used[e] + 1}
    BY <2>2
  <2>4. used'[e] = used[e] + 1 /\ \A f \in Edges : f /= e => used'[f] = used[f]
    BY <2>1, <2>2
  <2>5. ASSUME NEW t
        PROVE  t \in UsedTokens' <=> t \in UsedTokens \cup {<<e, used[e] + 1>>}
    <3>1. t \in UsedTokens' <=> \E f \in Edges : \E n \in 1 .. used'[f] : t = <<f, n>>
      BY <2>1 DEF UsedTokens
    <3>2. t \in UsedTokens <=> \E f \in Edges : \E n \in 1 .. used[f] : t = <<f, n>>
      BY DEF UsedTokens
    <3>3. QED
      BY <2>3, <2>4, <3>1, <3>2
  <2>6. QED
    BY <2>5
<1>2. <<e, used[e] + 1>> \notin UsedTokens
  BY DEF UsedTokens, TypeOK
<1>3. QED
  BY <1>1, <1>2, UsedTokensBounded, FS_AddElement

-----------------------------------------------------------------------------
(* The cap *)

(* Between two spent retries the cursor only moves forward, so the iterations  *)
(* so far are at most one pass over the plan for each of them, and the part of *)
(* the current pass behind the cursor.                                         *)
StepsAccounted ==
  pc = "running" => steps <= NumPhases * Cardinality(UsedTokens) + cursor - 1

CapInv == NoOverflow(plan) => StepsAccounted /\ CapNeverExceeded

(* Under the accounting, an iteration is always within the cap. *)
LEMMA WithinCap ==
  ASSUME PlansAssumption, TypeOK, NoOverflow(plan), StepsAccounted,
         pc = "running", cursor <= NumPhases
  PROVE  steps + 1 <= Cap(plan)
<1> DEFINE n == NumPhases
           u == Cardinality(UsedTokens)
           t == TotalRetries(plan)
<1>1. n \in Nat /\ u \in Nat /\ t \in Nat /\ u <= t /\ steps \in Nat /\ cursor \in Nat
  BY PlanOfTypeOK, PlanShape, UsedTokensBounded DEF NumPhases, TypeOK
<1>2. Cap(plan) = n * (t + 1) + 1
  <2>1. n * (t + 1) + 1 \in Nat /\ U32 \in Nat
    BY <1>1, TimesMonotonic DEF PlansAssumption
  <2>2. n * (t + 1) + 1 < U32
    BY DEF NoOverflow, NumPhases
  <2>3. QED
    BY <2>1, <2>2, ModOfSmall DEF Cap, NumPhases
<1>3. n * u <= n * t /\ n * u \in Nat /\ n * t \in Nat /\ n * (t + 1) = n * t + n
  BY <1>1, TimesMonotonic, TimesSuccessor
<1>4. steps <= n * u + cursor - 1 /\ cursor <= n
  BY DEF StepsAccounted
<1>5. QED
  BY <1>1, <1>2, <1>3, <1>4

(* The cap is a number, wrapped or not. *)
LEMMA CapIsNat ==
  ASSUME PlansAssumption, TypeOK
  PROVE  Cap(plan) \in Nat
<1>1. TotalRetries(plan) \in Nat /\ U32 \in Nat \ {0} /\ NumPhases \in Nat
  BY UsedTokensBounded, PlanOfTypeOK, PlanShape DEF PlansAssumption, NumPhases
<1>2. NumPhases * (TotalRetries(plan) + 1) + 1 \in Nat
  BY <1>1, TimesMonotonic
<1>3. QED
  BY <1>1, <1>2 DEF Cap, NumPhases

(* No iteration breaks the accounting, nor meets the cap while it holds. *)
LEMMA CapStep ==
  ASSUME PlansAssumption, TypeOK, CapInv, Next
  PROVE  CapInv'
<1> SUFFICES ASSUME NoOverflow(plan)' PROVE (StepsAccounted /\ CapNeverExceeded)'
  BY DEF CapInv
<1>0. plan' = plan
  BY DEF Next, PhaseSucceeds, LoopsBack, Stops, CapExceeded, Finishes
<1>1. NoOverflow(plan) /\ StepsAccounted /\ CapNeverExceeded
  BY <1>0 DEF NoOverflow, CapInv
<1>2. /\ NumPhases \in Nat /\ NumPhases' = NumPhases
      /\ \A i \in DOMAIN plan.names : plan.names[i] /= WorkflowMark
      /\ DOMAIN plan.names = 1 .. NumPhases
      /\ cursor \in Nat /\ steps \in Nat /\ results \in Seq(Result)
      /\ Cardinality(UsedTokens) \in Nat
  BY <1>0, PlanOfTypeOK, PlanShape, UsedTokensBounded
     DEF NumPhases, TypeOK, PlansAssumption
<1>3. \A name, outcome :
        name /= WorkflowMark /\ Record(name, outcome) => CapNeverExceeded'
  BY <1>0, <1>1, <1>2 DEF Record, CapNeverExceeded
<1>4. CASE PhaseSucceeds
  <2>1. cursor \in DOMAIN plan.names
    BY <1>2, <1>4 DEF PhaseSucceeds, Iterates, TypeOK
  <2>2. CapNeverExceeded'
    BY <1>2, <1>3, <1>4, <2>1 DEF PhaseSucceeds
  <2>3. UsedTokens' = UsedTokens
    BY <1>4 DEF PhaseSucceeds, UsedTokens, Edges
  <2>4. NumPhases * Cardinality(UsedTokens) \in Nat
    BY <1>2, TimesMonotonic
  <2>5. StepsAccounted'
    BY <1>1, <1>2, <1>4, <2>3, <2>4 DEF PhaseSucceeds, Iterates, StepsAccounted
  <2>6. QED
    BY <2>2, <2>5
<1>5. ASSUME NEW e \in Edges, LoopsBack(e) PROVE (StepsAccounted /\ CapNeverExceeded)'
  <2>1. cursor \in DOMAIN plan.names
    BY <1>2, <1>5 DEF LoopsBack, Iterates, TypeOK
  <2>2. CapNeverExceeded'
    BY <1>2, <1>3, <1>5, <2>1 DEF LoopsBack
  <2>3. Cardinality(UsedTokens') = Cardinality(UsedTokens) + 1
    BY <1>5, LoopBackSpendsOne
  <2>4. /\ NumPhases * (Cardinality(UsedTokens) + 1)
             = NumPhases * Cardinality(UsedTokens) + NumPhases
        /\ NumPhases * Cardinality(UsedTokens) \in Nat
    BY <1>2, TimesSuccessor
  <2>5. cursor' \in Nat /\ cursor' >= 1
    BY <1>2, <1>5 DEF LoopsBack, Positions
  <2>6. steps' = steps + 1 /\ steps <= NumPhases * Cardinality(UsedTokens) + cursor - 1
        /\ cursor <= NumPhases
    BY <1>1, <1>5 DEF LoopsBack, Iterates, StepsAccounted
  <2>7. steps' <= NumPhases * (Cardinality(UsedTokens) + 1) + cursor' - 1
    BY <1>2, <2>4, <2>5, <2>6
  <2>8. QED
    BY <1>2, <2>2, <2>3, <2>7 DEF StepsAccounted
<1>6. CASE Stops
  <2>1. cursor \in DOMAIN plan.names
    BY <1>2, <1>6 DEF Stops, Iterates, TypeOK
  <2>2. QED
    BY <1>2, <1>3, <1>6, <2>1 DEF Stops, StepsAccounted
<1>7. CASE CapExceeded
  <2>1. steps + 1 <= Cap(plan)
    BY <1>1, <1>7, WithinCap DEF CapExceeded
  <2>2. Cap(plan) \in Nat
    BY CapIsNat
  <2>3. QED
    BY <1>2, <1>7, <2>1, <2>2 DEF CapExceeded
<1>8. CASE Finishes
  BY <1>0, <1>1, <1>8 DEF Finishes, StepsAccounted, CapNeverExceeded
<1>9. QED
  BY <1>4, <1>5, <1>6, <1>7, <1>8 DEF Next

(* The accounting holds before the first iteration. *)
LEMMA CapInit ==
  ASSUME PlansAssumption, Init
  PROVE  CapInv
<1>1. Cardinality(UsedTokens) = 0 /\ NumPhases \in Nat
  BY NothingUsedInitially, TypeInit, PlanOfTypeOK, PlanShape DEF NumPhases
<1>2. QED
  BY <1>1 DEF Init, CapInv, StepsAccounted, CapNeverExceeded

(* The accounting holds throughout. *)
LEMMA CapInvariant == Spec => []CapInv
<1>1. Init => CapInv
  BY CapInit, PlansAssumption
<1>2. TypeOK /\ CapInv /\ [Next]_vars => CapInv'
  <2>1. ASSUME TypeOK, CapInv, Next PROVE CapInv'
    BY <2>1, CapStep, PlansAssumption
  <2>2. ASSUME CapInv, UNCHANGED vars PROVE CapInv'
    BY <2>2 DEF vars, CapInv, StepsAccounted, CapNeverExceeded, NumPhases, UsedTokens, Edges
  <2>3. QED
    BY <2>1, <2>2
<1>3. QED
  BY <1>1, <1>2, TypeCorrect, PTL DEF Spec

(* A plan whose cap fits in a u32 never meets it: its retry budgets end the    *)
(* run first.                                                                  *)
THEOREM CapIsNeverMet == Spec => []CapNeverExceeded
<1>1. CapInv => CapNeverExceeded
  BY DEF CapInv, CapNeverExceeded
<1>2. QED
  BY <1>1, CapInvariant, PTL

-----------------------------------------------------------------------------
(* Rework *)

(* A step that runs one phase and moves the cursor no further than past that   *)
(* phase keeps whatever stood before it.                                       *)
LEMMA StandsPassedKept ==
  ASSUME PlansAssumption, TypeOK, DistinctNames, plan' = plan,
         NEW name, NEW outcome, Record(name, outcome),
         name = WorkflowMark \/ name = plan.names[cursor], cursor <= NumPhases,
         NEW i \in Positions, i < cursor,
         NEW k, StandsPassed(i, k)
  PROVE  StandsPassed(i, k)'
<1>1. DOMAIN plan.names = 1 .. NumPhases /\ NumPhases \in Nat /\ cursor \in 1 .. NumPhases
      /\ \A j \in Positions : plan.names[j] /= WorkflowMark
  BY PlanOfTypeOK, PlanShape DEF NumPhases, TypeOK, PlansAssumption, Positions
<1>2. results \in Seq(Result)
  BY DEF TypeOK
<1>3. /\ DOMAIN results' = DOMAIN results \cup {Len(results) + 1}
      /\ \A l \in DOMAIN results : results'[l] = results[l]
      /\ results'[Len(results) + 1].phase = name
  BY <1>2 DEF Record
<1>4. \A j \in 1 .. i : j \in Positions /\ j /= cursor
  BY <1>1 DEF Positions
<1>5. \A j \in 1 .. i : plan.names[j] /= name
  BY <1>1, <1>4 DEF DistinctNames, Positions
<1>6. \A j \in 1 .. i : Runs(j)' = Runs(j)
  BY <1>3, <1>5 DEF Runs
<1>7. i \in 1 .. i
  BY <1>1 DEF Positions
<1>8. QED
  BY <1>3, <1>6, <1>7 DEF StandsPassed, Runs

(* Every phase behind the cursor has passed, and nothing that could undo it    *)
(* has run since: a gate that rework passed over is always run again.          *)
LEMMA UpstreamStep ==
  ASSUME PlansAssumption, TypeOK, UpstreamPassed, Next
  PROVE  UpstreamPassed'
<1>0. plan' = plan
  BY DEF Next, PhaseSucceeds, LoopsBack, Stops, CapExceeded, Finishes
<1> SUFFICES ASSUME DistinctNames, EdgesGoBack, NEW i \in 1 .. cursor' - 1
             PROVE  \E k \in DOMAIN results' : StandsPassed(i, k)'
  BY <1>0 DEF UpstreamPassed, DistinctNames, EdgesGoBack, Positions, Edges, IsIndexOf
<1>1. /\ DOMAIN plan.names = 1 .. NumPhases /\ NumPhases \in Nat
      /\ cursor \in 1 .. NumPhases + 1 /\ results \in Seq(Result)
  BY PlanOfTypeOK, PlanShape DEF NumPhases, TypeOK
<1>2. \A j \in 1 .. cursor - 1 : \E k \in DOMAIN results : StandsPassed(j, k)
  BY DEF UpstreamPassed
<1>3. ASSUME NEW name, NEW outcome, Record(name, outcome),
             name = WorkflowMark \/ name = plan.names[cursor],
             cursor <= NumPhases, i < cursor
      PROVE  \E k \in DOMAIN results' : StandsPassed(i, k)'
  <2>1. i \in Positions /\ i \in 1 .. cursor - 1
    BY <1>1, <1>3, TypeStep DEF Positions, TypeOK
  <2>2. PICK k \in DOMAIN results : StandsPassed(i, k)
    BY <1>2, <2>1
  <2>3. StandsPassed(i, k)'
    BY <1>0, <1>3, <2>1, <2>2, StandsPassedKept
  <2>4. QED
    BY <2>3 DEF StandsPassed, Runs
<1>4. CASE PhaseSucceeds
  <2>0. cursor <= NumPhases /\ cursor' = cursor + 1
        /\ Record(plan.names[cursor], "Success")
    BY <1>4 DEF PhaseSucceeds, Iterates
  <2>1. CASE i < cursor
    BY <1>3, <2>0, <2>1
  <2>2. CASE i = cursor
    <3>1. PICK k \in Nat : k = Len(results) + 1
      BY <1>1
    <3>2. /\ DOMAIN results' = 1 .. k
          /\ results'[k] = [phase |-> plan.names[i], outcome |-> "Success"]
      BY <1>1, <2>0, <2>2, <3>1 DEF Record
    <3>3. k \in DOMAIN results'
      BY <1>1, <3>1, <3>2
    <3>4. StandsPassed(i, k)'
      BY <1>0, <3>2, <3>3 DEF StandsPassed, Runs
    <3>5. QED
      BY <3>3, <3>4
  <2>3. QED
    BY <1>1, <2>0, <2>1, <2>2
<1>5. ASSUME NEW e \in Edges, LoopsBack(e)
      PROVE  \E k \in DOMAIN results' : StandsPassed(i, k)'
  <2>1. cursor' <= cursor
    <3>1. PICK j \in Positions : IsIndexOf(j, plan.loopbacks[e].to) /\ cursor' = j
      BY <1>5 DEF LoopsBack
    <3>2. cursor \in Positions /\ plan.names[cursor] = plan.loopbacks[e].from
      BY <1>1, <1>5 DEF LoopsBack, Iterates, Recoveries, Positions
    <3>3. QED
      BY <3>1, <3>2 DEF EdgesGoBack
  <2>2. i < cursor /\ cursor <= NumPhases /\ Record(plan.names[cursor], "Failed")
    <3>1. cursor' \in Nat
      BY <1>1, <1>5 DEF LoopsBack, Positions
    <3>2. QED
      BY <1>1, <1>5, <2>1, <3>1 DEF LoopsBack, Iterates
  <2>3. QED
    BY <1>3, <2>2
<1>6. CASE Stops
  BY <1>1, <1>3, <1>6 DEF Stops, Iterates
<1>7. CASE CapExceeded
  BY <1>1, <1>3, <1>7 DEF CapExceeded
<1>8. CASE Finishes
  BY <1>0, <1>2, <1>8 DEF Finishes, StandsPassed, Runs
<1>9. QED
  BY <1>4, <1>5, <1>6, <1>7, <1>8 DEF Next

(* Whatever plan of distinct names and edges that go back is run, every phase     *)
(* before the cursor has a success that no earlier phase has run after: rework     *)
(* re-runs the gates it passes over.                                            *)
THEOREM ReworkReRunsGates == Spec => []UpstreamPassed
<1>1. Init => UpstreamPassed
  BY DEF Init, UpstreamPassed
<1>2. TypeOK /\ UpstreamPassed /\ [Next]_vars => UpstreamPassed'
  <2>1. ASSUME TypeOK, UpstreamPassed, Next PROVE UpstreamPassed'
    BY <2>1, UpstreamStep, PlansAssumption
  <2>2. ASSUME UpstreamPassed, UNCHANGED vars PROVE UpstreamPassed'
    BY <2>2 DEF vars, UpstreamPassed, DistinctNames, EdgesGoBack, Positions, Edges,
                IsIndexOf, StandsPassed, Runs
  <2>3. QED
    BY <2>1, <2>2
<1>3. QED
  BY <1>1, <1>2, TypeCorrect, PTL DEF Spec

-----------------------------------------------------------------------------
(* Refinement *)

(* A run starts as ReworkLoop does. *)
LEMMA LoopInit ==
  ASSUME PlansAssumption, Init
  PROVE  Loop!Init
<1>1. TypeOK
  BY TypeInit
<1>2. NumPhases \in Nat /\ TotalRetries(plan) \in Nat /\ Cardinality(UsedTokens) = 0
  BY <1>1, PlanOfTypeOK, PlanShape, UsedTokensBounded, NothingUsedInitially DEF NumPhases
<1>3. QED
  BY <1>2 DEF Init, Loop!Init

(* Every step of a run is a step of ReworkLoop or none. *)
LEMMA LoopStep ==
  ASSUME PlansAssumption, TypeOK, Next
  PROVE  Loop!Next
<1>0. /\ plan' = plan /\ NumPhases' = NumPhases /\ TotalRetries(plan)' = TotalRetries(plan)
      /\ NumPhases \in Nat /\ cursor \in 1 .. NumPhases + 1
      /\ DOMAIN plan.names = 1 .. NumPhases
  <2>1. plan' = plan
    BY DEF Next, PhaseSucceeds, LoopsBack, Stops, CapExceeded, Finishes
  <2>2. NumPhases' = NumPhases /\ TotalRetries(plan)' = TotalRetries(plan)
    BY <2>1 DEF NumPhases, TotalRetries, Tokens
  <2>3. QED
    BY <2>1, <2>2, PlanOfTypeOK, PlanShape DEF TypeOK, NumPhases
<1>1. used' = used => UsedTokens' = UsedTokens
  BY <1>0 DEF UsedTokens, Edges
<1>2. CASE PhaseSucceeds
  BY <1>0, <1>1, <1>2
     DEF PhaseSucceeds, Iterates, Loop!Next, Loop!Pass, Loop!AtPhase
<1>3. ASSUME NEW e \in Edges, LoopsBack(e) PROVE Loop!Next
  <2>1. Cardinality(UsedTokens') = Cardinality(UsedTokens) + 1
    BY <1>3, LoopBackSpendsOne
  <2>2. /\ TotalRetries(plan) \in Nat /\ Cardinality(UsedTokens) \in Nat
        /\ Cardinality(UsedTokens) + 1 <= TotalRetries(plan)
    <3>1. TypeOK'
      BY TypeStep
    <3>2. plan' \in WorkflowPlan
          /\ \A f \in DOMAIN plan'.loopbacks :
               used'[f] \in Nat /\ used'[f] <= plan'.loopbacks[f].max_retries
      BY <3>1 DEF TypeOK, Edges, PlansAssumption
    <3>3. Cardinality(UsedTokens') <= TotalRetries(plan')
      BY <3>2, SpentTokensBounded DEF UsedTokens, Edges
    <3>4. QED
      BY <1>0, <2>1, <3>3, UsedTokensBounded
  <2>3. cursor' \in 1 .. NumPhases
    BY <1>0, <1>3 DEF LoopsBack, Positions
  <2>4. Loop!Rework
    BY <1>0, <1>3, <2>1, <2>2, <2>3 DEF LoopsBack, Iterates, Loop!Rework, Loop!AtPhase
  <2>5. QED
    BY <2>4 DEF Loop!Next
<1>4. CASE Stops
  BY <1>0, <1>1, <1>4 DEF Stops, Iterates, Loop!Next, Loop!GiveUp, Loop!AtPhase
<1>5. CASE CapExceeded
  BY <1>0, <1>1, <1>5 DEF CapExceeded, Loop!Next, Loop!GiveUp, Loop!AtPhase
<1>6. CASE Finishes
  BY <1>0, <1>1, <1>6 DEF Finishes, Loop!Next, Loop!Release
<1>7. QED
  BY <1>2, <1>3, <1>4, <1>5, <1>6 DEF Next

(* The orchestrator's cursor, counters and cap implement the promise that a    *)
(* run moves one phase at a time and goes back only for a retry of a finite     *)
(* stock.                                                                       *)
THEOREM Refinement == Spec => ImplementsReworkLoop
<1>1. Init => Loop!Init
  BY LoopInit, PlansAssumption
<1>2. TypeOK /\ [Next]_vars => [Loop!Next]_(Loop!vars)
  <2>1. ASSUME TypeOK, Next PROVE Loop!Next
    BY <2>1, LoopStep, PlansAssumption
  <2>2. ASSUME UNCHANGED vars PROVE UNCHANGED Loop!vars
    BY <2>2 DEF vars, Loop!vars, NumPhases, TotalRetries, Tokens, UsedTokens, Edges
  <2>3. QED
    BY <2>1, <2>2
<1>3. QED
  BY <1>1, <1>2, TypeCorrect, PTL DEF Spec, ImplementsReworkLoop, Loop!Spec
-----------------------------------------------------------------------------
(* Failures *)

(* The executions that failed are a finite part of the log of outcomes. *)
Failed == {k \in DOMAIN results : results[k].outcome = "Failed"}

LEMMA FailedFinite ==
  ASSUME TypeOK
  PROVE  IsFiniteSet(Failed) /\ Cardinality(Failed) \in Nat
<1>1. IsFiniteSet(1 .. Len(results)) /\ DOMAIN results = 1 .. Len(results)
  BY FS_Interval DEF TypeOK
<1>2. QED
  BY <1>1, FS_Subset, FS_CardinalityType DEF Failed

(* A failure is counted once, a success not at all. *)
LEMMA RecordCounts ==
  ASSUME TypeOK, NEW name, NEW outcome, Record(name, outcome)
  PROVE  Cardinality(Failed') = Cardinality(Failed) + (IF outcome = "Failed" THEN 1 ELSE 0)
<1>1. PICK k \in Nat : k = Len(results) + 1
  BY DEF TypeOK
<1>2. /\ DOMAIN results' = DOMAIN results \cup {k} /\ k \notin DOMAIN results
      /\ \A l \in DOMAIN results : results'[l] = results[l]
      /\ results'[k].outcome = outcome
  BY <1>1 DEF Record, TypeOK
<1>3. CASE outcome = "Failed"
  <2>1. Failed' = Failed \cup {k} /\ k \notin Failed
    BY <1>2, <1>3 DEF Failed
  <2>2. QED
    BY <1>3, <2>1, FailedFinite, FS_AddElement
<1>4. CASE outcome /= "Failed"
  <2>1. Failed' = Failed
    BY <1>2, <1>4 DEF Failed
  <2>2. QED
    BY <1>4, <2>1, FailedFinite
<1>5. QED
  BY <1>3, <1>4

(* No iteration loses count of the failures. *)
LEMMA FailuresStep ==
  ASSUME PlansAssumption, TypeOK, CapInv, FailuresPaidFor, Next
  PROVE  FailuresPaidFor'
<1>0. plan' = plan
  BY DEF Next, PhaseSucceeds, LoopsBack, Stops, CapExceeded, Finishes
<1> SUFFICES ASSUME NoOverflow(plan)
             PROVE  Cardinality(Failed') = Cardinality(UsedTokens')
                      + (IF pc' = "returned" /\ cursor' <= NumPhases' THEN 1 ELSE 0)
  BY <1>0 DEF FailuresPaidFor, NoOverflow, Failed
<1>1. /\ Cardinality(Failed) = Cardinality(UsedTokens)
             + (IF pc = "returned" /\ cursor <= NumPhases THEN 1 ELSE 0)
      /\ NumPhases' = NumPhases
      /\ Cardinality(UsedTokens) \in Nat /\ Cardinality(Failed) \in Nat
  BY <1>0, FailedFinite, UsedTokensBounded DEF FailuresPaidFor, Failed, NumPhases
<1>2. used' = used => UsedTokens' = UsedTokens
  BY <1>0 DEF UsedTokens, Edges
<1>3. CASE PhaseSucceeds
  <2>1. Cardinality(Failed') = Cardinality(Failed)
    BY <1>1, <1>3, RecordCounts DEF PhaseSucceeds
  <2>2. QED
    BY <1>1, <1>2, <1>3, <2>1 DEF PhaseSucceeds, Iterates
<1>4. ASSUME NEW e \in Edges, LoopsBack(e)
      PROVE  Cardinality(Failed') = Cardinality(UsedTokens')
               + (IF pc' = "returned" /\ cursor' <= NumPhases' THEN 1 ELSE 0)
  <2>1. Cardinality(Failed') = Cardinality(Failed) + 1
    BY <1>4, RecordCounts DEF LoopsBack
  <2>2. Cardinality(UsedTokens') = Cardinality(UsedTokens) + 1
    BY <1>4, LoopBackSpendsOne
  <2>3. QED
    BY <1>1, <1>4, <2>1, <2>2 DEF LoopsBack, Iterates
<1>5. CASE Stops
  <2>1. Cardinality(Failed') = Cardinality(Failed) + 1
    BY <1>5, RecordCounts DEF Stops
  <2>2. QED
    BY <1>1, <1>2, <1>5, <2>1 DEF Stops, Iterates
<1>6. CASE CapExceeded
  <2>1. Cardinality(Failed') = Cardinality(Failed) + 1
    BY <1>6, RecordCounts DEF CapExceeded
  <2>2. QED
    BY <1>1, <1>2, <1>6, <2>1 DEF CapExceeded
<1>7. CASE Finishes
  <2>1. Failed' = Failed
    BY <1>7 DEF Finishes, Failed
  <2>2. cursor > NumPhases /\ NumPhases \in Nat /\ cursor \in Nat
    BY <1>7, PlanOfTypeOK, PlanShape DEF Finishes, TypeOK, NumPhases
  <2>3. QED
    BY <1>1, <1>2, <1>7, <2>1, <2>2 DEF Finishes
<1>8. QED
  BY <1>3, <1>4, <1>5, <1>6, <1>7 DEF Next

(* For every plan, each failed execution either spent one retry or ended the run. *)
THEOREM FailuresArePaidFor == Spec => []FailuresPaidFor
<1>1. Init => FailuresPaidFor
  <2>1. ASSUME Init PROVE FailuresPaidFor
    <3>1. Cardinality(UsedTokens) = 0
      BY <2>1, NothingUsedInitially
    <3>2. {k \in DOMAIN results : results[k].outcome = "Failed"} = {}
      BY <2>1 DEF Init
    <3>3. QED
      BY <2>1, <3>1, <3>2, FS_EmptySet DEF Init, FailuresPaidFor
  <2>2. QED
    BY <2>1
<1>2. TypeOK /\ CapInv /\ FailuresPaidFor /\ [Next]_vars => FailuresPaidFor'
  <2>1. ASSUME TypeOK, CapInv, FailuresPaidFor, Next PROVE FailuresPaidFor'
    BY <2>1, FailuresStep, PlansAssumption
  <2>2. ASSUME FailuresPaidFor, UNCHANGED vars PROVE FailuresPaidFor'
    BY <2>2 DEF vars, FailuresPaidFor, NumPhases, UsedTokens, Edges
  <2>3. QED
    BY <2>1, <2>2
<1>3. QED
  BY <1>1, <1>2, CapInvariant, TypeCorrect, PTL DEF Spec

(* The workflow gives up only where no edge can be taken any more. *)
LEMMA GivesUpStep ==
  ASSUME PlansAssumption, TypeOK, CapInv, Next
  PROVE  GivesUpLast'
<1>0. plan' = plan /\ NumPhases' = NumPhases /\ Edges' = Edges
  BY DEF Next, PhaseSucceeds, LoopsBack, Stops, CapExceeded, Finishes, NumPhases, Edges
<1>1. results \in Seq(Result) /\ steps \in Nat /\ cursor \in Nat /\ NumPhases \in Nat
  BY PlanOfTypeOK, PlanShape DEF TypeOK, NumPhases
<1>2. CASE PhaseSucceeds
  BY <1>2 DEF PhaseSucceeds, Iterates, GivesUpLast
<1>3. ASSUME NEW e \in Edges, LoopsBack(e) PROVE GivesUpLast'
  BY <1>3 DEF LoopsBack, Iterates, GivesUpLast
<1>4. CASE Stops
  <2>1. results'[Len(results')] = [phase |-> plan.names[cursor], outcome |-> "Failed"]
    BY <1>1, <1>4 DEF Stops, Record
  <2>2. ASSUME NEW e \in Edges, plan.loopbacks[e].from = plan.names[cursor],
               Resolvable(plan.loopbacks[e].to)
        PROVE  used[e] = plan.loopbacks[e].max_retries
    <3>1. ~(used[e] < plan.loopbacks[e].max_retries)
      BY <1>4, <2>2 DEF Stops, Recoveries
    <3>2. /\ used[e] \in Nat /\ used[e] <= plan.loopbacks[e].max_retries
          /\ plan.loopbacks[e].max_retries \in Nat
      BY <2>2, PlanOfTypeOK, PlanShape DEF TypeOK, Edges
    <3>3. QED
      BY <3>1, <3>2
  <2>3. QED
    BY <1>0, <1>4, <2>1, <2>2 DEF Stops, GivesUpLast, Resolvable, Positions
<1>5. CASE CapExceeded
  <2>1. ASSUME NoOverflow(plan) PROVE FALSE
    <3>1. steps + 1 <= Cap(plan) /\ steps + 1 > Cap(plan)
      BY <1>5, <2>1, WithinCap DEF CapExceeded, CapInv
    <3>2. Cap(plan) \in Nat
      BY CapIsNat
    <3>3. QED
      BY <1>1, <3>1, <3>2
  <2>2. QED
    BY <1>0, <2>1 DEF GivesUpLast, NoOverflow
<1>6. CASE Finishes
  BY <1>0, <1>1, <1>6 DEF Finishes, GivesUpLast
<1>7. QED
  BY <1>2, <1>3, <1>4, <1>5, <1>6 DEF Next

(* For every plan, the run fails on a phase only when each edge that leads from it  *)
(* to a phase of the plan has spent its budget.                                  *)
THEOREM GivesUpOnlyAtTheEnd == Spec => []GivesUpLast
<1>1. Init => GivesUpLast
  BY DEF Init, GivesUpLast
<1>2. TypeOK /\ CapInv /\ GivesUpLast /\ [Next]_vars => GivesUpLast'
  <2>1. ASSUME TypeOK, CapInv, Next PROVE GivesUpLast'
    BY <2>1, GivesUpStep, PlansAssumption
  <2>2. ASSUME GivesUpLast, UNCHANGED vars PROVE GivesUpLast'
    BY <2>2 DEF vars, GivesUpLast, NumPhases, Edges, Resolvable, Positions
  <2>3. QED
    BY <2>1, <2>2
<1>3. QED
  BY <1>1, <1>2, CapInvariant, TypeCorrect, PTL DEF Spec

-----------------------------------------------------------------------------
(* Executions of a phase *)

\* The edge leads back over phase i.
LeadsOver(e, i) ==
  /\ \E j \in 1 .. i : plan.names[j] = plan.loopbacks[e].to
  /\ \E j \in i .. NumPhases : plan.names[j] = plan.loopbacks[e].from

\* The retries spent on the edges that do.
SpentOver(i) == {t \in UsedTokens : LeadsOver(t[1], i)}

(* A phase behind the cursor has one execution more than the retries that led     *)
(* back over it, a phase in front of it none: each retry makes room for one.        *)
RerunsAccounted ==
  DistinctNames /\ EdgesGoBack =>
    \A i \in Positions :
      Cardinality(Runs(i))
        <= Cardinality(SpentOver(i)) + (IF cursor > i \/ pc = "returned" THEN 1 ELSE 0)

(* Executions and retries of a phase are finitely many. *)
LEMMA RunsFinite ==
  ASSUME PlansAssumption, TypeOK, NEW i \in Positions
  PROVE  /\ IsFiniteSet(Runs(i)) /\ Cardinality(Runs(i)) \in Nat
         /\ IsFiniteSet(SpentOver(i)) /\ Cardinality(SpentOver(i)) \in Nat
<1>1. IsFiniteSet(1 .. Len(results)) /\ DOMAIN results = 1 .. Len(results)
  BY FS_Interval DEF TypeOK
<1>2. Runs(i) \subseteq 1 .. Len(results) /\ SpentOver(i) \subseteq UsedTokens
  BY <1>1 DEF Runs, SpentOver
<1>3. QED
  BY <1>1, <1>2, UsedTokensBounded, FS_Subset, FS_CardinalityType

(* An execution counts for the phase under the cursor and for no other. *)
LEMMA RecordRuns ==
  ASSUME PlansAssumption, TypeOK, DistinctNames, plan' = plan,
         NEW name, NEW outcome, Record(name, outcome), NEW i \in Positions
  PROVE  Cardinality(Runs(i)') = Cardinality(Runs(i)) + (IF name = plan.names[i] THEN 1 ELSE 0)
<1>1. PICK k \in Nat : k = Len(results) + 1
  BY DEF TypeOK
<1>2. /\ DOMAIN results' = DOMAIN results \cup {k} /\ k \notin DOMAIN results
      /\ \A l \in DOMAIN results : results'[l] = results[l]
      /\ results'[k].phase = name
  BY <1>1 DEF Record, TypeOK
<1>3. CASE name = plan.names[i]
  <2>1. Runs(i)' = Runs(i) \cup {k} /\ k \notin Runs(i)
    BY <1>2, <1>3 DEF Runs
  <2>2. QED
    BY <1>3, <2>1, RunsFinite, FS_AddElement
<1>4. CASE name /= plan.names[i]
  <2>1. Runs(i)' = Runs(i)
    BY <1>2, <1>4 DEF Runs
  <2>2. QED
    BY <1>4, <2>1, RunsFinite
<1>5. QED
  BY <1>3, <1>4

(* A retry counts for the phases that its edge leads over. *)
LEMMA SpendOver ==
  ASSUME PlansAssumption, TypeOK, NEW e \in Edges, LoopsBack(e), NEW i \in Positions
  PROVE  Cardinality(SpentOver(i)')
           = Cardinality(SpentOver(i)) + (IF LeadsOver(e, i) THEN 1 ELSE 0)
<1>0. plan' = plan /\ NumPhases' = NumPhases
  BY DEF LoopsBack, NumPhases
<1>1. PICK token : token = <<e, used[e] + 1>>
  OBVIOUS
<1>2. token[1] = e /\ UsedTokens' = UsedTokens \cup {token} /\ token \notin UsedTokens
  BY <1>1, LoopBackSpendsOne
<1>3. \A f : LeadsOver(f, i)' <=> LeadsOver(f, i)
  BY <1>0 DEF LeadsOver
<1>4. CASE LeadsOver(e, i)
  <2>1. SpentOver(i)' = SpentOver(i) \cup {token} /\ token \notin SpentOver(i)
    BY <1>2, <1>3, <1>4 DEF SpentOver
  <2>2. QED
    BY <1>4, <2>1, RunsFinite, FS_AddElement
<1>5. CASE ~LeadsOver(e, i)
  <2>1. SpentOver(i)' = SpentOver(i)
    BY <1>2, <1>3, <1>5 DEF SpentOver
  <2>2. QED
    BY <1>5, <2>1, RunsFinite
<1>6. QED
  BY <1>4, <1>5

(* No iteration breaks the accounting. *)
LEMMA RerunsStep ==
  ASSUME PlansAssumption, TypeOK, RerunsAccounted, Next
  PROVE  RerunsAccounted'
<1>0. plan' = plan /\ NumPhases' = NumPhases /\ Positions' = Positions
  BY DEF Next, PhaseSucceeds, LoopsBack, Stops, CapExceeded, Finishes, NumPhases, Positions
<1>a. DistinctNames' = DistinctNames /\ EdgesGoBack' = EdgesGoBack
  BY <1>0 DEF DistinctNames, EdgesGoBack, Edges, IsIndexOf
<1> SUFFICES ASSUME DistinctNames, EdgesGoBack, NEW i \in Positions
             PROVE  Cardinality(Runs(i)') <= Cardinality(SpentOver(i)')
                      + (IF cursor' > i \/ pc' = "returned" THEN 1 ELSE 0)
  BY <1>0, <1>a DEF RerunsAccounted
<1>1. /\ Cardinality(Runs(i))
           <= Cardinality(SpentOver(i)) + (IF cursor > i \/ pc = "returned" THEN 1 ELSE 0)
      /\ Cardinality(Runs(i)) \in Nat /\ Cardinality(SpentOver(i)) \in Nat
  BY RunsFinite DEF RerunsAccounted
<1>2. /\ DOMAIN plan.names = 1 .. NumPhases /\ NumPhases \in Nat /\ cursor \in 1 .. NumPhases + 1
      /\ i \in 1 .. NumPhases /\ Positions = 1 .. NumPhases
      /\ plan.names[i] /= WorkflowMark
  BY PlanOfTypeOK, PlanShape DEF TypeOK, NumPhases, Positions, PlansAssumption
<1>3. used' = used => SpentOver(i)' = SpentOver(i)
  BY <1>0 DEF SpentOver, UsedTokens, Edges, LeadsOver
<1>4. cursor \in Positions => (plan.names[cursor] = plan.names[i] <=> cursor = i)
  BY DEF DistinctNames
<1>5. CASE PhaseSucceeds
  <2>1. cursor \in Positions /\ pc = "running" /\ pc' = pc /\ cursor' = cursor + 1
        /\ used' = used /\ Record(plan.names[cursor], "Success")
    BY <1>2, <1>5 DEF PhaseSucceeds, Iterates
  <2>2. Cardinality(Runs(i)') = Cardinality(Runs(i)) + (IF cursor = i THEN 1 ELSE 0)
    BY <1>0, <1>4, <2>1, RecordRuns
  <2>3. QED
    BY <1>1, <1>2, <1>3, <2>1, <2>2
<1>6. ASSUME NEW e \in Edges, LoopsBack(e)
      PROVE  Cardinality(Runs(i)') <= Cardinality(SpentOver(i)')
               + (IF cursor' > i \/ pc' = "returned" THEN 1 ELSE 0)
  <2>1. /\ cursor \in Positions /\ pc = "running" /\ pc' = pc
        /\ Record(plan.names[cursor], "Failed")
        /\ plan.loopbacks[e].from = plan.names[cursor]
    BY <1>2, <1>6 DEF LoopsBack, Iterates, Recoveries
  <2>2. Cardinality(Runs(i)') = Cardinality(Runs(i)) + (IF cursor = i THEN 1 ELSE 0)
    BY <1>0, <1>4, <2>1, RecordRuns
  <2>3. PICK j \in Positions : IsIndexOf(j, plan.loopbacks[e].to) /\ cursor' = j
    BY <1>6 DEF LoopsBack
  <2>4. j <= cursor /\ plan.names[j] = plan.loopbacks[e].to
    BY <2>1, <2>3 DEF EdgesGoBack, IsIndexOf
  <2>5. Cardinality(SpentOver(i)')
          = Cardinality(SpentOver(i)) + (IF LeadsOver(e, i) THEN 1 ELSE 0)
    BY <1>6, SpendOver
  <2>6. CASE i < j
    BY <1>1, <1>2, <2>1, <2>2, <2>3, <2>4, <2>5, <2>6
  <2>7. CASE j <= i /\ i <= cursor
    <3>1. j \in 1 .. i /\ cursor \in i .. NumPhases
      BY <1>2, <2>1, <2>7
    <3>2. LeadsOver(e, i)
      BY <2>1, <2>4, <3>1 DEF LeadsOver
    <3>3. QED
      BY <1>1, <1>2, <2>1, <2>2, <2>3, <2>5, <2>7, <3>2
  <2>8. CASE i > cursor
    BY <1>1, <1>2, <2>1, <2>2, <2>3, <2>4, <2>5, <2>8
  <2>9. QED
    BY <1>2, <2>1, <2>3, <2>6, <2>7, <2>8
<1>7. CASE Stops
  <2>1. cursor \in Positions /\ pc = "running" /\ pc' = "returned" /\ cursor' = cursor
        /\ used' = used /\ Record(plan.names[cursor], "Failed")
    BY <1>2, <1>7 DEF Stops, Iterates
  <2>2. Cardinality(Runs(i)') = Cardinality(Runs(i)) + (IF cursor = i THEN 1 ELSE 0)
    BY <1>0, <1>4, <2>1, RecordRuns
  <2>3. QED
    BY <1>1, <1>2, <1>3, <2>1, <2>2
<1>8. CASE CapExceeded
  <2>1. pc = "running" /\ pc' = "returned" /\ used' = used /\ Record(WorkflowMark, "Failed")
    BY <1>8 DEF CapExceeded
  <2>2. Cardinality(Runs(i)') = Cardinality(Runs(i))
    BY <1>0, <1>1, <1>2, <2>1, RecordRuns
  <2>3. QED
    BY <1>1, <1>3, <2>1, <2>2
<1>9. CASE Finishes
  <2>1. Runs(i)' = Runs(i)
    BY <1>0, <1>9 DEF Finishes, Runs
  <2>2. QED
    BY <1>1, <1>3, <1>9, <2>1 DEF Finishes
<1>10. QED
  BY <1>5, <1>6, <1>7, <1>8, <1>9 DEF Next

(* For every plan of distinct names and edges that go back, a phase runs at most      *)
(* once more for each retry spent on an edge that leads back over it.              *)
THEOREM RerunsArePaidFor == Spec => []RerunsPaidFor
<1>1. Init => RerunsAccounted
  <2>1. ASSUME Init, NEW i \in Positions
        PROVE  Cardinality(Runs(i)) = 0 /\ Cardinality(SpentOver(i)) \in Nat
    <3>1. Runs(i) = {}
      BY <2>1 DEF Init, Runs
    <3>2. QED
      BY <2>1, <3>1, FS_EmptySet, RunsFinite, TypeInit, PlansAssumption
  <2>2. QED
    BY <2>1 DEF RerunsAccounted
<1>2. TypeOK /\ RerunsAccounted /\ [Next]_vars => RerunsAccounted'
  <2>1. ASSUME TypeOK, RerunsAccounted, Next PROVE RerunsAccounted'
    BY <2>1, RerunsStep, PlansAssumption
  <2>2. ASSUME RerunsAccounted, UNCHANGED vars PROVE RerunsAccounted'
    <3>1. plan' = plan /\ cursor' = cursor /\ used' = used /\ results' = results /\ pc' = pc
      BY <2>2 DEF vars
    <3>2. Positions' = Positions /\ DistinctNames' = DistinctNames /\ EdgesGoBack' = EdgesGoBack
      BY <3>1 DEF Positions, DistinctNames, EdgesGoBack, Edges, IsIndexOf
    <3>3. \A i : Runs(i)' = Runs(i)
      BY <3>1 DEF Runs
    <3>4. \A i : SpentOver(i)' = SpentOver(i)
      BY <3>1 DEF SpentOver, UsedTokens, Edges, LeadsOver, NumPhases
    <3>5. QED
      BY <2>2, <3>1, <3>2, <3>3, <3>4 DEF RerunsAccounted
  <2>3. QED
    BY <2>1, <2>2
<1>3. TypeOK /\ RerunsAccounted => RerunsPaidFor
  <2>1. ASSUME TypeOK, RerunsAccounted, DistinctNames, EdgesGoBack, NEW i \in Positions
        PROVE  Cardinality(Runs(i)) <= 1 + Cardinality(SpentOver(i))
    BY <2>1, RunsFinite, PlansAssumption DEF RerunsAccounted
  <2>2. QED
    BY <2>1 DEF RerunsPaidFor, SpentOver, LeadsOver
<1>4. QED
  BY <1>1, <1>2, <1>3, TypeCorrect, PTL DEF Spec
=============================================================================
