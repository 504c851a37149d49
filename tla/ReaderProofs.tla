---------------------------- MODULE ReaderProofs ----------------------------
(***************************************************************************)
(* Proofs about the live state, its readers and the replay of a log, for     *)
(* every set of requests and every combination of faults.  The live state is  *)
(* consistent (the invariant of KernelProofs says that a checked name is live; *)
(* here, that no name is live twice), and what the compiler makes of it is      *)
(* sound.  The replay of a log gives the live state of the process that writes   *)
(* it, and of whatever a crash leaves behind it makes a state that is consistent: *)
(* the log grows by whole batches, which the live state folds at once, and the     *)
(* replay folds them event by event.                                            *)
(***************************************************************************)
EXTENDS Readers, KernelProofs, SequenceFacts, FunctionTheorems

-----------------------------------------------------------------------------
(* Consistency of the live state: the invariant *)

\* Whatever is live was minted by this process.
AllIssued(state, names) ==
  \A kind \in StateKinds : \A i \in DOMAIN state[kind] : NameOf(state[kind][i]) \in names

\* No violation is in the state twice, and what a waiver waives is in it.
Ledger(state) ==
  /\ \A i, j \in DOMAIN state["violation"] :
       NameOf(state["violation"][i]) = NameOf(state["violation"][j]) => i = j
  /\ \A i \in DOMAIN state["waiver"] :
       /\ state["waiver"][i].names \subseteq Name
       /\ \A n \in state["waiver"][i].names : n[1] = "violation" => Holds(state, n)

\* What keeps the live state consistent.
ConsistencyInv ==
  /\ KernelInv
  /\ AllIssued(live, issued)
  /\ Ledger(live)
  /\ Consistent(live)

\* The kinds that consistency is about.
LedgerKinds == {"placement", "line", "violation", "waiver"}

(* Consistency is a matter of four lists. *)
LEMMA SameLedger ==
  ASSUME NEW s, NEW t, \A kind \in LedgerKinds : s[kind] = t[kind],
         Ledger(s), Consistent(s)
  PROVE  Ledger(t) /\ Consistent(t)
<1>1. /\ s["placement"] = t["placement"] /\ s["line"] = t["line"]
      /\ s["violation"] = t["violation"] /\ s["waiver"] = t["waiver"]
  BY DEF LedgerKinds
<1>2. Ledger(t)
  BY <1>1 DEF Ledger, Holds
<1>3. \A name : Naming(s, "waiver", name) = Naming(t, "waiver", name)
  BY <1>1 DEF Naming
<1>4. Consistent(t)
  BY <1>1, <1>3 DEF Consistent
<1>5. QED
  BY <1>2, <1>4

(* Companions are of no kind that consistency is about. *)
LEMMA FoldOfLedgerKind ==
  ASSUME NEW state, NEW r, NEW kind \in LedgerKinds
  PROVE  Fold(state, r)[kind] = Apply(state, r.entity)[kind]
BY DEF Fold, LedgerKinds, StateKinds, ListKinds

(* An entity of another kind leaves the four lists alone. *)
LEMMA ApplyOther ==
  ASSUME NEW state \in [StateKinds -> Seq(Entity)], NEW e \in Entity,
         e.kind \notin LedgerKinds, NEW kind \in LedgerKinds
  PROVE  Apply(state, e)[kind] = state[kind]
<1>1. kind \in StateKinds /\ kind /= e.kind /\ e.kind /= "waiver" /\ DOMAIN state = StateKinds
  BY DEF LedgerKinds, StateKinds, ListKinds
<1>2. CASE e.kind = "audit"
  BY <1>2 DEF Apply
<1>3. CASE e.kind \in SingleKinds
  <2>1. Apply(state, e) = [state EXCEPT ![e.kind] = <<e>>]
    BY <1>3 DEF Apply, SingleKinds
  <2>2. QED
    BY <1>1, <2>1
<1>4. CASE e.kind \notin SingleKinds \cup {"audit", "waiver"}
  <2>1. Apply(state, e) = [state EXCEPT ![e.kind] = Append(@, e)]
    BY <1>4 DEF Apply
  <2>2. QED
    BY <1>1, <2>1
<1>5. QED
  BY <1>1, <1>2, <1>3, <1>4

(* What an append makes of a list. *)
LEMMA ListAppended ==
  ASSUME NEW list \in Seq(Entity), NEW e \in Entity
  PROVE  /\ DOMAIN Append(list, e) = 1 .. Len(list) + 1
         /\ DOMAIN list = 1 .. Len(list) /\ Len(list) \in Nat
         /\ \A i \in DOMAIN list : Append(list, e)[i] = list[i]
         /\ Append(list, e)[Len(list) + 1] = e
OBVIOUS

(* An entity of an appending kind among the four joins its list. *)
LEMMA ApplyAppends ==
  ASSUME NEW state \in [StateKinds -> Seq(Entity)], NEW e \in Entity,
         e.kind \in {"placement", "line", "violation"}, NEW kind \in LedgerKinds
  PROVE  Apply(state, e)[kind] = IF kind = e.kind THEN Append(state[kind], e) ELSE state[kind]
<1>1. kind \in StateKinds /\ DOMAIN state = StateKinds
  BY DEF LedgerKinds, StateKinds, ListKinds
<1>2. Apply(state, e) = [state EXCEPT ![e.kind] = Append(@, e)]
  BY DEF Apply, SingleKinds
<1>3. QED
  BY <1>1, <1>2

-----------------------------------------------------------------------------
(* One request *)

\* No two entities of the list name the same component.
Unshared(list) ==
  \A i, j \in DOMAIN list :
    i /= j => NamesOfKind(list[i], "component") \cap NamesOfKind(list[j], "component") = {}

(* An entity whose components nothing in the list names joins it. *)
LEMMA StaysUnshared ==
  ASSUME NEW state \in [StateKinds -> Seq(Entity)], NEW kind \in {"placement", "line"},
         NEW e \in Entity, Unshared(state[kind]),
         \A c \in NamesOfKind(e, "component") : Naming(state, kind, c) = {}
  PROVE  Unshared(Append(state[kind], e))
<1> DEFINE list == state[kind]
           more == Append(list, e)
<1>1. list \in Seq(Entity)
  BY DEF StateKinds, ListKinds
<1>2. ASSUME NEW i \in DOMAIN list
      PROVE  NamesOfKind(list[i], "component") \cap NamesOfKind(e, "component") = {}
  <2>1. \A c \in NamesOfKind(e, "component") : c \notin list[i].names
    BY DEF Naming
  <2>2. QED
    BY <2>1 DEF NamesOfKind
<1>3. /\ DOMAIN more = 1 .. Len(list) + 1 /\ DOMAIN list = 1 .. Len(list) /\ Len(list) \in Nat
      /\ \A i \in DOMAIN list : more[i] = list[i]
      /\ more[Len(list) + 1] = e
  BY <1>1, ListAppended
<1>4. \A i, j \in DOMAIN list :
        i /= j => NamesOfKind(list[i], "component") \cap NamesOfKind(list[j], "component") = {}
  BY DEF Unshared
<1> HIDE DEF list, more
<1>5. ASSUME NEW i \in DOMAIN more, NEW j \in DOMAIN more, i /= j
      PROVE  NamesOfKind(more[i], "component") \cap NamesOfKind(more[j], "component") = {}
  <2>1. CASE i \in DOMAIN list /\ j \in DOMAIN list
    BY <1>3, <1>4, <1>5, <2>1
  <2>2. CASE i = Len(list) + 1
    <3>1. j \in DOMAIN list
      BY <1>3, <1>5, <2>2
    <3>2. QED
      BY <1>2, <1>3, <2>2, <3>1
  <2>3. CASE j = Len(list) + 1
    <3>1. i \in DOMAIN list
      BY <1>3, <1>5, <2>3
    <3>2. QED
      BY <1>2, <1>3, <2>3, <3>1
  <2>4. QED
    BY <1>3, <1>5, <2>1, <2>2, <2>3
<1>6. QED
  BY <1>5 DEF Unshared, more, list

(* A component is placed or ordered: nothing else in its list names it. *)
LEMMA ListingStep ==
  ASSUME NEW state \in [StateKinds -> Seq(Entity)], NEW kind \in {"placement", "line"},
         NEW e \in Entity, e.kind = kind, NEW new,
         \A k \in LedgerKinds : new[k] = Apply(state, e)[k],
         \A c \in NamesOfKind(e, "component") : Naming(state, kind, c) = {},
         Ledger(state), Consistent(state)
  PROVE  Ledger(new) /\ Consistent(new)
<1>1. \A k \in LedgerKinds : new[k] = IF k = kind THEN Append(state[k], e) ELSE state[k]
  BY ApplyAppends
<1>2. /\ new["violation"] = state["violation"] /\ new["waiver"] = state["waiver"]
      /\ new[kind] = Append(state[kind], e)
      /\ \A k \in {"placement", "line"} \ {kind} : new[k] = state[k]
  BY <1>1 DEF LedgerKinds
<1>3. Ledger(new)
  <2>1. \A n : n[1] = "violation" /\ Holds(state, n) => Holds(new, n)
    BY <1>2 DEF Holds
  <2>2. QED
    BY <1>2, <2>1 DEF Ledger
<1>4. \A k \in {"placement", "line"} : Unshared(state[k])
  BY DEF Consistent, Unshared
<1>5. Unshared(new[kind])
  BY <1>2, <1>4, StaysUnshared
<1>6. \A k \in {"placement", "line"} : Unshared(new[k])
  BY <1>2, <1>4, <1>5
<1>7. \A name : Naming(new, "waiver", name) = Naming(state, "waiver", name)
  BY <1>2 DEF Naming
<1>8. QED
  BY <1>2, <1>3, <1>6, <1>7 DEF Consistent, Unshared

(* A violation is raised: it is new, and nothing waives it yet. *)
LEMMA RaisingStep ==
  ASSUME NEW state \in [StateKinds -> Seq(Entity)], NEW names, AllIssued(state, names),
         NEW e \in Entity, e.kind = "violation", ~e.waived, NameOf(e) \notin names, NEW new,
         \A k \in LedgerKinds : new[k] = Apply(state, e)[k],
         \A k \in StateKinds : \A i \in DOMAIN state[k] : state[k][i].kind = k,
         Ledger(state), Consistent(state)
  PROVE  Ledger(new) /\ Consistent(new)
<1>1. \A k \in LedgerKinds :
        new[k] = IF k = "violation" THEN Append(state[k], e) ELSE state[k]
  BY ApplyAppends
<1> DEFINE old == state["violation"]
           more == new["violation"]
<1>2. /\ new["placement"] = state["placement"] /\ new["line"] = state["line"]
      /\ new["waiver"] = state["waiver"] /\ more = Append(old, e)
  BY <1>1 DEF LedgerKinds
<1>3. old \in Seq(Entity) /\ "violation" \in StateKinds
  BY DEF StateKinds, ListKinds
<1>4. /\ DOMAIN more = 1 .. Len(old) + 1 /\ DOMAIN old = 1 .. Len(old) /\ Len(old) \in Nat
      /\ \A i \in DOMAIN old : more[i] = old[i]
      /\ more[Len(old) + 1] = e
  BY <1>2, <1>3, ListAppended
<1>5. \A i \in DOMAIN old : NameOf(old[i]) /= NameOf(e)
  BY <1>3 DEF AllIssued
<1>6. \A name : Naming(new, "waiver", name) = Naming(state, "waiver", name)
  BY <1>2 DEF Naming
<1>7. Naming(state, "waiver", NameOf(e)) = {}
  <2>1. SUFFICES ASSUME NEW i \in DOMAIN state["waiver"], NameOf(e) \in state["waiver"][i].names
                 PROVE  FALSE
    BY DEF Naming
  <2>2. Holds(state, NameOf(e))
    BY <2>1 DEF Ledger, NameOf
  <2>3. PICK j \in DOMAIN old : old[j].id = e.id
    BY <2>2 DEF Holds, NameOf
  <2>4. NameOf(old[j]) = NameOf(e)
    BY <1>3, <2>3 DEF NameOf
  <2>5. QED
    BY <1>5, <2>4
<1>8. \A i, j \in DOMAIN old : NameOf(old[i]) = NameOf(old[j]) => i = j
  BY DEF Ledger
<1>9. \A i \in DOMAIN old : old[i].waived <=> Naming(state, "waiver", NameOf(old[i])) /= {}
  BY DEF Consistent
<1> HIDE DEF old, more
<1>10. \A i, j \in DOMAIN more : NameOf(more[i]) = NameOf(more[j]) => i = j
  BY <1>4, <1>5, <1>8
<1>11. \A i \in DOMAIN more : more[i].waived <=> Naming(new, "waiver", NameOf(more[i])) /= {}
  BY <1>4, <1>6, <1>7, <1>9
<1>12. ASSUME NEW i \in DOMAIN new["waiver"], NEW n \in new["waiver"][i].names, n[1] = "violation"
       PROVE  Holds(new, n)
  <2>1. Holds(state, n)
    BY <1>2, <1>12 DEF Ledger
  <2>2. PICK j \in DOMAIN old : old[j].id = n[2]
    BY <1>12, <2>1 DEF Holds, old
  <2>3. j \in DOMAIN more /\ more[j].id = n[2]
    BY <1>4, <2>2
  <2>4. QED
    BY <1>12, <2>3 DEF Holds, more
<1>13. Ledger(new)
  BY <1>2, <1>10, <1>12 DEF Ledger, more
<1>14. Consistent(new)
  <2>1. \A k \in {"placement", "line"} : new[k] = state[k] /\ Unshared(state[k])
    BY <1>2 DEF Consistent, Unshared
  <2>2. \A k \in {"placement", "line"} : Unshared(new[k])
    BY <2>1
  <2>3. QED
    BY <1>11, <2>2 DEF Consistent, Unshared, more
<1>15. QED
  BY <1>13, <1>14

(* A waiver is granted: of the violation it names, and of no other. *)
LEMMA WaivingStep ==
  ASSUME NEW state \in [StateKinds -> Seq(Entity)],
         NEW e \in Entity, e.kind = "waiver", NEW new,
         \A m, n \in e.names : m = n,
         \A n \in NamesOfKind(e, "violation") : Holds(state, n),
         \A k \in LedgerKinds : new[k] = Apply(state, e)[k],
         Ledger(state), Consistent(state)
  PROVE  Ledger(new) /\ Consistent(new)
<1> DEFINE old == state["violation"]
           after == new["violation"]
           waivers == state["waiver"]
           granted == new["waiver"]
<1>1. old \in Seq(Entity) /\ waivers \in Seq(Entity) /\ DOMAIN state = StateKinds
      /\ {"placement", "line", "violation", "waiver"} \subseteq StateKinds
  BY DEF StateKinds, ListKinds
<1>2. Apply(state, e) = [state EXCEPT !["violation"] = Waive(@, e), !["waiver"] = Append(@, e)]
  BY DEF Apply, SingleKinds
<1>3. /\ new["placement"] = state["placement"] /\ new["line"] = state["line"]
      /\ after = Waive(old, e) /\ granted = Append(waivers, e)
  BY <1>1, <1>2 DEF LedgerKinds
<1>4. DOMAIN after = DOMAIN old /\ \A i \in DOMAIN old : Same(after[i], old[i])
  BY <1>1, <1>3, WaiveShape
<1>5. \A i \in DOMAIN old : NameOf(after[i]) = NameOf(old[i])
  BY <1>4 DEF Same, NameOf
<1>6. \A i, j \in DOMAIN old : NameOf(old[i]) = NameOf(old[j]) => i = j
  BY DEF Ledger
<1>7. ASSUME NEW i \in DOMAIN old
      PROVE  after[i].waived <=> old[i].waived \/ NameOf(old[i]) \in e.names
  <2>1. FirstNamed(i, old, e) <=> NameOf(old[i]) \in e.names
    <3>1. ASSUME NameOf(old[i]) \in e.names, NEW j \in DOMAIN old, NameOf(old[j]) \in e.names
          PROVE  i <= j
      <4>1. i = j
        BY <1>6, <3>1
      <4>2. QED
        BY <1>1, <4>1
    <3>2. QED
      BY <3>1 DEF FirstNamed
  <2>2. old[i] \in Entity
    BY <1>1
  <2>3. after[i] = [old[i] EXCEPT !.waived = old[i].waived \/ FirstNamed(i, old, e)]
    BY <1>3 DEF Waive
  <2>4. after[i].waived = (old[i].waived \/ FirstNamed(i, old, e))
    BY <2>2, <2>3 DEF Entity
  <2>5. QED
    BY <2>1, <2>4
<1>8. /\ DOMAIN granted = 1 .. Len(waivers) + 1 /\ DOMAIN waivers = 1 .. Len(waivers)
      /\ Len(waivers) \in Nat
      /\ \A i \in DOMAIN waivers : granted[i] = waivers[i]
      /\ granted[Len(waivers) + 1] = e
  BY <1>1, <1>3, ListAppended
<1>9. \A name : Naming(new, "waiver", name) /= {}
                  <=> Naming(state, "waiver", name) /= {} \/ name \in e.names
  <2> SUFFICES ASSUME NEW name
               PROVE  (\E i \in DOMAIN granted : name \in granted[i].names)
                        <=> (\E i \in DOMAIN waivers : name \in waivers[i].names)
                              \/ name \in e.names
    BY DEF Naming
  <2> HIDE DEF granted, waivers
  <2>1. QED
    BY <1>8
<1>10. \A i \in DOMAIN old : old[i].waived <=> Naming(state, "waiver", NameOf(old[i])) /= {}
  BY DEF Consistent
<1>11. \A i \in DOMAIN waivers :
         /\ waivers[i].names \subseteq Name
         /\ \A n \in waivers[i].names : n[1] = "violation" => Holds(state, n)
  BY DEF Ledger
<1>12. e.names \subseteq Name /\ \A n \in e.names : n[1] = "violation" => Holds(state, n)
  BY DEF Entity, NamesOfKind
<1>13. \A n : n[1] = "violation" /\ Holds(state, n) => Holds(new, n)
  BY <1>4 DEF Holds, Same
<1> HIDE DEF granted, waivers
<1>14. \A i \in DOMAIN granted :
         /\ granted[i].names \subseteq Name
         /\ \A n \in granted[i].names : n[1] = "violation" => Holds(new, n)
  <2>1. \A i \in DOMAIN granted : i \in DOMAIN waivers \/ granted[i] = e
    BY <1>8
  <2>2. QED
    BY <1>8, <1>11, <1>12, <1>13, <2>1
<1>15. Ledger(new)
  BY <1>4, <1>5, <1>6, <1>14 DEF Ledger, granted
<1>16. \A i \in DOMAIN after : after[i].waived <=> Naming(new, "waiver", NameOf(after[i])) /= {}
  <2> HIDE DEF after, old
  <2>1. QED
    BY <1>4, <1>5, <1>7, <1>9, <1>10
<1>17. Consistent(new)
  BY <1>3, <1>16 DEF Consistent
<1>18. QED
  BY <1>15, <1>17

(* What a handler lets pass is consistent with the live state. *)
LEMMA HandledStep ==
  ASSUME ConsistencyInv, NEW r \in Requests, Handles(r), Fresh(Events(r)),
         NEW new, new = Fold(live, r)
  PROVE  Ledger(new) /\ Consistent(new)
<1> DEFINE e == r.entity
<1>1. r \in Request /\ e \in Entity
  BY KernelAssumption DEF Request
<1>2. /\ live \in [StateKinds -> Seq(Entity)] /\ Ledger(live) /\ Consistent(live)
      /\ AllIssued(live, issued)
      /\ \A k \in StateKinds : \A i \in DOMAIN live[k] : live[k][i].kind = k
  BY DEF ConsistencyInv, KernelInv, TypeOK, LiveInv, WellKept
<1>3. \A k \in LedgerKinds : new[k] = Apply(live, e)[k]
  BY FoldOfLedgerKind
<1>4. NameOf(e) \notin issued
  <2>1. e \in Range(Events(r))
    BY <1>1, EventsShape
  <2>2. NameOf(e) \in NamesOf(Events(r))
    BY <2>1 DEF Range, NamesOf
  <2>3. QED
    BY <2>2 DEF Fresh
<1>5. ~e.waived /\ (e.kind = "waiver" => \A m, n \in e.names : m = n)
  BY RequestsAssumption
<1>6. CASE e.kind \notin LedgerKinds
  <2>1. \A k \in LedgerKinds : live[k] = new[k]
    BY <1>1, <1>2, <1>3, <1>6, ApplyOther
  <2>2. QED
    BY <1>2, <2>1, SameLedger
<1>7. CASE e.kind = "placement"
  <2>1. PlaceComponent(r)
    BY <1>7 DEF Handles, CreateRequirement, CreateConstraint, RaiseViolation, GrantWaiver,
                CreateFunctionalBlock, RealizeComponent, CreateNet, CreatePart,
                CreateBomLineItem, CreateBoard, RouteNet, Emit, Requested
  <2>2. \A c \in NamesOfKind(e, "component") : Naming(live, "placement", c) = {}
    BY <2>1 DEF PlaceComponent
  <2>3. QED
    BY <1>1, <1>2, <1>3, <1>7, <2>2, ListingStep
<1>8. CASE e.kind = "line"
  <2>1. CreateBomLineItem(r)
    BY <1>8 DEF Handles, CreateRequirement, CreateConstraint, RaiseViolation, GrantWaiver,
                CreateFunctionalBlock, RealizeComponent, CreateNet, CreatePart,
                CreateBoard, PlaceComponent, RouteNet, Emit, Requested
  <2>2. \A c \in NamesOfKind(e, "component") : Naming(live, "line", c) = {}
    BY <2>1 DEF CreateBomLineItem
  <2>3. QED
    BY <1>1, <1>2, <1>3, <1>8, <2>2, ListingStep
<1>9. CASE e.kind = "violation"
  BY <1>1, <1>2, <1>3, <1>4, <1>5, <1>9, RaisingStep
<1>10. CASE e.kind = "waiver"
  <2>1. GrantWaiver(r)
    BY <1>10 DEF Handles, CreateRequirement, CreateConstraint, RaiseViolation,
                 CreateFunctionalBlock, RealizeComponent, CreateNet, CreatePart,
                 CreateBomLineItem, CreateBoard, PlaceComponent, RouteNet, Emit, Requested
  <2>2. \A n \in NamesOfKind(e, "violation") : Holds(live, n)
    BY <2>1 DEF GrantWaiver, Resolves
  <2>3. QED
    BY <1>1, <1>2, <1>3, <1>5, <1>10, <2>2, WaivingStep
<1>11. QED
  BY <1>6, <1>7, <1>8, <1>9, <1>10 DEF LedgerKinds

(* What a request adds to the live state it also adds to the names issued. *)
LEMMA FoldIssued ==
  ASSUME NEW state \in [StateKinds -> Seq(Entity)], NEW names, AllIssued(state, names),
         NEW r \in Request, r.entity.kind \notin Companions,
         NEW new, new = Fold(state, r)
  PROVE  AllIssued(new, names \cup NamesOf(Events(r)))
<1> SUFFICES ASSUME NEW kind \in StateKinds, NEW i \in DOMAIN new[kind]
             PROVE  NameOf(new[kind][i]) \in names \cup NamesOf(Events(r))
  BY DEF AllIssued
<1>1. \/ new[kind][i] \in Range(Events(r))
      \/ \E j \in DOMAIN state[kind] : Same(new[kind][i], state[kind][j])
  BY FoldShape DEF Arrivals
<1>2. CASE new[kind][i] \in Range(Events(r))
  BY <1>2 DEF Range, NamesOf
<1>3. CASE \E j \in DOMAIN state[kind] : Same(new[kind][i], state[kind][j])
  BY <1>3 DEF AllIssued, Same, NameOf
<1>4. QED
  BY <1>1, <1>2, <1>3

-----------------------------------------------------------------------------
(* Every step preserves the invariant *)

(* The empty state is consistent. *)
LEMMA EmptyConsistent ==
  /\ \A names : AllIssued(EmptyState, names)
  /\ Ledger(EmptyState)
  /\ Consistent(EmptyState)
<1>1. \A kind \in StateKinds : EmptyState[kind] = <<>>
  BY DEF EmptyState
<1>2. {"placement", "line", "violation", "waiver"} \subseteq StateKinds
  BY DEF StateKinds, ListKinds
<1>3. QED
  BY <1>1, <1>2 DEF AllIssued, Ledger, Consistent

(* The process died. *)
LEMMA ConsistentDies ==
  ASSUME KernelInv', Dies
  PROVE  ConsistencyInv'
BY EmptyConsistent DEF Dies, ConsistencyInv

(* A handled request, appended, half appended, or cut short by a crash. *)
LEMMA ConsistentHandled ==
  ASSUME ConsistencyInv, KernelInv', NEW r \in Requests, Handles(r)
  PROVE  ConsistencyInv'
<1>1. /\ r \in Request /\ r.entity.kind \notin Companions
      /\ live \in [StateKinds -> Seq(Entity)] /\ AllIssued(live, issued)
      /\ Ledger(live) /\ Consistent(live)
  BY KernelAssumption DEF ConsistencyInv, KernelInv, TypeOK
<1>2. Submit(r)
  BY HandlesGrounded
<1>3. Fresh(Events(r))
  BY <1>2 DEF Submit
<1>4. CASE live' = Fold(live, r) /\ Mints(Events(r))
  <2>1. Ledger(live') /\ Consistent(live')
    BY <1>3, <1>4, HandledStep
  <2>2. AllIssued(live', issued')
    BY <1>1, <1>4, FoldIssued DEF Mints
  <2>3. QED
    BY <2>1, <2>2 DEF ConsistencyInv
<1>5. CASE live' = live /\ Mints(Events(r))
  <2>1. AllIssued(live', issued')
    BY <1>1, <1>5 DEF AllIssued, Mints
  <2>2. QED
    BY <1>1, <1>5, <2>1 DEF ConsistencyInv
<1>6. CASE Dies
  BY <1>6, ConsistentDies
<1>7. QED
  BY <1>2, <1>4, <1>5, <1>6 DEF Submit, DiesInAppend

(* A captured intent. *)
LEMMA ConsistentCapture ==
  ASSUME ConsistencyInv, KernelInv', NEW intent \in Intents, CaptureIntent(intent)
  PROVE  ConsistencyInv'
<1>1. /\ live \in [StateKinds -> Seq(Entity)] /\ AllIssued(live, issued)
      /\ Ledger(live) /\ Consistent(live)
  BY DEF ConsistencyInv, KernelInv, TypeOK
<1>2. intent \in Entity /\ intent.kind = "intent"
  BY KernelAssumption DEF OfKind
<1>3. CASE live' = Apply(live, intent) /\ Mints(<<intent>>)
  <2>1. \A k \in LedgerKinds : live[k] = live'[k]
    BY <1>1, <1>2, <1>3, ApplyOther DEF LedgerKinds
  <2>2. Ledger(live') /\ Consistent(live')
    BY <1>1, <2>1, SameLedger
  <2>3. NameOf(intent) \in issued' /\ issued \subseteq issued'
    BY <1>3 DEF Mints, NamesOf
  <2>4. AllIssued(live', issued')
    <3>1. SUFFICES ASSUME NEW kind \in StateKinds, NEW i \in DOMAIN live'[kind]
                   PROVE  NameOf(live'[kind][i]) \in issued'
      BY DEF AllIssued
    <3>2. \/ live'[kind][i] = intent
          \/ \E j \in DOMAIN live[kind] : Same(live'[kind][i], live[kind][j])
      BY <1>1, <1>2, <1>3, ApplyShape
    <3>3. QED
      BY <1>1, <2>3, <3>2 DEF AllIssued, Same, NameOf
  <2>5. QED
    BY <2>2, <2>4 DEF ConsistencyInv
<1>4. CASE Dies
  BY <1>4, ConsistentDies
<1>5. QED
  BY <1>3, <1>4 DEF CaptureIntent, DiesInAppend

(* The live state is consistent throughout. *)
LEMMA ConsistencyInvariant == Spec => []ConsistencyInv
<1>1. Init => ConsistencyInv
  BY KernelInvInit, EmptyConsistent DEF Init, ConsistencyInv
<1>2. ConsistencyInv /\ KernelInv' /\ [Next]_vars => ConsistencyInv'
  <2> SUFFICES ASSUME ConsistencyInv, KernelInv', [Next]_vars PROVE ConsistencyInv'
    OBVIOUS
  <2>1. CASE live' = live /\ issued' = issued
    BY <2>1 DEF ConsistencyInv
  <2>2. CASE Boot
    BY <2>1, <2>2 DEF Boot
  <2>3. ASSUME NEW intent \in Intents, CaptureIntent(intent) PROVE ConsistencyInv'
    BY <2>3, ConsistentCapture
  <2>4. ASSUME NEW r \in Requests, Handles(r) PROVE ConsistencyInv'
    BY <2>4, ConsistentHandled
  <2>5. CASE Exit
    BY <2>5, ConsistentDies DEF Exit
  <2>6. CASE UNCHANGED vars
    BY <2>1, <2>6 DEF vars
  <2>7. QED
    BY <2>2, <2>3, <2>4, <2>5, <2>6 DEF Next
<1>3. QED
  BY <1>1, <1>2, KernelInvariant, PTL DEF Spec

-----------------------------------------------------------------------------
(* Consistency: the theorem *)

(* A component is placed once and ordered once, and a violation is waived exactly   *)
(* when a waiver names it, in every live state, whichever appends fail: the checks of   *)
(* runtime_core.rs at the seam and the fold of state.rs keep it so together.          *)
THEOREM LiveStateIsConsistent == Spec => []LiveConsistent
<1>1. ConsistencyInv => LiveConsistent
  BY DEF ConsistencyInv, LiveConsistent
<1>2. QED
  BY <1>1, ConsistencyInvariant, PTL

-----------------------------------------------------------------------------
(* The readers: the invariant *)

\* What the handlers ask of an entity beyond its references: it has one at all, and a
\* placement has no second one.
WellFormed(e) ==
  /\ e.kind = "block" => NamesOfKind(e, "requirement") /= {}
  /\ e.kind = "component" => NamesOfKind(e, "block") /= {}
  /\ e.kind = "placement" => /\ NamesOfKind(e, "component") /= {}
                             /\ \A m, n \in NamesOfKind(e, "component") : m = n

\* Every entity of the state is well formed.
AllWellFormed(state) ==
  \A kind \in StateKinds : \A i \in DOMAIN state[kind] : WellFormed(state[kind][i])

\* What the readers rely on.
ReadersInv == ConsistencyInv /\ AllWellFormed(live)

(* The entity of a request that a handler takes is well formed. *)
LEMMA HandledWellFormed ==
  ASSUME NEW r \in Requests, Handles(r)
  PROVE  WellFormed(r.entity)
<1>1. r.entity.kind = "block" => CreateFunctionalBlock(r)
  BY DEF Handles, CreateRequirement, CreateConstraint, RaiseViolation, GrantWaiver,
         RealizeComponent, CreateNet, CreatePart, CreateBomLineItem, CreateBoard,
         PlaceComponent, RouteNet, Emit, Requested
<1>2. r.entity.kind = "component" => RealizeComponent(r)
  BY DEF Handles, CreateRequirement, CreateConstraint, RaiseViolation, GrantWaiver,
         CreateFunctionalBlock, CreateNet, CreatePart, CreateBomLineItem, CreateBoard,
         PlaceComponent, RouteNet, Emit, Requested
<1>3. r.entity.kind = "placement" => PlaceComponent(r)
  BY DEF Handles, CreateRequirement, CreateConstraint, RaiseViolation, GrantWaiver,
         CreateFunctionalBlock, RealizeComponent, CreateNet, CreatePart, CreateBomLineItem,
         CreateBoard, RouteNet, Emit, Requested
<1>4. r.entity.kind = "placement" => \A m, n \in NamesOfKind(r.entity, "component") : m = n
  BY RequestsAssumption
<1>5. QED
  BY <1>1, <1>2, <1>3, <1>4
     DEF WellFormed, CreateFunctionalBlock, RealizeComponent, PlaceComponent

(* Entities that differ in being waived are well formed alike. *)
LEMMA SameWellFormed ==
  ASSUME NEW e, NEW f, Same(e, f), WellFormed(f)
  PROVE  WellFormed(e)
BY DEF Same, WellFormed, NamesOfKind

(* An entity of a kind that nothing is asked of is well formed. *)
LEMMA OtherWellFormed ==
  ASSUME NEW e, e.kind \notin {"block", "component", "placement"}
  PROVE  WellFormed(e)
BY DEF WellFormed

(* A request leaves what is live well formed. *)
LEMMA FoldWellFormed ==
  ASSUME NEW state \in [StateKinds -> Seq(Entity)], AllWellFormed(state),
         NEW r \in Request, r.entity.kind \notin Companions, WellFormed(r.entity),
         NEW new, new = Fold(state, r)
  PROVE  AllWellFormed(new)
<1> SUFFICES ASSUME NEW kind \in StateKinds, NEW i \in DOMAIN new[kind]
             PROVE  WellFormed(new[kind][i])
  BY DEF AllWellFormed
<1>1. \/ new[kind][i] \in Range(Events(r))
      \/ \E j \in DOMAIN state[kind] : Same(new[kind][i], state[kind][j])
  BY FoldShape DEF Arrivals
<1>2. CASE new[kind][i] \in Range(Events(r))
  <2>1. \A k, s : s \in Seq(OfKind(k)) => \A e \in Range(s) : e.kind = k
    <3>1. SUFFICES ASSUME NEW k, NEW s \in Seq(OfKind(k)) PROVE \A e \in Range(s) : e.kind = k
      OBVIOUS
    <3>2. Range(s) \subseteq OfKind(k)
      BY RangeOfSeq
    <3>3. QED
      BY <3>2 DEF OfKind
  <2>2. \A e \in Range(r.evidence) \cup Range(r.decision) \cup Range(r.pins) \cup Range(r.links) :
          e.kind \in Companions
    BY <2>1 DEF Request, Companions
  <2>3. new[kind][i] = r.entity \/ new[kind][i].kind \in Companions
    BY <1>2, <2>2, EventsShape
  <2>4. QED
    BY <2>3, OtherWellFormed DEF Companions
<1>3. CASE \E j \in DOMAIN state[kind] : Same(new[kind][i], state[kind][j])
  BY <1>3, SameWellFormed DEF AllWellFormed
<1>4. QED
  BY <1>1, <1>2, <1>3

(* Every step of the process keeps what is live well formed. *)
LEMMA WellFormedStep ==
  ASSUME ConsistencyInv, AllWellFormed(live), Next
  PROVE  AllWellFormed(live')
<1>1. AllWellFormed(EmptyState)
  BY DEF AllWellFormed, EmptyState
<1>2. live \in [StateKinds -> Seq(Entity)]
  BY DEF ConsistencyInv, KernelInv, TypeOK
<1>3. CASE Boot
  BY <1>3 DEF Boot
<1>4. CASE Exit
  BY <1>1, <1>4 DEF Exit, Dies
<1>5. ASSUME NEW intent \in Intents, CaptureIntent(intent) PROVE AllWellFormed(live')
  <2>1. intent \in Entity /\ intent.kind = "intent"
    BY KernelAssumption DEF OfKind
  <2>2. CASE live' = Apply(live, intent)
    <3>1. SUFFICES ASSUME NEW kind \in StateKinds, NEW i \in DOMAIN live'[kind]
                   PROVE  WellFormed(live'[kind][i])
      BY DEF AllWellFormed
    <3>2. \/ live'[kind][i] = intent
          \/ \E j \in DOMAIN live[kind] : Same(live'[kind][i], live[kind][j])
      BY <1>2, <2>1, <2>2, ApplyShape
    <3>3. QED
      BY <2>1, <3>2, OtherWellFormed, SameWellFormed DEF AllWellFormed
  <2>3. QED
    BY <1>1, <1>5, <2>2 DEF CaptureIntent, DiesInAppend, Dies
<1>6. ASSUME NEW r \in Requests, Handles(r) PROVE AllWellFormed(live')
  <2>1. Submit(r) /\ WellFormed(r.entity) /\ r \in Request /\ r.entity.kind \notin Companions
    BY <1>6, HandlesGrounded, HandledWellFormed, KernelAssumption
  <2>2. CASE live' = Fold(live, r)
    BY <1>2, <2>1, <2>2, FoldWellFormed
  <2>3. QED
    BY <1>1, <2>1, <2>2 DEF Submit, DiesInAppend, Dies
<1>7. QED
  BY <1>3, <1>4, <1>5, <1>6 DEF Next

(* What is live is consistent and well formed throughout. *)
LEMMA ReadersInvariant == Spec => []ReadersInv
<1>1. Init => AllWellFormed(live)
  BY DEF Init, AllWellFormed, EmptyState
<1>2. ConsistencyInv /\ AllWellFormed(live) /\ [Next]_vars => AllWellFormed(live)'
  <2>1. ASSUME ConsistencyInv, AllWellFormed(live), Next PROVE AllWellFormed(live')
    BY <2>1, WellFormedStep
  <2>2. ASSUME AllWellFormed(live), UNCHANGED vars PROVE AllWellFormed(live')
    BY <2>2 DEF vars
  <2>3. QED
    BY <2>1, <2>2
<1>3. QED
  BY <1>1, <1>2, ConsistencyInvariant, PTL DEF Spec, ReadersInv

-----------------------------------------------------------------------------
(* Projections *)

\* A state whose references are to what it has: what the seam looks up is in it.
Closed(state) ==
  /\ state \in [StateKinds -> Seq(Entity)]
  /\ \A kind \in StateKinds : \A i \in DOMAIN state[kind] :
       /\ state[kind][i].kind = kind
       /\ \A n \in CheckedNames(state[kind][i]) : Holds(state, n)
  /\ AllWellFormed(state)

(* The live state is one of them. *)
LEMMA LiveClosed ==
  ASSUME ReadersInv
  PROVE  Closed(live)
BY DEF ReadersInv, ConsistencyInv, KernelInv, LiveInv, WellKept, Closed

(* What an entity of the state names, of the kinds that the seam looks up, the state has. *)
LEMMA NamedIsHeld ==
  ASSUME NEW state, Closed(state), NEW kind \in StateKinds, NEW other,
         \A e : e.kind = kind => other \in CheckedKinds(e)
  PROVE  \A n \in NamedBy(state, kind, other) : Holds(state, n)
<1>1. SUFFICES ASSUME NEW e \in Entities(state, kind), NEW n \in NamesOfKind(e, other)
               PROVE  Holds(state, n)
  BY DEF NamedBy
<1>2. PICK i \in DOMAIN state[kind] : e = state[kind][i]
  BY DEF Entities, ToSet
<1>3. e.kind = kind /\ \A m \in CheckedNames(e) : Holds(state, m)
  BY <1>2 DEF Closed
<1>4. n \in CheckedNames(e)
  BY <1>1, <1>3 DEF NamesOfKind, CheckedNames
<1>5. QED
  BY <1>3, <1>4

(* What each projection says of a well-kept state. *)
LEMMA ProjectionErrors ==
  ASSUME NEW state, Closed(state)
  PROVE  /\ EngineeringIr(state) = {} /\ SchematicIr(state) = {}
         /\ \A error \in RequirementIr(state) \cup BomIr(state) \cup PcbIr(state) :
              error.variant \in Unfinished
<1>0. Closed(state) /\ AllWellFormed(state)
      /\ {"requirement", "block", "component", "pin", "net", "part", "line", "placement",
          "track"} \subseteq StateKinds
  BY DEF Closed, StateKinds, ListKinds
<1>1. \A kind \in StateKinds : \A e \in Entities(state, kind) :
        /\ e.kind = kind /\ WellFormed(e)
        /\ \A n \in CheckedNames(e) : Holds(state, n)
  BY <1>0 DEF Entities, ToSet, Closed, AllWellFormed
<1>2. EngineeringIr(state) = {}
  <2>1. ASSUME NEW b \in Entities(state, "block")
        PROVE  /\ NamesOfKind(b, "requirement") /= {}
               /\ \A n \in NamesOfKind(b, "requirement") : Holds(state, n)
    BY <1>0, <1>1 DEF WellFormed, CheckedNames, CheckedKinds, NamesOfKind
  <2>2. QED
    BY <2>1 DEF EngineeringIr, ErrorEach
<1>3. SchematicIr(state) = {}
  <2>1. ASSUME NEW c \in Entities(state, "component")
        PROVE  \E n \in NamesOfKind(c, "block") : Holds(state, n)
    BY <1>0, <1>1 DEF WellFormed, CheckedNames, CheckedKinds, NamesOfKind
  <2>2. \A n \in NamedBy(state, "net", "pin") : Holds(state, n)
    BY <1>0, NamedIsHeld DEF CheckedKinds
  <2>3. QED
    BY <2>1, <2>2 DEF SchematicIr, ErrorEach, ErrorUnknown
<1>4. \A error \in RequirementIr(state) : error.variant \in Unfinished
  BY DEF RequirementIr, ErrorEach, Error, Unfinished
<1>5. ASSUME NEW error \in BomIr(state) PROVE error.variant \in Unfinished
  <2>1. /\ \A n \in NamedBy(state, "line", "part") : Holds(state, n)
        /\ \A n \in NamedBy(state, "line", "component") : Holds(state, n)
    BY <1>0, NamedIsHeld DEF CheckedKinds
  <2>2. QED
    BY <1>5, <2>1 DEF BomIr, ErrorUnknown, ErrorEach, Error, Unfinished
<1>6. ASSUME NEW error \in PcbIr(state) PROVE error.variant \in Unfinished
  <2>1. /\ \A n \in NamedBy(state, "placement", "component") : Holds(state, n)
        /\ \A n \in NamedBy(state, "track", "net") : Holds(state, n)
    BY <1>0, NamedIsHeld DEF CheckedKinds
  <2>2. QED
    BY <1>6, <2>1 DEF PcbIr, ErrorUnknown, ErrorEach, Error, Unfinished
<1>7. QED
  BY <1>2, <1>3, <1>4, <1>5, <1>6 DEF ErrorUnknown

(* The component of a placement: it has one, and one only. *)
LEMMA PlacedIsHeld ==
  ASSUME NEW state, Closed(state), NEW k \in DOMAIN state["placement"]
  PROVE  LET p == state["placement"][k]
         IN  /\ NamesOfKind(p, "component") = {Placed(p)}
             /\ Holds(state, Placed(p))
<1> DEFINE p == state["placement"][k]
<1>1. "placement" \in StateKinds
  BY DEF StateKinds, ListKinds
<1>2. p.kind = "placement" /\ WellFormed(p) /\ \A n \in CheckedNames(p) : Holds(state, n)
  BY <1>1 DEF Closed, AllWellFormed
<1>3. NamesOfKind(p, "component") /= {} /\ \A m, n \in NamesOfKind(p, "component") : m = n
  BY <1>2 DEF WellFormed
<1> HIDE DEF p
<1>4. Placed(p) \in NamesOfKind(p, "component")
  BY <1>3 DEF Placed, NamesOfKind
<1>5. Holds(state, Placed(p))
  BY <1>2, <1>4 DEF CheckedNames, CheckedKinds, NamesOfKind
<1>6. QED
  BY <1>3, <1>4, <1>5 DEF p

(* An entity that the state has is one of its entities. *)
LEMMA HeldIsEntity ==
  ASSUME NEW state, Closed(state), NEW n \in Name, Holds(state, n)
  PROVE  \E e \in Entities(state, n[1]) : NameOf(e) = n
<1>1. n[1] \in StateKinds /\ n = <<n[1], n[2]>>
  BY DEF Name
<1>2. PICK i \in DOMAIN state[n[1]] : state[n[1]][i].id = n[2]
  BY DEF Holds
<1>3. state[n[1]][i] \in Entities(state, n[1]) /\ state[n[1]][i].kind = n[1]
  BY <1>1, <1>2 DEF Entities, ToSet, Closed
<1>4. QED
  BY <1>1, <1>2, <1>3 DEF NameOf

(* A design that lowers to a bill of materials and to a board lowers to manufacture. *)
LEMMA Joins ==
  ASSUME NEW state, Closed(state), LowersToBom(state), LowersToPcb(state)
  PROVE  LowersToManufacturing(state)
<1>1. Closed(state) /\ {"placement", "line", "component"} \subseteq StateKinds
      /\ state \in [StateKinds -> Seq(Entity)]
  BY DEF Closed, StateKinds, ListKinds
<1>2. BomIr(state) = {}
  BY DEF LowersToBom
<1>3. \A c \in Entities(state, "component") : Naming(state, "line", NameOf(c)) /= {}
  BY <1>2 DEF BomIr, ErrorEach
<1>4. \A n \in NamedBy(state, "line", "part") : Holds(state, n)
  BY <1>2 DEF BomIr, ErrorUnknown
<1>5. ASSUME NEW k \in DOMAIN state["placement"]
      PROVE  LET p == state["placement"][k]
             IN  Holds(state, Placed(p)) /\ Naming(state, "line", Placed(p)) /= {}
  <2> DEFINE p == state["placement"][k]
  <2>0. p \in Entity
    BY <1>1
  <2>1. Holds(state, Placed(p)) /\ NamesOfKind(p, "component") = {Placed(p)} /\ p \in Entity
    BY <2>0, PlacedIsHeld
  <2> HIDE DEF p
  <2>2. Placed(p) \in Name /\ Placed(p)[1] = "component"
    BY <2>1 DEF NamesOfKind, Entity
  <2>3. PICK c \in Entities(state, "component") : NameOf(c) = Placed(p)
    BY <1>1, <2>1, <2>2, HeldIsEntity
  <2>4. QED
    BY <1>3, <2>1, <2>3 DEF p
<1>6. ASSUME NEW i \in DOMAIN state["line"]
      PROVE  ErrorUnknown("UnknownPart", state, NamesOfKind(state["line"][i], "part")) = {}
  <2>1. \A n \in NamesOfKind(state["line"][i], "part") : Holds(state, n)
    BY <1>4 DEF NamedBy, Entities, ToSet
  <2>2. QED
    BY <2>1 DEF ErrorUnknown
<1>7. ManufacturingIr(state) = {}
  <2>1. ASSUME NEW p \in Entities(state, "placement")
        PROVE  /\ Holds(state, Placed(p)) /\ Naming(state, "line", Placed(p)) /= {}
    BY <1>5 DEF Entities, ToSet
  <2>2. QED
    BY <1>6, <2>1 DEF ManufacturingIr
<1>8. QED
  BY <1>7 DEF LowersToManufacturing

(* So a closed state fails of nothing but a design that is not finished. *)
LEMMA ClosedProjects ==
  ASSUME NEW state, Closed(state)
  PROVE  ProjectsSoundly(state)
BY ProjectionErrors, Joins DEF ProjectsSoundly

(* No projection of the live state ever meets a dangling reference, whatever fails, and  *)
(* the join at manufacture fails of nothing that the projections before it let pass: what   *)
(* eak-compiler can say of a run is that its design is not finished.                       *)
THEOREM LiveProjects == Spec => []ProjectsSoundly(live)
<1>1. ReadersInv => ProjectsSoundly(live)
  BY LiveClosed, ClosedProjects
<1>2. QED
  BY <1>1, ReadersInvariant, PTL

-----------------------------------------------------------------------------
(* What is built is what is ordered *)

(* Of a design that lowers, a placed component's line is the only one that names it. *)
LEMMA AssemblyIsOrder ==
  ASSUME ReadersInv, LowersToManufacturing(live), NEW part
  PROVE  Cardinality(Assembled(live, part)) = Cardinality(Ordered(live, part))
<1> DEFINE lines == live["line"]
           places == live["placement"]
           built == Assembled(live, part)
           bought == Ordered(live, part)
           at(k) == Placed(places[k])
           lineOf(k) == CHOOSE i \in DOMAIN lines : IsLineOf(i, live, at(k))
           order == [k \in built |-> <<lineOf(k), at(k)>>]
<1>1. /\ Closed(live) /\ Consistent(live) /\ live \in [StateKinds -> Seq(Entity)]
      /\ {"placement", "line", "component"} \subseteq StateKinds
  BY LiveClosed DEF ReadersInv, ConsistencyInv, KernelInv, TypeOK, StateKinds, ListKinds
<1>2. DOMAIN lines = 1 .. Len(lines) /\ Len(lines) \in Nat /\ lines \in Seq(Entity)
      /\ DOMAIN places = 1 .. Len(places) /\ Len(places) \in Nat /\ places \in Seq(Entity)
  BY <1>1
<1>3. \A k \in DOMAIN places : NamesOfKind(places[k], "component") = {at(k)}
  BY <1>1, PlacedIsHeld
<1>4. \A i, j \in DOMAIN lines :
        i /= j => NamesOfKind(lines[i], "component") \cap NamesOfKind(lines[j], "component") = {}
  BY <1>1 DEF Consistent
<1>5. \A k, m \in DOMAIN places :
        k /= m => NamesOfKind(places[k], "component") \cap NamesOfKind(places[m], "component") = {}
  BY <1>1 DEF Consistent
<1>6. built = {k \in DOMAIN places :
                 \E i \in DOMAIN lines : IsLineOf(i, live, at(k)) /\ part \in lines[i].names}
  BY DEF Assembled
<1>7. \A i, n : <<i, n>> \in bought <=>
        /\ i \in DOMAIN lines /\ part \in lines[i].names
        /\ n \in NamesOfKind(lines[i], "component")
  BY DEF Ordered
<1>8. \A b \in bought : \E i, n : b = <<i, n>>
  BY DEF Ordered
<1>9. \A i \in DOMAIN lines : \A n : IsLineOf(i, live, n) => n \in lines[i].names
  BY DEF IsLineOf, Naming
<1>10. \A i \in DOMAIN lines : \A n \in NamesOfKind(lines[i], "component") : IsLineOf(i, live, n)
  <2>1. SUFFICES ASSUME NEW i \in DOMAIN lines, NEW n \in NamesOfKind(lines[i], "component"),
                        NEW j \in DOMAIN lines, n \in lines[j].names
                 PROVE  i <= j
    BY DEF IsLineOf, Naming, NamesOfKind
  <2>2. n \in NamesOfKind(lines[j], "component")
    BY <2>1 DEF NamesOfKind
  <2> HIDE DEF lines
  <2>3. i = j
    BY <1>4, <2>1, <2>2
  <2>4. QED
    BY <1>2, <2>3
<1>11. \A i \in DOMAIN lines : \A n \in NamesOfKind(lines[i], "component") :
         \E k \in DOMAIN places : n = at(k)
  <2>1. SUFFICES ASSUME NEW i \in DOMAIN lines, NEW n \in NamesOfKind(lines[i], "component")
                 PROVE  \E k \in DOMAIN places : n = at(k)
    OBVIOUS
  <2>2. n \in NamedBy(live, "line", "component") /\ n \in Name /\ n[1] = "component"
    <3>1. lines[i] \in Entities(live, "line")
      BY DEF Entities, ToSet
    <3>2. lines[i] \in Entity
      BY <1>2
    <3> HIDE DEF lines
    <3>3. QED
      BY <2>1, <3>1, <3>2 DEF NamedBy, NamesOfKind, Entity
  <2>3. Holds(live, n)
    BY <1>1, <2>2, NamedIsHeld DEF CheckedKinds
  <2>4. PICK c \in Entities(live, "component") : NameOf(c) = n
    BY <1>1, <2>2, <2>3, HeldIsEntity
  <2>5. PcbIr(live) = {}
    BY DEF LowersToManufacturing, LowersToPcb
  <2>6. Naming(live, "placement", n) /= {}
    BY <2>4, <2>5 DEF PcbIr, ErrorEach
  <2>7. PICK k \in DOMAIN places : n \in places[k].names
    BY <2>6 DEF Naming
  <2>8. n \in NamesOfKind(places[k], "component")
    BY <2>2, <2>7 DEF NamesOfKind
  <2>9. QED
    BY <1>3, <2>7, <2>8
<1> HIDE DEF lines, places, built, bought, at
<1>12. \A k \in built : /\ lineOf(k) \in DOMAIN lines /\ part \in lines[lineOf(k)].names
                        /\ at(k) \in NamesOfKind(lines[lineOf(k)], "component")
  <2>1. SUFFICES ASSUME NEW k \in built
                 PROVE  /\ lineOf(k) \in DOMAIN lines /\ part \in lines[lineOf(k)].names
                        /\ at(k) \in NamesOfKind(lines[lineOf(k)], "component")
    OBVIOUS
  <2>2. PICK i \in DOMAIN lines : IsLineOf(i, live, at(k)) /\ part \in lines[i].names
    BY <1>6
  <2>3. lineOf(k) \in DOMAIN lines /\ IsLineOf(lineOf(k), live, at(k))
    BY <2>2
  <2>4. at(k) \in NamesOfKind(places[k], "component")
    BY <1>3, <1>6
  <2> HIDE DEF lineOf
  <2>5. /\ at(k) \in NamesOfKind(lines[i], "component")
        /\ at(k) \in NamesOfKind(lines[lineOf(k)], "component")
    BY <1>9, <2>2, <2>3, <2>4 DEF NamesOfKind
  <2>6. i = lineOf(k)
    BY <1>4, <2>3, <2>5
  <2>7. QED
    BY <2>2, <2>3, <2>5, <2>6
<1> HIDE DEF lineOf
<1>13. order \in [built -> bought]
  BY <1>7, <1>12
<1>14. ASSUME NEW k \in built, NEW m \in built, order[k] = order[m] PROVE k = m
  <2>1. at(k) = at(m)
    BY <1>14
  <2>2. QED
    BY <1>3, <1>5, <1>6, <2>1
<1>15. ASSUME NEW b \in bought PROVE \E k \in built : order[k] = b
  <2>1. PICK i, n : b = <<i, n>>
    BY <1>8
  <2>2. i \in DOMAIN lines /\ part \in lines[i].names /\ n \in NamesOfKind(lines[i], "component")
    BY <1>7, <2>1
  <2>3. PICK k \in DOMAIN places : n = at(k)
    BY <1>11, <2>2
  <2>4. k \in built
    BY <1>6, <1>10, <2>2, <2>3
  <2>5. lineOf(k) = i
    BY <1>4, <1>12, <2>2, <2>3, <2>4
  <2>6. QED
    BY <2>1, <2>3, <2>4, <2>5
<1> HIDE DEF order
<1>16. ExistsBijection(built, bought)
  <2>1. order \in Bijection(built, bought)
    BY <1>13, <1>14, <1>15, Fun_IsBij
  <2>2. QED
    BY <2>1, Fun_ExistsBij
<1>17. IsFiniteSet(built)
  <2>1. IsFiniteSet(1 .. Len(places))
    BY <1>2, FS_Interval
  <2>2. built \subseteq 1 .. Len(places)
    BY <1>2, <1>6
  <2>3. QED
    BY <2>1, <2>2, FS_Subset
<1>18. QED
  BY <1>16, <1>17, FS_Bijection DEF built, bought

(* Of a design that lowers to manufacture, each part is built in as often as it is         *)
(* ordered, in every live state, whichever appends fail.                                *)
THEOREM AssemblyIsOrdered == Spec => []AssemblyMatchesOrder
<1>1. ReadersInv => AssemblyMatchesOrder
  BY AssemblyIsOrder DEF AssemblyMatchesOrder
<1>2. QED
  BY <1>1, ReadersInvariant, PTL

-----------------------------------------------------------------------------
(* Replay, one event after the other *)

State == [StateKinds -> Seq(Entity)]

\* The states that a replay of the events goes through.
Folds(folded, events) ==
  folded = [n \in 0 .. Len(events) |->
              IF n = 0 THEN EmptyState ELSE Apply(folded[n - 1], events[n])]

(* A replay goes through some states, from the first event to the last.        *)
LEMMA FoldsExist ==
  ASSUME NEW events \in Seq(Entity)
  PROVE  \E folded : Folds(folded, events)
<1> DEFINE step(f, m) == IF m = 0 THEN EmptyState ELSE Apply(f[m - 1], events[m])
           upTo(f, n) == f = [m \in 0 .. n |-> step(f, m)]
           T == {n \in Nat : \E f : upTo(f, n)}
<1>1. 0 \in T
  <2> DEFINE f == [m \in 0 .. 0 |-> EmptyState]
  <2>1. \A m \in 0 .. 0 : step(f, m) = EmptyState
    OBVIOUS
  <2>2. upTo(f, 0)
    BY <2>1
  <2>3. QED
    BY <2>2
<1>2. ASSUME NEW n \in Nat, n \in T PROVE n + 1 \in T
  <2>1. PICK f : upTo(f, n)
    BY <1>2
  <2> DEFINE g == [m \in 0 .. n + 1 |-> IF m = n + 1 THEN Apply(f[n], events[n + 1]) ELSE f[m]]
  <2>2. \A m \in 0 .. n : g[m] = f[m] /\ f[m] = step(f, m)
    BY <2>1
  <2>3. ASSUME NEW m \in 0 .. n + 1 PROVE g[m] = step(g, m)
    <3>1. CASE m = n + 1
      <4>1. g[m] = Apply(f[n], events[n + 1]) /\ m /= 0 /\ m - 1 = n /\ n \in 0 .. n
        BY <3>1
      <4> HIDE DEF g
      <4>2. QED
        BY <2>2, <3>1, <4>1
    <3>2. CASE m = 0
      <4>1. 0 \in 0 .. n
        OBVIOUS
      <4> HIDE DEF g
      <4>2. QED
        BY <2>2, <3>2, <4>1
    <3>3. CASE m /= 0 /\ m /= n + 1
      <4>1. m \in 0 .. n /\ m - 1 \in 0 .. n
        BY <3>3
      <4> HIDE DEF g
      <4>2. QED
        BY <2>2, <3>3, <4>1
    <3>4. QED
      BY <3>1, <3>2, <3>3
  <2>4. DOMAIN g = 0 .. n + 1 /\ g = [m \in 0 .. n + 1 |-> g[m]]
    OBVIOUS
  <2>5. upTo(g, n + 1)
    <3> HIDE DEF g, step
    <3>1. [m \in 0 .. n + 1 |-> g[m]] = [m \in 0 .. n + 1 |-> step(g, m)]
      BY <2>3
    <3>2. QED
      BY <2>4, <3>1
  <2> HIDE DEF g, upTo
  <2>6. QED
    BY <2>5
<1>3. Nat \subseteq T
  <2> HIDE DEF T
  <2>1. QED
    BY <1>1, <1>2, NatInd
<1>4. Len(events) \in T
  BY <1>3
<1>5. QED
  BY <1>4 DEF Folds

(* The last of them is what the replay gives.                                  *)
LEMMA ReplayFolds ==
  ASSUME NEW events \in Seq(Entity)
  PROVE  \E folded : Folds(folded, events) /\ Replay(events) = folded[Len(events)]
<1> DEFINE folded == CHOOSE f : Folds(f, events)
<1>1. Folds(folded, events)
  BY FoldsExist
<1>2. Replay(events) = folded[Len(events)]
  BY DEF Replay, Folds
<1>3. QED
  BY <1>1, <1>2

(* The replay of nothing, and of one event more.                               *)
LEMMA ReplayEmpty == Replay(<<>>) = EmptyState
<1>1. <<>> \in Seq(Entity) /\ Len(<<>>) = 0
  OBVIOUS
<1>2. PICK folded : Folds(folded, <<>>) /\ Replay(<<>>) = folded[0]
  BY <1>1, ReplayFolds
<1>3. QED
  BY <1>1, <1>2 DEF Folds

LEMMA ReplayAppend ==
  ASSUME NEW events \in Seq(Entity), NEW e \in Entity
  PROVE  Replay(Append(events, e)) = Apply(Replay(events), e)
<1> DEFINE more == Append(events, e)
           n == Len(events)
<1>1. /\ more \in Seq(Entity) /\ Len(more) = n + 1 /\ n \in Nat
      /\ \A i \in 1 .. n : more[i] = events[i]
      /\ more[n + 1] = e
  BY AppendFacts
<1>2. PICK f : Folds(f, events) /\ Replay(events) = f[n]
  BY ReplayFolds
<1> HIDE DEF more, n
<1>3. PICK g : Folds(g, more) /\ Replay(more) = g[n + 1]
  BY <1>1, ReplayFolds
<1>4. /\ f[0] = EmptyState
      /\ \A m \in 1 .. n : f[m] = Apply(f[m - 1], events[m])
  BY <1>1, <1>2 DEF Folds, n
<1>5. /\ g[0] = EmptyState
      /\ \A m \in 1 .. n + 1 : g[m] = Apply(g[m - 1], more[m])
  BY <1>1, <1>3 DEF Folds
<1> DEFINE T == {m \in Nat : m <= n => f[m] = g[m]}
<1>6. Nat \subseteq T
  <2>1. 0 \in T
    BY <1>4, <1>5
  <2>2. ASSUME NEW m \in Nat, m \in T PROVE m + 1 \in T
    <3>1. SUFFICES ASSUME m + 1 <= n PROVE f[m + 1] = g[m + 1]
      OBVIOUS
    <3>2. f[m] = g[m]
      BY <1>1, <2>2, <3>1
    <3>3. m + 1 \in 1 .. n /\ m + 1 \in 1 .. n + 1 /\ m + 1 - 1 = m
      BY <1>1, <3>1
    <3>4. f[m + 1] = Apply(f[m], events[m + 1]) /\ g[m + 1] = Apply(g[m], more[m + 1])
      BY <1>4, <1>5, <3>3
    <3>5. QED
      BY <1>1, <3>2, <3>3, <3>4
  <2> HIDE DEF T
  <2>3. QED
    BY <2>1, <2>2, NatInd
<1>7. f[n] = g[n]
  BY <1>1, <1>6
<1>8. n + 1 \in 1 .. n + 1 /\ n + 1 - 1 = n
  BY <1>1
<1>9. g[n + 1] = Apply(g[n], more[n + 1])
  BY <1>1, <1>5, <1>8
<1>10. Apply(g[n], more[n + 1]) = Apply(f[n], e)
  BY <1>1, <1>7
<1>11. Replay(more) = Apply(Replay(events), e)
  BY <1>2, <1>3, <1>9, <1>10
<1>12. QED
  BY <1>11 DEF more

(* An event folded into a state gives a state.                                 *)
LEMMA ApplyType ==
  ASSUME NEW state \in State, NEW e \in Entity
  PROVE  Apply(state, e) \in State
<1>1. DOMAIN Apply(state, e) = StateKinds /\ Apply(state, e) = [k \in StateKinds |-> Apply(state, e)[k]]
  <2>1. state = [k \in StateKinds |-> state[k]]
    BY DEF State
  <2>2. CASE e.kind = "audit"
    BY <2>1, <2>2 DEF Apply
  <2>3. CASE e.kind \in SingleKinds
    <3>1. Apply(state, e) = [state EXCEPT ![e.kind] = <<e>>]
      BY <2>3 DEF Apply, SingleKinds
    <3>2. QED
      BY <2>1, <3>1
  <2>4. CASE e.kind = "waiver"
    <3>1. Apply(state, e) = [state EXCEPT !["violation"] = Waive(@, e), !["waiver"] = Append(@, e)]
      BY <2>4 DEF Apply, SingleKinds
    <3>2. QED
      BY <2>1, <3>1
  <2>5. CASE e.kind \notin SingleKinds \cup {"audit", "waiver"}
    <3>1. Apply(state, e) = [state EXCEPT ![e.kind] = Append(@, e)]
      BY <2>5 DEF Apply
    <3>2. QED
      BY <2>1, <3>1
  <2>6. QED
    BY <2>2, <2>3, <2>4, <2>5
<1>2. \A k \in StateKinds : Apply(state, e)[k] \in Seq(Entity)
  BY ApplyShape DEF State
<1>3. QED
  BY <1>1, <1>2 DEF State

(* An entity leaves the companions alone, and of two states that differ in       *)
(* nothing else it makes two that differ in nothing else.                      *)
LEMMA AppliesApart ==
  ASSUME NEW s \in State, NEW t \in State, NEW e \in Entity, e.kind \notin Companions,
         \A k \in StateKinds : k \notin Companions => s[k] = t[k],
         NEW k \in StateKinds
  PROVE  Apply(s, e)[k] = IF k \in Companions THEN s[k] ELSE Apply(t, e)[k]
<1>1. DOMAIN s = StateKinds /\ DOMAIN t = StateKinds
      /\ {"violation", "waiver"} \subseteq StateKinds \ Companions
  BY DEF State, StateKinds, ListKinds, Companions
<1>2. CASE e.kind = "audit"
  <2>1. Apply(s, e) = s /\ Apply(t, e) = t
    BY <1>2, e.kind \notin SingleKinds DEF Apply, SingleKinds
  <2>2. QED
    BY <2>1
<1>3. CASE e.kind \in SingleKinds
  <2>1. Apply(s, e) = [s EXCEPT ![e.kind] = <<e>>] /\ Apply(t, e) = [t EXCEPT ![e.kind] = <<e>>]
    BY <1>3 DEF Apply, SingleKinds
  <2>2. QED
    BY <1>1, <2>1
<1>4. CASE e.kind = "waiver"
  <2>1. /\ Apply(s, e) = [s EXCEPT !["violation"] = Waive(@, e), !["waiver"] = Append(@, e)]
        /\ Apply(t, e) = [t EXCEPT !["violation"] = Waive(@, e), !["waiver"] = Append(@, e)]
    BY <1>4 DEF Apply, SingleKinds
  <2>2. QED
    BY <1>1, <2>1
<1>5. CASE e.kind \notin SingleKinds \cup {"audit", "waiver"}
  <2>1. /\ Apply(s, e) = [s EXCEPT ![e.kind] = Append(@, e)]
        /\ Apply(t, e) = [t EXCEPT ![e.kind] = Append(@, e)]
    BY <1>5 DEF Apply
  <2>2. QED
    BY <1>1, <2>1
<1>6. QED
  BY <1>2, <1>3, <1>4, <1>5

(* A replay gives a state.                                                     *)
LEMMA ReplayType ==
  ASSUME NEW events \in Seq(Entity)
  PROVE  Replay(events) \in State
<1> DEFINE T == {h \in Seq(Entity) : Replay(h) \in State}
<1>1. <<>> \in T
  <2>1. EmptyState \in State
    BY DEF EmptyState, State
  <2>2. QED
    BY <2>1, ReplayEmpty
<1>2. ASSUME NEW h \in Seq(Entity), NEW e \in Entity, h \in T PROVE Append(h, e) \in T
  BY <1>2, ReplayAppend, ApplyType, AppendFacts
<1> HIDE DEF T
<1>3. Seq(Entity) \subseteq T
  BY <1>1, <1>2, SeqInd
<1>4. QED
  BY <1>3 DEF T

-----------------------------------------------------------------------------
(* Replay, one batch after the other *)

(* Entities in sequences: three in a row, one more, and none.                  *)
LEMMA EntityAssoc == \A s, t, u \in Seq(Entity) : s \o (t \o u) = (s \o t) \o u
BY ConcatFacts

LEMMA EntityMore ==
  \A s, t \in Seq(Entity), e \in Entity : s \o Append(t, e) = Append(s \o t, e)
BY ConcatFacts

LEMMA EntityOne ==
  \A s \in Seq(Entity), e \in Entity : Append(s, e) \in Seq(Entity) /\ s \o <<e>> = Append(s, e)
BY ConcatFacts

(* Companions of a kind join the list of that kind.                            *)
LEMMA ReplayCompanions ==
  ASSUME NEW s \in Seq(Entity), NEW kind \in Companions, NEW t \in Seq(OfKind(kind))
  PROVE  Replay(s \o t) = [Replay(s) EXCEPT ![kind] = @ \o t]
<1> DEFINE base == Replay(s)
           T == {u \in Seq(OfKind(kind)) : Replay(s \o u) = [base EXCEPT ![kind] = @ \o u]}
<1>1. base \in State /\ kind \in StateKinds /\ base[kind] \in Seq(Entity)
      /\ OfKind(kind) \subseteq Entity /\ kind \notin SingleKinds \cup {"audit", "waiver"}
  BY ReplayType DEF State, Companions, StateKinds, ListKinds, SingleKinds, OfKind
<1>2. \A u \in Seq(OfKind(kind)) : u \in Seq(Entity)
  BY <1>1, SeqOfSubset
<1> HIDE DEF base
<1>3. <<>> \in T
  <2>1. s \o <<>> = s /\ base[kind] \o <<>> = base[kind]
    BY <1>1, ConcatEmptySeq
  <2>2. [base EXCEPT ![kind] = @ \o <<>>] = base
    BY <1>1, <2>1 DEF State
  <2>3. <<>> \in Seq(OfKind(kind)) /\ Replay(s \o <<>>) = base
    BY <2>1 DEF base
  <2>4. QED
    BY <2>2, <2>3
<1>4. ASSUME NEW u \in Seq(OfKind(kind)), NEW e \in OfKind(kind), u \in T
      PROVE  Append(u, e) \in T
  <2>1. e \in Entity /\ u \in Seq(Entity) /\ e.kind = kind /\ s \o u \in Seq(Entity)
    BY <1>1, <1>2 DEF OfKind
  <2>2. s \o Append(u, e) = Append(s \o u, e)
    BY <2>1, EntityMore
  <2>3. base[kind] \o Append(u, e) = Append(base[kind] \o u, e)
    BY <1>1, <2>1, EntityMore
  <2>4. Replay(s \o u) = [base EXCEPT ![kind] = base[kind] \o u]
    BY <1>4
  <2>5. Replay(Append(s \o u, e)) = Apply(Replay(s \o u), e)
    BY <2>1, ReplayAppend
  <2>6. \A state : Apply(state, e) = [state EXCEPT ![kind] = Append(@, e)]
    BY <1>1, <2>1 DEF Apply
  <2>7. Replay(Append(s \o u, e)) = [base EXCEPT ![kind] = Append(base[kind] \o u, e)]
    <3>1. DOMAIN base = StateKinds
      BY <1>1 DEF State
    <3>2. QED
      BY <1>1, <2>4, <2>5, <2>6, <3>1
  <2>8. Append(u, e) \in Seq(OfKind(kind))
    OBVIOUS
  <2>9. QED
    BY <2>2, <2>3, <2>7, <2>8
<1>5. Seq(OfKind(kind)) \subseteq T
  <2> HIDE DEF T
  <2>1. QED
    BY <1>3, <1>4, SeqInd
<1>6. QED
  BY <1>5 DEF base

(* What comes before the entity in a batch, and what comes after it.            *)
Leading(r) == r.evidence \o r.decision
Trailing(r) == r.pins \o r.links

LEMMA BatchParts ==
  ASSUME NEW r \in Request
  PROVE  /\ r.entity \in Entity
         /\ r.evidence \in Seq(Entity) /\ r.decision \in Seq(Entity)
         /\ r.pins \in Seq(Entity) /\ r.links \in Seq(Entity)
         /\ Leading(r) \in Seq(Entity) /\ Trailing(r) \in Seq(Entity)
         /\ Events(r) \in Seq(Entity)
         /\ Events(r) = Append(Leading(r), r.entity) \o Trailing(r)
<1>1. /\ r.evidence \in Seq(Entity) /\ r.decision \in Seq(Entity)
      /\ r.pins \in Seq(Entity) /\ r.links \in Seq(Entity) /\ r.entity \in Entity
  <2>1. \A kind : OfKind(kind) \subseteq Entity
    BY DEF OfKind
  <2>2. QED
    BY <2>1, SeqOfSubset DEF Request
<1>2. Leading(r) \in Seq(Entity) /\ Trailing(r) \in Seq(Entity) /\ <<r.entity>> \in Seq(Entity)
  BY <1>1 DEF Leading, Trailing
<1>3. Leading(r) \o <<r.entity>> = Append(Leading(r), r.entity)
      /\ Append(Leading(r), r.entity) \in Seq(Entity)
  BY <1>1, <1>2, EntityOne
<1>4. Events(r) = ((Leading(r) \o <<r.entity>>) \o r.pins) \o r.links
  <2>1. r.decision \o <<r.entity>> \in Seq(Entity)
    BY <1>1, <1>2
  <2>2. QED
    BY DEF Events, Leading
<1>5. ((Leading(r) \o <<r.entity>>) \o r.pins) \o r.links = (Leading(r) \o <<r.entity>>) \o Trailing(r)
  <2>1. \A u \in Seq(Entity) : (u \o r.pins) \o r.links = u \o (r.pins \o r.links)
    BY <1>1, EntityAssoc
  <2>2. QED
    BY <1>3, <2>1 DEF Trailing
<1>6. Events(r) = Append(Leading(r), r.entity) \o Trailing(r)
  BY <1>3, <1>4, <1>5
<1>7. QED
  BY <1>1, <1>2, <1>3, <1>6

(* A replay of a log that a batch has joined is the replay of the log with the  *)
(* batch folded in: what commit does to the live state at once.                *)
LEMMA ReplayBatch ==
  ASSUME NEW s \in Seq(Entity), NEW r \in Request, r.entity.kind \notin Companions
  PROVE  Replay(s \o Events(r)) = Fold(Replay(s), r)
<1> DEFINE base == Replay(s)
           withEvidence == s \o r.evidence
           withDecision == withEvidence \o r.decision
           withEntity == Append(withDecision, r.entity)
           withPins == withEntity \o r.pins
           whole == withPins \o r.links
<1>1. /\ r.evidence \in Seq(OfKind("evidence")) /\ r.decision \in Seq(OfKind("decision"))
      /\ r.pins \in Seq(OfKind("pin")) /\ r.links \in Seq(OfKind("link"))
      /\ {"evidence", "decision", "pin", "link"} \subseteq Companions
  BY DEF Request, Companions
<1>2. /\ r.entity \in Entity
      /\ r.evidence \in Seq(Entity) /\ r.decision \in Seq(Entity)
      /\ r.pins \in Seq(Entity) /\ r.links \in Seq(Entity)
      /\ Leading(r) \in Seq(Entity) /\ Trailing(r) \in Seq(Entity)
      /\ Events(r) = Append(Leading(r), r.entity) \o Trailing(r)
  BY BatchParts
<1>3. /\ withEvidence \in Seq(Entity) /\ withDecision \in Seq(Entity)
      /\ withEntity \in Seq(Entity) /\ withPins \in Seq(Entity)
  BY <1>2
<1>4. s \o Events(r) = whole
  <2>1. withDecision = s \o Leading(r)
    BY <1>2, EntityAssoc DEF Leading
  <2>2. s \o Append(Leading(r), r.entity) = withEntity
    BY <1>2, <2>1, EntityMore
  <2>3. s \o (Append(Leading(r), r.entity) \o Trailing(r)) = withEntity \o Trailing(r)
    <3>1. Append(Leading(r), r.entity) \in Seq(Entity)
      BY <1>2, AppendFacts
    <3>2. s \o (Append(Leading(r), r.entity) \o Trailing(r))
            = (s \o Append(Leading(r), r.entity)) \o Trailing(r)
      BY <1>2, <3>1, EntityAssoc
    <3>3. QED
      BY <2>2, <3>2
  <2> HIDE DEF withEntity
  <2>4. withEntity \o Trailing(r) = whole
    <3>1. r.pins \in Seq(Entity) /\ r.links \in Seq(Entity)
      BY <1>2
    <3>2. \A u \in Seq(Entity) : (u \o r.pins) \o r.links = u \o (r.pins \o r.links)
      BY <3>1, EntityAssoc
    <3>3. QED
      BY <1>3, <3>2 DEF Trailing
  <2>5. QED
    BY <1>2, <2>3, <2>4
<1>5. base \in State
  BY ReplayType
<1> HIDE DEF withEvidence, withDecision, withEntity, withPins, whole, base
<1>6. Replay(withEvidence) = [base EXCEPT !["evidence"] = @ \o r.evidence]
  BY <1>1, ReplayCompanions DEF withEvidence, base
<1>7. Replay(withDecision) = [Replay(withEvidence) EXCEPT !["decision"] = @ \o r.decision]
  BY <1>1, <1>3, ReplayCompanions DEF withDecision, Companions
<1>8. Replay(withEntity) = Apply(Replay(withDecision), r.entity)
  BY <1>2, <1>3, ReplayAppend DEF withEntity
<1>9. Replay(withPins) = [Replay(withEntity) EXCEPT !["pin"] = @ \o r.pins]
  BY <1>1, <1>3, ReplayCompanions DEF withPins, Companions
<1>10. Replay(whole) = [Replay(withPins) EXCEPT !["link"] = @ \o r.links]
  BY <1>1, <1>3, ReplayCompanions DEF whole, Companions
<1>11. Replay(withEvidence) \in State /\ Replay(withDecision) \in State
       /\ Replay(withEntity) \in State /\ Replay(withPins) \in State
  BY <1>3, ReplayType
<1>12. {"evidence", "decision", "pin", "link"} \subseteq StateKinds
  BY DEF StateKinds, ListKinds
<1> DEFINE before == Replay(withDecision)
           after == Replay(withEntity)
<1>13. /\ before["evidence"] = base["evidence"] \o r.evidence
       /\ before["decision"] = base["decision"] \o r.decision
       /\ \A k \in StateKinds : k \notin {"evidence", "decision"} => before[k] = base[k]
  BY <1>5, <1>6, <1>7, <1>11, <1>12 DEF State
<1>14. \A k \in StateKinds :
         after[k] = IF k \in Companions THEN before[k] ELSE Apply(base, r.entity)[k]
  <2>1. \A k \in StateKinds : k \notin Companions => before[k] = base[k]
    BY <1>13 DEF Companions
  <2>2. before \in State /\ after = Apply(before, r.entity)
    BY <1>8, <1>11
  <2> HIDE DEF before, after
  <2>3. QED
    BY <1>2, <1>5, <2>1, <2>2, AppliesApart
<1>15. \A k \in StateKinds :
         Replay(whole)[k] = CASE k = "pin" -> after[k] \o r.pins
                              [] k = "link" -> after[k] \o r.links
                              [] OTHER -> after[k]
  BY <1>9, <1>10, <1>11, <1>12 DEF State
<1> HIDE DEF before, after
<1>16. ASSUME NEW k \in StateKinds PROVE Replay(whole)[k] = Fold(base, r)[k]
  <2>1. CASE k \in Companions
    <3>1. after[k] = before[k]
      BY <1>14, <2>1
    <3>2. /\ k = "evidence" => Fold(base, r)[k] = base[k] \o r.evidence
          /\ k = "decision" => Fold(base, r)[k] = base[k] \o r.decision
          /\ k = "pin" => Fold(base, r)[k] = base[k] \o r.pins
          /\ k = "link" => Fold(base, r)[k] = base[k] \o r.links
      BY DEF Fold
    <3>3. QED
      BY <1>13, <1>15, <2>1, <3>1, <3>2 DEF Companions
  <2>2. CASE k \notin Companions
    <3>1. Fold(base, r)[k] = Apply(base, r.entity)[k]
      BY <2>2 DEF Fold, Companions
    <3>2. QED
      BY <1>14, <1>15, <2>2, <3>1 DEF Companions
  <2>3. QED
    BY <2>1, <2>2
<1>17. Replay(whole) \in State
  <2>1. whole \in Seq(Entity)
    BY <1>2, <1>3 DEF whole
  <2>2. QED
    BY <2>1, ReplayType
<1>18. Replay(whole) = [k \in StateKinds |-> Replay(whole)[k]]
  BY <1>17 DEF State
<1>19. Fold(base, r) = [k \in StateKinds |-> Fold(base, r)[k]]
  BY DEF Fold
<1>20. QED
  BY <1>4, <1>16, <1>18, <1>19 DEF base

-----------------------------------------------------------------------------
(* The events of a log *)

LEMMA EventsOfShape ==
  ASSUME NEW recs \in Seq(Record)
  PROVE  /\ EventsOf(recs) \in Seq(Entity) /\ Len(EventsOf(recs)) = Len(recs)
         /\ \A i \in 1 .. Len(recs) : EventsOf(recs)[i] = recs[i].event
<1>1. EventsOf(recs) = [i \in 1 .. Len(recs) |-> recs[i].event] /\ Len(recs) \in Nat
  BY DEF EventsOf
<1>2. \A i \in 1 .. Len(recs) : recs[i].event \in Entity
  <2>1. \A rec \in Record : rec.event \in Entity
    BY DEF Record
  <2>2. \A i \in 1 .. Len(recs) : recs[i] \in Record
    OBVIOUS
  <2>3. QED
    BY <2>1, <2>2
<1>3. EventsOf(recs) \in [1 .. Len(recs) -> Entity]
  BY <1>1, <1>2
<1>4. QED
  BY <1>1, <1>3, SeqDef, LenProperties

(* Events that join the log as records join its events.                        *)
LEMMA EventsOfMore ==
  ASSUME NEW recs \in Seq(Record), NEW events \in Seq(Entity), NEW m \in 0 .. Len(events)
  PROVE  EventsOf(recs \o SubSeq(Records(Len(recs), events), 1, m))
           = EventsOf(recs) \o SubSeq(events, 1, m)
<1> DEFINE batch == Records(Len(recs), events)
           part == SubSeq(batch, 1, m)
           added == SubSeq(events, 1, m)
           all == recs \o part
<1>1. /\ batch \in Seq(Record) /\ Len(batch) = Len(events) /\ Len(recs) \in Nat
      /\ \A i \in 1 .. Len(events) : batch[i].event = events[i]
  <2>1. Len(recs) \in Nat
    OBVIOUS
  <2>2. /\ batch \in Seq(Record) /\ Len(batch) = Len(events)
        /\ \A i \in 1 .. Len(events) : batch[i] = [seq |-> Len(recs) + i - 1, event |-> events[i]]
    BY <2>1, RecordsShape
  <2> HIDE DEF batch
  <2>3. ASSUME NEW i \in 1 .. Len(events) PROVE batch[i].event = events[i]
    <3>1. batch[i] = [seq |-> Len(recs) + i - 1, event |-> events[i]]
      BY <2>2
    <3>2. QED
      BY <3>1
  <2>4. QED
    BY <2>1, <2>2, <2>3
<1> HIDE DEF batch
<1>2. part \in Seq(Record) /\ Len(part) = m /\ \A i \in 1 .. m : part[i] = batch[i]
  BY <1>1
<1>3. added \in Seq(Entity) /\ Len(added) = m /\ \A i \in 1 .. m : added[i] = events[i]
  OBVIOUS
<1> HIDE DEF part, added
<1>4. /\ all \in Seq(Record) /\ Len(all) = Len(recs) + m
      /\ \A i \in 1 .. Len(recs) + m :
           all[i] = IF i <= Len(recs) THEN recs[i] ELSE part[i - Len(recs)]
  BY <1>2
<1>5. EventsOf(recs) \in Seq(Entity) /\ Len(EventsOf(recs)) = Len(recs)
      /\ \A i \in 1 .. Len(recs) : EventsOf(recs)[i] = recs[i].event
  BY EventsOfShape
<1> DEFINE right == EventsOf(recs) \o added
<1>6. /\ right \in Seq(Entity) /\ Len(right) = Len(recs) + m
      /\ \A i \in 1 .. Len(recs) + m :
           right[i] = IF i <= Len(recs) THEN EventsOf(recs)[i] ELSE added[i - Len(recs)]
  <2>1. \A left \in Seq(Entity) :
          /\ left \o added \in Seq(Entity) /\ Len(left \o added) = Len(left) + m
          /\ \A i \in 1 .. Len(left) + m :
               (left \o added)[i] = IF i <= Len(left) THEN left[i] ELSE added[i - Len(left)]
    BY <1>3
  <2>2. QED
    BY <1>5, <2>1
<1> HIDE DEF all, right
<1>7. EventsOf(all) \in Seq(Entity) /\ Len(EventsOf(all)) = Len(recs) + m
      /\ \A i \in 1 .. Len(recs) + m : EventsOf(all)[i] = all[i].event
  BY <1>4, EventsOfShape
<1>8. ASSUME NEW i \in 1 .. Len(recs) + m PROVE EventsOf(all)[i] = right[i]
  <2>1. CASE i <= Len(recs)
    BY <1>1, <1>4, <1>5, <1>6, <1>7, <2>1
  <2>2. CASE ~(i <= Len(recs))
    <3>1. i - Len(recs) \in 1 .. m /\ i - Len(recs) \in 1 .. Len(events)
      BY <1>1, <2>2
    <3>2. QED
      BY <1>1, <1>2, <1>3, <1>4, <1>6, <1>7, <2>2, <3>1
  <2>3. QED
    BY <2>1, <2>2
<1>9. EventsOf(all) = right
  BY <1>6, <1>7, <1>8, SeqEqual
<1>10. QED
  BY <1>9 DEF all, part, batch, right, added

LEMMA EventsOfAll ==
  ASSUME NEW recs \in Seq(Record), NEW events \in Seq(Entity)
  PROVE  EventsOf(recs \o Records(Len(recs), events)) = EventsOf(recs) \o events
<1>1. Len(events) \in 0 .. Len(events) /\ SubSeq(events, 1, Len(events)) = events
  OBVIOUS
<1> DEFINE batch == Records(Len(recs), events)
<1>2. batch \in Seq(Record) /\ Len(batch) = Len(events)
  <2>1. Len(recs) \in Nat
    OBVIOUS
  <2>2. QED
    BY <2>1, RecordsShape
<1>3. SubSeq(batch, 1, Len(events)) = batch
  <2> HIDE DEF batch
  <2>1. QED
    BY <1>2
<1>4. QED
  BY <1>1, <1>3, EventsOfMore

-----------------------------------------------------------------------------
(* A part of a batch *)

(* Events of other kinds leave the lists alone that consistency is about.      *)
LEMMA ReplayOthers ==
  ASSUME NEW s \in Seq(Entity), NEW t \in Seq(Entity),
         \A i \in DOMAIN t : t[i].kind \notin LedgerKinds,
         NEW kind \in LedgerKinds
  PROVE  Replay(s \o t)[kind] = Replay(s)[kind]
<1> DEFINE T == {u \in Seq(Entity) :
                   (\A i \in DOMAIN u : u[i].kind \notin LedgerKinds)
                      => Replay(s \o u)[kind] = Replay(s)[kind]}
<1>1. <<>> \in T
  BY ConcatEmptySeq
<1>2. ASSUME NEW u \in Seq(Entity), NEW e \in Entity, u \in T PROVE Append(u, e) \in T
  <2>1. SUFFICES ASSUME \A i \in DOMAIN Append(u, e) : Append(u, e)[i].kind \notin LedgerKinds
                 PROVE  Replay(s \o Append(u, e))[kind] = Replay(s)[kind]
    BY AppendFacts
  <2>2. e.kind \notin LedgerKinds /\ \A i \in DOMAIN u : u[i].kind \notin LedgerKinds
    <3> DEFINE v == Append(u, e)
    <3>1. /\ DOMAIN u = 1 .. Len(u) /\ DOMAIN v = 1 .. Len(u) + 1 /\ Len(u) \in Nat
          /\ v[Len(u) + 1] = e /\ \A i \in 1 .. Len(u) : v[i] = u[i]
      BY AppendFacts
    <3> HIDE DEF v
    <3>2. \A i \in DOMAIN v : v[i].kind \notin LedgerKinds
      BY <2>1 DEF v
    <3>3. QED
      BY <3>1, <3>2
  <2>3. Replay(s \o u)[kind] = Replay(s)[kind]
    BY <1>2, <2>2
  <2>4. s \o u \in Seq(Entity) /\ s \o Append(u, e) = Append(s \o u, e)
    BY EntityMore
  <2>5. Replay(s \o u) \in State /\ Replay(Append(s \o u, e)) = Apply(Replay(s \o u), e)
    BY <2>4, ReplayType, ReplayAppend
  <2>6. Apply(Replay(s \o u), e)[kind] = Replay(s \o u)[kind]
    BY <2>2, <2>5, ApplyOther DEF State
  <2>7. QED
    BY <2>3, <2>4, <2>5, <2>6
<1>3. Seq(Entity) \subseteq T
  <2> HIDE DEF T
  <2>1. QED
    BY <1>1, <1>2, SeqInd
<1>4. QED
  BY <1>3

(* The lists that consistency is about, after an entity, are given by what they *)
(* were before it.                                                             *)
LEMMA ApplyLedger ==
  ASSUME NEW s \in State, NEW t \in State, NEW e \in Entity,
         \A kind \in LedgerKinds : s[kind] = t[kind], NEW kind \in LedgerKinds
  PROVE  Apply(s, e)[kind] = Apply(t, e)[kind]
<1>1. CASE e.kind \notin LedgerKinds
  BY <1>1, ApplyOther DEF State
<1>2. CASE e.kind \in {"placement", "line", "violation"}
  <2>1. \A state \in State :
          Apply(state, e)[kind] = IF kind = e.kind THEN Append(state[kind], e) ELSE state[kind]
    BY <1>2, ApplyAppends DEF State
  <2>2. QED
    BY <2>1
<1>3. CASE e.kind = "waiver"
  <2>1. /\ Apply(s, e) = [s EXCEPT !["violation"] = Waive(@, e), !["waiver"] = Append(@, e)]
        /\ Apply(t, e) = [t EXCEPT !["violation"] = Waive(@, e), !["waiver"] = Append(@, e)]
    BY <1>3 DEF Apply, SingleKinds
  <2>2. DOMAIN s = StateKinds /\ DOMAIN t = StateKinds
        /\ {"violation", "waiver"} \subseteq StateKinds /\ {"violation", "waiver"} \subseteq LedgerKinds
    BY DEF State, StateKinds, ListKinds, LedgerKinds
  <2>3. kind \in StateKinds /\ s[kind] = t[kind] /\ s["violation"] = t["violation"]
        /\ s["waiver"] = t["waiver"]
    BY <2>2 DEF LedgerKinds, StateKinds, ListKinds
  <2>4. QED
    BY <2>1, <2>2, <2>3
<1>4. QED
  BY <1>1, <1>2, <1>3 DEF LedgerKinds

(* Of a batch whose fold is consistent with the state, every part is: what is   *)
(* before its entity, and what is after it, is of no kind that matters.          *)
LEMMA PartConsistent ==
  ASSUME NEW s \in Seq(Entity), NEW r \in Request, r.entity.kind \notin Companions,
         Ledger(Replay(s)), Consistent(Replay(s)),
         Ledger(Fold(Replay(s), r)), Consistent(Fold(Replay(s), r)),
         NEW m \in 0 .. Len(Events(r))
  PROVE  Consistent(Replay(s \o SubSeq(Events(r), 1, m)))
<1> DEFINE part == SubSeq(Events(r), 1, m)
           lead == Leading(r)
           trail == Trailing(r)
           n == Len(lead)
           base == Replay(s)
<1>1. /\ r.entity \in Entity /\ lead \in Seq(Entity) /\ trail \in Seq(Entity)
      /\ Events(r) \in Seq(Entity) /\ Events(r) = Append(lead, r.entity) \o trail
  BY BatchParts
<1>2. /\ \A i \in DOMAIN lead : lead[i].kind \notin LedgerKinds
      /\ \A i \in DOMAIN trail : trail[i].kind \notin LedgerKinds
  <2>1. \A k \in Companions : \A t \in Seq(OfKind(k)) : \A i \in DOMAIN t : t[i].kind \notin LedgerKinds
    <3>1. \A k \in Companions : k \notin LedgerKinds
      BY DEF Companions, LedgerKinds
    <3>2. \A k \in Companions : \A t \in Seq(OfKind(k)) : \A i \in DOMAIN t : t[i] \in OfKind(k)
      BY ElementOfSeq
    <3>3. QED
      BY <3>1, <3>2 DEF OfKind
  <2>2. /\ r.evidence \in Seq(OfKind("evidence")) /\ r.decision \in Seq(OfKind("decision"))
        /\ r.pins \in Seq(OfKind("pin")) /\ r.links \in Seq(OfKind("link"))
        /\ {"evidence", "decision", "pin", "link"} \subseteq Companions
    BY DEF Request, Companions
  <2>3. /\ \A i \in DOMAIN r.evidence : r.evidence[i].kind \notin LedgerKinds
        /\ \A i \in DOMAIN r.decision : r.decision[i].kind \notin LedgerKinds
        /\ \A i \in DOMAIN r.pins : r.pins[i].kind \notin LedgerKinds
        /\ \A i \in DOMAIN r.links : r.links[i].kind \notin LedgerKinds
    BY <2>1, <2>2
  <2>4. /\ r.evidence \in Seq(Entity) /\ r.decision \in Seq(Entity)
        /\ r.pins \in Seq(Entity) /\ r.links \in Seq(Entity)
    BY BatchParts
  <2>5. ASSUME NEW t \in Seq(Entity), NEW u \in Seq(Entity),
               \A i \in DOMAIN t : t[i].kind \notin LedgerKinds,
               \A i \in DOMAIN u : u[i].kind \notin LedgerKinds
        PROVE  \A i \in DOMAIN (t \o u) : (t \o u)[i].kind \notin LedgerKinds
    <3>1. Range(t \o u) = Range(t) \cup Range(u)
      BY RangeConcatenation
    <3>2. QED
      BY <2>5, <3>1 DEF Range
  <2>6. QED
    BY <2>3, <2>4, <2>5 DEF Leading, Trailing
<1> HIDE DEF lead, trail, base
<1>3. /\ Len(Events(r)) = n + 1 + Len(trail) /\ n \in Nat /\ Len(trail) \in Nat
      /\ \A i \in 1 .. n : Events(r)[i] = lead[i]
      /\ Events(r)[n + 1] = r.entity
      /\ \A i \in 1 .. Len(trail) : Events(r)[n + 1 + i] = trail[i]
  BY <1>1
<1>4. part \in Seq(Entity) /\ Len(part) = m /\ \A i \in 1 .. m : part[i] = Events(r)[i]
  BY <1>1
<1>5. s \in Seq(Entity) /\ Replay(s \o lead) \in State /\ base \in State
      /\ s \o lead \in Seq(Entity) /\ Append(s \o lead, r.entity) \in Seq(Entity)
  <2>1. s \o lead \in Seq(Entity)
    BY <1>1
  <2>2. Append(s \o lead, r.entity) \in Seq(Entity)
    BY <1>1, <2>1
  <2>3. Replay(s \o lead) \in State /\ base \in State
    BY <2>1, ReplayType DEF base
  <2>4. QED
    BY <2>1, <2>2, <2>3
<1> HIDE DEF part
<1>6. CASE m <= n
  <2>1. \A i \in DOMAIN part : part[i].kind \notin LedgerKinds
    <3>1. \A i \in DOMAIN part : i \in 1 .. n /\ i \in DOMAIN lead /\ i \in 1 .. m
      BY <1>1, <1>3, <1>4, <1>6
    <3>2. QED
      BY <1>2, <1>3, <1>4, <3>1
  <2>2. \A kind \in LedgerKinds : base[kind] = Replay(s \o part)[kind]
    BY <1>4, <2>1, ReplayOthers DEF base
  <2>3. Ledger(base) /\ Consistent(base)
    BY DEF base
  <2>4. Consistent(Replay(s \o part))
    BY <2>2, <2>3, SameLedger
  <2>5. QED
    BY <2>4 DEF part
<1>7. CASE m > n
  <2> DEFINE rest == SubSeq(trail, 1, m - (n + 1))
             head == Append(s \o lead, r.entity)
  <2>1. m - (n + 1) \in 0 .. Len(trail)
    BY <1>3, <1>7
  <2>2. rest \in Seq(Entity) /\ Len(rest) = m - (n + 1)
        /\ \A i \in 1 .. m - (n + 1) : rest[i] = trail[i]
    BY <1>1, <2>1
  <2> HIDE DEF rest
  <2>3. part = Append(lead, r.entity) \o rest
    <3> DEFINE front == Append(lead, r.entity)
    <3>1. front \in Seq(Entity) /\ Len(front) = n + 1
          /\ (\A i \in 1 .. n : front[i] = lead[i]) /\ front[n + 1] = r.entity
      BY <1>1, AppendFacts
    <3> HIDE DEF front
    <3>2. /\ front \o rest \in Seq(Entity) /\ Len(front \o rest) = m
          /\ \A i \in 1 .. m : (front \o rest)[i] = IF i <= n + 1 THEN front[i] ELSE rest[i - (n + 1)]
      <4>1. /\ front \o rest \in Seq(Entity) /\ Len(front \o rest) = Len(front) + Len(rest)
            /\ \A i \in 1 .. Len(front) + Len(rest) :
                 (front \o rest)[i] = IF i <= Len(front) THEN front[i] ELSE rest[i - Len(front)]
        BY <2>2, <3>1, ConcatProperties
      <4>2. Len(front) + Len(rest) = m
        BY <1>3, <2>2, <3>1
      <4>3. QED
        BY <3>1, <4>1, <4>2
    <3>3. ASSUME NEW i \in 1 .. m PROVE part[i] = (front \o rest)[i]
      <4>1. CASE i <= n
        BY <1>3, <1>4, <3>1, <3>2, <4>1
      <4>2. CASE i = n + 1
        BY <1>3, <1>4, <3>1, <3>2, <4>2
      <4>3. CASE i > n + 1
        <5>1. i - (n + 1) \in 1 .. m - (n + 1) /\ i - (n + 1) \in 1 .. Len(trail)
              /\ n + 1 + (i - (n + 1)) = i
          BY <1>3, <2>1, <4>3
        <5>2. part[i] = trail[i - (n + 1)]
          BY <1>3, <1>4, <5>1
        <5>3. QED
          BY <1>3, <2>2, <3>2, <4>3, <5>1, <5>2
      <4>4. i <= n \/ i = n + 1 \/ i > n + 1
        BY <1>3
      <4>5. QED
        BY <4>1, <4>2, <4>3, <4>4
    <3>4. part = front \o rest
      BY <1>4, <3>2, <3>3, SeqEqual
    <3>5. QED
      BY <3>4 DEF front
  <2>4. s \o part = head \o rest
    <3>1. Append(lead, r.entity) \in Seq(Entity) /\ s \o Append(lead, r.entity) = head
      BY <1>1, EntityOne, EntityMore
    <3> HIDE DEF head
    <3>2. s \o (Append(lead, r.entity) \o rest) = (s \o Append(lead, r.entity)) \o rest
      BY <2>2, <3>1, EntityAssoc
    <3>3. QED
      BY <2>3, <3>1, <3>2
  <2>5. \A i \in DOMAIN rest : rest[i].kind \notin LedgerKinds
    <3>1. \A i \in DOMAIN rest : i \in 1 .. m - (n + 1) /\ i \in DOMAIN trail
      BY <1>1, <1>3, <2>1, <2>2
    <3>2. QED
      BY <1>2, <2>2, <3>1
  <2>6. \A kind \in LedgerKinds : Replay(head \o rest)[kind] = Replay(head)[kind]
    BY <1>5, <2>2, <2>5, ReplayOthers
  <2>7. Replay(head) = Apply(Replay(s \o lead), r.entity)
    BY <1>1, <1>5, ReplayAppend
  <2>8. \A kind \in LedgerKinds : Replay(s \o lead)[kind] = base[kind]
    BY <1>1, <1>2, ReplayOthers DEF base
  <2>9. \A kind \in LedgerKinds :
          Apply(Replay(s \o lead), r.entity)[kind] = Apply(base, r.entity)[kind]
    BY <1>1, <1>5, <2>8, ApplyLedger
  <2>10. \A kind \in LedgerKinds : Fold(base, r)[kind] = Apply(base, r.entity)[kind]
    BY FoldOfLedgerKind
  <2> HIDE DEF head
  <2>11. \A kind \in LedgerKinds : Fold(base, r)[kind] = Replay(s \o part)[kind]
    BY <2>4, <2>6, <2>7, <2>9, <2>10
  <2>12. Consistent(Replay(s \o part))
    BY <2>11, SameLedger DEF base
  <2>13. QED
    BY <2>12 DEF part
<1>8. QED
  BY <1>3, <1>6, <1>7

-----------------------------------------------------------------------------
(* The invariant *)

\* Nothing fails but a process, which may die at any point of an append.
OnlyCrashes == Faults \subseteq {"crash"}

\* While a process runs the replay of what it has appended is its state, and the replay
\* of a log that can be read, by whichever process it was left, is consistent.
ReplayInv ==
  /\ ConsistencyInv
  /\ status /= "down" => file.terminated /\ live = Replay(EventsOf(records))
  /\ Readable(file) => Consistent(Replay(History))

(* A log that ends in a newline and can be read has the records of its process. *)
LEMMA WholeHistory ==
  ASSUME KernelInv, status /= "down", file.terminated, Readable(file)
  PROVE  file.lines = records /\ History = EventsOf(records)
<1>1. file.lines = records
  BY DEF KernelInv, LogInv, Mirrors
<1>2. QED
  BY <1>1 DEF History

(* An append that succeeds, of events that the live state folds.               *)
LEMMA ReplayAppends ==
  ASSUME ReplayInv, ConsistencyInv', status /= "down", status' /= "down",
         NEW events \in Seq(Entity), events /= <<>>, Appends(events),
         live' = Replay(EventsOf(records) \o events)
  PROVE  ReplayInv'
<1> DEFINE batch == Records(Len(records), events)
<1>1. KernelInv /\ KernelInv' /\ Consistent(live)'
  BY DEF ReplayInv, ConsistencyInv
<1>2. records \in Seq(Record) /\ Len(records) \in Nat
      /\ file \in LogFile /\ (file.lines = <<>> => file.terminated)
  BY <1>1 DEF KernelInv, LogInv
<1>3. batch \in Seq(Record) /\ batch /= <<>>
  <2>1. batch \in Seq(Record) /\ Len(batch) = Len(events) /\ Len(events) /= 0
    BY <1>2, RecordsShape
  <2> HIDE DEF batch
  <2>2. QED
    BY <2>1
<1>4. file' = WriteAll(file, batch) /\ records' = records \o batch
  BY DEF Appends
<1>5. file'.terminated
  BY <1>2, <1>3, <1>4, WriteAllShape
<1>6. EventsOf(records') = EventsOf(records) \o events
  BY <1>2, <1>4, EventsOfAll
<1>7. live' = Replay(EventsOf(records'))
  BY <1>6
<1>8. Readable(file)' => Consistent(Replay(History))'
  <2>1. Readable(file)' => file'.lines = records'
    BY <1>1, <1>5 DEF KernelInv, LogInv, Mirrors
  <2>2. Consistent(Replay(EventsOf(records')))
    BY <1>1, <1>7
  <2>3. QED
    BY <2>1, <2>2 DEF History
<1>9. QED
  BY <1>5, <1>7, <1>8 DEF ReplayInv

(* What an append leaves in a log that can be read, cut short anywhere or not: *)
(* the first of its records, after those of the cache, or nothing new.         *)
LEMMA CutLines ==
  ASSUME LogInv, status /= "down",
         NEW events \in Seq(Entity), events /= <<>>, CoveredBy(records, events),
         NEW g, Readable(g),
         LET batch == Records(Len(records), events)
         IN  \/ g = WriteAll(file, batch)
             \/ \E k \in 0 .. Len(batch) - 1, torn \in Torn : g = WriteSome(file, batch, k, torn)
  PROVE  \/ g = file
         \/ \E m \in 0 .. Len(events) :
              g.lines = records \o SubSeq(Records(Len(records), events), 1, m)
<1> DEFINE batch == Records(Len(records), events)
<1>1. records \in Seq(Record) /\ Len(records) \in Nat /\ Len(events) \in Nat
      /\ file \in LogFile /\ (file.lines = <<>> => file.terminated)
  BY DEF LogInv
<1>2. batch \in Seq(Record) /\ Len(batch) = Len(events)
  BY <1>1, RecordsShape
<1>3. CASE g = WriteAll(file, batch)
  <2>1. g.lines = records \o batch
    BY <1>3, WholeAppend
  <2>2. Len(events) \in 0 .. Len(events) /\ SubSeq(batch, 1, Len(events)) = batch
    <3> HIDE DEF batch
    <3>1. QED
      BY <1>1, <1>2
  <2>3. QED
    BY <2>1, <2>2
<1>4. CASE \E k \in 0 .. Len(batch) - 1, torn \in Torn : g = WriteSome(file, batch, k, torn)
  <2>1. PICK k \in 0 .. Len(batch) - 1, torn \in Torn : g = WriteSome(file, batch, k, torn)
    BY <1>4
  <2>2. k \in 0 .. Len(events) /\ k + 1 \in 0 .. Len(events)
    BY <1>1, <1>2
  <2>3. \/ g = file
        \/ Extended(file, g, batch, k)
        \/ Extended(file, g, batch, k + 1)
    BY <1>1, <1>2, <2>1, WriteSomeShape
  <2>4. ASSUME NEW m \in 0 .. Len(events), Extended(file, g, batch, m)
        PROVE  g.lines = records \o SubSeq(batch, 1, m)
    BY <2>4, ExtendedSound
  <2>5. QED
    BY <2>2, <2>3, <2>4
<1>5. QED
  BY <1>3, <1>4

(* What an append that the process dies in leaves of its events, in a log that  *)
(* can be read: the first ones.                                                *)
LEMMA CutHistory ==
  ASSUME KernelInv, status /= "down", file.terminated,
         NEW events \in Seq(Entity), events /= <<>>, Grounded(live, events),
         DiesInAppend(events), Readable(file)'
  PROVE  \E m \in 0 .. Len(events) : History' = EventsOf(records) \o SubSeq(events, 1, m)
<1> DEFINE batch == Records(Len(records), events)
<1>1. LogInv /\ CoveredBy(records, events) /\ records \in Seq(Record)
  BY GroundedCovered DEF KernelInv, LiveInv, LogInv
<1>2. PICK g : g = file'
  OBVIOUS
<1>3. \/ g = file
      \/ \E m \in 0 .. Len(events) : g.lines = records \o SubSeq(batch, 1, m)
  <2>1. Readable(g) /\ \/ g = WriteAll(file, batch)
                       \/ \E k \in 0 .. Len(batch) - 1, torn \in Torn :
                            g = WriteSome(file, batch, k, torn)
    BY <1>2 DEF Readable, DiesInAppend
  <2> HIDE DEF batch
  <2>2. QED
    BY <1>1, <2>1, CutLines DEF batch
<1>4. CASE g = file
  <2>1. file'.lines = records
    BY <1>1, <1>2, <1>4, WholeHistory
  <2>2. EventsOf(records) \in Seq(Entity) /\ SubSeq(events, 1, 0) = <<>> /\ 0 \in 0 .. Len(events)
    BY <1>1, EventsOfShape
  <2>3. EventsOf(records) \o SubSeq(events, 1, 0) = EventsOf(records)
    BY <2>2, ConcatEmptySeq
  <2>4. QED
    BY <2>1, <2>2, <2>3 DEF History
<1>5. ASSUME NEW m \in 0 .. Len(events), g.lines = records \o SubSeq(batch, 1, m)
      PROVE  History' = EventsOf(records) \o SubSeq(events, 1, m)
  BY <1>1, <1>2, <1>5, EventsOfMore DEF History
<1>6. QED
  BY <1>3, <1>4, <1>5

(* A request that a handler takes: its batch is appended, or cut short.        *)
LEMMA ReplayHandled ==
  ASSUME OnlyCrashes, ReplayInv, ConsistencyInv', NEW r \in Requests, Handles(r)
  PROVE  ReplayInv'
<1>1. r \in Request /\ r.entity.kind \notin Companions
  BY KernelAssumption
<1>2. Submit(r) /\ status = "running" /\ Grounded(live, Events(r))
  BY HandlesGrounded DEF ReplayInv, ConsistencyInv
<1>3. Events(r) \in Seq(Entity) /\ Events(r) /= <<>> /\ Fresh(Events(r))
  BY <1>1, <1>2, EventsShape DEF Submit
<1>4. KernelInv /\ records \in Seq(Record) /\ EventsOf(records) \in Seq(Entity)
      /\ ConsistencyInv /\ Ledger(live) /\ Consistent(live)
  <2>1. ConsistencyInv
    BY DEF ReplayInv
  <2>2. records \in Seq(Record)
    BY <2>1 DEF ConsistencyInv, KernelInv, LogInv
  <2>3. QED
    BY <2>1, <2>2, EventsOfShape DEF ConsistencyInv
<1>5. file.terminated /\ live = Replay(EventsOf(records))
  BY <1>2 DEF ReplayInv
<1>6. ~FailsToAppend(Events(r))
  BY DEF OnlyCrashes, FailsToAppend
<1>7. CASE Appends(Events(r)) /\ live' = Fold(live, r) /\ status' = status
  <2>1. live' = Replay(EventsOf(records) \o Events(r))
    BY <1>1, <1>4, <1>5, <1>7, ReplayBatch
  <2>2. QED
    BY <1>2, <1>3, <1>7, <2>1, ReplayAppends
<1>8. CASE DiesInAppend(Events(r))
  <2>1. PICK new : new = Fold(live, r)
    OBVIOUS
  <2>2. Ledger(new) /\ Consistent(new)
    BY <1>3, <1>4, <2>1, HandledStep
  <2>3. ASSUME Readable(file)' PROVE Consistent(Replay(History))'
    <3>1. PICK m \in 0 .. Len(Events(r)) :
            History' = EventsOf(records) \o SubSeq(Events(r), 1, m)
      BY <1>2, <1>3, <1>4, <1>5, <1>8, <2>3, CutHistory
    <3>2. Consistent(Replay(EventsOf(records) \o SubSeq(Events(r), 1, m)))
      BY <1>1, <1>4, <1>5, <2>1, <2>2, PartConsistent
    <3>3. QED
      BY <3>1, <3>2
  <2>4. status' = "down"
    BY <1>8 DEF DiesInAppend, Dies
  <2>5. QED
    BY <2>3, <2>4 DEF ReplayInv
<1>9. QED
  BY <1>2, <1>6, <1>7, <1>8 DEF Submit

(* The intent of a run.                                                        *)
LEMMA ReplayCaptures ==
  ASSUME OnlyCrashes, ReplayInv, ConsistencyInv', NEW intent \in Intents, CaptureIntent(intent)
  PROVE  ReplayInv'
<1> DEFINE events == <<intent>>
<1>1. intent \in Entity /\ intent.kind = "intent"
  BY KernelAssumption DEF OfKind
<1>2. events \in Seq(Entity) /\ events /= <<>> /\ Len(events) = 1 /\ events[1] = intent
  BY <1>1
<1>3. Grounded(live, events)
  <2>1. CheckedNames(intent) = {} /\ ~NeedsBoard(intent)
    BY <1>1 DEF CheckedNames, CheckedKinds, NeedsBoard
  <2>2. Range(events) = {intent}
    BY DEF Range
  <2> HIDE DEF events
  <2>3. QED
    BY <2>1, <2>2 DEF Grounded
<1>4. KernelInv /\ records \in Seq(Record) /\ EventsOf(records) \in Seq(Entity)
      /\ Ledger(live) /\ Consistent(live)
  <2>1. KernelInv /\ Ledger(live) /\ Consistent(live)
    BY DEF ReplayInv, ConsistencyInv
  <2>2. records \in Seq(Record)
    BY <2>1 DEF KernelInv, LogInv
  <2>3. QED
    BY <2>1, <2>2, EventsOfShape
<1>5. status = "starting" /\ file.terminated /\ live = Replay(EventsOf(records))
  BY DEF CaptureIntent, ReplayInv
<1>6. CASE Appends(events) /\ live' = Apply(live, intent) /\ status' = "running"
  <2>1. EventsOf(records) \o events = Append(EventsOf(records), intent)
    BY <1>1, <1>4, EntityOne
  <2>2. live' = Replay(EventsOf(records) \o events)
    BY <1>1, <1>4, <1>5, <1>6, <2>1, ReplayAppend
  <2> HIDE DEF events
  <2>3. QED
    BY <1>2, <1>5, <1>6, <2>2, ReplayAppends
<1>7. CASE DiesInAppend(events)
  <2> HIDE DEF events
  <2>1. ASSUME Readable(file)' PROVE Consistent(Replay(History))'
    <3>1. PICK m \in 0 .. Len(events) : History' = EventsOf(records) \o SubSeq(events, 1, m)
      BY <1>2, <1>3, <1>4, <1>5, <1>7, <2>1, CutHistory
    <3> DEFINE part == SubSeq(events, 1, m)
    <3>2. part \in Seq(Entity) /\ \A i \in DOMAIN part : part[i].kind \notin LedgerKinds
      <4>1. m \in {0, 1}
        BY <1>2, <3>1
      <4>2. part \in Seq(Entity) /\ \A i \in DOMAIN part : part[i] = intent
        BY <1>2, <4>1
      <4> HIDE DEF part
      <4>3. QED
        BY <1>1, <4>2 DEF LedgerKinds
    <3> HIDE DEF part
    <3>3. \A kind \in LedgerKinds : live[kind] = Replay(EventsOf(records) \o part)[kind]
      BY <1>4, <1>5, <3>2, ReplayOthers
    <3>4. Consistent(Replay(EventsOf(records) \o part))
      BY <1>4, <3>3, SameLedger
    <3>5. QED
      BY <3>1, <3>4 DEF part
  <2>2. status' = "down"
    BY <1>7 DEF DiesInAppend, Dies
  <2>3. QED
    BY <2>1, <2>2 DEF ReplayInv
<1>8. QED
  BY <1>6, <1>7 DEF CaptureIntent, OnlyCrashes

(* If nothing fails but a process, the replay follows the live state, and what  *)
(* the process leaves behind is consistent.                                    *)
LEMMA ReplayInvariant ==
  ASSUME OnlyCrashes
  PROVE  Spec => []ReplayInv
<1>1. Replay(EventsOf(<<>>)) = EmptyState
  <2>1. EventsOf(<<>>) = <<>>
    BY DEF EventsOf
  <2>2. QED
    BY <2>1, ReplayEmpty
<1>2. Init => ConsistencyInv /\ (Readable(file) => Consistent(Replay(History)))
  <2>1. Init => ConsistencyInv
    BY KernelInvInit, EmptyConsistent DEF Init, ConsistencyInv
  <2>2. Init => Replay(History) = EmptyState
    BY <1>1 DEF Init, History, EmptyFile
  <2>3. QED
    BY <2>1, <2>2, EmptyConsistent
<1>3. Init => ReplayInv
  BY <1>2 DEF Init, ReplayInv
<1>4. ReplayInv /\ ConsistencyInv' /\ [Next]_vars => ReplayInv'
  <2> SUFFICES ASSUME ReplayInv, ConsistencyInv', [Next]_vars PROVE ReplayInv'
    OBVIOUS
  <2>1. CASE Boot
    <3>1. file' = EmptyFile /\ records' = <<>> /\ live' = live
      BY <2>1 DEF Boot, OnlyCrashes
    <3>2. live = EmptyState
      BY <2>1 DEF Boot, ReplayInv, ConsistencyInv, KernelInv, LiveInv
    <3>3. file'.terminated /\ live' = Replay(EventsOf(records'))
      BY <1>1, <3>1, <3>2 DEF EmptyFile
    <3>4. Consistent(Replay(History))'
      BY <1>1, <3>1, EmptyConsistent DEF History, EmptyFile
    <3>5. QED
      BY <3>3, <3>4 DEF ReplayInv
  <2>2. ASSUME NEW intent \in Intents, CaptureIntent(intent) PROVE ReplayInv'
    BY <2>2, ReplayCaptures
  <2>3. ASSUME NEW r \in Requests, Handles(r) PROVE ReplayInv'
    BY <2>3, ReplayHandled
  <2>4. CASE Exit
    <3>1. file' = file /\ status' = "down"
      BY <2>4 DEF Exit, Dies
    <3>2. Readable(file)' => Consistent(Replay(History))'
      BY <3>1 DEF ReplayInv, History
    <3>3. QED
      BY <3>1, <3>2 DEF ReplayInv
  <2>5. CASE UNCHANGED vars
    BY <2>5 DEF vars, ReplayInv, History
  <2>6. QED
    BY <2>1, <2>2, <2>3, <2>4, <2>5 DEF Next
<1>5. QED
  BY <1>3, <1>4, ConsistencyInvariant, PTL DEF Spec

-----------------------------------------------------------------------------
(* The log of a running process can be read *)

\* Every number of an entity is finite, so that what is written of it can be read.
OnlyFinite ==
  /\ \A r \in Requests : \A e \in Range(Events(r)) : e.finite
  /\ \A intent \in Intents : intent.finite

(* A log that can be read can still be read after an append of such entities.  *)
LEMMA WriteAllReadable ==
  ASSUME NEW f \in LogFile, f.terminated, Readable(f), NEW batch \in Seq(Record),
         \A i \in DOMAIN batch : batch[i].event.finite
  PROVE  Readable(WriteAll(f, batch))
<1>1. CASE batch = <<>>
  BY <1>1 DEF WriteAll
<1>2. CASE batch /= <<>>
  <2> DEFINE first == Line(Head(batch))
             rest == Lines(Tail(batch))
             before == Append(f.lines, first)
             all == before \o rest
  <2>1. /\ Head(batch) = batch[1] /\ 1 \in DOMAIN batch /\ Tail(batch) \in Seq(Record)
        /\ Len(Tail(batch)) = Len(batch) - 1 /\ Len(batch) \in Nat
        /\ \A i \in 1 .. Len(batch) - 1 : i + 1 \in DOMAIN batch /\ Tail(batch)[i] = batch[i + 1]
    BY <1>2
  <2>2. \A i \in DOMAIN batch : batch[i] \in Record /\ Line(batch[i]) = batch[i]
    BY DEF Line
  <2>3. first \in LogLine /\ first /= Unreadable
    BY <2>1, <2>2, KernelAssumption DEF LogLine
  <2>4. rest \in Seq(LogLine) /\ DOMAIN rest = 1 .. Len(batch) - 1
        /\ \A i \in DOMAIN rest : rest[i] /= Unreadable
    <3>1. rest \in Seq(LogLine) /\ Len(rest) = Len(batch) - 1
      BY <2>1, LinesShape
    <3>2. DOMAIN rest = 1 .. Len(batch) - 1
      BY <3>1
    <3>3. ASSUME NEW i \in 1 .. Len(batch) - 1 PROVE rest[i] /= Unreadable
      <4>1. i \in DOMAIN Tail(batch) /\ Tail(batch)[i] = batch[i + 1] /\ i + 1 \in DOMAIN batch
        BY <2>1
      <4>2. rest[i] = Line(batch[i + 1])
        BY <4>1 DEF Lines
      <4>3. QED
        BY <2>2, <4>1, <4>2, KernelAssumption
    <3>4. QED
      BY <3>1, <3>2, <3>3
  <2>5. f.lines \in Seq(LogLine) /\ \A i \in DOMAIN f.lines : f.lines[i] /= Unreadable
    BY DEF LogFile, Readable
  <2>6. WriteAll(f, batch).lines = all
    BY <1>2 DEF WriteAll, WriteText
  <2> HIDE DEF first, rest
  <2>7. before \in Seq(LogLine) /\ \A i \in DOMAIN before : before[i] /= Unreadable
    BY <2>3, <2>5
  <2> HIDE DEF before
  <2>8. Range(all) = Range(before) \cup Range(rest)
    BY <2>4, <2>7, RangeConcatenation
  <2>9. \A i \in DOMAIN all : all[i] /= Unreadable
    BY <2>4, <2>7, <2>8 DEF Range
  <2>10. QED
    BY <2>6, <2>9 DEF Readable
<1>3. QED
  BY <1>1, <1>2

\* The log of a process that runs can be read.
ReadableInv == status /= "down" => Readable(file)

LEMMA ReadableAppends ==
  ASSUME ReplayInv, ReadableInv, status /= "down",
         NEW events \in Seq(Entity), \A e \in Range(events) : e.finite, Appends(events)
  PROVE  Readable(file)'
<1> DEFINE batch == Records(Len(records), events)
<1>1. file \in LogFile /\ file.terminated /\ Readable(file) /\ records \in Seq(Record)
      /\ Len(records) \in Nat
  BY DEF ReplayInv, ReadableInv, ConsistencyInv, KernelInv, LogInv
<1>2. /\ batch \in Seq(Record) /\ Len(batch) = Len(events)
      /\ \A i \in 1 .. Len(events) : batch[i] = [seq |-> Len(records) + i - 1, event |-> events[i]]
  BY <1>1, RecordsShape
<1> HIDE DEF batch
<1>3. ASSUME NEW i \in DOMAIN batch PROVE batch[i].event.finite
  <2>1. i \in 1 .. Len(events) /\ i \in DOMAIN events /\ events[i] \in Range(events)
    BY <1>2 DEF Range
  <2>2. batch[i].event = events[i]
    <3>1. batch[i] = [seq |-> Len(records) + i - 1, event |-> events[i]]
      BY <1>2, <2>1
    <3>2. QED
      BY <3>1
  <2>3. QED
    BY <2>1, <2>2
<1>4. Readable(WriteAll(file, batch))
  BY <1>1, <1>2, <1>3, WriteAllReadable
<1>5. file' = WriteAll(file, batch)
  BY DEF Appends, batch
<1>6. QED
  BY <1>4, <1>5 DEF Readable

LEMMA ReadableInvariant ==
  ASSUME OnlyCrashes, OnlyFinite
  PROVE  Spec => []ReadableInv
<1>1. Init => ReadableInv
  BY DEF Init, ReadableInv
<1>2. ReplayInv /\ ReadableInv /\ [Next]_vars => ReadableInv'
  <2> SUFFICES ASSUME ReplayInv, ReadableInv, [Next]_vars, status' /= "down"
               PROVE  Readable(file)'
    BY DEF ReadableInv
  <2>1. CASE Boot
    <3>1. file' = EmptyFile
      BY <2>1 DEF Boot, OnlyCrashes
    <3>2. QED
      BY <3>1 DEF EmptyFile, Readable
  <2>2. ASSUME NEW intent \in Intents, CaptureIntent(intent) PROVE Readable(file)'
    <3> DEFINE events == <<intent>>
    <3>1. intent \in Entity /\ intent.finite
      BY KernelAssumption DEF OnlyFinite, OfKind
    <3>2. events \in Seq(Entity) /\ \A e \in Range(events) : e.finite
      BY <3>1 DEF Range
    <3>3. Appends(events) /\ status /= "down"
      BY <2>2 DEF CaptureIntent, DiesInAppend, Dies
    <3> HIDE DEF events
    <3>4. QED
      BY <3>2, <3>3, ReadableAppends
  <2>3. ASSUME NEW r \in Requests, Handles(r) PROVE Readable(file)'
    <3>1. Submit(r) /\ status = "running" /\ Events(r) \in Seq(Entity)
      BY <2>3, HandlesGrounded, EventsShape, KernelAssumption DEF ReplayInv, ConsistencyInv
    <3>2. \A e \in Range(Events(r)) : e.finite
      BY DEF OnlyFinite
    <3>3. Appends(Events(r))
      BY <3>1 DEF Submit, FailsToAppend, DiesInAppend, Dies, OnlyCrashes
    <3>4. QED
      BY <3>1, <3>2, <3>3, ReadableAppends
  <2>4. CASE Exit
    BY <2>4 DEF Exit, Dies
  <2>5. CASE UNCHANGED vars
    BY <2>5 DEF vars, ReadableInv, Readable
  <2>6. QED
    BY <2>1, <2>2, <2>3, <2>4, <2>5 DEF Next
<1>3. QED
  BY <1>1, <1>2, ReplayInvariant, PTL DEF Spec

-----------------------------------------------------------------------------
(* What the readers find in a replay *)

\* Every reference of the events that the seam checks is to an event before it, and the
\* events are of entities that a handler takes.
Backward(events) ==
  \A i \in DOMAIN events :
    /\ WellFormed(events[i])
    /\ \A n \in CheckedNames(events[i]) : \E j \in 1 .. i - 1 : NameOf(events[j]) = n

\* Every entity of the events, of a kind of which the state keeps a list, is held.
HoldsAll(state, events) ==
  \A i \in DOMAIN events : events[i].kind \in ListKinds => Holds(state, NameOf(events[i]))

(* What an entity is checked for is of a kind of which the state keeps a list. *)
LEMMA CheckedAreListed ==
  ASSUME NEW e \in Entity, NEW n \in CheckedNames(e)
  PROVE  n \in Name /\ n[1] \in ListKinds
<1>1. CheckedKinds(e) \subseteq ListKinds
  BY DEF CheckedKinds, ListKinds
<1>2. QED
  BY <1>1 DEF CheckedNames, Entity

(* An event whose references are held leaves a closed state closed. *)
LEMMA ApplyClosed ==
  ASSUME NEW state, Closed(state), NEW e \in Entity, WellFormed(e),
         \A n \in CheckedNames(e) : Holds(state, n), NEW new, new = Apply(state, e)
  PROVE  /\ Closed(new)
         /\ \A n \in Name : n[1] \in ListKinds /\ Holds(state, n) => Holds(new, n)
         /\ e.kind \in ListKinds => Holds(new, NameOf(e))
<1>1. state \in State /\ new \in State /\ ListKinds \subseteq StateKinds
  BY ApplyType DEF Closed, State, StateKinds
<1>2. \A kind \in StateKinds :
        /\ \A i \in DOMAIN new[kind] :
             \/ new[kind][i] = e /\ e.kind = kind
             \/ \E j \in DOMAIN state[kind] : Same(new[kind][i], state[kind][j])
        /\ kind \in ListKinds =>
             \A j \in DOMAIN state[kind] :
               \E i \in DOMAIN new[kind] : Same(new[kind][i], state[kind][j])
  BY <1>1, ApplyShape DEF State
<1>3. ASSUME NEW n \in Name, n[1] \in ListKinds, Holds(state, n) PROVE Holds(new, n)
  <2>1. PICK j \in DOMAIN state[n[1]] : state[n[1]][j].id = n[2]
    BY <1>3 DEF Holds
  <2>2. PICK i \in DOMAIN new[n[1]] : Same(new[n[1]][i], state[n[1]][j])
    BY <1>1, <1>2, <1>3
  <2>3. QED
    BY <2>1, <2>2 DEF Holds, Same
<1>4. ASSUME NEW kind \in StateKinds, NEW i \in DOMAIN new[kind]
      PROVE  /\ new[kind][i].kind = kind /\ WellFormed(new[kind][i])
             /\ \A n \in CheckedNames(new[kind][i]) : Holds(new, n)
  <2>1. CASE new[kind][i] = e /\ e.kind = kind
    <3>1. \A n \in CheckedNames(e) : Holds(new, n)
      BY <1>3, CheckedAreListed
    <3>2. QED
      BY <2>1, <3>1
  <2>2. CASE \E j \in DOMAIN state[kind] : Same(new[kind][i], state[kind][j])
    <3>1. PICK j \in DOMAIN state[kind] : Same(new[kind][i], state[kind][j])
      BY <2>2
    <3> DEFINE x == new[kind][i]
               y == state[kind][j]
    <3>2. Same(x, y) /\ y.kind = kind /\ WellFormed(y) /\ x \in Entity
          /\ \A n \in CheckedNames(y) : Holds(state, n)
      BY <1>1, <3>1 DEF Closed, AllWellFormed, State
    <3> HIDE DEF x, y
    <3>3. x.kind = kind /\ WellFormed(x) /\ CheckedNames(x) = CheckedNames(y)
      <4>1. CheckedKinds(x) = CheckedKinds(y)
        BY <3>2 DEF Same, CheckedKinds
      <4>2. QED
        BY <3>2, <4>1, SameWellFormed DEF Same, CheckedNames
    <3>4. \A n \in CheckedNames(x) : Holds(new, n)
      BY <1>3, <3>2, <3>3, CheckedAreListed
    <3>5. QED
      BY <3>3, <3>4 DEF x
  <2>3. QED
    BY <1>2, <2>1, <2>2
<1>5. Closed(new)
  BY <1>1, <1>4 DEF Closed, AllWellFormed, State
<1>6. ASSUME e.kind \in ListKinds PROVE Holds(new, NameOf(e))
  <2>1. new[e.kind] = Append(state[e.kind], e)
    <3>1. DOMAIN state = StateKinds /\ e.kind \in StateKinds
          /\ e.kind \notin SingleKinds /\ e.kind /= "audit"
      BY <1>1, <1>6 DEF State, ListKinds, SingleKinds
    <3>2. CASE e.kind = "waiver"
      <4>1. new = [state EXCEPT !["violation"] = Waive(@, e), !["waiver"] = Append(@, e)]
        BY <3>2 DEF Apply, SingleKinds
      <4>2. QED
        BY <3>1, <3>2, <4>1
    <3>3. CASE e.kind /= "waiver"
      <4>1. new = [state EXCEPT ![e.kind] = Append(@, e)]
        BY <3>1, <3>3 DEF Apply
      <4>2. QED
        BY <3>1, <4>1
    <3>4. QED
      BY <3>2, <3>3
  <2>2. state[e.kind] \in Seq(Entity)
    BY <1>1, <1>6 DEF State
  <2>3. /\ DOMAIN new[e.kind] = 1 .. Len(state[e.kind]) + 1 /\ Len(state[e.kind]) \in Nat
        /\ new[e.kind][Len(state[e.kind]) + 1] = e
    BY <2>1, <2>2, AppendFacts
  <2>4. QED
    BY <2>3 DEF Holds, NameOf
<1>7. QED
  BY <1>3, <1>5, <1>6

(* The replay of events that refer backwards is closed. *)
LEMMA ReplayClosed ==
  ASSUME NEW events \in Seq(Entity), Backward(events)
  PROVE  Closed(Replay(events)) /\ HoldsAll(Replay(events), events)
<1> DEFINE T == {h \in Seq(Entity) :
                   Backward(h) => Closed(Replay(h)) /\ HoldsAll(Replay(h), h)}
<1>1. <<>> \in T
  <2>1. Closed(EmptyState) /\ HoldsAll(EmptyState, <<>>)
    BY DEF Closed, EmptyState, AllWellFormed, HoldsAll
  <2>2. QED
    BY <2>1, ReplayEmpty
<1>2. ASSUME NEW h \in Seq(Entity), NEW e \in Entity, h \in T PROVE Append(h, e) \in T
  <2> DEFINE more == Append(h, e)
  <2>1. /\ more \in Seq(Entity) /\ DOMAIN h = 1 .. Len(h) /\ DOMAIN more = 1 .. Len(h) + 1
        /\ Len(h) \in Nat /\ more[Len(h) + 1] = e /\ \A i \in 1 .. Len(h) : more[i] = h[i]
    BY AppendFacts
  <2>2. Replay(more) = Apply(Replay(h), e)
    BY ReplayAppend
  <2> HIDE DEF more
  <2> SUFFICES ASSUME Backward(more) PROVE Closed(Replay(more)) /\ HoldsAll(Replay(more), more)
    BY <2>1 DEF more
  <2>3. Backward(h)
    <3>1. SUFFICES ASSUME NEW i \in DOMAIN h
                   PROVE  /\ WellFormed(h[i])
                          /\ \A n \in CheckedNames(h[i]) : \E j \in 1 .. i - 1 : NameOf(h[j]) = n
      BY DEF Backward
    <3>2. i \in DOMAIN more /\ more[i] = h[i] /\ \A j \in 1 .. i - 1 : more[j] = h[j]
      BY <2>1
    <3>3. QED
      BY <3>2 DEF Backward
  <2>4. Closed(Replay(h)) /\ HoldsAll(Replay(h), h)
    BY <1>2, <2>3
  <2>5. /\ WellFormed(e)
        /\ \A n \in CheckedNames(e) : \E j \in DOMAIN h : NameOf(h[j]) = n
    <3>1. Len(h) + 1 \in DOMAIN more /\ 1 .. (Len(h) + 1) - 1 = DOMAIN h
          /\ \A j \in DOMAIN h : more[j] = h[j]
      BY <2>1
    <3>2. /\ WellFormed(more[Len(h) + 1])
          /\ \A n \in CheckedNames(more[Len(h) + 1]) :
               \E j \in 1 .. (Len(h) + 1) - 1 : NameOf(more[j]) = n
      BY <3>1 DEF Backward
    <3>3. QED
      BY <2>1, <3>1, <3>2
  <2>6. ASSUME NEW n \in CheckedNames(e) PROVE Holds(Replay(h), n)
    <3>1. PICK j \in DOMAIN h : NameOf(h[j]) = n
      BY <2>5
    <3>2. n[1] \in ListKinds
      BY CheckedAreListed
    <3>3. h[j].kind \in ListKinds
      BY <3>1, <3>2 DEF NameOf
    <3>4. QED
      BY <2>4, <3>1, <3>3 DEF HoldsAll
  <2>7. PICK new : new = Apply(Replay(h), e)
    OBVIOUS
  <2>8. /\ Closed(new)
        /\ \A n \in Name : n[1] \in ListKinds /\ Holds(Replay(h), n) => Holds(new, n)
        /\ e.kind \in ListKinds => Holds(new, NameOf(e))
    BY <2>4, <2>5, <2>6, <2>7, ApplyClosed
  <2>9. ASSUME NEW i \in DOMAIN more, more[i].kind \in ListKinds PROVE Holds(new, NameOf(more[i]))
    <3>1. CASE i \in DOMAIN h
      <4>1. more[i] = h[i] /\ h[i] \in Entity
        BY <2>1, <3>1
      <4>2. Holds(Replay(h), NameOf(h[i])) /\ h[i].kind \in ListKinds
        BY <2>4, <2>9, <3>1, <4>1 DEF HoldsAll
      <4>3. NameOf(h[i]) \in Name /\ NameOf(h[i])[1] \in ListKinds
        BY <4>1, <4>2 DEF NameOf, Name, Entity, StateKinds
      <4>4. QED
        BY <2>8, <4>1, <4>2, <4>3
    <3>2. CASE i = Len(h) + 1
      BY <2>1, <2>8, <2>9, <3>2
    <3>3. QED
      BY <2>1, <3>1, <3>2
  <2>10. QED
    BY <2>2, <2>7, <2>8, <2>9 DEF HoldsAll
<1>3. Seq(Entity) \subseteq T
  <2> HIDE DEF T
  <2>1. QED
    BY <1>1, <1>2, SeqInd
<1>4. QED
  BY <1>3

\* The records of a log are of entities that a handler takes.
AllTaken(recs) == \A i \in DOMAIN recs : WellFormed(recs[i].event)

\* So are those of the cache and, if it can be read, of the file.
RecordsInv == AllTaken(records) /\ (Readable(file) => AllTaken(file.lines))

\* The events of a batch are.
TakenEvents(events) == \A e \in Range(events) : WellFormed(e)

(* Records of such events join others.                                         *)
LEMMA TakenMore ==
  ASSUME NEW recs \in Seq(Record), AllTaken(recs),
         NEW events \in Seq(Entity), TakenEvents(events), NEW m \in 0 .. Len(events)
  PROVE  AllTaken(recs \o SubSeq(Records(Len(recs), events), 1, m))
<1> DEFINE all == recs \o SubSeq(Records(Len(recs), events), 1, m)
           added == EventsOf(recs) \o SubSeq(events, 1, m)
<1>1. EventsOf(all) = added /\ EventsOf(recs) \in Seq(Entity)
  BY EventsOfMore, EventsOfShape
<1>2. SubSeq(events, 1, m) \in Seq(Entity) /\ Range(SubSeq(events, 1, m)) \subseteq Range(events)
  BY DEF Range
<1>3. Range(added) = Range(EventsOf(recs)) \cup Range(SubSeq(events, 1, m))
  BY <1>1, <1>2, RangeConcatenation
<1>4. \A e \in Range(EventsOf(recs)) : WellFormed(e)
  BY DEF AllTaken, EventsOf, Range
<1>5. \A e \in Range(EventsOf(all)) : WellFormed(e)
  BY <1>1, <1>2, <1>3, <1>4 DEF TakenEvents
<1>6. \A i \in DOMAIN all : all[i].event \in Range(EventsOf(all))
  <2> HIDE DEF all
  <2>1. QED
    BY DEF EventsOf, Range
<1>7. QED
  BY <1>5, <1>6 DEF AllTaken

(* The events of a request that a handler takes are. *)
LEMMA HandledTaken ==
  ASSUME NEW r \in Requests, Handles(r)
  PROVE  TakenEvents(Events(r))
<1>1. r \in Request /\ WellFormed(r.entity)
  BY KernelAssumption, HandledWellFormed
<1>2. ASSUME NEW kind \in Companions, NEW s \in Seq(OfKind(kind)), NEW e \in Range(s)
      PROVE  WellFormed(e)
  <2>1. Range(s) \subseteq OfKind(kind)
    BY RangeOfSeq
  <2>2. e.kind \in Companions
    BY <2>1 DEF OfKind
  <2>3. QED
    BY <2>2, OtherWellFormed DEF Companions
<1>3. /\ r.evidence \in Seq(OfKind("evidence")) /\ r.decision \in Seq(OfKind("decision"))
      /\ r.pins \in Seq(OfKind("pin")) /\ r.links \in Seq(OfKind("link"))
      /\ {"evidence", "decision", "pin", "link"} \subseteq Companions
  BY <1>1 DEF Request, Companions
<1>4. \A e \in Range(r.evidence) \cup Range(r.decision) \cup Range(r.pins) \cup Range(r.links) :
        WellFormed(e)
  BY <1>2, <1>3
<1>5. QED
  BY <1>1, <1>4, EventsShape DEF TakenEvents

\* The file after an append of the events, or after one that was cut short.
Written(events) ==
  LET batch == Records(Len(records), events)
  IN  \/ file' = WriteAll(file, batch)
      \/ \E k \in 0 .. Len(batch) - 1, torn \in Torn : file' = WriteSome(file, batch, k, torn)

(* An append, whole or cut short, leaves them so, also if the process dies of it. *)
LEMMA TakenWritten ==
  ASSUME KernelInv, RecordsInv, status /= "down",
         NEW events \in Seq(Entity), events /= <<>>, Grounded(live, events), TakenEvents(events),
         Appends(events) \/ FailsToAppend(events) \/ (Written(events) /\ Dies)
  PROVE  RecordsInv'
<1> DEFINE batch == Records(Len(records), events)
<1>1. LogInv /\ CoveredBy(records, events) /\ records \in Seq(Record) /\ AllTaken(records)
  BY GroundedCovered DEF KernelInv, LiveInv, LogInv, RecordsInv
<1>2. batch \in Seq(Record) /\ Len(batch) = Len(events) /\ Len(events) \in Nat
  <2>1. Len(records) \in Nat
    BY <1>1
  <2>2. QED
    BY <2>1, RecordsShape
<1>3. ASSUME NEW m \in 0 .. Len(events) PROVE AllTaken(records \o SubSeq(batch, 1, m))
  BY <1>1, TakenMore
<1>4. Readable(file)' => AllTaken(file.lines)'
  <2>1. SUFFICES ASSUME Readable(file)' PROVE AllTaken(file'.lines)
    OBVIOUS
  <2>2. PICK g : g = file'
    OBVIOUS
  <2>3. Readable(g) /\ \/ g = WriteAll(file, batch)
                       \/ \E k \in 0 .. Len(batch) - 1, torn \in Torn :
                            g = WriteSome(file, batch, k, torn)
    BY <2>1, <2>2 DEF Readable, Appends, FailsToAppend, Written
  <2>4. \/ g = file
        \/ \E m \in 0 .. Len(events) : g.lines = records \o SubSeq(batch, 1, m)
    BY <1>1, <2>3, CutLines
  <2> HIDE DEF batch
  <2>5. AllTaken(g.lines)
    BY <1>3, <2>3, <2>4 DEF RecordsInv
  <2>6. QED
    BY <2>2, <2>5
<1>5. AllTaken(records')
  <2>1. CASE Appends(events)
    <3>1. SubSeq(batch, 1, Len(events)) = batch /\ Len(events) \in 0 .. Len(events)
      <4> HIDE DEF batch
      <4>1. QED
        BY <1>2
    <3>2. QED
      BY <1>3, <2>1, <3>1 DEF Appends
  <2>2. CASE FailsToAppend(events)
    <3>1. PICK k \in 0 .. Len(batch) - 1 : records' = records \o SubSeq(batch, 1, k)
      BY <2>2 DEF FailsToAppend
    <3>2. k \in 0 .. Len(events)
      BY <1>2, <3>1
    <3>3. QED
      BY <1>3, <3>1, <3>2
  <2>3. CASE Dies
    BY <2>3 DEF Dies, AllTaken
  <2>4. QED
    BY <2>1, <2>2, <2>3
<1>6. QED
  BY <1>4, <1>5 DEF RecordsInv

(* So every record is of an entity that a handler takes, whatever fails.        *)
LEMMA RecordsInvariant == Spec => []RecordsInv
<1>1. Init => RecordsInv
  BY DEF Init, RecordsInv, AllTaken, EmptyFile
<1>2. ReadersInv /\ RecordsInv /\ [Next]_vars => RecordsInv'
  <2> SUFFICES ASSUME ReadersInv, RecordsInv, [Next]_vars PROVE RecordsInv'
    OBVIOUS
  <2>1. KernelInv
    BY DEF ReadersInv, ConsistencyInv
  <2>2. CASE Boot
    BY <2>2 DEF Boot, RecordsInv, AllTaken, EmptyFile, Readable
  <2>3. ASSUME NEW intent \in Intents, CaptureIntent(intent) PROVE RecordsInv'
    <3> DEFINE events == <<intent>>
    <3>1. intent \in Entity /\ intent.kind = "intent"
      BY KernelAssumption DEF OfKind
    <3>2. CheckedNames(intent) = {} /\ ~NeedsBoard(intent) /\ WellFormed(intent)
      BY <3>1, OtherWellFormed DEF CheckedNames, CheckedKinds, NeedsBoard
    <3>3. events \in Seq(Entity) /\ events /= <<>> /\ Range(events) = {intent}
      BY <3>1 DEF Range
    <3>4. status /= "down"
      BY <2>3 DEF CaptureIntent
    <3>5. Appends(events) \/ (Written(events) /\ Dies)
      <4>1. 0 \in 0 .. Len(Records(Len(records), events)) - 1
        <5>1. Len(records) \in Nat /\ Len(events) = 1
          BY <2>1 DEF KernelInv, LogInv
        <5> HIDE DEF events
        <5>2. Len(Records(Len(records), events)) = 1
          BY <3>3, <5>1, RecordsShape
        <5>3. QED
          BY <5>2
      <4>2. \/ Appends(events)
            \/ /\ \E torn \in Torn :
                    file' = WriteSome(file, Records(Len(records), events), 0, torn)
               /\ Dies
            \/ DiesInAppend(events)
        BY <2>3 DEF CaptureIntent
      <4> HIDE DEF events
      <4>3. QED
        BY <4>1, <4>2 DEF Written, DiesInAppend
    <3> HIDE DEF events
    <3>6. Grounded(live, events) /\ TakenEvents(events)
      BY <3>2, <3>3 DEF Grounded, TakenEvents
    <3>7. QED
      BY <2>1, <3>3, <3>4, <3>5, <3>6, TakenWritten
  <2>4. ASSUME NEW r \in Requests, Handles(r) PROVE RecordsInv'
    <3>1. Submit(r) /\ status = "running" /\ Grounded(live, Events(r)) /\ TakenEvents(Events(r))
      BY <2>4, HandlesGrounded, HandledTaken
    <3>2. Events(r) \in Seq(Entity) /\ Events(r) /= <<>>
      BY EventsShape, KernelAssumption
    <3>3. Appends(Events(r)) \/ FailsToAppend(Events(r)) \/ (Written(Events(r)) /\ Dies)
      BY <3>1 DEF Submit, DiesInAppend, Written
    <3>4. QED
      BY <2>1, <3>1, <3>2, <3>3, TakenWritten
  <2>5. CASE Exit
    BY <2>5 DEF Exit, Dies, RecordsInv, AllTaken
  <2>6. CASE UNCHANGED vars
    BY <2>6 DEF vars, RecordsInv
  <2>7. QED
    BY <2>2, <2>3, <2>4, <2>5, <2>6 DEF Next
<1>3. QED
  BY <1>1, <1>2, ReadersInvariant, PTL DEF Spec

-----------------------------------------------------------------------------
(* The trace of a requirement *)

\* The kinds that a trace is made of, besides the intent.
TraceKinds == {"requirement", "decision", "evidence", "link"}

\* A set of entities that has, with every requirement, its evidence, its decision and
\* its source.  Every link in it came with a request, no two decisions in it have the
\* same name, and its intents are those of runs.
TracesBack(S) ==
  /\ \A r \in Requests : r.entity.kind = "requirement" /\ r.entity \in S =>
       /\ Range(r.evidence) \subseteq S
       /\ Range(r.decision) \subseteq S
       /\ \A n \in NamesOfKind(r.entity, "intent") : \E e \in S : NameOf(e) = n
  /\ \A e \in S : e.kind = "link" => \E r \in Requests : e \in Range(r.links)
  /\ \A d, e \in S : d.kind = "decision" /\ e.kind = "decision" /\ NameOf(d) = NameOf(e) => d = e
  /\ \A e \in S : e.kind = "intent" => e \in Intents

\* The links that came with the requirements are in it too.
TracesOn(S) ==
  \A r \in Requests :
    r.entity.kind = "requirement" /\ r.entity \in S => Range(r.links) \subseteq S

\* What a trace is made of, the state has as the set has it; of several intents, one.
Shows(state, S) ==
  /\ \A kind \in TraceKinds : Entities(state, kind) = {e \in S : e.kind = kind}
  /\ Entities(state, "intent") \subseteq {e \in S : e.kind = "intent"}
  /\ (\E e \in S : e.kind = "intent") => Entities(state, "intent") /= {}

(* What comes with a request, by its kind. *)
LEMMA CompanionKinds ==
  ASSUME NEW r \in Requests
  PROVE  /\ r \in Request /\ r.entity \in Entity /\ r.entity.kind \notin Companions
         /\ \A e \in Range(r.evidence) : e \in Entity /\ e.kind = "evidence"
         /\ \A e \in Range(r.decision) : e \in Entity /\ e.kind = "decision"
         /\ \A e \in Range(r.pins) : e \in Entity /\ e.kind = "pin"
         /\ \A e \in Range(r.links) : e \in Entity /\ e.kind = "link"
<1>1. r \in Request /\ r.entity.kind \notin Companions /\ r.entity \in Entity
  BY KernelAssumption DEF Request
<1>2. ASSUME NEW kind, NEW s \in Seq(OfKind(kind)), NEW e \in Range(s)
      PROVE  e \in Entity /\ e.kind = kind
  <2>1. PICK i \in DOMAIN s : e = s[i]
    BY DEF Range
  <2>2. s[i] \in OfKind(kind)
    BY ElementOfSeq
  <2>3. QED
    BY <2>1, <2>2 DEF OfKind
<1>3. /\ r.evidence \in Seq(OfKind("evidence")) /\ r.decision \in Seq(OfKind("decision"))
      /\ r.pins \in Seq(OfKind("pin")) /\ r.links \in Seq(OfKind("link"))
  BY <1>1 DEF Request
<1>4. QED
  BY <1>1, <1>2, <1>3

(* A requirement in such a set has its whole trace in a state that shows the set, or  *)
(* one that ends before the decision; and the whole if the links are there too.         *)
LEMMA TracesFrom ==
  ASSUME NEW state \in State, NEW S, TracesBack(S), Shows(state, S),
         NEW r \in Requests, r.entity \in Entities(state, "requirement")
  PROVE  /\ Trace(state, r.entity) \in
              {WholeTrace(r), [WholeTrace(r) EXCEPT !.decisions = {}, !.evidence = {}]}
         /\ TracesOn(S) => Trace(state, r.entity) = WholeTrace(r)
<1> DEFINE q == r.entity
           links == state["link"]
           found == DecisionsOf(state, q)
           whole == WholeTrace(r)
           cut == [whole EXCEPT !.decisions = {}, !.evidence = {}]
<1>1. q \in S /\ q.kind = "requirement"
      /\ Range(r.evidence) \subseteq S /\ Range(r.decision) \subseteq S
  BY DEF Shows, TraceKinds, TracesBack
<1>2. {n \in NamesOfKind(q, "intent") : Holds(state, n)} = NamesOfKind(q, "intent")
  <2>1. SUFFICES ASSUME NEW n \in NamesOfKind(q, "intent") PROVE Holds(state, n)
    OBVIOUS
  <2>2. PICK e \in S : NameOf(e) = n
    BY <1>1 DEF TracesBack
  <2>3. e.kind = "intent"
    BY <2>2 DEF NamesOfKind, NameOf
  <2>4. PICK f \in Entities(state, "intent") : f \in S /\ f.kind = "intent"
    BY <2>3 DEF Shows
  <2>5. f \in Intents
    BY <2>4 DEF TracesBack
  <2>6. n = NameOf(f)
    BY <1>1, <2>5, AgentAssumption
  <2>7. PICK i \in DOMAIN state["intent"] : f = state["intent"][i]
    BY <2>4 DEF Entities, ToSet
  <2>8. QED
    BY <2>4, <2>6, <2>7 DEF Holds, NameOf
<1>3. \A d \in Range(r.decision) : d \in Entities(state, "decision")
  BY <1>1, CompanionKinds DEF Shows, TraceKinds
<1>4. \A e \in Range(r.evidence) : Holds(state, NameOf(e))
  <2>1. SUFFICES ASSUME NEW e \in Range(r.evidence) PROVE Holds(state, NameOf(e))
    OBVIOUS
  <2>2. e \in Entities(state, "evidence") /\ e.kind = "evidence"
    BY <1>1, CompanionKinds DEF Shows, TraceKinds
  <2>3. PICK i \in DOMAIN state["evidence"] : e = state["evidence"][i]
    BY <2>2 DEF Entities, ToSet
  <2>4. QED
    BY <2>2, <2>3 DEF Holds, NameOf
<1>5. ASSUME NEW i \in DOMAIN links, NameOf(q) \in links[i].names,
             NamesOfKind(links[i], "decision") /= {}
      PROVE  NamesOfKind(links[i], "decision") = NamesOf(r.decision)
  <2> DEFINE l == links[i]
  <2>1. l \in S /\ l.kind = "link"
    <3>1. l \in Entities(state, "link")
      BY DEF Entities, ToSet
    <3>2. QED
      BY <3>1 DEF Shows, TraceKinds
  <2>2. PICK s \in Requests : l \in Range(s.links)
    BY <2>1 DEF TracesBack
  <2>3. PICK j \in DOMAIN s.links : l = s.links[j]
    BY <2>2 DEF Range
  <2>4. /\ NamesOfKind(l, "requirement") \subseteq {NameOf(s.entity)}
        /\ NamesOfKind(l, "decision") = NamesOf(s.decision)
    BY <1>5, <2>3, AgentAssumption
  <2>5. NameOf(q) \in NamesOfKind(l, "requirement")
    BY <1>1, <1>5 DEF NamesOfKind, NameOf
  <2>6. s = r
    BY <1>1, <2>4, <2>5, AgentAssumption
  <2>7. QED
    BY <2>4, <2>6
<1>6. found \subseteq Range(r.decision)
  <2>1. SUFFICES ASSUME NEW d \in found PROVE d \in Range(r.decision)
    OBVIOUS
  <2>2. PICK i \in DOMAIN links : IsJustificationOf(i, state, q) /\ NameOf(d) \in links[i].names
    BY DEF DecisionsOf
  <2>3. d \in S /\ d.kind = "decision"
    BY DEF DecisionsOf, Shows, TraceKinds
  <2>4. NameOf(d) \in NamesOfKind(links[i], "decision")
    BY <2>2, <2>3 DEF NamesOfKind, NameOf
  <2>5. NameOf(q) \in links[i].names
    BY <2>2 DEF IsJustificationOf, Naming
  <2>6. NameOf(d) \in NamesOf(r.decision)
    BY <1>5, <2>4, <2>5
  <2>7. PICK j \in DOMAIN r.decision : NameOf(d) = NameOf(r.decision[j])
    BY <2>6 DEF NamesOf
  <2>8. r.decision[j] \in Range(r.decision)
    BY DEF Range
  <2>9. r.decision[j] \in S /\ r.decision[j].kind = "decision"
    BY <1>1, <2>8, CompanionKinds
  <2>10. d = r.decision[j]
    BY <2>3, <2>7, <2>9 DEF TracesBack
  <2>11. QED
    BY <2>8, <2>10
<1> DEFINE tail == [decisions |-> {}, evidence |-> {}, intents |-> NamesOfKind(q, "intent")]
<1>7. cut = tail
  <2>1. PICK a, b, c : whole = [decisions |-> a, evidence |-> b, intents |-> c]
                       /\ c = NamesOfKind(q, "intent")
    BY DEF WholeTrace
  <2> HIDE DEF whole, q
  <2>2. PICK once : once = [whole EXCEPT !.decisions = {}]
    OBVIOUS
  <2>3. once = [decisions |-> {}, evidence |-> b, intents |-> c]
    BY <2>1, <2>2
  <2>4. [once EXCEPT !.evidence = {}] = tail
    BY <2>1, <2>3
  <2>5. cut = [once EXCEPT !.evidence = {}]
    BY <2>2
  <2>6. QED
    BY <2>4, <2>5
<1>8. CASE \E i \in DOMAIN links : IsJustificationOf(i, state, q)
  <2>1. PICK i \in DOMAIN links : IsJustificationOf(i, state, q)
    BY <1>8
  <2>2. NamesOfKind(links[i], "decision") = NamesOf(r.decision)
    BY <1>5, <2>1 DEF IsJustificationOf, Naming
  <2>3. ASSUME NEW d \in Range(r.decision) PROVE d \in found
    <3>1. NameOf(d) \in NamesOf(r.decision)
      BY DEF NamesOf, Range
    <3>2. NameOf(d) \in links[i].names
      BY <2>2, <3>1 DEF NamesOfKind
    <3>3. QED
      BY <1>3, <2>1, <3>2 DEF DecisionsOf
  <2>4. found = Range(r.decision)
    BY <1>6, <2>3
  <2>5. {NameOf(d) : d \in found} = NamesOf(r.decision)
    BY <2>4 DEF NamesOf, Range
  <2>6. UNION {{n \in NamesOfKind(d, "evidence") : Holds(state, n)} : d \in found}
          = NamesOf(r.evidence)
    <3>1. NamesOf(r.evidence) = UNION {NamesOfKind(d, "evidence") : d \in found}
      <4>1. NamesOf(r.evidence) =
              UNION {NamesOfKind(r.decision[j], "evidence") : j \in DOMAIN r.decision}
        BY <1>1, AgentAssumption
      <4>2. QED
        BY <2>4, <4>1 DEF Range
    <3>2. \A n \in NamesOf(r.evidence) : Holds(state, n)
      BY <1>4 DEF NamesOf, Range
    <3> HIDE DEF found
    <3>3. QED
      BY <3>1, <3>2
  <2> HIDE DEF found
  <2>7. Trace(state, q) = whole
    BY <1>2, <2>5, <2>6 DEF Trace, WholeTrace, found
  <2>8. QED
    BY <2>7
<1>9. CASE ~\E i \in DOMAIN links : IsJustificationOf(i, state, q)
  <2>1. found = {}
    BY <1>9 DEF DecisionsOf
  <2>2. Trace(state, q) = cut
    <3>1. {NameOf(d) : d \in found} = {}
          /\ UNION {{n \in NamesOfKind(d, "evidence") : Holds(state, n)} : d \in found} = {}
      BY <2>1
    <3>2. Trace(state, q) = tail
      BY <1>2, <3>1 DEF Trace
    <3> HIDE DEF tail, cut
    <3>3. QED
      BY <1>7, <3>2
  <2>3. ASSUME TracesOn(S) PROVE r.decision = <<>>
    <3>1. SUFFICES ASSUME r.decision /= <<>> PROVE FALSE
      OBVIOUS
    <3>2. PICK k \in DOMAIN r.links : /\ NameOf(q) \in r.links[k].names
                                      /\ NamesOfKind(r.links[k], "decision") /= {}
      BY <1>1, <3>1, AgentAssumption
    <3>3. r.links[k] \in S /\ r.links[k].kind = "link"
      BY <1>1, <2>3, CompanionKinds DEF TracesOn, Range
    <3>4. r.links[k] \in Entities(state, "link")
      BY <3>3 DEF Shows, TraceKinds
    <3> DEFINE good == {i \in DOMAIN links : /\ NameOf(q) \in links[i].names
                                             /\ NamesOfKind(links[i], "decision") /= {}}
    <3>5. good /= {} /\ good \in SUBSET Nat
      <4>1. PICK i \in DOMAIN links : r.links[k] = links[i]
        BY <3>4 DEF Entities, ToSet
      <4>2. links \in Seq(Entity)
        BY DEF State, StateKinds, ListKinds
      <4>3. DOMAIN links \subseteq Nat
        BY <4>2
      <4>4. QED
        BY <3>2, <4>1, <4>3
    <3>6. PICK i \in good : \A j \in good : i <= j
      <4> HIDE DEF good
      <4>1. QED
        BY <3>5, LeastNat
    <3>7. IsJustificationOf(i, state, q)
      BY <3>6 DEF IsJustificationOf, Naming
    <3>8. QED
      BY <1>9, <3>6, <3>7
  <2>4. ASSUME r.decision = <<>> PROVE cut = whole
    <3>1. NamesOf(r.decision) = {}
      BY <2>4 DEF NamesOf
    <3>2. NamesOf(r.evidence) = {}
      BY <1>1, <2>4, AgentAssumption
    <3>3. whole = tail
      BY <3>1, <3>2 DEF WholeTrace
    <3> HIDE DEF tail, cut, whole
    <3>4. QED
      BY <1>7, <3>3
  <2>5. QED
    BY <2>2, <2>3, <2>4
<1>10. QED
  BY <1>8, <1>9

(* An intent joins such a set, and so does what a batch begins with: what a         *)
(* requirement needs is in front of it, and its ids are new.                        *)
LEMMA IntentTracesBack ==
  ASSUME NEW S, TracesBack(S), NEW intent \in Intents
  PROVE  TracesBack(S \cup {intent})
<1>1. intent.kind = "intent"
  BY KernelAssumption DEF OfKind
<1>2. QED
  BY <1>1 DEF TracesBack

LEMMA BatchTracesBack ==
  ASSUME NEW S, TracesBack(S), NEW names, \A e \in S : NameOf(e) \in names,
         \E e \in S : e \in Intents,
         NEW r \in Requests, r.entity.kind /= "intent", NamesOf(Events(r)) \cap names = {},
         NEW m \in 0 .. Len(Events(r))
  PROVE  TracesBack(S \cup Range(SubSeq(Events(r), 1, m)))
<1> DEFINE events == Events(r)
           P == Range(SubSeq(events, 1, m))
           lead == Leading(r)
<1>1. /\ r \in Request /\ r.entity.kind \notin Companions
      /\ \A e \in Range(r.evidence) : e.kind = "evidence"
      /\ \A e \in Range(r.decision) : e.kind = "decision"
      /\ \A e \in Range(r.pins) : e.kind = "pin"
      /\ \A e \in Range(r.links) : e.kind = "link"
  BY CompanionKinds
<1>2. /\ events \in Seq(Entity)
      /\ Range(events) = Range(r.evidence) \cup Range(r.decision) \cup {r.entity}
                           \cup Range(r.pins) \cup Range(r.links)
  BY <1>1, EventsShape
<1> HIDE DEF events
<1>3. /\ SubSeq(events, 1, m) \in Seq(Entity) /\ DOMAIN SubSeq(events, 1, m) = 1 .. m
      /\ \A i \in 1 .. m : SubSeq(events, 1, m)[i] = events[i]
      /\ DOMAIN events = 1 .. Len(events) /\ Len(events) \in Nat /\ m <= Len(events)
  BY <1>2 DEF events
<1>4. P = {events[i] : i \in 1 .. m}
  BY <1>3 DEF Range
<1>5. P \subseteq Range(events)
  BY <1>3, <1>4 DEF Range
<1>6. \A e \in P : NameOf(e) \notin names
  BY <1>3, <1>4 DEF NamesOf, events
<1>7. /\ \A e \in P : e.kind \notin Companions => e = r.entity
      /\ \A e \in P : e.kind = "decision" => e \in Range(r.decision)
      /\ \A e \in P : e.kind = "link" => e \in Range(r.links)
      /\ \A e \in P : e.kind /= "intent"
  <2>1. {"evidence", "decision", "pin", "link"} = Companions
    BY DEF Companions
  <2> HIDE DEF P
  <2>2. QED
    BY <1>1, <1>2, <1>5, <2>1
<1>8. ASSUME r.entity \in P PROVE Range(r.evidence) \subseteq P /\ Range(r.decision) \subseteq P
  <2>1. PICK i \in 1 .. m : events[i] = r.entity
    BY <1>4, <1>8
  <2>2. /\ lead \in Seq(Entity) /\ Trailing(r) \in Seq(Entity) /\ r.entity \in Entity
        /\ events = Append(lead, r.entity) \o Trailing(r)
        /\ r.evidence \in Seq(Entity) /\ r.decision \in Seq(Entity)
    BY <1>1, BatchParts DEF events
  <2>3. Range(lead) = Range(r.evidence) \cup Range(r.decision)
    BY <2>2, RangeConcatenation DEF Leading
  <2> HIDE DEF lead
  <2>4. Len(lead) \in Nat /\ DOMAIN lead = 1 .. Len(lead)
        /\ \A j \in 1 .. Len(lead) : events[j] = lead[j]
    BY <2>2
  <2>5. i \notin 1 .. Len(lead)
    <3>1. SUFFICES ASSUME i \in 1 .. Len(lead) PROVE FALSE
      OBVIOUS
    <3>2. r.entity \in Range(r.evidence) \cup Range(r.decision)
      BY <2>1, <2>3, <2>4, <3>1 DEF Range
    <3>3. QED
      BY <1>1, <3>2 DEF Companions
  <2>6. 1 .. Len(lead) \subseteq 1 .. m
    BY <2>4, <2>5
  <2>7. Range(lead) \subseteq P
    BY <1>4, <2>4, <2>6 DEF Range
  <2>8. QED
    BY <2>3, <2>7
<1> HIDE DEF P
<1> DEFINE new == S \cup P
<1>9. ASSUME NEW s \in Requests, s.entity.kind = "requirement", s.entity \in new
      PROVE  /\ Range(s.evidence) \subseteq new /\ Range(s.decision) \subseteq new
             /\ \A n \in NamesOfKind(s.entity, "intent") : \E e \in new : NameOf(e) = n
  <2>1. CASE s.entity \in S
    BY <1>9, <2>1 DEF TracesBack
  <2>2. CASE s.entity \in P
    <3>1. s.entity = r.entity
      BY <1>7, <1>9, <2>2 DEF Companions
    <3>2. s = r
      <4>1. \A t \in Requests : NameOf(t.entity) = NameOf(s.entity) => t = s
        BY <1>9, AgentAssumption
      <4>2. QED
        BY <3>1, <4>1
    <3>3. ASSUME NEW n \in NamesOfKind(s.entity, "intent") PROVE \E e \in new : NameOf(e) = n
      <4>1. PICK intent \in S : intent \in Intents
        OBVIOUS
      <4>2. NamesOfKind(s.entity, "intent") \subseteq {NameOf(intent)}
        BY <1>9, <4>1, AgentAssumption
      <4>3. QED
        BY <4>1, <4>2
    <3>4. QED
      BY <1>8, <2>2, <3>2, <3>3
  <2>3. QED
    BY <1>9, <2>1, <2>2
<1>10. ASSUME NEW d \in new, NEW e \in new,
              d.kind = "decision", e.kind = "decision", NameOf(d) = NameOf(e)
       PROVE  d = e
  <2>1. CASE d \in S /\ e \in S
    BY <1>10, <2>1 DEF TracesBack
  <2>2. CASE d \in P /\ e \in P
    <3>1. PICK i \in DOMAIN r.decision, j \in DOMAIN r.decision :
            d = r.decision[i] /\ e = r.decision[j]
      BY <1>7, <1>10, <2>2 DEF Range
    <3>2. Len(r.decision) <= 1 /\ DOMAIN r.decision = 1 .. Len(r.decision)
          /\ Len(r.decision) \in Nat
      BY <1>1, AgentAssumption DEF Request
    <3>3. i = j
      BY <3>1, <3>2
    <3>4. QED
      BY <3>1, <3>3
  <2>3. QED
    BY <1>6, <1>10, <2>1, <2>2
<1>11. \A e \in new : e.kind = "link" => \E s \in Requests : e \in Range(s.links)
  BY <1>7 DEF TracesBack
<1>12. \A e \in new : e.kind = "intent" => e \in Intents
  BY <1>7 DEF TracesBack
<1>13. TracesBack(new)
  <2> HIDE DEF new
  <2>1. QED
    BY <1>9, <1>10, <1>11, <1>12 DEF TracesBack
<1>14. QED
  BY <1>13 DEF P, events

\* The kinds that a trace shows.
ShownKinds == TraceKinds \cup {"intent"}

(* Nothing else matters to it. *)
LEMMA ShownTracesBack ==
  ASSUME NEW S, TracesBack(S)
  PROVE  TracesBack({e \in S : e.kind \in ShownKinds})
<1> DEFINE T == {e \in S : e.kind \in ShownKinds}
<1>1. ASSUME NEW r \in Requests, r.entity.kind = "requirement", r.entity \in T
      PROVE  /\ Range(r.evidence) \subseteq T
             /\ Range(r.decision) \subseteq T
             /\ \A n \in NamesOfKind(r.entity, "intent") : \E e \in T : NameOf(e) = n
  <2>1. /\ Range(r.evidence) \subseteq S /\ Range(r.decision) \subseteq S
        /\ \A n \in NamesOfKind(r.entity, "intent") : \E e \in S : NameOf(e) = n
    BY <1>1 DEF TracesBack
  <2>2. \A n \in NamesOfKind(r.entity, "intent") : \E e \in T : NameOf(e) = n
    BY <2>1 DEF NamesOfKind, NameOf, ShownKinds
  <2>3. Range(r.evidence) \subseteq T /\ Range(r.decision) \subseteq T
    BY <2>1, CompanionKinds DEF ShownKinds, TraceKinds
  <2>4. QED
    BY <2>2, <2>3
<1>2. T \subseteq S
  OBVIOUS
<1> HIDE DEF T
<1>3. TracesBack(T)
  BY <1>1, <1>2 DEF TracesBack
<1>4. QED
  BY <1>3 DEF T

-----------------------------------------------------------------------------
(* What states show *)

(* An event joins the list of its kind, of the kinds that a trace is made of; an   *)
(* intent takes the place of the last one.                                       *)
LEMMA ApplyShows ==
  ASSUME NEW state \in State, NEW e \in Entity
  PROVE  /\ \A kind \in TraceKinds :
              Entities(Apply(state, e), kind)
                = Entities(state, kind) \cup {f \in {e} : f.kind = kind}
         /\ Entities(Apply(state, e), "intent")
              = IF e.kind = "intent" THEN {e} ELSE Entities(state, "intent")
<1>1. /\ DOMAIN state = StateKinds /\ ShownKinds \subseteq StateKinds
      /\ "violation" \notin ShownKinds /\ "waiver" \notin ShownKinds
      /\ \A kind \in TraceKinds : kind \notin SingleKinds /\ kind \notin {"audit", "waiver"}
  BY DEF State, StateKinds, ListKinds, SingleKinds, ShownKinds, TraceKinds
<1>2. ToSet(<<e>>) = {e}
  BY DEF ToSet
<1>3. \A kind \in StateKinds : ToSet(Append(state[kind], e)) = ToSet(state[kind]) \cup {e}
  <2>1. SUFFICES ASSUME NEW list \in Seq(Entity)
                 PROVE  ToSet(Append(list, e)) = ToSet(list) \cup {e}
    BY DEF State
  <2>2. IsList(list)
    BY ListOfSeq
  <2>3. QED
    BY <2>2, ListAppend
<1>4. CASE e.kind = "audit"
  <2>1. Apply(state, e) = state
    BY <1>4, e.kind \notin SingleKinds DEF Apply, SingleKinds
  <2>2. QED
    BY <1>4, <2>1 DEF TraceKinds
<1>5. CASE e.kind \in SingleKinds
  <2>1. Apply(state, e) = [state EXCEPT ![e.kind] = <<e>>]
    BY <1>5 DEF Apply, SingleKinds
  <2>2. \A kind \in ShownKinds :
          Apply(state, e)[kind] = IF kind = e.kind THEN <<e>> ELSE state[kind]
    BY <1>1, <1>5, <2>1
  <2>3. QED
    BY <1>1, <1>2, <1>5, <2>2 DEF Entities, ShownKinds
<1>6. CASE e.kind = "waiver"
  <2>1. Apply(state, e) = [state EXCEPT !["violation"] = Waive(@, e), !["waiver"] = Append(@, e)]
    BY <1>6 DEF Apply, SingleKinds
  <2>2. \A kind \in ShownKinds : Apply(state, e)[kind] = state[kind]
    BY <1>1, <2>1
  <2>3. QED
    BY <1>1, <1>6, <2>2 DEF Entities, ShownKinds
<1>7. CASE e.kind \notin SingleKinds \cup {"audit", "waiver"}
  <2>1. Apply(state, e) = [state EXCEPT ![e.kind] = Append(@, e)]
    BY <1>7 DEF Apply
  <2>2. e.kind \in StateKinds
    BY <1>7 DEF Entity, Kinds
  <2>3. \A kind \in ShownKinds :
          Apply(state, e)[kind] = IF kind = e.kind THEN Append(state[kind], e) ELSE state[kind]
    BY <1>1, <2>1
  <2>4. e.kind /= "intent"
    BY <1>7 DEF SingleKinds
  <2>5. QED
    BY <1>1, <1>3, <2>2, <2>3, <2>4 DEF Entities, ShownKinds
<1>8. QED
  BY <1>4, <1>5, <1>6, <1>7

(* A replay shows what is in the log. *)
LEMMA ReplayShows ==
  ASSUME NEW events \in Seq(Entity)
  PROVE  Shows(Replay(events), Range(events))
<1> DEFINE T == {h \in Seq(Entity) : Shows(Replay(h), Range(h))}
<1>1. <<>> \in T
  <2>1. Range(<<>>) = {}
    BY DEF Range
  <2>2. \A kind \in ShownKinds : Entities(EmptyState, kind) = {}
    BY DEF EmptyState, Entities, ToSet, ShownKinds, TraceKinds, StateKinds, ListKinds, SingleKinds
  <2>3. Shows(EmptyState, {})
    BY <2>2 DEF Shows, ShownKinds
  <2>4. Shows(Replay(<<>>), Range(<<>>))
    BY Zenon, <2>1, <2>3, ReplayEmpty
  <2>5. QED
    BY <2>4
<1>2. ASSUME NEW h \in Seq(Entity), NEW e \in Entity, h \in T PROVE Append(h, e) \in T
  <2>1. Range(Append(h, e)) = Range(h) \cup {e} /\ Append(h, e) \in Seq(Entity)
    <3> DEFINE more == Append(h, e)
    <3>1. /\ more \in Seq(Entity) /\ DOMAIN h = 1 .. Len(h) /\ DOMAIN more = 1 .. Len(h) + 1
          /\ Len(h) \in Nat /\ more[Len(h) + 1] = e /\ \A i \in 1 .. Len(h) : more[i] = h[i]
      BY AppendFacts
    <3> HIDE DEF more
    <3>2. Range(more) = Range(h) \cup {e}
      BY <3>1 DEF Range
    <3>3. QED
      BY <3>1, <3>2 DEF more
  <2>2. Replay(Append(h, e)) = Apply(Replay(h), e) /\ Replay(h) \in State
    BY ReplayAppend, ReplayType
  <2> DEFINE old == Replay(h)
             new == Apply(old, e)
             S == Range(h)
  <2>3. Shows(old, S)
    BY <1>2
  <2>4. /\ \A kind \in TraceKinds :
             Entities(new, kind) = Entities(old, kind) \cup {f \in {e} : f.kind = kind}
        /\ Entities(new, "intent") = IF e.kind = "intent" THEN {e} ELSE Entities(old, "intent")
    BY <2>2, ApplyShows
  <2> HIDE DEF old, new, S
  <2>5. Shows(new, S \cup {e})
    BY <2>3, <2>4 DEF Shows
  <2>6. QED
    BY <2>1, <2>2, <2>5 DEF old, new, S
<1>3. Seq(Entity) \subseteq T
  <2> HIDE DEF T
  <2>1. QED
    BY <1>1, <1>2, SeqInd
<1>4. QED
  BY <1>3

\* All that a state shows of a trace.
Shown(state) == UNION {Entities(state, kind) : kind \in ShownKinds}

\* Each list has the entities of its kind.
Sorted(state) ==
  /\ state \in State
  /\ \A kind \in ShownKinds : \A e \in Entities(state, kind) : e.kind = kind

LEMMA StateShows ==
  ASSUME NEW state, Sorted(state)
  PROVE  Shows(state, Shown(state))
BY DEF Sorted, Shown, Shows, ShownKinds

(* A request adds to what the live state shows what it shows itself. *)
LEMMA FoldShown ==
  ASSUME NEW state \in State, NEW r \in Requests, r.entity.kind /= "intent",
         NEW new, new = Fold(state, r), Sorted(state)
  PROVE  Shown(new) = {e \in Shown(state) \cup Range(Events(r)) : e.kind \in ShownKinds}
<1>1. /\ r \in Request /\ r.entity.kind \notin Companions /\ r.entity \in Entity
      /\ \A e \in Range(r.evidence) : e.kind = "evidence"
      /\ \A e \in Range(r.decision) : e.kind = "decision"
      /\ \A e \in Range(r.pins) : e.kind = "pin"
      /\ \A e \in Range(r.links) : e.kind = "link"
  BY CompanionKinds
<1>2. Range(Events(r)) = Range(r.evidence) \cup Range(r.decision) \cup {r.entity}
                           \cup Range(r.pins) \cup Range(r.links)
  BY <1>1, EventsShape
<1>3. \A kind \in StateKinds, t \in Seq(Entity) :
        ToSet(state[kind] \o t) = ToSet(state[kind]) \cup Range(t)
  <2>1. SUFFICES ASSUME NEW list \in Seq(Entity), NEW t \in Seq(Entity)
                 PROVE  ToSet(list \o t) = ToSet(list) \cup Range(t)
    BY DEF State
  <2>2. Range(list \o t) = Range(list) \cup Range(t)
    BY RangeConcatenation
  <2>3. QED
    BY <2>2 DEF ToSet, Range
<1>4. /\ ShownKinds \subseteq StateKinds /\ {"evidence", "decision", "link"} \subseteq StateKinds
      /\ ShownKinds = {"requirement", "intent", "decision", "evidence", "link"}
  BY DEF StateKinds, ListKinds, SingleKinds, ShownKinds, TraceKinds
<1>5. /\ r.evidence \in Seq(Entity) /\ r.decision \in Seq(Entity) /\ r.links \in Seq(Entity)
  BY <1>1, BatchParts
<1>6. /\ Entities(new, "evidence") = Entities(state, "evidence") \cup Range(r.evidence)
      /\ Entities(new, "decision") = Entities(state, "decision") \cup Range(r.decision)
      /\ Entities(new, "link") = Entities(state, "link") \cup Range(r.links)
  <2>1. /\ new["evidence"] = state["evidence"] \o r.evidence
        /\ new["decision"] = state["decision"] \o r.decision
        /\ new["link"] = state["link"] \o r.links
    BY <1>4 DEF Fold
  <2>2. QED
    BY <1>3, <1>4, <1>5, <2>1 DEF Entities
<1>7. /\ Entities(new, "requirement")
           = Entities(state, "requirement") \cup {e \in {r.entity} : e.kind = "requirement"}
      /\ Entities(new, "intent") = Entities(state, "intent")
  <2>1. /\ new["requirement"] = Apply(state, r.entity)["requirement"]
        /\ new["intent"] = Apply(state, r.entity)["intent"]
    BY <1>4 DEF Fold
  <2>2. /\ Entities(new, "requirement") = Entities(Apply(state, r.entity), "requirement")
        /\ Entities(new, "intent") = Entities(Apply(state, r.entity), "intent")
    BY <2>1 DEF Entities
  <2>3. "requirement" \in TraceKinds
    BY DEF TraceKinds
  <2>4. QED
    BY <1>1, <2>2, <2>3, ApplyShows
<1>8. \A kind \in ShownKinds : \A e \in Entities(state, kind) : e.kind = kind
  BY DEF Sorted
<1>9. Shown(new) = Entities(new, "requirement") \cup Entities(new, "intent")
                     \cup Entities(new, "decision") \cup Entities(new, "evidence")
                     \cup Entities(new, "link")
  BY <1>4 DEF Shown
<1>10. Shown(state) = Entities(state, "requirement") \cup Entities(state, "intent")
                     \cup Entities(state, "decision") \cup Entities(state, "evidence")
                     \cup Entities(state, "link")
  BY <1>4 DEF Shown
<1>11. r.entity.kind \notin {"evidence", "decision", "link", "intent"}
  BY <1>1 DEF Companions
<1>12. ASSUME NEW e PROVE e \in Shown(new) <=> (e \in Shown(state) \cup Range(Events(r)) /\ e.kind \in ShownKinds)
  BY <1>1, <1>2, <1>4, <1>6, <1>7, <1>8, <1>9, <1>10, <1>11
<1>13. QED
  BY <1>12

-----------------------------------------------------------------------------
(* The trace of a requirement: the invariant *)

\* The removal of the old log succeeds: a log is that of one process.
OwnLog == "remove" \notin Faults

\* The log has, in front of every requirement, what its trace leads to; so have the
\* records of the process, whose names are minted, and the live state, which has the links
\* too.  There is no requirement before there is an intent.
TracesInv ==
  /\ ConsistencyInv
  /\ Readable(file) => TracesBack(Range(History))
  /\ status /= "down" =>
       /\ \A e \in Range(EventsOf(records)) : NameOf(e) \in issued
       /\ TracesBack(Range(EventsOf(records)))
  /\ TracesBack(Shown(live)) /\ TracesOn(Shown(live))
  /\ status = "running" =>
       /\ \E e \in Range(EventsOf(records)) : e \in Intents
       /\ \E e \in Shown(live) : e \in Intents
  /\ status /= "running" => live = EmptyState

(* No request captures an intent. *)
LEMMA HandlesNoIntent ==
  ASSUME NEW r \in Requests, Handles(r)
  PROVE  r.entity.kind /= "intent"
BY DEF Handles, CreateRequirement, CreateConstraint, RaiseViolation, GrantWaiver,
       CreateFunctionalBlock, RealizeComponent, CreateNet, CreatePart, CreateBomLineItem,
       CreateBoard, PlaceComponent, RouteNet, Emit, Requested

(* The live state is a state that lists its entities by kind. *)
LEMMA LiveSorted ==
  ASSUME ConsistencyInv
  PROVE  Sorted(live)
<1>1. live \in State
  BY DEF ConsistencyInv, KernelInv, TypeOK, State
<1>2. \A kind \in StateKinds : \A i \in DOMAIN live[kind] : live[kind][i].kind = kind
  BY DEF ConsistencyInv, KernelInv, LiveInv, WellKept
<1>3. ShownKinds \subseteq StateKinds
  BY DEF StateKinds, ListKinds, SingleKinds, ShownKinds, TraceKinds
<1>4. QED
  BY <1>1, <1>2, <1>3 DEF Sorted, Entities, ToSet

(* Nothing has nothing to trace. *)
LEMMA EmptyTraces ==
  /\ TracesBack({}) /\ TracesOn({}) /\ Shown(EmptyState) = {}
  /\ EventsOf(<<>>) = <<>> /\ Range(<<>>) = {}
<1>1. ShownKinds \subseteq StateKinds
  BY DEF StateKinds, ListKinds, SingleKinds, ShownKinds, TraceKinds
<1>2. Shown(EmptyState) = {}
  BY <1>1 DEF Shown, EmptyState, Entities, ToSet
<1>3. QED
  BY <1>2 DEF TracesBack, TracesOn, EventsOf, Range

(* The entities of a log that a part of some events has joined.                  *)
LEMMA PartRange ==
  ASSUME NEW recs \in Seq(Record), NEW events \in Seq(Entity), NEW m \in 0 .. Len(events)
  PROVE  Range(EventsOf(recs \o SubSeq(Records(Len(recs), events), 1, m)))
           = Range(EventsOf(recs)) \cup Range(SubSeq(events, 1, m))
<1>1. EventsOf(recs) \in Seq(Entity) /\ SubSeq(events, 1, m) \in Seq(Entity)
  BY EventsOfShape
<1>2. \A s, t \in Seq(Entity) : Range(s \o t) = Range(s) \cup Range(t)
  BY RangeConcatenation
<1>3. EventsOf(recs \o SubSeq(Records(Len(recs), events), 1, m))
        = EventsOf(recs) \o SubSeq(events, 1, m)
  BY EventsOfMore
<1>4. QED
  BY <1>1, <1>2, <1>3

LEMMA WholeRange ==
  ASSUME NEW recs \in Seq(Record), NEW events \in Seq(Entity)
  PROVE  /\ Range(EventsOf(recs \o Records(Len(recs), events)))
              = Range(EventsOf(recs)) \cup Range(events)
         /\ Len(events) \in 0 .. Len(events) /\ SubSeq(events, 1, Len(events)) = events
<1>1. EventsOf(recs) \in Seq(Entity)
  BY EventsOfShape
<1>2. \A s, t \in Seq(Entity) : Range(s \o t) = Range(s) \cup Range(t)
  BY RangeConcatenation
<1>3. EventsOf(recs \o Records(Len(recs), events)) = EventsOf(recs) \o events
  BY EventsOfAll
<1>4. Range(EventsOf(recs \o Records(Len(recs), events)))
        = Range(EventsOf(recs)) \cup Range(events)
  BY <1>1, <1>2, <1>3
<1>5. QED
  BY <1>4

(* Of a batch every part of which traces back, no append leaves anything else in  *)
(* a log that can be read.                                                        *)
LEMMA WrittenTraces ==
  ASSUME TracesInv, status /= "down",
         NEW events \in Seq(Entity), events /= <<>>, Grounded(live, events),
         \A m \in 0 .. Len(events) :
           TracesBack(Range(EventsOf(records)) \cup Range(SubSeq(events, 1, m))),
         LET batch == Records(Len(records), events)
         IN  \/ file' = WriteAll(file, batch)
             \/ \E k \in 0 .. Len(batch) - 1, torn \in Torn : file' = WriteSome(file, batch, k, torn)
  PROVE  Readable(file)' => TracesBack(Range(History))'
<1> DEFINE batch == Records(Len(records), events)
<1>1. LogInv /\ CoveredBy(records, events) /\ records \in Seq(Record)
  BY GroundedCovered DEF TracesInv, ConsistencyInv, KernelInv, LiveInv, LogInv
<1>2. SUFFICES ASSUME Readable(file)' PROVE TracesBack(Range(History'))
  BY DEF TracesBack
<1>3. PICK g : g = file'
  OBVIOUS
<1>4. \/ g = file
      \/ \E m \in 0 .. Len(events) : g.lines = records \o SubSeq(batch, 1, m)
  <2>1. Readable(g)
    BY <1>2, <1>3 DEF Readable
  <2>2. \/ g = WriteAll(file, batch)
        \/ \E k \in 0 .. Len(batch) - 1, torn \in Torn : g = WriteSome(file, batch, k, torn)
    BY <1>3
  <2> HIDE DEF batch
  <2>3. QED
    BY <1>1, <2>1, <2>2, CutLines DEF batch
<1>5. CASE g = file
  BY <1>2, <1>3, <1>5 DEF TracesInv, History, Readable
<1>6. ASSUME NEW m \in 0 .. Len(events), g.lines = records \o SubSeq(batch, 1, m)
      PROVE  TracesBack(Range(History'))
  <2>1. History' = EventsOf(records \o SubSeq(batch, 1, m))
    BY <1>3, <1>6 DEF History
  <2>2. Range(History') = Range(EventsOf(records)) \cup Range(SubSeq(events, 1, m))
    BY <1>1, <2>1, PartRange
  <2>3. QED
    BY <2>2
<1>7. QED
  BY <1>4, <1>5, <1>6

(* A process that dies leaves no more than its log. *)
LEMMA TracesDie ==
  ASSUME ConsistencyInv', Dies, Readable(file)' => TracesBack(Range(History))'
  PROVE  TracesInv'
<1>1. status' = "down" /\ live' = EmptyState
  BY DEF Dies
<1>2. TracesBack(Shown(live')) /\ TracesOn(Shown(live'))
  BY <1>1, EmptyTraces
<1>3. QED
  BY <1>1, <1>2 DEF TracesInv

(* A request that a handler takes. *)
LEMMA TracesHandled ==
  ASSUME TracesInv, ConsistencyInv', NEW r \in Requests, Handles(r)
  PROVE  TracesInv'
<1> DEFINE events == Events(r)
           old == Range(EventsOf(records))
<1>1. /\ Submit(r) /\ status = "running" /\ Grounded(live, events) /\ Fresh(events)
      /\ r.entity.kind /= "intent" /\ r \in Request /\ r.entity.kind \notin Companions
  BY HandlesGrounded, HandlesNoIntent, KernelAssumption DEF Submit
<1>2. events \in Seq(Entity) /\ events /= <<>>
  BY <1>1, EventsShape
<1>3. /\ ConsistencyInv /\ records \in Seq(Record) /\ Sorted(live) /\ live \in State
      /\ \A e \in Shown(live) : NameOf(e) \in issued
  <2>1. ConsistencyInv /\ records \in Seq(Record) /\ Sorted(live)
    BY LiveSorted DEF TracesInv, ConsistencyInv, KernelInv, LogInv
  <2>2. ShownKinds \subseteq StateKinds
    BY DEF StateKinds, ListKinds, SingleKinds, ShownKinds, TraceKinds
  <2>3. QED
    BY <2>1, <2>2 DEF ConsistencyInv, AllIssued, Shown, Entities, ToSet, Sorted
<1>4. NamesOf(events) \cap issued = {}
  BY <1>1 DEF Fresh
<1>5. ASSUME NEW m \in 0 .. Len(events)
      PROVE  TracesBack(old \cup Range(SubSeq(events, 1, m)))
  <2>1. TracesBack(old) /\ (\A e \in old : NameOf(e) \in issued) /\ \E e \in old : e \in Intents
    BY <1>1 DEF TracesInv
  <2> HIDE DEF old
  <2>2. QED
    BY <1>1, <1>4, <2>1, BatchTracesBack
<1> HIDE DEF events
<1>6. Range(SubSeq(events, 1, 0)) = {} /\ 0 \in 0 .. Len(events)
      /\ \A m \in 0 .. Len(events) : Range(SubSeq(events, 1, m)) \subseteq Range(events)
  <2>1. Len(events) \in Nat /\ DOMAIN events = 1 .. Len(events)
    BY <1>2
  <2>2. ASSUME NEW m \in 0 .. Len(events)
        PROVE  /\ DOMAIN SubSeq(events, 1, m) = 1 .. m
               /\ \A i \in 1 .. m : SubSeq(events, 1, m)[i] = events[i]
    BY <1>2
  <2>3. QED
    BY <2>1, <2>2 DEF Range
<1>7. \A e \in Range(events) : NameOf(e) \in NamesOf(events)
  BY DEF Range, NamesOf
<1>8. ASSUME file' = WriteAll(file, Records(Len(records), events))
             \/ \E k \in 0 .. Len(Records(Len(records), events)) - 1, torn \in Torn :
                  file' = WriteSome(file, Records(Len(records), events), k, torn)
      PROVE  Readable(file)' => TracesBack(Range(History))'
  BY <1>1, <1>2, <1>5, <1>8, WrittenTraces
<1>9. ASSUME NEW part, part \subseteq Range(events),
             Range(EventsOf(records')) = old \cup part, TracesBack(old \cup part),
             Readable(file)' => TracesBack(Range(History))',
             Mints(events), status' = status,
             TracesBack(Shown(live')), TracesOn(Shown(live')),
             \E e \in Shown(live') : e \in Intents
      PROVE  TracesInv'
  <2>1. \A e \in old \cup part : NameOf(e) \in issued'
    BY <1>1, <1>7, <1>9 DEF TracesInv, Mints
  <2>2. \E e \in old \cup part : e \in Intents
    BY <1>1 DEF TracesInv
  <2>3. status' = "running"
    BY <1>1, <1>9
  <2> HIDE DEF old
  <2>4. /\ \A e \in Range(EventsOf(records')) : NameOf(e) \in issued'
        /\ TracesBack(Range(EventsOf(records')))
        /\ \E e \in Range(EventsOf(records')) : e \in Intents
    BY <1>9, <2>1, <2>2
  <2>5. QED
    BY <1>9, <2>3, <2>4 DEF TracesInv
<1>10. CASE Appends(events) /\ live' = Fold(live, r) /\ Mints(events) /\ status' = status
  <2>1. /\ file' = WriteAll(file, Records(Len(records), events))
        /\ records' = records \o Records(Len(records), events)
    BY <1>10 DEF Appends
  <2>2. /\ Range(EventsOf(records')) = old \cup Range(events)
        /\ Len(events) \in 0 .. Len(events) /\ SubSeq(events, 1, Len(events)) = events
    BY <1>2, <1>3, <2>1, WholeRange
  <2>3. TracesBack(old \cup Range(events))
    BY <1>5, <2>2
  <2>4. PICK new : new = Fold(live, r)
    OBVIOUS
  <2>5. Shown(new) = {e \in Shown(live) \cup Range(events) : e.kind \in ShownKinds}
    BY <1>1, <1>3, <2>4, FoldShown DEF events
  <2>6. TracesBack(Shown(live) \cup Range(events))
    <3>1. TracesBack(Shown(live)) /\ \E e \in Shown(live) : e \in Intents
      BY <1>1 DEF TracesInv
    <3>2. \A m \in 0 .. Len(events) : TracesBack(Shown(live) \cup Range(SubSeq(events, 1, m)))
      BY <1>1, <1>3, <1>4, <3>1, BatchTracesBack DEF events
    <3>3. QED
      BY <2>2, <3>2
  <2>7. TracesBack(Shown(new))
    BY <2>5, <2>6, ShownTracesBack
  <2>8. TracesOn(Shown(new))
    <3>1. SUFFICES ASSUME NEW s \in Requests, s.entity.kind = "requirement", s.entity \in Shown(new)
                   PROVE  Range(s.links) \subseteq Shown(new)
      BY DEF TracesOn
    <3>2. \A e \in Range(s.links) : e.kind \in ShownKinds
      BY CompanionKinds DEF ShownKinds, TraceKinds
    <3>3. CASE s.entity \in Shown(live)
      <4>1. Range(s.links) \subseteq Shown(live)
        BY <3>1, <3>3 DEF TracesInv, TracesOn
      <4>2. QED
        BY <2>5, <3>2, <4>1
    <3>4. CASE s.entity \in Range(events)
      <4>1. s.entity = r.entity
        <5>1. s.entity \in Range(r.evidence) \cup Range(r.decision) \cup {r.entity}
                             \cup Range(r.pins) \cup Range(r.links)
          BY <1>1, <3>4, EventsShape DEF events
        <5>2. QED
          BY <3>1, <5>1, CompanionKinds
      <4>2. s = r
        <5>1. \A t \in Requests : NameOf(t.entity) = NameOf(s.entity) => t = s
          BY <3>1, AgentAssumption
        <5>2. QED
          BY <4>1, <5>1
      <4>3. Range(s.links) \subseteq Range(events)
        BY <1>1, <4>2, EventsShape DEF events
      <4>4. QED
        BY <2>5, <3>2, <4>3
    <3>5. QED
      BY <2>5, <3>1, <3>3, <3>4
  <2>9. \E e \in Shown(new) : e \in Intents
    <3>1. PICK e \in Shown(live) : e \in Intents
      BY <1>1 DEF TracesInv
    <3>2. e.kind \in ShownKinds
      BY <3>1, KernelAssumption DEF OfKind, ShownKinds
    <3>3. QED
      BY <2>5, <3>1, <3>2
  <2>10. Readable(file)' => TracesBack(Range(History))'
    BY <1>8, <2>1
  <2>11. new = live'
    BY <1>10, <2>4
  <2> HIDE DEF old
  <2>12. QED
    BY <1>9, <1>10, <2>2, <2>3, <2>7, <2>8, <2>9, <2>10, <2>11
<1>11. CASE FailsToAppend(events) /\ Mints(events) /\ live' = live /\ status' = status
  <2>1. PICK k \in 0 .. Len(Records(Len(records), events)) - 1, torn \in Torn :
          /\ file' = WriteSome(file, Records(Len(records), events), k, torn)
          /\ records' = records \o SubSeq(Records(Len(records), events), 1, k)
    BY <1>11 DEF FailsToAppend
  <2>2. k \in 0 .. Len(events)
    <3>1. Len(records) \in Nat
      BY <1>3
    <3>2. Len(Records(Len(records), events)) = Len(events) /\ Len(events) \in Nat
      BY <1>2, <3>1, RecordsShape
    <3>3. QED
      BY <3>2
  <2>3. Range(EventsOf(records')) = old \cup Range(SubSeq(events, 1, k))
    BY <1>2, <1>3, <2>1, <2>2, PartRange
  <2>4. Readable(file)' => TracesBack(Range(History))'
    BY <1>8, <2>1
  <2>5. TracesBack(old \cup Range(SubSeq(events, 1, k)))
        /\ Range(SubSeq(events, 1, k)) \subseteq Range(events)
    BY <1>5, <1>6, <2>2
  <2>6. /\ TracesBack(Shown(live')) /\ TracesOn(Shown(live'))
        /\ \E e \in Shown(live') : e \in Intents
    BY <1>1, <1>11 DEF TracesInv
  <2> HIDE DEF old
  <2>7. QED
    BY <1>9, <1>11, <2>3, <2>4, <2>5, <2>6
<1>12. CASE DiesInAppend(events)
  <2>1. Readable(file)' => TracesBack(Range(History))'
    BY <1>8, <1>12 DEF DiesInAppend
  <2>2. QED
    BY <1>12, <2>1, TracesDie DEF DiesInAppend
<1>13. QED
  BY <1>1, <1>10, <1>11, <1>12 DEF Submit, events

(* The intent of a run. *)
LEMMA TracesCapture ==
  ASSUME TracesInv, ConsistencyInv', NEW intent \in Intents, CaptureIntent(intent)
  PROVE  TracesInv'
<1> DEFINE events == <<intent>>
           old == Range(EventsOf(records))
<1>1. intent \in Entity /\ intent.kind = "intent"
  BY KernelAssumption DEF OfKind
<1>2. events \in Seq(Entity) /\ events /= <<>> /\ Len(events) = 1 /\ Range(events) = {intent}
  BY <1>1 DEF Range
<1>3. Grounded(live, events)
  <2>1. CheckedNames(intent) = {} /\ ~NeedsBoard(intent)
    BY <1>1 DEF CheckedNames, CheckedKinds, NeedsBoard
  <2> HIDE DEF events
  <2>2. QED
    BY <1>2, <2>1 DEF Grounded
<1>4. /\ ConsistencyInv /\ records \in Seq(Record) /\ Len(records) \in Nat
      /\ status = "starting" /\ live = EmptyState
  BY DEF TracesInv, ConsistencyInv, KernelInv, LogInv, CaptureIntent
<1>5. TracesBack(old) /\ \A e \in old : NameOf(e) \in issued
  BY <1>4 DEF TracesInv
<1>6. ASSUME NEW m \in 0 .. Len(events)
      PROVE  TracesBack(old \cup Range(SubSeq(events, 1, m)))
  <2>1. m \in {0, 1}
    BY <1>2
  <2> HIDE DEF events
  <2>2. CASE m = 0
    <3>1. Range(SubSeq(events, 1, m)) = {}
      BY <1>2, <2>2 DEF Range
    <3>2. QED
      BY <1>5, <3>1
  <2>3. CASE m = 1
    <3>1. SubSeq(events, 1, m) = events
      BY <1>2, <2>3
    <3>2. TracesBack(old \cup {intent})
      BY <1>5, IntentTracesBack
    <3>3. QED
      BY <1>2, <3>1, <3>2
  <2>4. QED
    BY <2>1, <2>2, <2>3
<1>7. ASSUME file' = WriteAll(file, Records(Len(records), events))
             \/ \E k \in 0 .. Len(Records(Len(records), events)) - 1, torn \in Torn :
                  file' = WriteSome(file, Records(Len(records), events), k, torn)
      PROVE  Readable(file)' => TracesBack(Range(History))'
  <2> HIDE DEF events
  <2>1. QED
    BY <1>2, <1>3, <1>4, <1>6, <1>7, WrittenTraces
<1>8. CASE Appends(events) /\ live' = Apply(live, intent) /\ Mints(events) /\ status' = "running"
  <2>1. /\ file' = WriteAll(file, Records(Len(records), events))
        /\ records' = records \o Records(Len(records), events)
    BY <1>8 DEF Appends
  <2>2. Range(EventsOf(records')) = old \cup {intent}
    <3> HIDE DEF events
    <3>1. QED
      BY <1>2, <1>4, <2>1, WholeRange
  <2>3. TracesBack(old \cup {intent})
    BY <1>5, IntentTracesBack
  <2>4. NameOf(intent) \in issued' /\ issued \subseteq issued'
    BY <1>8 DEF Mints, NamesOf
  <2>5. PICK new : new = Apply(live, intent)
    OBVIOUS
  <2>6. Shown(new) = {intent}
    <3>1. live \in State
      BY <1>4, LiveSorted DEF Sorted
    <3>2. /\ \A kind \in TraceKinds :
               Entities(new, kind) = Entities(live, kind) \cup {f \in {intent} : f.kind = kind}
          /\ Entities(new, "intent") = {intent}
      BY <1>1, <2>5, <3>1, ApplyShows
    <3>3. \A kind \in TraceKinds : Entities(live, kind) = {}
      BY <1>4, EmptyTraces DEF Shown, ShownKinds
    <3>4. "intent" \notin TraceKinds
      BY DEF TraceKinds
    <3>5. \A kind \in TraceKinds : Entities(new, kind) = {}
      BY <1>1, <3>2, <3>3, <3>4
    <3>6. QED
      BY <3>2, <3>5 DEF Shown, ShownKinds
  <2>7. TracesBack({intent}) /\ TracesOn({intent})
    BY <1>1, KernelAssumption DEF TracesBack, TracesOn
  <2>8. Readable(file)' => TracesBack(Range(History))'
    BY <1>7, <2>1
  <2>9. new = live'
    BY <1>8, <2>5
  <2>10. /\ \A e \in Range(EventsOf(records')) : NameOf(e) \in issued'
         /\ TracesBack(Range(EventsOf(records')))
         /\ \E e \in Range(EventsOf(records')) : e \in Intents
    <3> HIDE DEF old
    <3>1. QED
      BY <1>5, <2>2, <2>3, <2>4
  <2>11. TracesBack(Shown(live')) /\ TracesOn(Shown(live')) /\ \E e \in Shown(live') : e \in Intents
    BY <2>6, <2>7, <2>9
  <2>12. QED
    BY <1>8, <2>8, <2>10, <2>11 DEF TracesInv
<1>9. CASE \E torn \in Torn : file' = WriteSome(file, Records(Len(records), events), 0, torn) /\ Dies
  <2>1. 0 \in 0 .. Len(Records(Len(records), events)) - 1
    <3> HIDE DEF events
    <3>1. Len(Records(Len(records), events)) = 1
      BY <1>2, <1>4, RecordsShape
    <3>2. QED
      BY <3>1
  <2>2. Readable(file)' => TracesBack(Range(History))'
    BY <1>7, <1>9, <2>1
  <2>3. QED
    BY <1>9, <2>2, TracesDie
<1>10. CASE DiesInAppend(events)
  <2>1. Readable(file)' => TracesBack(Range(History))'
    BY <1>7, <1>10 DEF DiesInAppend
  <2>2. QED
    BY <1>10, <2>1, TracesDie DEF DiesInAppend
<1>11. QED
  BY <1>8, <1>9, <1>10 DEF CaptureIntent

(* If the old log can be removed, what traces lead to is in front of them throughout. *)
LEMMA TracesInvariant ==
  ASSUME OwnLog
  PROVE  Spec => []TracesInv
<1>1. Init => TracesInv
  <2> SUFFICES ASSUME Init PROVE TracesInv
    OBVIOUS
  <2>1. ConsistencyInv
    BY KernelInvInit, EmptyConsistent DEF Init, ConsistencyInv
  <2>2. Range(History) = {}
    BY EmptyTraces DEF Init, History, EmptyFile
  <2>3. live = EmptyState /\ status = "down"
    BY DEF Init
  <2>4. TracesBack(Range(History)) /\ TracesBack(Shown(live)) /\ TracesOn(Shown(live))
    BY <2>2, <2>3, EmptyTraces
  <2>5. QED
    BY <2>1, <2>3, <2>4 DEF TracesInv
<1>2. TracesInv /\ ConsistencyInv' /\ [Next]_vars => TracesInv'
  <2> SUFFICES ASSUME TracesInv, ConsistencyInv', [Next]_vars PROVE TracesInv'
    OBVIOUS
  <2>1. CASE Boot
    <3>1. file' = EmptyFile /\ records' = <<>> /\ live' = live /\ status = "down"
          /\ status' = "starting"
      BY <2>1 DEF Boot, OwnLog
    <3>2. live' = EmptyState
      BY <3>1 DEF TracesInv
    <3>3. Range(History') = {} /\ Range(EventsOf(records')) = {}
      BY <3>1, EmptyTraces DEF History, EmptyFile
    <3>4. /\ TracesBack(Range(History')) /\ TracesBack(Range(EventsOf(records')))
          /\ TracesBack(Shown(live')) /\ TracesOn(Shown(live'))
          /\ \A e \in Range(EventsOf(records')) : NameOf(e) \in issued'
      BY <3>2, <3>3, EmptyTraces
    <3>5. QED
      BY <3>1, <3>2, <3>4 DEF TracesInv
  <2>2. ASSUME NEW intent \in Intents, CaptureIntent(intent) PROVE TracesInv'
    BY <2>2, TracesCapture
  <2>3. ASSUME NEW r \in Requests, Handles(r) PROVE TracesInv'
    BY <2>3, TracesHandled
  <2>4. CASE Exit
    <3>1. file' = file /\ Dies
      BY <2>4 DEF Exit
    <3>2. Readable(file)' => TracesBack(Range(History))'
      BY <3>1 DEF TracesInv, History
    <3>3. QED
      BY <3>1, <3>2, TracesDie
  <2>5. CASE UNCHANGED vars
    BY <2>5 DEF vars, TracesInv, History
  <2>6. QED
    BY <2>1, <2>2, <2>3, <2>4, <2>5 DEF Next
<1>3. QED
  BY <1>1, <1>2, ConsistencyInvariant, PTL DEF Spec

-----------------------------------------------------------------------------
(* The theorems *)

(* While a process runs, a replay of its log gives its state, if no write fails *)
(* and every number can be written: commit of runtime_core.rs folds the batch that  *)
(* append has written, and replay.rs folds it again, event by event.               *)
THEOREM ReplayIsLive ==
  ASSUME OnlyCrashes, OnlyFinite
  PROVE  Spec => []LiveIsReplay
<1>1. ReplayInv /\ ReadableInv => LiveIsReplay
  BY WholeHistory DEF ReplayInv, ReadableInv, ConsistencyInv, LiveIsReplay
<1>2. QED
  BY <1>1, ReplayInvariant, ReadableInvariant, PTL

(* Whatever a crash leaves of a log, at any point of any batch, if it can be read *)
(* then its replay is consistent: a component is placed and ordered once, and a     *)
(* violation is waived exactly when a waiver names it.                              *)
THEOREM CrashedLogIsConsistent ==
  ASSUME OnlyCrashes
  PROVE  Spec => []ReplayConsistent
<1>1. ReplayInv => ReplayConsistent
  BY DEF ReplayInv, ReplayConsistent
<1>2. QED
  BY <1>1, ReplayInvariant, PTL

(* No projection of the compiler ever meets a dangling reference, of the live state nor   *)
(* of the replay of a log that can be read, whichever appends fail and wherever a process  *)
(* dies: every reference that the seam checked is to an event before it, also in a batch   *)
(* that was cut short, and so whatever prefix is folded is closed.                         *)
THEOREM ReplayProjects == Spec => []OnlyUnfinished
<1>1. ASSUME TypeOK, ReplayReferences, RecordsInv, Readable(file)
      PROVE  ProjectsSoundly(Replay(History))
  <2>1. file.lines \in Seq(Record) /\ AllTaken(file.lines)
    <3>1. file.lines \in Seq(LogLine) /\ \A i \in 1 .. Len(file.lines) : file.lines[i] \in Record
      BY <1>1 DEF TypeOK, LogLine, Readable
    <3>2. QED
      BY <1>1, <3>1, SeqDef DEF RecordsInv
  <2>2. History \in Seq(Entity) /\ Len(History) = Len(file.lines)
        /\ \A i \in 1 .. Len(file.lines) : History[i] = file.lines[i].event
    BY <2>1, EventsOfShape DEF History
  <2>3. Backward(History)
    <3>1. \A i \in DOMAIN History : WellFormed(History[i])
      BY <2>1, <2>2 DEF AllTaken
    <3>2. QED
      BY <1>1, <3>1 DEF Backward, ReplayReferences
  <2>4. QED
    BY <2>2, <2>3, ReplayClosed, ClosedProjects
<1>2. ProjectsSoundly(live) /\ TypeOK /\ ReplayReferences /\ RecordsInv => OnlyUnfinished
  BY <1>1 DEF OnlyUnfinished
<1>3. QED
  BY <1>2, LiveProjects, KernelTypeCorrect, ReplayIsClosed, RecordsInvariant, PTL

(* A requirement traces to its decision, all the evidence of it and the intent, in the    *)
(* live state and in the replay of any log that can be read; there, if the log ends inside *)
(* its batch, the trace may end at the requirement, but nowhere between (trace_cmd of        *)
(* eak-cli).  The log is that of one process: ids are new within one.                       *)
THEOREM RequirementsTrace ==
  ASSUME OwnLog
  PROVE  Spec => []TracesAreWhole
<1>1. ASSUME TracesInv, NEW r \in Requests, r.entity \in Entities(live, "requirement")
      PROVE  Trace(live, r.entity) = WholeTrace(r)
  <2>1. Sorted(live) /\ live \in State /\ TracesBack(Shown(live)) /\ TracesOn(Shown(live))
    BY <1>1, LiveSorted DEF TracesInv, Sorted
  <2>2. QED
    BY <1>1, <2>1, StateShows, TracesFrom
<1>2. ASSUME TracesInv, Readable(file),
             NEW r \in Requests, r.entity \in Entities(Replay(History), "requirement")
      PROVE  Trace(Replay(History), r.entity) \in
               {WholeTrace(r), [WholeTrace(r) EXCEPT !.decisions = {}, !.evidence = {}]}
  <2>1. file.lines \in Seq(Record)
    <3>1. file.lines \in Seq(LogLine) /\ \A i \in 1 .. Len(file.lines) : file.lines[i] \in Record
      BY <1>2 DEF TracesInv, ConsistencyInv, KernelInv, TypeOK, LogLine, Readable
    <3>2. QED
      BY <3>1, SeqDef
  <2>2. History \in Seq(Entity)
    BY <2>1, EventsOfShape DEF History
  <2>3. Replay(History) \in State /\ Shows(Replay(History), Range(History))
        /\ TracesBack(Range(History))
    BY <1>2, <2>2, ReplayType, ReplayShows DEF TracesInv
  <2>4. QED
    BY <1>2, <2>3, TracesFrom
<1>3. TracesInv => TracesAreWhole
  <2> SUFFICES ASSUME TracesInv PROVE TracesAreWhole
    OBVIOUS
  <2> DEFINE traced(state) ==
               {<<Trace(state, r.entity), WholeTrace(r)>> :
                  r \in {r \in Requests : r.entity \in Entities(state, "requirement")}}
  <2>1. ASSUME NEW t \in traced(live) PROVE t[1] = t[2]
    BY <1>1
  <2>2. ASSUME Readable(file), NEW t \in traced(Replay(History))
        PROVE  t[1] \in {t[2], [t[2] EXCEPT !.decisions = {}, !.evidence = {}]}
    <3>1. PICK r \in Requests : /\ r.entity \in Entities(Replay(History), "requirement")
                                /\ t = <<Trace(Replay(History), r.entity), WholeTrace(r)>>
      OBVIOUS
    <3>2. t[1] = Trace(Replay(History), r.entity) /\ t[2] = WholeTrace(r)
      BY <3>1
    <3>3. QED
      BY <1>2, <2>2, <3>1, <3>2
  <2> HIDE DEF traced
  <2>3. QED
    BY <2>1, <2>2 DEF TracesAreWhole, traced
<1>4. QED
  BY <1>3, TracesInvariant, PTL
=============================================================================
