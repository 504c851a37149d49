-------------------------- MODULE EngineeringState --------------------------
(***************************************************************************)
(* Engineering State: the runtime's model of a design, which is the fold of  *)
(* the event log (state.rs), and the replay that folds a recorded history    *)
(* again (replay.rs).                                                        *)
(*                                                                         *)
(* An event carries one entity.  An entity is abstracted to its kind, its id, *)
(* the entities it names, whether all its numbers are finite, and whether it  *)
(* has been waived (only a violation ever is).  The name of an entity is the  *)
(* pair of its kind and its id.  Lifecycle events, reasoning calls and IR      *)
(* milestones are of the kind "audit".                                       *)
(***************************************************************************)
EXTENDS Naturals, Sequences, SequencesExt

CONSTANTS Id   \* entity ids

\* The kinds of which the state holds at most one (an Option in the code).
SingleKinds == {"intent", "board"}

\* The kinds of which the state holds a list (a Vec in the code).
ListKinds ==
  {"requirement", "decision", "evidence", "link", "constraint", "violation", "waiver",
   "block", "component", "pin", "net", "part", "line", "placement", "track"}

StateKinds == SingleKinds \cup ListKinds

Kinds == StateKinds \cup {"audit"}

Name == StateKinds \X Id

Entity == [kind : Kinds, id : Id, names : SUBSET Name, finite : BOOLEAN, waived : BOOLEAN]

NameOf(e) == <<e.kind, e.id>>

-----------------------------------------------------------------------------
EmptyState == [k \in StateKinds |-> <<>>]

\* i is the first violation of the list that the waiver names.
FirstNamed(i, list, waiver) ==
  /\ i \in DOMAIN list
  /\ NameOf(list[i]) \in waiver.names
  /\ \A j \in DOMAIN list : NameOf(list[j]) \in waiver.names => i <= j

\* Mutant: the waiver is kept and no violation changes.
MutantWaive(list, waiver) == list

\* The violations after the waiver: the first one it names, if any, is waived.
Waive(list, waiver) ==
  [i \in DOMAIN list |->
     [list[i] EXCEPT !.waived = @ \/ FirstNamed(i, list, waiver)]]

\* apply: one event folded into the state.
Apply(state, e) ==
  CASE e.kind = "audit"       -> state
    [] e.kind \in SingleKinds -> [state EXCEPT ![e.kind] = <<e>>]
    [] e.kind = "waiver"      -> [state EXCEPT !["violation"] = Waive(@, e),
                                               !["waiver"] = Append(@, e)]
    [] OTHER                  -> [state EXCEPT ![e.kind] = Append(@, e)]

\* replay: the recorded history folded from nothing, one event after the other.
Replay(events) ==
  LET folded[n \in 0 .. Len(events)] ==
        IF n = 0 THEN EmptyState ELSE Apply(folded[n - 1], events[n])
  IN  folded[Len(events)]

-----------------------------------------------------------------------------
(* Queries *)

\* The named entity is in the state.
Holds(state, name) ==
  \E i \in DOMAIN state[name[1]] : state[name[1]][i].id = name[2]

\* The entities of the kind that name the given entity.
Naming(state, kind, name) ==
  {i \in DOMAIN state[kind] : name \in state[kind][i].names}

\* The names of one kind among those an entity gives.
NamesOfKind(e, kind) == {n \in e.names : n[1] = kind}
=============================================================================
