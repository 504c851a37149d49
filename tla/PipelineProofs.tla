--------------------------- MODULE PipelineProofs ---------------------------
(***************************************************************************)
(* Proofs about Pipeline, for every list of candidates, every intent and every *)
(* failure of the log: one process, request by request, implements Workflow; and     *)
(* what its log says was released can be.                                            *)
(***************************************************************************)
EXTENDS Pipeline, WorkflowProofs

-----------------------------------------------------------------------------
(* What the kernel answers *)

\* A request whose companions are in lists.
WellFormed(r) ==
  /\ IsList(r.evidence) /\ IsList(r.decision) /\ IsList(r.pins) /\ IsList(r.links)

(* Its batch is a list that is not empty. *)
LEMMA EventsList ==
  ASSUME NEW r, WellFormed(r)
  PROVE  IsList(K!Events(r)) /\ Len(K!Events(r)) \in Nat \ {0}
<1>1. IsList(<<r.entity>>)
  BY OneItem
<1>2. IsList(r.evidence \o r.decision)
  BY ListConcat DEF WellFormed
<1>3. IsList(r.evidence \o r.decision \o <<r.entity>>)
  BY <1>1, <1>2, ListConcat
<1>4. IsList(r.evidence \o r.decision \o <<r.entity>> \o r.pins)
  BY <1>3, ListConcat DEF WellFormed
<1>5. IsList(K!Events(r))
  BY <1>4, ListConcat DEF WellFormed, K!Events
<1>6. r.entity \in ToSet(K!Events(r))
  <2>1. r.entity \in ToSet(r.evidence \o r.decision \o <<r.entity>>)
    BY <1>1, <1>2, ListConcat, OneItem
  <2>2. r.entity \in ToSet(r.evidence \o r.decision \o <<r.entity>> \o r.pins)
    BY <1>3, <2>1, ListConcat DEF WellFormed
  <2>3. QED
    BY <1>4, <2>2, ListConcat DEF WellFormed, K!Events
<1>7. Len(K!Events(r)) \in Nat /\ DOMAIN K!Events(r) = 1 .. Len(K!Events(r))
  BY <1>5, ListOfSeq DEF IsList
<1>8. Len(K!Events(r)) /= 0
  BY <1>6, <1>7 DEF ToSet
<1>9. QED
  BY <1>5, <1>7, <1>8

(* The records of a list are a list of the same length. *)
LEMMA RecordsList ==
  ASSUME NEW events, IsList(events), NEW start
  PROVE  IsList(K!Records(start, events)) /\ Len(K!Records(start, events)) = Len(events)
<1> DEFINE batch == K!Records(start, events)
<1>1. Len(events) \in Nat /\ DOMAIN events = 1 .. Len(events)
  BY ListOfSeq DEF IsList
<1>2. DOMAIN batch = 1 .. Len(events) /\ batch = [i \in 1 .. Len(events) |-> batch[i]]
  BY <1>1 DEF K!Records
<1> HIDE DEF batch
<1>3. QED
  BY <1>1, <1>2, ListOfFunction DEF batch

(* A request that is answered has been folded; one that is refused has changed       *)
(* nothing that is live.                                                         *)
LEMMA SubmitGives ==
  ASSUME IsList(records), NEW r, WellFormed(r), K!Submit(r)
  PROVE  /\ boots' = boots
         /\ status' = "down" \/ (status' = status /\ IsList(records'))
         /\ Answers(r) => live' = K!Fold(live, r) /\ K!Appends(K!Events(r))
         /\ Refuses(r) => live' = live
<1> DEFINE batch == K!Records(Len(records), K!Events(r))
<1>1. IsList(batch) /\ Len(batch) \in Nat \ {0}
  BY EventsList, RecordsList
<1> HIDE DEF batch
<1>2. CASE K!DiesInAppend(K!Events(r))
  <2>1. status' = "down"
    BY <1>2 DEF K!DiesInAppend, K!Dies
  <2>2. QED
    BY <2>1 DEF Answers, Refuses, K!Submit
<1>3. CASE /\ K!FailsToAppend(K!Events(r))
           /\ UNCHANGED <<live, status>>
  <2>1. PICK k \in 0 .. Len(batch) - 1 : records' = records \o SubSeq(batch, 1, k)
    BY <1>3 DEF K!FailsToAppend, batch
  <2>2. k \in 0 .. Len(batch) /\ k /= Len(batch)
    BY <1>1
  <2>3. IsList(SubSeq(batch, 1, k)) /\ Len(SubSeq(batch, 1, k)) = k
    BY <1>1, <2>2, ListPrefix DEF IsList
  <2>4. IsList(records')
    BY <2>1, <2>3, ListConcat
  <2>5. Len(records') = Len(records) + k
    BY <2>1, <2>3 DEF IsList
  <2>6. Len(records \o batch) = Len(records) + Len(batch) /\ Len(records) \in Nat
    BY <1>1 DEF IsList
  <2>7. records' /= records \o batch
    BY <1>1, <2>2, <2>5, <2>6
  <2>8. QED
    BY <1>3, <2>4, <2>7 DEF Answers, Refuses, K!Submit, batch
<1>4. CASE /\ K!Appends(K!Events(r))
           /\ live' = K!Fold(live, r)
           /\ UNCHANGED status
  <2>1. records' = records \o batch
    BY <1>4 DEF K!Appends, batch
  <2>2. IsList(records')
    BY <1>1, <2>1, ListConcat
  <2>3. QED
    BY <1>4, <2>1, <2>2 DEF Answers, Refuses, K!Submit, batch
<1>5. QED
  BY <1>2, <1>3, <1>4 DEF K!Submit
-----------------------------------------------------------------------------
(* What a request makes of the live state *)

\* The live state has a list for each kind.
StateLists ==
  /\ live = [kind \in K!StateKinds |-> live[kind]]
  /\ \A kind \in K!StateKinds : IsList(live[kind])

\* The kinds of what the entities of a design name, and their own.
NamedKinds == DesignKinds \cup {"intent", "pin"}

(* An event without an entity changes nothing that is live. *)
LEMMA EventFolds ==
  ASSUME StateLists, NEW item
  PROVE  WellFormed(EventFor(item)) /\ K!Fold(live, EventFor(item)) = live
<1> DEFINE r == EventFor(item)
<1>1. /\ r.entity.kind = "audit" /\ r.evidence = <<>> /\ r.decision = <<>>
      /\ r.pins = <<>> /\ r.links = <<>>
  BY DEF EventFor, EntityOf
<1> HIDE DEF r
<1>2. WellFormed(r)
  BY <1>1, EmptyList DEF WellFormed
<1>3. \A s : IsList(s) => s \o <<>> = s
  BY ConcatFacts DEF IsList
<1>4. K!Apply(live, r.entity) = live
  BY <1>1 DEF K!Apply, K!SingleKinds
<1>5. {"evidence", "decision", "pin", "link"} \subseteq K!StateKinds
  BY DEF K!StateKinds, K!ListKinds
<1>6. \A kind \in K!StateKinds : K!Fold(live, r)[kind] = live[kind]
  BY <1>1, <1>3, <1>4, <1>5 DEF K!Fold, StateLists
<1>7. K!Fold(live, r) = [kind \in K!StateKinds |-> K!Fold(live, r)[kind]]
  BY DEF K!Fold
<1>8. K!Fold(live, r) = live
  BY <1>6, <1>7 DEF StateLists
<1>9. QED
  BY <1>2, <1>8 DEF r

(* An entity is one more of its kind, with its pins; the rest of the design stays.   *)
LEMMA EntityFolds ==
  ASSUME StateLists, NEW r, WellFormed(r), r.entity.kind \in DesignKinds \ {"waiver"},
         r.entity.kind = "board" => live["board"] = <<>>, live' = K!Fold(live, r)
  PROVE  /\ StateLists'
         /\ live'[r.entity.kind] = Append(live[r.entity.kind], r.entity)
         /\ \A kind \in NamedKinds \ {r.entity.kind, "pin"} : live'[kind] = live[kind]
         /\ live'["pin"] = live["pin"] \o r.pins
<1> DEFINE own == r.entity.kind
<1>1. /\ own \in K!StateKinds \ {"evidence", "decision", "pin", "link", "intent", "waiver"}
      /\ own \notin {"audit", "waiver"} /\ (own \in K!SingleKinds => own = "board")
      /\ NamedKinds \subseteq K!StateKinds
      /\ {"evidence", "decision", "pin", "link"} \subseteq K!StateKinds
      /\ NamedKinds \cap {"evidence", "decision", "link"} = {}
  BY DEF DesignKinds, K!StateKinds, K!SingleKinds, K!ListKinds, NamedKinds
<1>2. live' = [kind \in K!StateKinds |-> live'[kind]]
  BY DEF K!Fold
<1>3. K!Apply(live, r.entity) = [live EXCEPT ![own] = Append(@, r.entity)]
  <2>1. CASE own = "board"
    <3>1. K!Apply(live, r.entity) = [live EXCEPT !["board"] = <<r.entity>>]
      BY <1>1, <2>1 DEF K!Apply, K!SingleKinds
    <3>2. Append(live["board"], r.entity) = <<r.entity>>
      <4>1. Append(<<>>, r.entity) = <<r.entity>>
        OBVIOUS
      <4>2. QED
        BY <2>1, <4>1
    <3>3. QED
      BY <2>1, <3>1, <3>2
  <2>2. CASE own /= "board"
    BY <1>1, <2>2 DEF K!Apply
  <2>3. QED
    BY <2>1, <2>2
<1> DEFINE applied == K!Apply(live, r.entity)
<1>4. /\ applied[own] = Append(live[own], r.entity)
      /\ \A kind \in K!StateKinds \ {own} : applied[kind] = live[kind]
  BY <1>1, <1>3 DEF StateLists
<1>5. /\ live'["evidence"] = live["evidence"] \o r.evidence
      /\ live'["decision"] = live["decision"] \o r.decision
      /\ live'["pin"] = live["pin"] \o r.pins
      /\ live'["link"] = live["link"] \o r.links
      /\ \A kind \in K!StateKinds \ {"evidence", "decision", "pin", "link"} :
           live'[kind] = applied[kind]
  <2> HIDE DEF applied
  <2>1. \A kind \in K!StateKinds :
          live'[kind] = CASE kind = "evidence" -> live[kind] \o r.evidence
                          [] kind = "decision" -> live[kind] \o r.decision
                          [] kind = "pin"      -> live[kind] \o r.pins
                          [] kind = "link"     -> live[kind] \o r.links
                          [] OTHER             -> applied[kind]
    BY DEF K!Fold, applied
  <2>2. QED
    BY <1>1, <2>1
<1> HIDE DEF applied, own
<1>6. live'[own] = Append(live[own], r.entity)
  BY <1>1, <1>4, <1>5
<1>7. \A kind \in NamedKinds \ {own, "pin"} : live'[kind] = live[kind]
  BY <1>1, <1>4, <1>5
<1>8. \A kind \in K!StateKinds : IsList(live'[kind])
  <2>1. IsList(live'[own])
    <3>1. IsList(live[own])
      BY <1>1 DEF StateLists
    <3>2. QED
      BY <1>6, <3>1, ListAppend
  <2>2. \A kind \in {"evidence", "decision", "pin", "link"} : IsList(live'[kind])
    <3>1. \A kind \in {"evidence", "decision", "pin", "link"} : IsList(live[kind])
      BY <1>1 DEF StateLists
    <3>2. QED
      BY <1>5, <3>1, ListConcat DEF WellFormed
  <2>3. \A kind \in K!StateKinds \ {own, "evidence", "decision", "pin", "link"} : IsList(live'[kind])
    BY <1>4, <1>5 DEF StateLists
  <2>4. QED
    BY <2>1, <2>2, <2>3
<1>9. QED
  BY <1>2, <1>5, <1>6, <1>7, <1>8 DEF StateLists, own

-----------------------------------------------------------------------------
(* What an entity names *)

\* Each live entity is in the list of its kind.
OwnKinds == \A kind \in NamedKinds : \A e \in K!Entities(live, kind) : e.kind = kind

\* The name is that of a live entity.
Known(n) == n[1] \in NamedKinds /\ \E e \in K!Entities(live, n[1]) : K!NameOf(e) = n

\* What a finding is about.
WellFound(f) == \A s \in f.subjects : s[1] \in DesignKinds

(* The image of a finite set. *)
LEMMA FiniteImage ==
  ASSUME NEW S, IsFiniteSet(S), NEW f, DOMAIN f = S
  PROVE  IsFiniteSet({f[x] : x \in S})
<1> DEFINE T == {f[x] : x \in S}
           g == [x \in S |-> f[x]]
<1>1. g \in Surjection(S, T)
  BY DEF Surjection
<1> HIDE DEF T, g
<1>2. IsFiniteSet(T)
  BY <1>1, FS_Surjection
<1>3. QED
  BY <1>2 DEF T

(* There are finitely many kinds. *)
LEMMA NamedKindsFinite == IsFiniteSet(NamedKinds)
<1> DEFINE kinds == <<"requirement", "block", "constraint", "component", "net", "part", "line",
                      "board", "placement", "track", "violation", "waiver", "intent", "pin">>
<1>1. DOMAIN kinds = 1 .. 14 /\ kinds = [i \in 1 .. 14 |-> kinds[i]]
  OBVIOUS
<1>2. NamedKinds \subseteq {kinds[i] : i \in 1 .. 14}
  <2>1. NamedKinds = {kinds[1], kinds[2], kinds[3], kinds[4], kinds[5], kinds[6], kinds[7],
                      kinds[8], kinds[9], kinds[10], kinds[11], kinds[12], kinds[13], kinds[14]}
    BY DEF NamedKinds, DesignKinds
  <2> HIDE DEF kinds
  <2>2. QED
    BY <2>1
<1> HIDE DEF kinds
<1>3. IsList(kinds)
  BY <1>1, ListOfFunction
<1>4. IsFiniteSet(ToSet(kinds)) /\ ToSet(kinds) = {kinds[i] : i \in 1 .. 14}
  BY <1>1, <1>3, ListFinite DEF ToSet
<1>5. QED
  BY <1>2, <1>4, FS_Subset

(* The entities of a kind are those of its list. *)
LEMMA EntitiesOf == \A state, kind : K!Entities(state, kind) = ToSet(state[kind])
BY DEF K!Entities, K!ToSet, ToSet

(* There are finitely many names that an entity can name. *)
LEMMA KnownFinite ==
  ASSUME StateLists, NEW names, \A n \in names : Known(n)
  PROVE  IsFiniteSet(names)
<1> DEFINE own(kind) == {K!NameOf(e) : e \in ToSet(live[kind])}
           f == [kind \in NamedKinds |-> own(kind)]
<1>1. ASSUME NEW kind \in NamedKinds PROVE IsFiniteSet(own(kind))
  <2>1. IsList(live[kind])
    BY DEF StateLists, NamedKinds, DesignKinds, K!StateKinds, K!SingleKinds, K!ListKinds
  <2>2. IsFiniteSet(ToSet(live[kind]))
    BY <2>1, ListFinite
  <2> DEFINE S == ToSet(live[kind])
             g == [e \in S |-> K!NameOf(e)]
  <2>3. DOMAIN g = S /\ own(kind) = {g[e] : e \in S}
    OBVIOUS
  <2> HIDE DEF S, g, own
  <2>4. IsFiniteSet({g[e] : e \in S})
    BY <2>2, <2>3, FiniteImage DEF S
  <2>5. QED
    BY <2>3, <2>4
<1>2. DOMAIN f = NamedKinds /\ \A kind \in NamedKinds : f[kind] = own(kind)
  BY DEF f
<1> HIDE DEF f, own
<1>3. IsFiniteSet({f[kind] : kind \in NamedKinds})
  BY <1>2, FiniteImage, NamedKindsFinite
<1>4. \A T \in {f[kind] : kind \in NamedKinds} : IsFiniteSet(T)
  BY <1>1, <1>2
<1>5. IsFiniteSet(UNION {f[kind] : kind \in NamedKinds})
  BY <1>3, <1>4, FS_UNION
<1>6. names \subseteq UNION {f[kind] : kind \in NamedKinds}
  <2>1. SUFFICES ASSUME NEW n \in names PROVE n \in UNION {f[kind] : kind \in NamedKinds}
    OBVIOUS
  <2>2. n[1] \in NamedKinds /\ \E e \in ToSet(live[n[1]]) : K!NameOf(e) = n
    <3>1. Known(n)
      BY <2>1
    <3>2. QED
      BY <3>1, EntitiesOf DEF Known
  <2>3. n \in own(n[1])
    BY <2>2 DEF own
  <2>4. QED
    BY <1>2, <2>2, <2>3
<1>7. QED
  BY <1>5, <1>6, FS_Subset

(* The names of the items of a kind are known. *)
LEMMA NamesInKnown ==
  ASSUME OwnKinds, NEW kind \in NamedKinds, NEW items, NEW n \in NamesIn(kind, items)
  PROVE  Known(n) /\ n[1] = kind
<1>1. PICK e \in K!Entities(live, kind) : n = K!NameOf(e)
  BY DEF NamesIn
<1>2. n[1] = kind
  BY <1>1 DEF OwnKinds, K!NameOf
<1>3. QED
  BY <1>1, <1>2 DEF Known

(* What is made names what is there. *)
LEMMA ReferencesKnown ==
  ASSUME OwnKinds, NEW kind \in DesignKinds \ {"waiver"}, NEW item,
         kind = "violation" => WellFound(item), NEW n \in ReferencesOf(kind, item)
  PROVE  Known(n)
<1> DEFINE components == ToSet(DesignOf(live)["component"])
<1>1. {"intent", "requirement", "block", "component", "pin", "part", "net"} \subseteq NamedKinds
  BY DEF NamedKinds, DesignKinds
<1>2. CASE kind = "requirement"
  <2>1. ReferencesOf(kind, item) = {K!NameOf(e) : e \in K!Entities(live, "intent")}
    BY <1>2 DEF ReferencesOf
  <2>2. PICK e \in K!Entities(live, "intent") : n = K!NameOf(e)
    BY <2>1
  <2>3. n[1] = "intent"
    BY <1>1, <2>2 DEF OwnKinds, K!NameOf
  <2>4. QED
    BY <1>1, <2>2, <2>3 DEF Known
<1>3. CASE kind \in {"block", "constraint"}
  <2>1. ReferencesOf(kind, item) = NamesIn("requirement", {item})
    BY <1>3 DEF ReferencesOf
  <2>2. QED
    BY <1>1, <2>1, NamesInKnown
<1>4. CASE kind = "component"
  <2>1. ReferencesOf(kind, item) = NamesIn("block", {item})
    BY <1>4 DEF ReferencesOf
  <2>2. QED
    BY <1>1, <2>1, NamesInKnown
<1>5. CASE kind = "net"
  <2>1. ReferencesOf(kind, item) = NamesIn("pin", PadsOf(item, components))
    BY <1>5 DEF ReferencesOf
  <2>2. QED
    BY <1>1, <2>1, NamesInKnown
<1>6. CASE kind \in {"part", "board"}
  <2>1. ReferencesOf(kind, item) = {}
    BY <1>6 DEF ReferencesOf
  <2>2. QED
    BY <2>1
<1>7. CASE kind = "line"
  <2>1. ReferencesOf(kind, item)
          = NamesIn("part", {item}) \cup NamesIn("component", {c \in components : ClassOf(c) = item})
    BY <1>7 DEF ReferencesOf
  <2>2. QED
    BY <1>1, <2>1, NamesInKnown
<1>8. CASE kind = "placement"
  <2>1. ReferencesOf(kind, item) = NamesIn("component", {item.component})
    BY <1>8 DEF ReferencesOf
  <2>2. QED
    BY <1>1, <2>1, NamesInKnown
<1>9. CASE kind = "track"
  <2>1. ReferencesOf(kind, item) = NamesIn("net", {item.net})
    BY <1>9 DEF ReferencesOf
  <2>2. QED
    BY <1>1, <2>1, NamesInKnown
<1>10. CASE kind = "violation"
  <2>1. ReferencesOf(kind, item) = UNION {NamesIn(s[1], {s[2]}) : s \in item.subjects}
    BY <1>10 DEF ReferencesOf
  <2>2. PICK s \in item.subjects : n \in NamesIn(s[1], {s[2]})
    BY <2>1
  <2>3. s[1] \in NamedKinds
    BY <1>10 DEF WellFound, NamedKinds
  <2>4. QED
    BY <2>2, <2>3, NamesInKnown
<1>11. QED
  BY <1>2, <1>3, <1>4, <1>5, <1>6, <1>7, <1>8, <1>9, <1>10 DEF DesignKinds

(* An order of finitely many items is a list. *)
LEMMA OrderList ==
  ASSUME NEW S, IsFiniteSet(S)
  PROVE  IsList(SetToSeq(S))
<1> DEFINE n == Cardinality(S)
           Order(f) == f \in [1 .. n -> S] /\ IsInjective(f)
<1>1. n \in Nat /\ \E f \in Bijection(1 .. n, S) : TRUE
  BY FS_CardinalityType DEF ExistsBijection
<1>2. \E f : Order(f)
  <2>1. PICK f \in Bijection(1 .. n, S) : TRUE
    BY <1>1
  <2>2. f \in [1 .. n -> S] /\ IsInjective(f)
    BY <2>1 DEF Bijection, Injection, IsInjective
  <2>3. QED
    BY <2>2
<1>3. Order(SetToSeq(S))
  <2>1. SetToSeq(S) = CHOOSE f \in [1 .. n -> S] : IsInjective(f)
    BY DEF SetToSeq
  <2> HIDE DEF n
  <2>2. QED
    BY <1>2, <2>1
<1>4. DOMAIN SetToSeq(S) = 1 .. n /\ SetToSeq(S) = [i \in 1 .. n |-> SetToSeq(S)[i]]
  BY <1>3
<1> HIDE DEF n, Order
<1>5. QED
  BY <1>1, <1>4, ListOfFunction

(* The links of an entity are links. *)
LEMMA LinksFormed ==
  ASSUME NEW e, IsFiniteSet(e.names)
  PROVE  IsList(LinksOf(e)) /\ \A l \in ToSet(LinksOf(e)) : l.kind = "link"
<1> DEFINE order == SetToSeq(e.names)
           links == [i \in DOMAIN order |-> LinkTo(K!NameOf(e), order[i])]
<1>1. CASE e.kind = "net"
  BY <1>1, EmptyList DEF LinksOf
<1>2. CASE e.kind /= "net"
  <2>1. LinksOf(e) = links
    BY <1>2 DEF LinksOf
  <2>2. IsList(order)
    BY OrderList
  <2>3. Len(order) \in Nat /\ DOMAIN order = 1 .. Len(order)
    BY <2>2, ListOfSeq DEF IsList
  <2> HIDE DEF order
  <2>4. DOMAIN links = 1 .. Len(order) /\ links = [i \in 1 .. Len(order) |-> links[i]]
    BY <2>3
  <2>5. \A i \in DOMAIN links : links[i].kind = "link"
    BY DEF LinkTo, EntityOf
  <2> HIDE DEF links
  <2>6. IsList(links)
    BY <2>3, <2>4, ListOfFunction
  <2>7. QED
    BY <2>1, <2>5, <2>6 DEF ToSet
<1>3. QED
  BY <1>1, <1>2

(* The companions of what is made are in lists. *)
LEMMA RequestFormed ==
  ASSUME StateLists, OwnKinds, NEW kind \in DesignKinds \ {"waiver"}, NEW item,
         kind = "violation" => WellFound(item)
  PROVE  WellFormed(RequestFor(kind, item))
<1> DEFINE r == RequestFor(kind, item)
           names == ReferencesOf(kind, item)
<1>1. IsFiniteSet(names)
  <2> HIDE DEF names
  <2>1. \A n \in names : Known(n)
    BY ReferencesKnown DEF names
  <2>2. QED
    BY <2>1, KnownFinite
<1>2. r.entity.names = names
  BY DEF RequestFor, EntityOf
<1>3. IsList(LinksOf(r.entity))
  <2>1. IsFiniteSet(r.entity.names)
    BY <1>1, <1>2
  <2> HIDE DEF r
  <2>2. QED
    BY <2>1, LinksFormed
<1>4. IsList(r.links)
  <2>1. CASE kind = "requirement"
    <3>1. PICK a, b : r.links = <<a>> \o LinksOf(r.entity) \o <<b>>
      BY <2>1 DEF RequestFor
    <3>2. IsList(<<a>>) /\ IsList(<<b>>)
      BY OneItem
    <3>3. IsList(<<a>> \o LinksOf(r.entity))
      <4> HIDE DEF r
      <4>1. QED
        BY <1>3, <3>2, ListConcat
    <3>4. IsList(<<a>> \o LinksOf(r.entity) \o <<b>>)
      <4> HIDE DEF r
      <4>1. QED
        BY <3>2, <3>3, ListConcat
    <3>5. QED
      BY <3>1, <3>4
  <2>2. CASE kind /= "requirement"
    BY <1>3, <2>2 DEF RequestFor
  <2>3. QED
    BY <2>1, <2>2
<1>5. IsList(r.evidence) /\ IsList(r.decision) /\ IsList(r.pins)
  BY OneItem, EmptyList DEF RequestFor
<1> HIDE DEF r
<1>6. QED
  BY <1>4, <1>5 DEF WellFormed, r

-----------------------------------------------------------------------------
(* The invariant of the live state *)

\* Every entity of the kind names one of the other kind.
Named(kind, other) == \A e \in K!Entities(live, kind) : K!NamesOfKind(e, other) /= {}

\* Nothing dangles, and what has to name something does.
Linked ==
  /\ live["intent"] /= <<>>
  /\ \A kind \in DesignKinds : \A e \in K!Entities(live, kind) : \A n \in e.names : Known(n)
  /\ Named("requirement", "intent") /\ Named("block", "requirement")
  /\ Named("component", "block") /\ Named("placement", "component")

\* A line names the components of its class, and a placement its component.
Matched ==
  /\ \A l \in K!Entities(live, "line"), c \in K!Entities(live, "component") :
       K!NameOf(c) \in l.names <=> ClassOf(c.id[1]) = l.id[1]
  /\ \A p \in K!Entities(live, "placement"), c \in K!Entities(live, "component") :
       K!NameOf(c) \in p.names <=> c.id[1] = p.id[1].component

LiveInv == StateLists /\ OwnKinds /\ Linked /\ Matched

\* What the seam has asked of an entity that it takes, as far as the state is concerned.
Admitted(r) ==
  /\ r.entity.kind = "board" => live["board"] = <<>>
  /\ r.entity.kind = "block" => K!NamesOfKind(r.entity, "requirement") /= {}
  /\ r.entity.kind = "component" => K!NamesOfKind(r.entity, "block") /= {}
  /\ r.entity.kind = "placement" => K!NamesOfKind(r.entity, "component") /= {}

(* A request that is handled has been admitted. *)
LEMMA HandledAreAdmitted ==
  ASSUME NEW r, K!Handles(r)
  PROVE  K!Submit(r) /\ status = "running" /\ r.valid /\ Admitted(r)
<1>1. status = "running" /\ r.valid /\ K!Submit(r)
  BY DEF K!Handles, K!Requested, K!CreateRequirement, K!CreateConstraint, K!RaiseViolation,
         K!GrantWaiver, K!CreateFunctionalBlock, K!RealizeComponent, K!CreateNet, K!CreatePart,
         K!CreateBomLineItem, K!CreateBoard, K!PlaceComponent, K!RouteNet, K!Emit
<1>2. r.entity.kind = "board" => K!CreateBoard(r)
  BY DEF K!Handles, K!Requested, K!CreateRequirement, K!CreateConstraint, K!RaiseViolation,
         K!GrantWaiver, K!CreateFunctionalBlock, K!RealizeComponent, K!CreateNet, K!CreatePart,
         K!CreateBomLineItem, K!PlaceComponent, K!RouteNet, K!Emit
<1>3. r.entity.kind = "block" => K!CreateFunctionalBlock(r)
  BY DEF K!Handles, K!Requested, K!CreateRequirement, K!CreateConstraint, K!RaiseViolation,
         K!GrantWaiver, K!RealizeComponent, K!CreateNet, K!CreatePart,
         K!CreateBomLineItem, K!CreateBoard, K!PlaceComponent, K!RouteNet, K!Emit
<1>4. r.entity.kind = "component" => K!RealizeComponent(r)
  BY DEF K!Handles, K!Requested, K!CreateRequirement, K!CreateConstraint, K!RaiseViolation,
         K!GrantWaiver, K!CreateFunctionalBlock, K!CreateNet, K!CreatePart,
         K!CreateBomLineItem, K!CreateBoard, K!PlaceComponent, K!RouteNet, K!Emit
<1>5. r.entity.kind = "placement" => K!PlaceComponent(r)
  BY DEF K!Handles, K!Requested, K!CreateRequirement, K!CreateConstraint, K!RaiseViolation,
         K!GrantWaiver, K!CreateFunctionalBlock, K!RealizeComponent, K!CreateNet, K!CreatePart,
         K!CreateBomLineItem, K!CreateBoard, K!RouteNet, K!Emit
<1>6. Admitted(r)
  BY <1>2, <1>3, <1>4, <1>5
     DEF Admitted, K!CreateBoard, K!CreateFunctionalBlock, K!RealizeComponent, K!PlaceComponent
<1>7. QED
  BY <1>1, <1>6

(* What is live stays as it should be when nothing changes. *)
LEMMA LiveKept ==
  ASSUME LiveInv, live' = live, candidates' = candidates
  PROVE  LiveInv'
<1>1. StateLists' /\ OwnKinds'
  BY DEF LiveInv, StateLists, OwnKinds
<1>2. \A n : Known(n)' <=> Known(n)
  BY DEF Known
<1>3. Linked'
  BY <1>2 DEF LiveInv, Linked, Named
<1>4. Matched'
  BY DEF LiveInv, Matched, ClassOf
<1>5. QED
  BY <1>1, <1>3, <1>4 DEF LiveInv

(* The lists only grow. *)
LEMMA LiveGrows ==
  ASSUME LiveInv, NEW r, WellFormed(r), r.entity.kind \in DesignKinds \ {"waiver"}, Admitted(r),
         live' = K!Fold(live, r)
  PROVE  /\ StateLists'
         /\ live'[r.entity.kind] = Append(live[r.entity.kind], r.entity)
         /\ \A kind \in NamedKinds \ {r.entity.kind, "pin"} :
              live'[kind] = live[kind] /\ K!Entities(live', kind) = K!Entities(live, kind)
         /\ K!Entities(live', r.entity.kind) = K!Entities(live, r.entity.kind) \cup {r.entity}
         /\ K!Entities(live', "pin") = K!Entities(live, "pin") \cup ToSet(r.pins)
         /\ \A n : Known(n) => Known(n)'
<1> DEFINE own == r.entity.kind
<1>1. /\ StateLists'
      /\ live'[own] = Append(live[own], r.entity)
      /\ \A kind \in NamedKinds \ {own, "pin"} : live'[kind] = live[kind]
      /\ live'["pin"] = live["pin"] \o r.pins
  BY EntityFolds DEF LiveInv, Admitted
<1>2. IsList(live[own]) /\ IsList(live["pin"])
  BY DEF LiveInv, StateLists, DesignKinds, K!StateKinds, K!SingleKinds, K!ListKinds
<1> HIDE DEF own
<1>3. K!Entities(live', own) = K!Entities(live, own) \cup {r.entity}
  BY <1>1, <1>2, EntitiesOf, ListAppend
<1>4. K!Entities(live', "pin") = K!Entities(live, "pin") \cup ToSet(r.pins)
  BY <1>1, <1>2, EntitiesOf, ListConcat DEF WellFormed
<1>5. \A kind \in NamedKinds \ {own, "pin"} : K!Entities(live', kind) = K!Entities(live, kind)
  BY <1>1, EntitiesOf
<1>6. \A kind \in NamedKinds : K!Entities(live, kind) \subseteq K!Entities(live', kind)
  BY <1>3, <1>4, <1>5
<1>7. \A n : Known(n) => Known(n)'
  <2>1. SUFFICES ASSUME NEW n, Known(n)
                 PROVE  n[1] \in NamedKinds /\ \E e \in K!Entities(live', n[1]) : K!NameOf(e) = n
    BY DEF Known
  <2>2. QED
    BY <1>6, <2>1 DEF Known
<1>8. QED
  BY <1>1, <1>3, <1>4, <1>5, <1>7 DEF own

(* What is asked for an item. *)
LEMMA RequestIs ==
  ASSUME NEW kind, NEW item
  PROVE  /\ RequestFor(kind, item).entity.kind = kind
         /\ RequestFor(kind, item).entity.id[1] = item
         /\ RequestFor(kind, item).entity.names = ReferencesOf(kind, item)
         /\ RequestFor(kind, item).valid = Validates(kind, item)
         /\ \A pin \in ToSet(RequestFor(kind, item).pins) : pin.kind = "pin"
<1> DEFINE r == RequestFor(kind, item)
<1>1. /\ r.entity = EntityOf(kind, NewId(kind, item), ReferencesOf(kind, item))
      /\ r.valid = Validates(kind, item)
      /\ r.pins = IF kind = "component"
                  THEN <<EntityOf("pin", r.entity.id, {K!NameOf(r.entity)})>> ELSE <<>>
  BY DEF RequestFor
<1>2. NewId(kind, item)[1] = item
  BY DEF NewId
<1> HIDE DEF r
<1>3. r.entity.kind = kind /\ r.entity.id[1] = item /\ r.entity.names = ReferencesOf(kind, item)
  BY <1>1, <1>2 DEF EntityOf
<1>4. \A pin \in ToSet(r.pins) : pin.kind = "pin"
  <2>1. CASE kind = "component"
    <3>1. PICK id, names : r.pins = <<EntityOf("pin", id, names)>>
      BY <1>1, <2>1
    <3>2. ToSet(r.pins) = {EntityOf("pin", id, names)}
      BY <3>1, OneItem
    <3>3. QED
      BY <3>2 DEF EntityOf
  <2>2. CASE kind /= "component"
    BY <1>1, <2>2, EmptyList
  <2>3. QED
    BY <2>1, <2>2
<1>5. QED
  BY <1>1, <1>3, <1>4 DEF r

(* What an item names of a kind are the entities whose items it is made for. *)
LEMMA NamesOne ==
  ASSUME NEW kind, NEW items, NEW e \in K!Entities(live, kind)
  PROVE  K!NameOf(e) \in NamesIn(kind, items) <=> e.id[1] \in items
<1>1. ASSUME K!NameOf(e) \in NamesIn(kind, items) PROVE e.id[1] \in items
  <2>1. PICK f \in K!Entities(live, kind) : f.id[1] \in items /\ K!NameOf(e) = K!NameOf(f)
    BY <1>1 DEF NamesIn
  <2>2. e.id = f.id
    BY <2>1 DEF K!NameOf
  <2>3. QED
    BY <2>1, <2>2
<1>2. ASSUME e.id[1] \in items PROVE K!NameOf(e) \in NamesIn(kind, items)
  BY <1>2 DEF NamesIn
<1>3. QED
  BY <1>1, <1>2

(* The items of the components are those of the design. *)
LEMMA ItemsOf ==
  ASSUME StateLists, NEW kind \in DesignKinds
  PROVE  /\ IsList(DesignOf(live)[kind])
         /\ Len(DesignOf(live)[kind]) = Len(live[kind])
         /\ \A i \in 1 .. Len(live[kind]) : DesignOf(live)[kind][i] = live[kind][i].id[1]
         /\ ToSet(DesignOf(live)[kind]) = {e.id[1] : e \in K!Entities(live, kind)}
         /\ DesignOf(live)[kind] = <<>> <=> live[kind] = <<>>
<1> DEFINE items == [i \in DOMAIN live[kind] |-> live[kind][i].id[1]]
<1>1. DesignOf(live)[kind] = items
  BY DEF DesignOf
<1>2. IsList(live[kind])
  BY DEF StateLists, DesignKinds, K!StateKinds, K!SingleKinds, K!ListKinds
<1>3. Len(live[kind]) \in Nat /\ DOMAIN live[kind] = 1 .. Len(live[kind])
  BY <1>2, ListOfSeq DEF IsList
<1>4. /\ DOMAIN items = 1 .. Len(live[kind]) /\ items = [i \in 1 .. Len(live[kind]) |-> items[i]]
      /\ \A i \in 1 .. Len(live[kind]) : items[i] = live[kind][i].id[1]
  BY <1>3
<1> HIDE DEF items
<1>5. IsList(items) /\ Len(items) = Len(live[kind])
  BY <1>3, <1>4, ListOfFunction
<1>6. ToSet(items) = {e.id[1] : e \in K!Entities(live, kind)}
  <2>1. ToSet(items) = {items[i] : i \in 1 .. Len(live[kind])}
    BY <1>4 DEF ToSet
  <2>2. K!Entities(live, kind) = {live[kind][i] : i \in 1 .. Len(live[kind])}
    BY <1>3, EntitiesOf DEF ToSet
  <2>3. ASSUME NEW x \in ToSet(items) PROVE x \in {e.id[1] : e \in K!Entities(live, kind)}
    <3>1. PICK i \in 1 .. Len(live[kind]) : x = items[i]
      BY <2>1, <2>3
    <3>2. x = live[kind][i].id[1] /\ live[kind][i] \in K!Entities(live, kind)
      BY <1>4, <2>2, <3>1
    <3>3. QED
      BY <3>2
  <2>4. ASSUME NEW e \in K!Entities(live, kind) PROVE e.id[1] \in ToSet(items)
    <3>1. PICK i \in 1 .. Len(live[kind]) : e = live[kind][i]
      BY <2>2, <2>4
    <3>2. items[i] = e.id[1]
      BY <1>4, <3>1
    <3>3. QED
      BY <2>1, <3>2
  <2>5. QED
    BY <2>3, <2>4
<1>7. items = <<>> <=> live[kind] = <<>>
  BY <1>2, <1>5 DEF IsList
<1>8. QED
  BY <1>1, <1>4, <1>5, <1>6, <1>7

(* An entity that is made is one more item of the design. *)
LEMMA ItemAdded ==
  ASSUME LiveInv, NEW kind \in DesignKinds \ {"waiver"}, NEW item,
         kind = "violation" => WellFound(item), Admitted(RequestFor(kind, item)),
         live' = K!Fold(live, RequestFor(kind, item))
  PROVE  DesignOf(live') = [DesignOf(live) EXCEPT ![kind] = Append(@, item)]
<1> DEFINE r == RequestFor(kind, item)
           old == DesignOf(live)
           new == DesignOf(live')
<1>1. WellFormed(r)
  BY RequestFormed DEF LiveInv
<1>2. r.entity.kind = kind /\ r.entity.id[1] = item
  BY RequestIs
<1>3. /\ live'[kind] = Append(live[kind], r.entity) /\ "pin" \notin DesignKinds
      /\ \A other \in DesignKinds \ {kind} : live'[other] = live[other]
  <2> HIDE DEF r
  <2>1. /\ live'[kind] = Append(live[kind], r.entity)
        /\ \A other \in NamedKinds \ {kind, "pin"} : live'[other] = live[other]
    BY <1>1, <1>2, LiveGrows DEF r
  <2>2. "pin" \notin DesignKinds
    BY DEF DesignKinds
  <2>3. QED
    BY <2>1, <2>2 DEF NamedKinds
<1>4. \A other \in DesignKinds \ {kind} : new[other] = old[other]
  BY <1>3 DEF DesignOf
<1>5. new[kind] = Append(old[kind], item)
  <2> DEFINE N == Len(live[kind])
  <2>1. IsList(live[kind])
    BY DEF LiveInv, StateLists, DesignKinds, K!StateKinds, K!SingleKinds, K!ListKinds
  <2>2. /\ N \in Nat /\ DOMAIN live[kind] = 1 .. N /\ DOMAIN live'[kind] = 1 .. N + 1
        /\ \A i \in 1 .. N : live'[kind][i] = live[kind][i]
        /\ live'[kind][N + 1] = r.entity
    <3> HIDE DEF r
    <3>1. live[kind] \in Seq(ToSet(live[kind]) \cup {r.entity})
      BY <2>1, ListOfWider
    <3>2. QED
      BY <1>3, <3>1, AppendFacts
  <2>3. /\ IsList(old[kind]) /\ Len(old[kind]) = N
        /\ \A i \in 1 .. N : old[kind][i] = live[kind][i].id[1]
    BY ItemsOf DEF LiveInv
  <2>4. DOMAIN new[kind] = 1 .. N + 1 /\ \A i \in 1 .. N + 1 : new[kind][i] = live'[kind][i].id[1]
    BY <2>2 DEF DesignOf
  <2>5. \A i \in 1 .. N + 1 : new[kind][i] = IF i = N + 1 THEN item ELSE old[kind][i]
    <3> HIDE DEF r, new, old, N
    <3>1. \A i \in 1 .. N + 1 : i = N + 1 \/ i \in 1 .. N
      BY <2>2
    <3>2. QED
      BY <1>2, <2>2, <2>3, <2>4, <3>1
  <2>6. new[kind] = [i \in 1 .. N + 1 |-> new[kind][i]]
    BY <2>2 DEF DesignOf
  <2> HIDE DEF new, old, N, r
  <2>7. Append(old[kind], item) = [i \in 1 .. N + 1 |-> IF i = N + 1 THEN item ELSE old[kind][i]]
    BY <2>3 DEF IsList
  <2>8. QED
    BY <2>5, <2>6, <2>7
<1>6. /\ new = [other \in DesignKinds |-> new[other]]
      /\ old = [other \in DesignKinds |-> old[other]]
  BY DEF DesignOf
<1> HIDE DEF new, old
<1>7. new = [old EXCEPT ![kind] = Append(@, item)]
  BY <1>4, <1>5, <1>6
<1>8. QED
  BY <1>7 DEF new, old

(* What is live stays as it should be when an entity is made. *)
LEMMA MadeKeepsLive ==
  ASSUME LiveInv, NEW kind \in DesignKinds \ {"waiver"}, NEW item,
         kind = "violation" => WellFound(item), Admitted(RequestFor(kind, item)),
         kind = "component" => live["line"] = <<>> /\ live["placement"] = <<>>,
         live' = K!Fold(live, RequestFor(kind, item)), candidates' = candidates
  PROVE  LiveInv'
<1> DEFINE r == RequestFor(kind, item)
           e == r.entity
<1>1. WellFormed(r)
  BY RequestFormed DEF LiveInv
<1>2. /\ e.kind = kind /\ e.id[1] = item /\ e.names = ReferencesOf(kind, item)
      /\ \A pin \in ToSet(r.pins) : pin.kind = "pin"
  BY RequestIs
<1>3. Admitted(r) /\ live' = K!Fold(live, r)
  OBVIOUS
<1> HIDE DEF r
<1>4. /\ StateLists'
      /\ live'[e.kind] = Append(live[e.kind], e)
      /\ \A other \in NamedKinds \ {e.kind, "pin"} :
           live'[other] = live[other] /\ K!Entities(live', other) = K!Entities(live, other)
      /\ K!Entities(live', e.kind) = K!Entities(live, e.kind) \cup {e}
      /\ K!Entities(live', "pin") = K!Entities(live, "pin") \cup ToSet(r.pins)
      /\ \A n : Known(n) => Known(n)'
  BY <1>1, <1>2, <1>3, LiveGrows
<1> HIDE DEF e
<1>5. DesignKinds \subseteq NamedKinds /\ {"intent", "pin"} \subseteq NamedKinds
      /\ "pin" \notin DesignKinds /\ "intent" \notin DesignKinds
      /\ {"requirement", "block", "component", "line", "placement"} \subseteq DesignKinds
  BY DEF NamedKinds, DesignKinds
<1>6. \A other \in NamedKinds : \A f \in K!Entities(live', other) :
        f \in K!Entities(live, other) \/ (other = kind /\ f = e) \/ (other = "pin" /\ f.kind = "pin")
  BY <1>2, <1>4
<1>7. OwnKinds'
  <2>1. SUFFICES ASSUME NEW other \in NamedKinds, NEW f \in K!Entities(live', other)
                 PROVE  f.kind = other
    BY DEF OwnKinds
  <2>2. QED
    BY <1>2, <1>6 DEF LiveInv, OwnKinds
<1>8. \A n \in e.names : Known(n)
  BY <1>2, ReferencesKnown DEF LiveInv
<1>9. ASSUME NEW other, \/ other = "requirement" /\ kind = other
                        \/ other \in {"block", "component", "placement"} /\ kind = other,
             NEW named, <<other, named>> \in {<<"requirement", "intent">>, <<"block", "requirement">>,
                                              <<"component", "block">>, <<"placement", "component">>}
      PROVE  K!NamesOfKind(e, named) /= {}
  <2>1. CASE other = "requirement"
    <3>1. e.names = {K!NameOf(f) : f \in K!Entities(live, "intent")} /\ named = "intent"
      BY <1>2, <1>9, <2>1 DEF ReferencesOf
    <3>2. IsList(live["intent"]) /\ live["intent"] /= <<>>
      BY DEF LiveInv, StateLists, Linked, K!StateKinds, K!SingleKinds
    <3>3. ToSet(live["intent"]) /= {}
      BY <3>2, NoItems
    <3>4. PICK f \in K!Entities(live, "intent") : TRUE
      BY <3>3, EntitiesOf
    <3>5. K!NameOf(f)[1] = "intent"
      BY <1>5, <3>4 DEF LiveInv, OwnKinds, K!NameOf
    <3>6. K!NameOf(f) \in K!NamesOfKind(e, named)
      BY <3>1, <3>4, <3>5 DEF K!NamesOfKind
    <3>7. QED
      BY <3>6
  <2>2. CASE other /= "requirement"
    BY <1>2, <1>3, <1>9, <2>2 DEF Admitted, e
  <2>3. QED
    BY <2>1, <2>2
<1>10. Linked'
  <2>1. live'["intent"] /= <<>>
    BY <1>2, <1>4, <1>5 DEF LiveInv, Linked
  <2>2. \A other \in DesignKinds : \A f \in K!Entities(live', other) : \A n \in f.names : Known(n)'
    BY <1>4, <1>5, <1>6, <1>8 DEF LiveInv, Linked
  <2>3. \A f \in K!Entities(live', "requirement") : K!NamesOfKind(f, "intent") /= {}
    BY <1>5, <1>6, <1>9 DEF LiveInv, Linked, Named
  <2>4. \A f \in K!Entities(live', "block") : K!NamesOfKind(f, "requirement") /= {}
    BY <1>5, <1>6, <1>9 DEF LiveInv, Linked, Named
  <2>5. \A f \in K!Entities(live', "component") : K!NamesOfKind(f, "block") /= {}
    BY <1>5, <1>6, <1>9 DEF LiveInv, Linked, Named
  <2>6. \A f \in K!Entities(live', "placement") : K!NamesOfKind(f, "component") /= {}
    BY <1>5, <1>6, <1>9 DEF LiveInv, Linked, Named
  <2>7. QED
    BY <2>1, <2>2, <2>3, <2>4, <2>5, <2>6 DEF Linked, Named
<1>11. ASSUME NEW l \in K!Entities(live', "line"), NEW c \in K!Entities(live', "component")
       PROVE  K!NameOf(c) \in l.names <=> ClassOf(c.id[1]) = l.id[1]
  <2>1. CASE kind = "component"
    <3>1. l \in K!Entities(live, "line") /\ live["line"] = <<>>
      BY <1>5, <1>6, <2>1
    <3>2. QED
      BY <3>1, EntitiesOf, EmptyList
  <2>2. CASE kind /= "component"
    <3>1. c \in K!Entities(live, "component")
      BY <1>5, <1>6, <2>2
    <3>2. CASE l \in K!Entities(live, "line")
      BY <3>1, <3>2 DEF LiveInv, Matched
    <3>3. CASE kind = "line" /\ l = e
      <4> DEFINE components == ToSet(DesignOf(live)["component"])
      <4>1. l.names = NamesIn("part", {item})
                      \cup NamesIn("component", {x \in components : ClassOf(x) = item})
        BY <1>2, <3>3 DEF ReferencesOf
      <4>2. components = {f.id[1] : f \in K!Entities(live, "component")}
        BY <1>5, ItemsOf DEF LiveInv
      <4>3. c.id[1] \in components
        BY <3>1, <4>2
      <4> HIDE DEF components
      <4>4. K!NameOf(c) \notin NamesIn("part", {item})
        <5>1. K!NameOf(c)[1] = "component"
          BY <1>5, <3>1 DEF LiveInv, OwnKinds, K!NameOf
        <5>2. "part" \in NamedKinds
          BY DEF NamedKinds, DesignKinds
        <5>3. QED
          BY <5>1, <5>2, NamesInKnown DEF LiveInv
      <4>5. K!NameOf(c) \in NamesIn("component", {x \in components : ClassOf(x) = item})
              <=> c.id[1] \in {x \in components : ClassOf(x) = item}
        BY <3>1, NamesOne
      <4>6. QED
        BY <1>2, <3>3, <4>1, <4>3, <4>4, <4>5
    <3>4. QED
      BY <1>5, <1>6, <3>2, <3>3
  <2>3. QED
    BY <2>1, <2>2
<1>12. ASSUME NEW p \in K!Entities(live', "placement"), NEW c \in K!Entities(live', "component")
       PROVE  K!NameOf(c) \in p.names <=> c.id[1] = p.id[1].component
  <2>1. CASE kind = "component"
    <3>1. p \in K!Entities(live, "placement") /\ live["placement"] = <<>>
      BY <1>5, <1>6, <2>1
    <3>2. QED
      BY <3>1, EntitiesOf, EmptyList
  <2>2. CASE kind /= "component"
    <3>1. c \in K!Entities(live, "component")
      BY <1>5, <1>6, <2>2
    <3>2. CASE p \in K!Entities(live, "placement")
      BY <3>1, <3>2 DEF LiveInv, Matched
    <3>3. CASE kind = "placement" /\ p = e
      <4>1. p.names = NamesIn("component", {item.component}) /\ p.id[1] = item
        BY <1>2, <3>3 DEF ReferencesOf
      <4>2. K!NameOf(c) \in NamesIn("component", {item.component}) <=> c.id[1] \in {item.component}
        BY <3>1, NamesOne
      <4>3. QED
        BY <4>1, <4>2
    <3>4. QED
      BY <1>5, <1>6, <3>2, <3>3
  <2>3. QED
    BY <2>1, <2>2
<1>13. Matched'
  BY <1>11, <1>12 DEF Matched, ClassOf
<1>14. QED
  BY <1>4, <1>7, <1>10, <1>13 DEF LiveInv

-----------------------------------------------------------------------------
(* What a rule finds is about items of the design *)

\* Every finding of the list is.
AllWellFound(found) == \A f \in ToSet(found) : WellFound(f)

(* Findings about items of one kind. *)
LEMMA FindsWell ==
  ASSUME NEW kind \in DesignKinds, NEW rule, NEW items
  PROVE  /\ AllWellFound(FindEach(rule, kind, items))
         /\ \A pairs : AllWellFound(FindPairs(rule, kind, items, pairs))
<1>1. ASSUME NEW f \in ToSet(FindEach(rule, kind, items)) PROVE WellFound(f)
  <2>1. PICK i \in DOMAIN FindEach(rule, kind, items) : f = FindEach(rule, kind, items)[i]
    BY DEF ToSet
  <2>2. f = Finding(rule, {<<kind, items[i]>>})
    BY <2>1 DEF FindEach
  <2>3. f.subjects = {<<kind, items[i]>>}
    BY <2>2 DEF Finding
  <2>4. QED
    BY <2>3 DEF WellFound
<1>2. ASSUME NEW pairs, NEW f \in ToSet(FindPairs(rule, kind, items, pairs)) PROVE WellFound(f)
  <2>1. PICK n \in DOMAIN FindPairs(rule, kind, items, pairs) :
          f = FindPairs(rule, kind, items, pairs)[n]
    BY DEF ToSet
  <2>2. f = Finding(rule, {<<kind, items[pairs[n][1]]>>, <<kind, items[pairs[n][2]]>>})
    BY <2>1 DEF FindPairs
  <2>3. f.subjects = {<<kind, items[pairs[n][1]]>>, <<kind, items[pairs[n][2]]>>}
    BY <2>2 DEF Finding
  <2>4. QED
    BY <2>3 DEF WellFound
<1>3. QED
  BY <1>1, <1>2 DEF AllWellFound

(* The findings of every rule. *)
LEMMA EvaluateWell ==
  ASSUME NEW gate \in Gates, NEW rule \in RulesBy(gate)
  PROVE  AllWellFound(Evaluate(rule))
<1>1. {"requirement", "constraint", "net", "component", "line", "placement", "track"}
        \subseteq DesignKinds
  BY DEF DesignKinds
<1>2. AllWellFound(<<>>)
  BY EmptyList DEF AllWellFound
<1>3. /\ AllWellFound(ConstraintConsistency) /\ AllWellFound(ThermalJunction)
      /\ AllWellFound(ErcPowerNetUndriven) /\ AllWellFound(ErcMultipleDrivers)
      /\ AllWellFound(BomCoverage) /\ AllWellFound(BomLifecycle)
  BY <1>1, FindsWell DEF ConstraintConsistency, ThermalJunction,
       ErcPowerNetUndriven, ErcMultipleDrivers, BomCoverage, BomLifecycle
<1>4. /\ AllWellFound(DrcOutOfBounds) /\ AllWellFound(DrcCourtyardOverlap)
      /\ AllWellFound(DrcTraceWidth) /\ AllWellFound(DrcUnroutedNet)
      /\ AllWellFound(DrcNetOpen) /\ AllWellFound(DrcCopperClearance)
  BY <1>1, <1>2, FindsWell DEF DrcOutOfBounds, DrcCourtyardOverlap,
       DrcTraceWidth, DrcUnroutedNet, DrcNetOpen, DrcCopperClearance
<1>5. AllWellFound(DfmEdgeClearance) /\ AllWellFound(DfmTraceEdgeClearance)
  BY <1>1, <1>2, FindsWell DEF DfmEdgeClearance, DfmTraceEdgeClearance
<1>6. AllWellFound(EmcAntennaLength)
  <2>1. \A S : AllWellFound(<<Finding("emc-antenna-length", {<<"requirement", r>> : r \in S})>>)
    <3>1. SUFFICES ASSUME NEW S
                   PROVE  WellFound(Finding("emc-antenna-length", {<<"requirement", r>> : r \in S}))
      BY OneItem DEF AllWellFound
    <3>2. Finding("emc-antenna-length", {<<"requirement", r>> : r \in S}).subjects
            = {<<"requirement", r>> : r \in S}
      BY DEF Finding
    <3>3. QED
      BY <1>1, <3>2 DEF WellFound
  <2>2. \A items : AllWellFound(FindEach("emc-antenna-length", "track", items))
    BY <1>1, FindsWell
  <2>3. QED
    BY <1>2, <2>1, <2>2 DEF EmcAntennaLength
<1>7. QED
  BY <1>2, <1>3, <1>4, <1>5, <1>6, RulesFacts DEF Evaluate, Gates

(* And so is what a gate finds. *)
LEMMA FindingsWell ==
  ASSUME DesignLists, NEW gate \in Gates
  PROVE  AllWellFound(Findings(gate))
<1> DEFINE rules == RulesOf(gate)
           found == [i \in DOMAIN rules |-> Evaluate(rules[i])]
<1>1. IsList(rules) /\ \A i \in DOMAIN rules : rules[i] \in RulesBy(gate)
  BY RulesFacts DEF RulesBy, ToSet
<1>2. Len(rules) \in Nat /\ DOMAIN rules = 1 .. Len(rules)
  BY <1>1, ListOfSeq DEF IsList
<1>3. \A i \in DOMAIN rules : IsList(found[i]) /\ AllWellFound(found[i])
  BY <1>1, EvaluateList, EvaluateWell
<1>4. Findings(gate) = FlattenSeq(found)
  BY DEF Findings
<1>5. DOMAIN found = 1 .. Len(rules) /\ found = [i \in 1 .. Len(rules) |-> found[i]]
  BY <1>2
<1> HIDE DEF found, rules
<1>6. IsList(found)
  BY <1>2, <1>5, ListOfFunction
<1>7. ToSet(FlattenSeq(found)) = UNION {ToSet(found[i]) : i \in DOMAIN found}
  BY <1>2, <1>3, <1>5, <1>6, FlattenFacts
<1>8. QED
  BY <1>2, <1>3, <1>4, <1>5, <1>7 DEF AllWellFound

-----------------------------------------------------------------------------
(* What a phase sends *)

\* The planning phases after the first one.
Middle ==
  {"EngineeringAnalysis", "ConstraintExtraction", "SchematicPlanning", "BomPlanning",
   "PcbFloorPlanning", "ComponentPlacement", "RoutingPlanning"}

(* The phases of the default workflow. *)
LEMMA PhasesAre ==
  DefaultNames \subseteq {"RequirementPlanning", "ManufacturingGeneration"} \cup Middle \cup Gates
<1>1. SUFFICES ASSUME NEW phase \in DefaultNames
               PROVE  phase \in {"RequirementPlanning", "ManufacturingGeneration"} \cup Middle
                                \cup Gates
  OBVIOUS
<1>2. PICK k \in DOMAIN PhaseNames : phase = PhaseNames[k]
  BY DEF DefaultNames, ToSet
<1>3. k \in 1 .. 15
  BY DefaultNamesShape DEF NumDefault
<1>4. QED
  BY <1>2, <1>3 DEF PhaseNames, Gates, Middle

(* It sends what it writes. *)
LEMMA PlannedSends ==
  ASSUME WorkflowInv, NEW phase \in DefaultNames, Running = phase
  PROVE  SendsOnly(Planned, Writes(phase)) /\ Writes(phase) \subseteq DesignKinds \ {"waiver"}
<1>1. DesignLists /\ candidates \in Seq(Candidate)
  BY WorkflowAssumption DEF WorkflowInv, WorkflowTypeOK
<1>2. CASE phase = "RequirementPlanning"
  <2> DEFINE numbers == [c \in DOMAIN candidates |-> c]
  <2>1. IsList(numbers)
    <3>1. Len(candidates) \in Nat /\ DOMAIN candidates = 1 .. Len(candidates)
      BY <1>1
    <3>2. DOMAIN numbers = 1 .. Len(candidates) /\ numbers = [i \in 1 .. Len(candidates) |-> numbers[i]]
      BY <3>1
    <3> HIDE DEF numbers
    <3>3. QED
      BY <3>1, <3>2, ListOfFunction
  <2>2. Planned = Create("requirement", numbers)
    BY <1>2 DEF Planned, Gates
  <2> HIDE DEF numbers
  <2>3. SendsOnly(Planned, {"requirement"})
    BY <2>1, <2>2, CreateFacts
  <2>4. QED
    BY <1>2, <2>3 DEF Writes, DesignKinds, Gates
<1>3. CASE phase \in Middle
  <2>1. /\ phase = "EngineeringAnalysis" => Planned = Analyzing /\ Writes(phase) = {"block"}
        /\ phase = "ConstraintExtraction" => Planned = Extracting /\ Writes(phase) = {"constraint"}
        /\ phase = "SchematicPlanning" =>
             Planned = SchematicPlan /\ Writes(phase) = {"component", "net"}
        /\ phase = "BomPlanning" => Planned = BomPlan /\ Writes(phase) = {"part", "line"}
        /\ phase = "PcbFloorPlanning" => Planned = FloorPlan /\ Writes(phase) = {"board"}
        /\ phase = "ComponentPlacement" => Planned = Placing /\ Writes(phase) = {"placement"}
        /\ phase = "RoutingPlanning" => Planned = Routing /\ Writes(phase) = {"track"}
    BY DEF Planned, Writes, Gates
  <2>2. SendsOnly(Planned, Writes(phase))
    BY <1>1, <1>3, <2>1, PlanningSends DEF Middle
  <2>3. Writes(phase) \subseteq DesignKinds \ {"waiver"}
    BY <1>3, <2>1 DEF DesignKinds, Middle
  <2>4. QED
    BY <2>2, <2>3
<1>4. CASE phase \in Gates
  <2>1. SendsOnly(Raising(phase), {"violation"})
    BY <1>1, <1>4, RaisingFacts
  <2>2. Planned = Raising(phase) /\ Writes(phase) = {"violation"}
    BY <1>4 DEF Planned, Writes, Gates
  <2>3. QED
    BY <2>1, <2>2 DEF DesignKinds
<1>5. CASE phase = "ManufacturingGeneration"
  <2>1. Planned = <<>> /\ Writes(phase) = {}
    BY <1>5 DEF Planned, Writes, Gates
  <2>2. QED
    BY <2>1, SendsNothing
<1>6. phase \in {"RequirementPlanning", "ManufacturingGeneration"} \cup Middle \cup Gates
  BY PhasesAre
<1>7. QED
  BY <1>2, <1>3, <1>4, <1>5, <1>6

(* What it sends does not change while the design that it found stays. *)
LEMMA PlannedStays ==
  ASSUME UNCHANGED <<designVars, plan, cursor>>, Running \in DefaultNames
  PROVE  /\ Running' = Running /\ Planned' = Planned
         /\ \A requests : Committed(requests)' = Committed(requests)
<1>1. candidates' = candidates /\ design' = design /\ Running' = Running
  BY DEF designVars, Running
<1>2. \A kinds : Same(kinds)
  BY <1>1 DEF Same
<1>3. \A kind : Made(kind)' = Made(kind)
  BY <1>1 DEF Made
<1>4. \A requests : Committed(requests)' = Committed(requests)
  BY <1>1 DEF Committed
<1>5. \A phase : Asks(phase)' = Asks(phase)
  BY <1>2, SameAsks
<1>6. CASE Running = "RequirementPlanning"
  <2>1. Planned = Create("requirement", [c \in DOMAIN candidates |-> c])
    BY <1>6 DEF Planned, Gates
  <2>2. Planned' = Create("requirement", [c \in DOMAIN candidates |-> c])'
    BY <1>1, <1>6 DEF Planned, Gates
  <2>3. QED
    BY <1>1, <1>4, <2>1, <2>2
<1>7. CASE Running \in Middle
  <2>1. Analyzing' = Analyzing
    BY <1>1, <1>3 DEF Analyzing, CreateMissing
  <2>2. FloorPlan' = FloorPlan
    BY <1>1 DEF FloorPlan, Stated, TargetsOf, Made
  <2>3. /\ Extracting' = Extracting /\ SchematicPlan' = SchematicPlan /\ BomPlan' = BomPlan
        /\ Placing' = Placing /\ Routing' = Routing
    <3>1. /\ Asks("ConstraintExtraction") = Extracting
          /\ Asks("ConstraintExtraction")' = Extracting'
          /\ Asks("SchematicPlanning") = SchematicPlan
          /\ Asks("SchematicPlanning")' = SchematicPlan'
          /\ Asks("BomPlanning") = BomPlan /\ Asks("BomPlanning")' = BomPlan'
          /\ Asks("ComponentPlacement") = Placing /\ Asks("ComponentPlacement")' = Placing'
          /\ Asks("RoutingPlanning") = Routing /\ Asks("RoutingPlanning")' = Routing'
      BY DEF Asks
    <3>2. QED
      BY <1>5, <3>1
  <2>4. Planned' = Planned
    <3>1. CASE Running = "EngineeringAnalysis"
      <4>1. Planned = Analyzing /\ Planned' = Analyzing'
        BY <1>1, <3>1 DEF Planned, Gates
      <4>2. QED
        BY <2>1, <4>1
    <3>2. CASE Running = "ConstraintExtraction"
      <4>1. Planned = Extracting /\ Planned' = Extracting'
        BY <1>1, <3>2 DEF Planned, Gates
      <4>2. QED
        BY <2>3, <4>1
    <3>3. CASE Running = "SchematicPlanning"
      <4>1. Planned = SchematicPlan /\ Planned' = SchematicPlan'
        BY <1>1, <3>3 DEF Planned, Gates
      <4>2. QED
        BY <2>3, <4>1
    <3>4. CASE Running = "BomPlanning"
      <4>1. Planned = BomPlan /\ Planned' = BomPlan'
        BY <1>1, <3>4 DEF Planned, Gates
      <4>2. QED
        BY <2>3, <4>1
    <3>5. CASE Running = "PcbFloorPlanning"
      <4>1. Planned = FloorPlan /\ Planned' = FloorPlan'
        BY <1>1, <3>5 DEF Planned, Gates
      <4>2. QED
        BY <2>2, <4>1
    <3>6. CASE Running = "ComponentPlacement"
      <4>1. Planned = Placing /\ Planned' = Placing'
        BY <1>1, <3>6 DEF Planned, Gates
      <4>2. QED
        BY <2>3, <4>1
    <3>7. CASE Running = "RoutingPlanning"
      <4>1. Planned = Routing /\ Planned' = Routing'
        BY <1>1, <3>7 DEF Planned, Gates
      <4>2. QED
        BY <2>3, <4>1
    <3>8. QED
      BY <1>7, <3>1, <3>2, <3>3, <3>4, <3>5, <3>6, <3>7 DEF Middle
  <2>5. QED
    BY <1>1, <1>4, <2>4
<1>8. CASE Running \in Gates
  <2>1. Findings(Running)' = Findings(Running)
    <3>1. \A gate \in Gates : Findings(gate)' = Findings(gate)
      BY <1>2, SameFindings
    <3>2. QED
      BY <1>1, <1>8, <3>1 DEF Findings
  <2>2. Raising(Running)' = Raising(Running)
    BY <1>3, <2>1 DEF Raising, CreateMissing
  <2>3. Planned = Raising(Running) /\ Planned' = Raising(Running)'
    BY <1>1, <1>8 DEF Planned, Gates
  <2>4. QED
    BY <1>1, <1>4, <2>2, <2>3
<1>9. CASE Running = "ManufacturingGeneration"
  <2>1. Planned = <<>>
    BY <1>9 DEF Planned, Gates
  <2>2. Planned' = <<>>
    BY <1>1, <1>9 DEF Planned, Gates
  <2>3. QED
    BY <1>1, <1>4, <2>1, <2>2
<1>10. QED
  BY <1>1, <1>4, <1>6, <1>7, <1>8, <1>9, PhasesAre

-----------------------------------------------------------------------------
(* What the projections ask of the live state *)

(* A name that is known is held. *)
LEMMA KnownIsHeld ==
  ASSUME NEW n, Known(n)
  PROVE  K!Holds(live, n)
<1>1. PICK e \in K!Entities(live, n[1]) : K!NameOf(e) = n
  BY DEF Known
<1>2. PICK i \in DOMAIN live[n[1]] : live[n[1]][i] = e
  BY EntitiesOf DEF ToSet
<1>3. n = <<e.kind, e.id>>
  BY <1>1 DEF K!NameOf
<1>4. live[n[1]][i].id = n[2]
  BY <1>2, <1>3
<1>5. QED
  BY <1>2, <1>4 DEF K!Holds

(* Nothing that a kind of the design names of another one is unknown. *)
LEMMA NothingUnknown ==
  ASSUME LiveInv, NEW kind \in DesignKinds, NEW other, NEW variant
  PROVE  K!ErrorUnknown(variant, live, K!NamedBy(live, kind, other)) = {}
<1>1. SUFFICES ASSUME NEW n \in K!NamedBy(live, kind, other) PROVE K!Holds(live, n)
  BY DEF K!ErrorUnknown
<1>2. PICK e \in K!Entities(live, kind) : n \in K!NamesOfKind(e, other)
  BY DEF K!NamedBy
<1>3. Known(n)
  BY <1>2 DEF LiveInv, Linked, K!NamesOfKind
<1>4. QED
  BY <1>3, KnownIsHeld

(* The requirements, the blocks and the schematic can always be lowered. *)
LEMMA AlwaysLowers ==
  ASSUME LiveInv
  PROVE  K!LowersToRequirement(live) /\ K!EngineeringIr(live) = {} /\ K!LowersToSchematic(live)
<1>1. \A kind \in DesignKinds : \A e \in K!Entities(live, kind) : \A n \in e.names : K!Holds(live, n)
  BY KnownIsHeld DEF LiveInv, Linked
<1>2. {"requirement", "block", "component", "net"} \subseteq DesignKinds
  BY DEF DesignKinds
<1>3. K!RequirementIr(live) = {}
  BY DEF LiveInv, Linked, Named, K!RequirementIr, K!ErrorEach
<1>4. K!EngineeringIr(live) = {}
  BY <1>1, <1>2 DEF LiveInv, Linked, Named, K!EngineeringIr, K!ErrorEach, K!NamesOfKind
<1>5. K!SchematicIr(live) = {}
  <2>1. \A c \in K!Entities(live, "component") : \E n \in K!NamesOfKind(c, "block") : K!Holds(live, n)
    BY <1>1, <1>2 DEF LiveInv, Linked, Named, K!NamesOfKind
  <2>2. K!ErrorUnknown("UnknownNetMember", live, K!NamedBy(live, "net", "pin")) = {}
    BY <1>2, NothingUnknown
  <2>3. QED
    BY <2>1, <2>2 DEF K!SchematicIr, K!ErrorEach
<1>6. QED
  BY <1>3, <1>4, <1>5 DEF K!LowersToRequirement, K!LowersToSchematic

(* An entity is named if one of the list names it. *)
LEMMA NamingIs ==
  \A kind, n : K!Naming(live, kind, n) /= {} <=> \E e \in K!Entities(live, kind) : n \in e.names
<1>1. SUFFICES ASSUME NEW kind, NEW n
               PROVE  K!Naming(live, kind, n) /= {} <=> \E e \in K!Entities(live, kind) : n \in e.names
  OBVIOUS
<1>2. K!Entities(live, kind) = {live[kind][i] : i \in DOMAIN live[kind]}
  BY EntitiesOf DEF ToSet
<1>3. K!Naming(live, kind, n) = {i \in DOMAIN live[kind] : n \in live[kind][i].names}
  BY DEF K!Naming
<1>4. QED
  BY <1>2, <1>3

(* Each component is on a line exactly when the lines cover its class. *)
LEMMA BomLowers ==
  ASSUME LiveInv
  PROVE  K!LowersToBom(live) <=> BomIr(DesignOf(live))
<1> DEFINE d == DesignOf(live)
<1>1. "line" \in DesignKinds /\ "component" \in DesignKinds
  BY DEF DesignKinds
<1>2. /\ K!ErrorUnknown("UnknownPart", live, K!NamedBy(live, "line", "part")) = {}
      /\ K!ErrorUnknown("LineItemUnknownComponent", live, K!NamedBy(live, "line", "component")) = {}
  BY <1>1, NothingUnknown
<1>3. K!BomIr(live) = {} <=>
        \A c \in K!Entities(live, "component") : K!Naming(live, "line", K!NameOf(c)) /= {}
  BY <1>2 DEF K!BomIr, K!ErrorEach
<1>4. /\ ToSet(d["component"]) = {c.id[1] : c \in K!Entities(live, "component")}
      /\ ToSet(d["line"]) = {l.id[1] : l \in K!Entities(live, "line")}
  BY <1>1, ItemsOf DEF LiveInv
<1> HIDE DEF d
<1>5. ASSUME NEW c \in K!Entities(live, "component")
      PROVE  K!Naming(live, "line", K!NameOf(c)) /= {} <=> ClassOf(c.id[1]) \in ToSet(d["line"])
  <2>1. K!Naming(live, "line", K!NameOf(c)) /= {} <=>
          \E l \in K!Entities(live, "line") : K!NameOf(c) \in l.names
    BY NamingIs
  <2>2. \A l \in K!Entities(live, "line") : K!NameOf(c) \in l.names <=> ClassOf(c.id[1]) = l.id[1]
    BY DEF LiveInv, Matched
  <2>3. QED
    BY <1>4, <2>1, <2>2
<1>6. BomIr(d) <=> \A c \in K!Entities(live, "component") : ClassOf(c.id[1]) \in ToSet(d["line"])
  BY <1>4 DEF BomIr, Covers
<1>7. K!LowersToBom(live) <=> K!BomIr(live) = {}
  BY AlwaysLowers DEF K!LowersToBom
<1>8. QED
  BY <1>3, <1>5, <1>6, <1>7 DEF d

(* Each component is placed exactly when one of the placements is its own. *)
LEMMA PcbLowers ==
  ASSUME LiveInv
  PROVE  K!LowersToPcb(live) <=> PcbIr(DesignOf(live))
<1> DEFINE d == DesignOf(live)
<1>1. "placement" \in DesignKinds /\ "component" \in DesignKinds /\ "board" \in DesignKinds
      /\ "track" \in DesignKinds
  BY DEF DesignKinds
<1>2. /\ K!ErrorUnknown("PlacementUnknownComponent", live,
           K!NamedBy(live, "placement", "component")) = {}
      /\ K!ErrorUnknown("TrackUnknownNet", live, K!NamedBy(live, "track", "net")) = {}
  BY <1>1, NothingUnknown
<1>3. K!PcbIr(live) = {} <=>
        /\ live["board"] /= <<>>
        /\ \A c \in K!Entities(live, "component") : K!Naming(live, "placement", K!NameOf(c)) /= {}
  BY <1>2 DEF K!PcbIr, K!ErrorEach
<1>4. /\ ToSet(d["component"]) = {c.id[1] : c \in K!Entities(live, "component")}
      /\ ToSet(d["placement"]) = {p.id[1] : p \in K!Entities(live, "placement")}
      /\ d["board"] = <<>> <=> live["board"] = <<>>
  BY <1>1, ItemsOf DEF LiveInv
<1> HIDE DEF d
<1>5. ASSUME NEW c \in K!Entities(live, "component")
      PROVE  K!Naming(live, "placement", K!NameOf(c)) /= {} <=>
               \E p \in ToSet(d["placement"]) : p.component = c.id[1]
  <2>1. K!Naming(live, "placement", K!NameOf(c)) /= {} <=>
          \E p \in K!Entities(live, "placement") : K!NameOf(c) \in p.names
    BY NamingIs
  <2>2. \A p \in K!Entities(live, "placement") : K!NameOf(c) \in p.names <=> c.id[1] = p.id[1].component
    BY DEF LiveInv, Matched
  <2>3. QED
    BY <1>4, <2>1, <2>2
<1>6. PcbIr(d) <=>
        /\ live["board"] /= <<>>
        /\ \A c \in K!Entities(live, "component") :
             \E p \in ToSet(d["placement"]) : p.component = c.id[1]
  BY <1>4 DEF PcbIr
<1>7. K!LowersToPcb(live) <=> K!PcbIr(live) = {}
  BY AlwaysLowers DEF K!LowersToPcb
<1>8. QED
  BY <1>3, <1>5, <1>6, <1>7 DEF d

(* The join asks for nothing more. *)
LEMMA ManufacturingLowers ==
  ASSUME LiveInv
  PROVE  K!LowersToManufacturing(live) <=> ManufacturingIr(DesignOf(live))
<1>1. K!LowersToBom(live) /\ K!LowersToPcb(live) <=> ManufacturingIr(DesignOf(live))
  BY BomLowers, PcbLowers DEF ManufacturingIr
<1>2. ASSUME K!LowersToBom(live) PROVE K!ManufacturingIr(live) = {}
  <2>1. {"line", "component", "placement"} \subseteq DesignKinds
    BY DEF DesignKinds
  <2>2. \A c \in K!Entities(live, "component") : K!Naming(live, "line", K!NameOf(c)) /= {}
    BY <1>2 DEF K!LowersToBom, K!BomIr, K!ErrorEach
  <2>3. ASSUME NEW p \in K!Entities(live, "placement")
        PROVE  /\ K!Holds(live, K!Placed(p))
               /\ K!Naming(live, "line", K!Placed(p)) /= {}
    <3>1. \E n \in p.names : n[1] = "component"
      BY DEF LiveInv, Linked, Named, K!NamesOfKind
    <3>2. K!Placed(p) \in p.names /\ K!Placed(p)[1] = "component"
      BY <3>1 DEF K!Placed
    <3>3. Known(K!Placed(p))
      BY <2>1, <3>2 DEF LiveInv, Linked
    <3>4. PICK c \in K!Entities(live, "component") : K!NameOf(c) = K!Placed(p)
      BY <3>2, <3>3 DEF Known
    <3>5. QED
      BY <2>2, <3>3, <3>4, KnownIsHeld
  <2>4. ASSUME NEW i \in DOMAIN live["line"]
        PROVE  K!ErrorUnknown("UnknownPart", live, K!NamesOfKind(live["line"][i], "part")) = {}
    <3>1. live["line"][i] \in K!Entities(live, "line")
      BY EntitiesOf DEF ToSet
    <3>2. \A n \in live["line"][i].names : K!Holds(live, n)
      BY <2>1, <3>1, KnownIsHeld DEF LiveInv, Linked
    <3>3. QED
      BY <3>2 DEF K!ErrorUnknown, K!NamesOfKind
  <2>5. QED
    BY <2>3, <2>4 DEF K!ManufacturingIr
<1>3. QED
  BY <1>1, <1>2 DEF K!LowersToManufacturing

\* What Workflow asks of the design that a phase leaves.
PassesFor(phase, d) ==
  CASE phase = "BomPlanning" -> BomIr(d)
    [] phase = "PcbFloorPlanning" -> d["board"] /= <<>>
    [] phase \in {"ComponentPlacement", "RoutingPlanning"} -> PcbIr(d)
    [] phase \in Gates -> OwnOpenBlocking(phase, d) = {}
    [] phase = "ManufacturingGeneration" -> OpenBlocking(d) = {} /\ ManufacturingIr(d)
    [] phase = "RequirementPlanning" -> d["requirement"] /= <<>>
    [] OTHER -> TRUE

(* It passes when Workflow says so. *)
LEMMA PassesMeans ==
  ASSUME LiveInv, Running \in DefaultNames
  PROVE  Passes <=> PassesFor(Running, DesignOf(live))
<1>1. \A kind \in {"board", "requirement"} : DesignOf(live)[kind] = <<>> <=> live[kind] = <<>>
  BY ItemsOf DEF LiveInv, DesignKinds
<1>2. K!LowersToRequirement(live) /\ K!EngineeringIr(live) = {} /\ K!LowersToSchematic(live)
  BY AlwaysLowers
<1>3. /\ K!LowersToBom(live) <=> BomIr(DesignOf(live))
      /\ K!LowersToPcb(live) <=> PcbIr(DesignOf(live))
      /\ K!LowersToManufacturing(live) <=> ManufacturingIr(DesignOf(live))
  BY BomLowers, PcbLowers, ManufacturingLowers
<1>4. CASE Running = "RequirementPlanning"
  BY <1>1, <1>2, <1>4 DEF Passes, PassesFor, Gates
<1>5. CASE Running \in Middle
  <2>1. /\ Running = "EngineeringAnalysis" => Passes /\ PassesFor(Running, DesignOf(live))
        /\ Running = "ConstraintExtraction" => Passes /\ PassesFor(Running, DesignOf(live))
        /\ Running = "SchematicPlanning" => Passes /\ PassesFor(Running, DesignOf(live))
    BY <1>2 DEF Passes, PassesFor, Gates
  <2>2. Running = "BomPlanning" => (Passes <=> PassesFor(Running, DesignOf(live)))
    BY <1>3 DEF Passes, PassesFor, Gates
  <2>3. Running = "PcbFloorPlanning" => (Passes <=> PassesFor(Running, DesignOf(live)))
    BY <1>1 DEF Passes, PassesFor, Gates
  <2>4. Running \in {"ComponentPlacement", "RoutingPlanning"} =>
          (Passes <=> PassesFor(Running, DesignOf(live)))
    BY <1>3 DEF Passes, PassesFor, Gates
  <2>5. QED
    BY <1>5, <2>1, <2>2, <2>3, <2>4 DEF Middle
<1>6. CASE Running \in Gates
  <2>1. Passes <=> OwnOpenBlocking(Running, DesignOf(live)) = {}
    BY <1>6 DEF Passes, Gates
  <2>2. PassesFor(Running, DesignOf(live)) <=> OwnOpenBlocking(Running, DesignOf(live)) = {}
    BY <1>6 DEF PassesFor, Gates
  <2>3. QED
    BY <2>1, <2>2
<1>7. CASE Running = "ManufacturingGeneration"
  BY <1>3, <1>7 DEF Passes, PassesFor, Gates
<1>8. QED
  BY <1>4, <1>5, <1>6, <1>7, PhasesAre

-----------------------------------------------------------------------------
(* One request after another *)

\* What is left of a list after its first k items.
Rest(s, k) == SubSeq(s, k + 1, Len(s))

(* The next item is the first of the rest. *)
LEMMA RestFacts ==
  ASSUME NEW s, IsList(s), NEW k \in 0 .. Len(s)
  PROVE  /\ Len(s) \in Nat /\ Rest(s, 0) = s /\ SubSeq(s, 1, 0) = <<>>
         /\ SubSeq(s, 1, Len(s)) = s
         /\ Rest(s, k) = <<>> <=> k = Len(s)
         /\ Rest(s, k) /= <<>> =>
              /\ k + 1 \in 1 .. Len(s)
              /\ Head(Rest(s, k)) = s[k + 1] /\ s[k + 1] \in ToSet(s)
              /\ Tail(Rest(s, k)) = Rest(s, k + 1)
              /\ SubSeq(s, 1, k + 1) = Append(SubSeq(s, 1, k), s[k + 1])
<1> DEFINE S == ToSet(s)
           N == Len(s)
<1>1. /\ s \in Seq(S) /\ N \in Nat /\ N = Len(s) /\ DOMAIN s = 1 .. N
      /\ \A i \in 1 .. N : s[i] \in S
  BY ListOfSeq DEF IsList
<1> HIDE DEF S, N
<1>2. k \in 0 .. N
  BY <1>1
<1>3. k \in Nat /\ k <= N
  BY <1>1, <1>2
<1>4. Rest(s, 0) = s /\ SubSeq(s, 1, 0) = <<>> /\ SubSeq(s, 1, N) = s
  BY <1>1 DEF Rest
<1>5. Rest(s, k) = [i \in 1 .. N - k |-> s[k + i]]
  BY <1>1, <1>3 DEF Rest
<1>6. \A i \in 1 .. N - k : k + i \in 1 .. N
  BY <1>1, <1>3
<1>7. Rest(s, k) \in Seq(S) /\ Len(Rest(s, k)) = N - k
  <2>1. N - k \in Nat
    BY <1>1, <1>3
  <2>2. Rest(s, k) \in [1 .. N - k -> S]
    BY <1>1, <1>5, <1>6
  <2>3. QED
    BY <1>5, <2>1, <2>2
<1>8. Rest(s, k) = <<>> <=> k = N
  <2>1. Rest(s, k) = <<>> <=> Len(Rest(s, k)) = 0
    BY <1>7
  <2>2. QED
    BY <1>1, <1>3, <1>7, <2>1
<1>9. ASSUME Rest(s, k) /= <<>>
      PROVE  /\ k + 1 \in 1 .. N
             /\ Head(Rest(s, k)) = s[k + 1] /\ s[k + 1] \in S
             /\ Tail(Rest(s, k)) = Rest(s, k + 1)
             /\ SubSeq(s, 1, k + 1) = Append(SubSeq(s, 1, k), s[k + 1])
  <2>1. k + 1 \in 1 .. N
    BY <1>1, <1>3, <1>8, <1>9
  <2>2. s[k + 1] \in S
    BY <1>1, <2>1
  <2>3. Head(Rest(s, k)) = s[k + 1]
    <3>1. Head(Rest(s, k)) = Rest(s, k)[1] /\ 1 \in 1 .. N - k
      BY <1>3, <1>7, <1>9, <2>1
    <3>2. QED
      BY <1>5, <3>1
  <2>4. Tail(Rest(s, k)) = Rest(s, k + 1)
    BY <1>1, <1>3, <2>1 DEF Rest
  <2>5. SubSeq(s, 1, k + 1) = Append(SubSeq(s, 1, k), s[k + 1])
    BY <1>1, <1>3, <2>1
  <2>6. QED
    BY <2>1, <2>2, <2>3, <2>4, <2>5
<1>10. QED
  BY <1>1, <1>4, <1>8, <1>9 DEF S

(* A request for an item more. *)
LEMMA CreateAppend ==
  ASSUME NEW items, IsList(items), NEW kind, NEW x
  PROVE  Create(kind, Append(items, x)) = Append(Create(kind, items), [kind |-> kind, item |-> x])
<1> DEFINE S == ToSet(items) \cup {x}
           T == {[kind |-> kind, item |-> y] : y \in S}
           N == Len(items)
<1>1. items \in Seq(S) /\ x \in S
  BY ListOfWider
<1> HIDE DEF S
<1>2. /\ N \in Nat /\ DOMAIN items = 1 .. N /\ DOMAIN Append(items, x) = 1 .. N + 1
      /\ \A i \in 1 .. N : Append(items, x)[i] = items[i]
      /\ Append(items, x)[N + 1] = x
  BY <1>1, AppendFacts
<1>3. \A i \in 1 .. N : items[i] \in S
  BY <1>1
<1> HIDE DEF N
<1>4. Create(kind, items) = [i \in 1 .. N |-> [kind |-> kind, item |-> items[i]]]
  BY <1>2 DEF Create
<1>5. Create(kind, items) \in Seq(T) /\ Len(Create(kind, items)) = N
  BY <1>2, <1>3, <1>4
<1>6. Create(kind, Append(items, x))
        = [i \in 1 .. N + 1 |-> [kind |-> kind, item |-> IF i = N + 1 THEN x ELSE items[i]]]
  BY <1>2 DEF Create
<1>7. Append(Create(kind, items), [kind |-> kind, item |-> x])
        = [i \in 1 .. N + 1 |-> IF i = N + 1 THEN [kind |-> kind, item |-> x]
                                ELSE Create(kind, items)[i]]
  BY <1>2, <1>5
<1>8. QED
  BY <1>2, <1>4, <1>6, <1>7

(* What a phase asks for is sound on the design that it has made so far. *)
LEMMA AsksSoundly ==
  ASSUME BuildInv, Lowered, LiveInv, Running \in DefaultNames, NEW r \in ToSet(Planned),
         NEW k \in 0 .. Len(Planned),
         Running /= "RequirementPlanning" => DesignOf(live) = Committed(SubSeq(Planned, 1, k))
  PROVE  /\ r.kind \in Writes(Running) /\ r.kind \in DesignKinds \ {"waiver"}
         /\ r.kind = "violation" => WellFound(r.item)
         /\ r.kind = "component" => live["line"] = <<>> /\ live["placement"] = <<>>
<1>1. WorkflowInv /\ DesignLists /\ Built
  BY DEF BuildInv, WorkflowInv
<1>2. SendsOnly(Planned, Writes(Running)) /\ Writes(Running) \subseteq DesignKinds \ {"waiver"}
  BY <1>1, PlannedSends
<1>3. r.kind \in Writes(Running) /\ r.kind \in DesignKinds \ {"waiver"}
  BY <1>2 DEF SendsOnly
<1>4. ASSUME r.kind = "violation" PROVE WellFound(r.item)
  <2>1. Running \in Gates
    BY <1>3, <1>4 DEF Writes, Gates
  <2>2. Planned = Raising(Running)
    BY <2>1 DEF Planned, Gates
  <2>3. r \in {[kind |-> "violation", item |-> f] : f \in ToSet(Findings(Running)) \ Made("violation")}
    BY <1>1, <2>1, <2>2, RaisingFacts
  <2>4. PICK f \in ToSet(Findings(Running)) : r = [kind |-> "violation", item |-> f]
    BY <2>3
  <2>5. QED
    BY <1>1, <2>1, <2>4, FindingsWell DEF AllWellFound
<1>5. ASSUME r.kind = "component" PROVE live["line"] = <<>> /\ live["placement"] = <<>>
  <2>1. Running = "SchematicPlanning"
    BY <1>3, <1>5 DEF Writes, Gates
  <2>2. Planned = SchematicPlan /\ Writes(Running) = {"component", "net"}
    BY <2>1 DEF Planned, Writes, Gates
  <2>3. design["component"] = <<>>
    <3>1. Planned /= <<>>
      BY EmptyList
    <3>2. QED
      BY <2>2, <3>1 DEF SchematicPlan
  <2>4. design["line"] = <<>>
    BY <2>3 DEF Lowered
  <2>5. design["placement"] = <<>>
    <3>1. Made("placement") = {} /\ IsList(design["placement"])
      BY <1>1, <2>3, NothingBuilt DEF DesignLists, DesignKinds
    <3>2. QED
      BY <3>1, NoItems DEF Made
  <2>6. SendsOnly(SubSeq(Planned, 1, k), {"component", "net"})
    BY <1>2, <2>2, SendsPrefix
  <2>7. {"component", "net"} \in SUBSET DesignKinds
    BY DEF DesignKinds
  <2>8. \A kind \in DesignKinds : kind \notin {"component", "net"} =>
          Committed(SubSeq(Planned, 1, k))[kind] = design[kind]
    BY <1>1, <2>6, <2>7, CommittedFacts
  <2>9. DesignOf(live)["line"] = <<>> /\ DesignOf(live)["placement"] = <<>>
    BY <2>1, <2>4, <2>5, <2>8 DEF DesignKinds
  <2>10. "line" \in DesignKinds /\ "placement" \in DesignKinds
    BY DEF DesignKinds
  <2>11. QED
    BY <2>9, <2>10, ItemsOf DEF LiveInv
<1>6. QED
  BY <1>3, <1>4, <1>5

-----------------------------------------------------------------------------
(* The invariant of a process *)

\* The numbers of the first k candidates, without those that are gone.
Kept(k, gone) == Keep([c \in 1 .. k |-> c], (1 .. k) \ gone)

\* A phase has sent its first k requests; one error is the end of it.
SentUpTo(k) ==
  /\ DesignOf(live) = Committed(SubSeq(Planned, 1, k))
  /\ stage = "sending" => lost = 0 /\ todo = Rest(Planned, k)
  /\ stage = "passing" => lost = 0 /\ k = Len(Planned) /\ Passes
  /\ stage = "failing" => lost = 1 \/ (lost = 0 /\ k = Len(Planned) /\ ~Passes)

\* The agent has tried the first k candidates, and those that are gone met an error; it
\* fails for want of a requirement, or on an error more.
TriedUpTo(k, gone) ==
  /\ DesignOf(live) = Committed(Create("requirement", Kept(k, gone)))
  /\ stage = "sending" => lost = Cardinality(gone) /\ todo = Rest(Planned, k)
  /\ stage \in {"passing", "failing"} => k = Len(candidates)
  /\ stage = "passing" => lost = Cardinality(gone) /\ live["requirement"] /= <<>>
  /\ stage = "failing" =>
       lost = Cardinality(gone) + (IF live["requirement"] = <<>> THEN 0 ELSE 1)

InPhase ==
  /\ Iterates
  /\ stage \in {"sending", "passing", "failing"}
  /\ \/ Running /= "RequirementPlanning" /\ \E k \in 0 .. Len(Planned) : SentUpTo(k)
     \/ /\ Running = "RequirementPlanning"
        /\ \E k \in 0 .. Len(candidates) : \E gone \in SUBSET (1 .. k) : TriedUpTo(k, gone)

\* Nothing has happened yet.
AtRest ==
  /\ live = K!EmptyState
  /\ design = EmptyDesign
  /\ stage = "idle"
  /\ lost = 0 /\ dropped = 0 /\ faults = 0

\* The kernel serves: between two phases the workflow's design is what is live.
Serves ==
  /\ IsList(records)
  /\ LiveInv
  /\ lost \in Nat /\ dropped \in Nat /\ faults + lost + dropped <= MaxFaults
  /\ \/ stage = "idle" /\ lost = 0 /\ design = DesignOf(live)
     \/ InPhase

ProcessInv ==
  \/ status = "down" /\ boots = 1
  \/ status = "down" /\ boots = 0 /\ file = K!EmptyFile /\ AtRest
  \/ status = "starting" /\ boots = 1 /\ IsList(records) /\ AtRest
  \/ status = "running" /\ boots = 1 /\ Serves

PipelineInv == BuildInv /\ Lowered /\ ProcessInv

-----------------------------------------------------------------------------
(* The steps: each keeps the invariant, and is a step of Workflow or none *)

\* What there is to show of a step.
Maps == ProcessInv' /\ (WorkflowNext \/ UNCHANGED workflowVars)

(* A phase that runs is one of the plan. *)
LEMMA RunningIs ==
  ASSUME BuildInv, Iterates
  PROVE  /\ Running \in DefaultNames /\ At(Running)
         /\ Running = "RequirementPlanning" => design["requirement"] = <<>>
<1>1. /\ ReleaseInv /\ plan.names \in Seq(DefaultNames) /\ cursor \in Nat \ {0}
      /\ NumPhases = Len(plan.names) /\ Untouched
  BY DEF BuildInv, WorkflowInv, ReleaseInv, PlanIsTail, NumPhases
<1>2. cursor <= NumPhases /\ pc = "running"
  BY DEF Iterates
<1>3. Running \in DefaultNames /\ At(Running)
  BY <1>1, <1>2 DEF Running, At
<1>4. Place \in 1 .. NumDefault /\ PhaseNames[Place] = Running
  BY <1>1, <1>3, AtPlace
<1>5. Running = "RequirementPlanning" => Place = 1
  BY <1>4, PhasePlaces
<1>6. QED
  BY <1>1, <1>2, <1>3, <1>5 DEF Untouched

(* What a phase of the plan does is a step of Workflow. *)
LEMMA RunIsStep ==
  ASSUME Running \in Middle \cup Gates, At(Running),
         \/ Interrupted(Planned)
         \/ /\ design' = Committed(Planned)
            /\ IF PassesFor(Running, design') THEN PhaseSucceeds ELSE PhaseFails
            /\ UNCHANGED <<candidates, runVars>>
  PROVE  WorkflowNext
<1>1. PhaseRun(Running, Planned, PassesFor(Running, design'))
  BY DEF PhaseRun
<1>2. CASE Running = "EngineeringAnalysis"
  <2>1. Planned = Analyzing /\ (PassesFor(Running, design') <=> TRUE)
    BY <1>2 DEF Planned, PassesFor, Gates
  <2>2. EngineeringAnalysis
    BY <1>1, <1>2, <2>1 DEF EngineeringAnalysis, PhaseRun
  <2>3. QED
    BY <2>2 DEF WorkflowNext
<1>3. CASE Running = "ConstraintExtraction"
  <2>1. Planned = Extracting /\ (PassesFor(Running, design') <=> TRUE)
    BY <1>3 DEF Planned, PassesFor, Gates
  <2>2. ConstraintExtraction
    BY <1>1, <1>3, <2>1 DEF ConstraintExtraction, PhaseRun
  <2>3. QED
    BY <2>2 DEF WorkflowNext
<1>4. CASE Running = "SchematicPlanning"
  <2>1. Planned = SchematicPlan /\ (PassesFor(Running, design') <=> TRUE)
    BY <1>4 DEF Planned, PassesFor, Gates
  <2>2. SchematicPlanning
    BY <1>1, <1>4, <2>1 DEF SchematicPlanning, PhaseRun
  <2>3. QED
    BY <2>2 DEF WorkflowNext
<1>5. CASE Running = "BomPlanning"
  <2>1. Planned = BomPlan /\ (PassesFor(Running, design') <=> BomIr(design'))
    BY <1>5 DEF Planned, PassesFor, Gates
  <2>2. BomPlanning
    BY <1>1, <1>5, <2>1 DEF BomPlanning, PhaseRun
  <2>3. QED
    BY <2>2 DEF WorkflowNext
<1>6. CASE Running = "PcbFloorPlanning"
  <2>1. Planned = FloorPlan /\ (PassesFor(Running, design') <=> design'["board"] /= <<>>)
    BY <1>6 DEF Planned, PassesFor, Gates
  <2>2. PcbFloorPlanning
    BY <1>1, <1>6, <2>1 DEF PcbFloorPlanning, PhaseRun
  <2>3. QED
    BY <2>2 DEF WorkflowNext
<1>7. CASE Running = "ComponentPlacement"
  <2>1. Planned = Placing /\ (PassesFor(Running, design') <=> PcbIr(design'))
    BY <1>7 DEF Planned, PassesFor, Gates
  <2>2. ComponentPlacement
    BY <1>1, <1>7, <2>1 DEF ComponentPlacement, PhaseRun
  <2>3. QED
    BY <2>2 DEF WorkflowNext
<1>8. CASE Running = "RoutingPlanning"
  <2>1. Planned = Routing /\ (PassesFor(Running, design') <=> PcbIr(design'))
    BY <1>8 DEF Planned, PassesFor, Gates
  <2>2. RoutingPlanning
    BY <1>1, <1>8, <2>1 DEF RoutingPlanning, PhaseRun
  <2>3. QED
    BY <2>2 DEF WorkflowNext
<1>9. CASE Running \in Gates
  <2>1. /\ Planned = Raising(Running)
        /\ PassesFor(Running, design') <=> OwnOpenBlocking(Running, design') = {}
    BY <1>9 DEF Planned, PassesFor, Gates
  <2>2. Verifying(Running)
    BY <1>1, <2>1 DEF Verifying, PhaseRun
  <2>3. QED
    BY <1>9, <2>2 DEF WorkflowNext, Gates, ConstraintVerification, ErcVerification,
         BomVerification, DrcVerification, DfmVerification, EmcAnalysis
<1>10. QED
  BY <1>2, <1>3, <1>4, <1>5, <1>6, <1>7, <1>8, <1>9 DEF Middle

(* A process that has died stays so. *)
LEMMA Dead ==
  ASSUME boots = 1, boots' = boots, status' = "down"
  PROVE  ProcessInv'
BY DEF ProcessInv

(* What is committed of no requests. *)
LEMMA NothingSent ==
  ASSUME DesignLists
  PROVE  Committed(<<>>) = design
<1>1. SendsOnly(<<>>, {}) /\ {} \in SUBSET DesignKinds
  BY SendsNothing
<1>2. PICK f : CommitsUpTo(f, <<>>) /\ Committed(<<>>) = f[Len(<<>>)]
  BY <1>1, CommittedSteps
<1>3. Len(<<>>) = 0
  OBVIOUS
<1>4. QED
  BY <1>2, <1>3 DEF CommitsUpTo

(* The intent is what makes the first live state. *)
LEMMA IntentIsLive ==
  ASSUME AtRest, NEW intent \in Intents, live' = K!Apply(live, intent)
  PROVE  LiveInv' /\ DesignOf(live') = design
<1>1. intent.kind = "intent"
  BY PipelineAssumption DEF K!OfKind
<1>2. live' = [K!EmptyState EXCEPT !["intent"] = <<intent>>]
  BY <1>1 DEF AtRest, K!Apply, K!SingleKinds
<1>3. "intent" \in K!StateKinds /\ "intent" \notin DesignKinds /\ DesignKinds \subseteq K!StateKinds
      /\ NamedKinds \subseteq K!StateKinds
  BY DEF K!StateKinds, K!SingleKinds, K!ListKinds, DesignKinds, NamedKinds
<1>4. /\ live' = [kind \in K!StateKinds |-> live'[kind]]
      /\ live'["intent"] = <<intent>>
      /\ \A kind \in K!StateKinds \ {"intent"} : live'[kind] = <<>>
  BY <1>2, <1>3 DEF K!EmptyState
<1>5. StateLists'
  BY <1>4, OneItem, EmptyList DEF StateLists
<1>6. /\ K!Entities(live', "intent") = {intent}
      /\ \A kind \in K!StateKinds \ {"intent"} : K!Entities(live', kind) = {}
  BY <1>4, EntitiesOf, OneItem, EmptyList
<1>7. OwnKinds'
  BY <1>1, <1>3, <1>6 DEF OwnKinds
<1>8. Linked' /\ Matched'
  <2>1. live'["intent"] /= <<>>
    <3>1. ToSet(live'["intent"]) /= ToSet(<<>>)
      BY <1>4, OneItem, EmptyList
    <3>2. QED
      BY <3>1
  <2>2. {"requirement", "block", "component", "placement", "line"} \subseteq DesignKinds
    BY DEF DesignKinds
  <2>3. \A kind \in DesignKinds : K!Entities(live', kind) = {}
    BY <1>3, <1>6
  <2>4. QED
    BY <2>1, <2>2, <2>3 DEF Linked, Named, Matched
<1>9. DesignOf(live') = design
  <2>1. \A kind \in DesignKinds : live'[kind] = <<>>
    BY <1>3, <1>4
  <2>2. \A kind \in DesignKinds : [i \in DOMAIN live'[kind] |-> live'[kind][i].id[1]] = <<>>
    BY <2>1
  <2>3. DesignOf(live') = [kind \in DesignKinds |-> <<>>]
    BY <2>2 DEF DesignOf
  <2>4. QED
    BY <2>3 DEF AtRest, EmptyDesign
<1>10. QED
  BY <1>5, <1>7, <1>8, <1>9 DEF LiveInv

(* The process starts, on an empty log, with its intent. *)
LEMMA StartsMaps ==
  ASSUME PipelineInv, Starts
  PROVE  Maps
<1>1. UNCHANGED <<workflowVars, phaseVars>>
  BY DEF Starts
<1>2. /\ design' = design /\ faults' = faults /\ stage' = stage /\ lost' = lost
      /\ dropped' = dropped
  BY <1>1 DEF workflowVars, designVars, runVars, phaseVars
<1>3. CASE K!Boot
  <2>1. status = "down" /\ boots < 1 /\ boots' = boots + 1 /\ status' = "starting" /\ live' = live
    BY <1>3 DEF K!Boot
  <2>2. boots = 0 /\ file = K!EmptyFile /\ AtRest
    BY <2>1 DEF PipelineInv, ProcessInv
  <2>3. records' = <<>> \/ records' = file.lines
    BY <1>3 DEF K!Boot
  <2>4. records' = <<>>
    BY <2>2, <2>3 DEF K!EmptyFile
  <2>5. IsList(records')
    BY <2>4, EmptyList
  <2>6. AtRest'
    BY <1>2, <2>1, <2>2 DEF AtRest
  <2>7. ProcessInv'
    BY <2>1, <2>2, <2>5, <2>6 DEF ProcessInv
  <2>8. QED
    BY <1>1, <2>7 DEF Maps
<1>4. ASSUME NEW intent \in Intents, K!CaptureIntent(intent) PROVE Maps
  <2>1. status = "starting" /\ boots' = boots
    BY <1>4 DEF K!CaptureIntent
  <2>2. boots = 1 /\ IsList(records) /\ AtRest
    BY <2>1 DEF PipelineInv, ProcessInv
  <2>3. CASE status' = "down"
    BY <1>1, <2>1, <2>2, <2>3, Dead DEF Maps
  <2>4. CASE status' /= "down"
    <3>1. /\ K!Appends(<<intent>>) /\ live' = K!Apply(live, intent) /\ status' = "running"
      BY <1>4, <2>4 DEF K!CaptureIntent, K!Dies, K!DiesInAppend
    <3>2. IsList(records')
      <4>1. IsList(<<intent>>)
        BY OneItem
      <4>2. IsList(K!Records(Len(records), <<intent>>))
        BY <4>1, RecordsList
      <4>3. QED
        BY <2>2, <3>1, <4>2, ListConcat DEF K!Appends
    <3>3. LiveInv' /\ DesignOf(live') = design
      BY <2>2, <3>1, IntentIsLive
    <3>4. Serves'
      <4>1. stage' = "idle" /\ lost' = 0 /\ dropped' = 0 /\ faults' = 0 /\ design' = DesignOf(live')
        BY <1>2, <2>2, <3>3 DEF AtRest
      <4>2. faults' + lost' + dropped' <= MaxFaults
        BY <4>1, WorkflowAssumption
      <4>3. QED
        BY <3>2, <3>3, <4>1, <4>2 DEF Serves
    <3>5. QED
      BY <1>1, <2>1, <2>2, <3>1, <3>4 DEF Maps, ProcessInv
  <2>5. QED
    BY <2>3, <2>4
<1>5. QED
  BY <1>3, <1>4 DEF Starts

(* What the invariant says while the kernel serves. *)
LEMMA Serving ==
  ASSUME PipelineInv, status = "running"
  PROVE  /\ boots = 1 /\ Serves /\ IsList(records) /\ LiveInv
         /\ BuildInv /\ Lowered /\ DesignLists /\ WorkflowTypeOK /\ ReleaseInv
         /\ candidates \in Seq(Candidate) /\ faults \in Nat /\ released \in BOOLEAN
         /\ lost \in Nat /\ dropped \in Nat /\ faults + lost + dropped <= MaxFaults
<1>1. boots = 1 /\ Serves
  BY DEF PipelineInv, ProcessInv
<1>2. BuildInv /\ Lowered /\ DesignLists /\ WorkflowTypeOK /\ ReleaseInv
  BY DEF PipelineInv, BuildInv, WorkflowInv
<1>3. candidates \in Seq(Candidate) /\ faults \in Nat /\ released \in BOOLEAN
  BY <1>2, WorkflowAssumption DEF WorkflowTypeOK
<1>4. QED
  BY <1>1, <1>2, <1>3 DEF Serves

(* An event changes nothing that is live, answered or not. *)
LEMMA EventGives ==
  ASSUME PipelineInv, NEW item, K!Emit(EventFor(item))
  PROVE  /\ status = "running" /\ boots' = boots
         /\ status' = "running" => IsList(records')
         /\ Answers(EventFor(item)) \/ Refuses(EventFor(item)) =>
              /\ status' = "running" /\ live' = live /\ DesignOf(live') = DesignOf(live)
              /\ candidates' = candidates => LiveInv'
<1> DEFINE r == EventFor(item)
<1>1. status = "running" /\ K!Submit(r)
  BY DEF K!Emit, K!Requested
<1>2. IsList(records) /\ LiveInv
  BY <1>1, Serving
<1>3. WellFormed(r) /\ K!Fold(live, r) = live
  BY <1>2, EventFolds DEF LiveInv
<1> HIDE DEF r
<1>4. /\ boots' = boots
      /\ status' = "down" \/ (status' = status /\ IsList(records'))
      /\ Answers(r) => live' = K!Fold(live, r)
      /\ Refuses(r) => live' = live
  BY <1>1, <1>2, <1>3, SubmitGives
<1>5. Answers(r) \/ Refuses(r) => status' = "running" /\ live' = live
  BY <1>3, <1>4 DEF Answers, Refuses
<1>6. live' = live /\ candidates' = candidates => LiveInv'
  BY <1>2, LiveKept
<1>7. QED
  BY <1>1, <1>4, <1>5, <1>6 DEF r

(* A phase opens, or fails before it sends anything. *)
LEMMA EntersMaps ==
  ASSUME PipelineInv, Enters
  PROVE  Maps
<1> DEFINE r == EventFor("entered")
<1>1. /\ stage = "idle" /\ Iterates /\ UNCHANGED <<candidates, runs, dropped>> /\ K!Emit(r)
      /\ \/ /\ Answers(r)
            /\ stage' = "sending"
            /\ todo' = Planned
            /\ UNCHANGED <<vars, design, released, faults, lost>>
         \/ /\ Refuses(r)
            /\ PhaseFails
            /\ design' = DesignOf(live)
            /\ faults' = faults + 1
            /\ UNCHANGED <<stage, todo, lost, released>>
         \/ NoAnswer
  BY DEF Enters
<1>2. /\ status = "running" /\ boots' = boots
      /\ status' = "running" => IsList(records')
      /\ Answers(r) \/ Refuses(r) =>
           status' = "running" /\ live' = live /\ DesignOf(live') = DesignOf(live) /\ LiveInv'
  BY <1>1, EventGives
<1> HIDE DEF r
<1>3. /\ boots = 1 /\ Serves /\ LiveInv /\ BuildInv /\ DesignLists /\ candidates \in Seq(Candidate)
      /\ faults \in Nat /\ released \in BOOLEAN
      /\ lost \in Nat /\ dropped \in Nat /\ faults + lost + dropped <= MaxFaults
  BY <1>2, Serving
<1>4. lost = 0 /\ design = DesignOf(live)
  BY <1>1, <1>3 DEF Serves, InPhase
<1>5. /\ Running \in DefaultNames /\ At(Running)
      /\ Running = "RequirementPlanning" => design["requirement"] = <<>>
  BY <1>1, <1>3, RunningIs
<1>6. SendsOnly(Planned, Writes(Running))
  BY <1>3, <1>5, PlannedSends DEF BuildInv
<1>7. IsList(Planned) /\ 0 \in 0 .. Len(Planned)
  BY <1>6, ListOfSeq DEF SendsOnly, IsList
<1>8. SubSeq(Planned, 1, 0) = <<>> /\ Rest(Planned, 0) = Planned
  BY <1>7, RestFacts
<1>9. Committed(<<>>) = design
  BY <1>3, NothingSent
<1>10. CASE NoAnswer
  <2>1. status' = "down" /\ UNCHANGED workflowVars
    BY <1>10 DEF NoAnswer
  <2>2. QED
    BY <1>2, <1>3, <2>1, Dead DEF Maps
<1>11. CASE /\ Answers(r)
            /\ stage' = "sending"
            /\ todo' = Planned
            /\ UNCHANGED <<vars, design, released, faults, lost>>
  <2>1. UNCHANGED workflowVars
    BY <1>1, <1>11 DEF workflowVars, designVars, runVars
  <2>2. UNCHANGED <<designVars, plan, cursor>> /\ UNCHANGED vars
    BY <1>1, <1>11 DEF designVars, vars
  <2>3. /\ Running' = Running /\ Planned' = Planned
        /\ \A requests : Committed(requests)' = Committed(requests)
    BY <1>5, <2>2, PlannedStays
  <2>4. Iterates'
    BY <1>1, <2>2 DEF Iterates, NumPhases, vars
  <2>5. CASE Running /= "RequirementPlanning"
    <3>1. Committed(SubSeq(Planned, 1, 0))' = design
      BY <1>8, <1>9, <2>3
    <3>2. SentUpTo(0)'
      BY <1>2, <1>4, <1>8, <1>11, <2>3, <3>1 DEF SentUpTo
    <3>3. InPhase'
      BY <1>7, <1>11, <2>3, <2>4, <2>5, <3>2 DEF InPhase
    <3>4. Serves'
      BY <1>1, <1>2, <1>3, <1>11, <3>3 DEF Serves
    <3>5. QED
      BY <1>2, <1>3, <1>11, <2>1, <3>4 DEF Maps, ProcessInv
  <2>6. CASE Running = "RequirementPlanning"
    <3>1. Create("requirement", Kept(0, {})) = <<>>
      <4>1. IsList([c \in 1 .. 0 |-> c]) /\ ToSet([c \in 1 .. 0 |-> c]) = {}
        BY EmptyList
      <4>2. Kept(0, {}) = <<>>
        BY <4>1, KeepNothing DEF Kept
      <4>3. QED
        BY <4>2 DEF Create
    <3>2. DesignOf(live') = Committed(Create("requirement", Kept(0, {})))'
      <4> DEFINE made == Create("requirement", Kept(0, {}))
      <4>1. made' = made
        BY DEF Create, Kept, Keep
      <4>2. Committed(made)' = Committed(made)
        <5> HIDE DEF made
        <5>1. QED
          BY <2>3, <4>1
      <4>3. Committed(made) = design
        BY <1>9, <3>1
      <4>4. DesignOf(live') = Committed(made)'
        <5> HIDE DEF made
        <5>1. QED
          BY <1>2, <1>4, <1>11, <4>2, <4>3
      <4>5. QED
        BY <4>4
    <3>3. Cardinality({}) = 0
      BY FS_EmptySet
    <3>4. TriedUpTo(0, {})'
      BY <1>4, <1>8, <1>11, <2>3, <3>2, <3>3 DEF TriedUpTo, Kept
    <3>5. candidates' = candidates /\ 0 \in 0 .. Len(candidates) /\ {} \in SUBSET (1 .. 0)
      BY <1>1, <1>3
    <3>6. InPhase'
      BY <1>11, <2>3, <2>4, <2>6, <3>4, <3>5 DEF InPhase
    <3>7. Serves'
      BY <1>1, <1>2, <1>3, <1>11, <3>6 DEF Serves
    <3>8. QED
      BY <1>2, <1>3, <1>11, <2>1, <3>7 DEF Maps, ProcessInv
  <2>7. QED
    BY <2>5, <2>6
<1>12. CASE /\ Refuses(r)
            /\ PhaseFails
            /\ design' = DesignOf(live)
            /\ faults' = faults + 1
            /\ UNCHANGED <<stage, todo, lost, released>>
  <2>1. faults + lost + dropped < MaxFaults
    BY <1>12 DEF Refuses
  <2>2. faults < MaxFaults /\ faults' + lost' + dropped' <= MaxFaults
    BY <1>1, <1>3, <1>4, <1>12, <2>1, WorkflowAssumption
  <2>3. design' = design /\ Committed(SubSeq(Planned, 1, 0)) = design
    BY <1>4, <1>8, <1>9, <1>12
  <2>4. Serves'
    <3>1. stage' = "idle" /\ lost' = 0 /\ design' = DesignOf(live')
      BY <1>1, <1>2, <1>4, <1>12
    <3>2. QED
      BY <1>1, <1>2, <1>3, <1>12, <2>2, <3>1 DEF Serves
  <2>5. ProcessInv'
    BY <1>2, <1>3, <1>12, <2>4 DEF ProcessInv
  <2>6. Interrupted(Planned)
    BY <1>1, <1>7, <1>12, <2>2, <2>3 DEF Interrupted
  <2>7. CASE Running \in Middle \cup Gates
    BY <1>5, <2>5, <2>6, <2>7, RunIsStep DEF Maps
  <2>8. CASE Running = "ManufacturingGeneration"
    <3>1. Planned = <<>>
      BY <2>8 DEF Planned, Gates
    <3>2. ManufacturingGeneration
      BY <1>5, <2>6, <2>8, <3>1 DEF ManufacturingGeneration
    <3>3. QED
      BY <2>5, <3>2 DEF Maps, WorkflowNext
  <2>9. CASE Running = "RequirementPlanning"
    <3> DEFINE all == [c \in DOMAIN candidates |-> c]
               kept == Keep(all, DOMAIN candidates \ DOMAIN candidates)
    <3>1. IsList(all)
      <4>1. Len(candidates) \in Nat /\ DOMAIN candidates = 1 .. Len(candidates)
        BY <1>3
      <4>2. DOMAIN all = 1 .. Len(candidates) /\ all = [i \in 1 .. Len(candidates) |-> all[i]]
        BY <4>1
      <4> HIDE DEF all
      <4>3. QED
        BY <4>1, <4>2, ListOfFunction
    <3>2. kept = <<>>
      <4> HIDE DEF all
      <4>1. QED
        BY <3>1, KeepNothing
    <3>3. Committed(Create("requirement", kept)) = design
      BY <1>9, <3>2 DEF Create
    <3>4. faults' = faults + 1 + (IF kept = <<>> THEN 0 ELSE Cardinality(DOMAIN candidates))
      BY <1>3, <1>12, <3>2
    <3>5. faults' <= MaxFaults
      BY <1>3, <1>12, <2>2, WorkflowAssumption
    <3> HIDE DEF all
    <3>6. RequirementPlanning
      <4>1. At("RequirementPlanning")
        BY <1>5, <2>9
      <4>2. DOMAIN candidates \in SUBSET DOMAIN candidates
        OBVIOUS
      <4>3. UNCHANGED <<candidates, released, runs>>
        BY <1>1, <1>12
      <4>4. design' = Committed(Create("requirement", kept))
        BY <2>3, <3>3
      <4>5. QED
        BY <1>12, <3>4, <3>5, <4>1, <4>2, <4>3, <4>4 DEF RequirementPlanning, all
    <3>7. QED
      BY <2>5, <3>6 DEF Maps, WorkflowNext
  <2>10. QED
    BY <1>5, <2>7, <2>8, <2>9, PhasesAre
<1>13. QED
  BY <1>1, <1>10, <1>11, <1>12

-----------------------------------------------------------------------------
(* Inside a phase *)

(* What a phase has planned does not change while it runs. *)
LEMMA InsidePhase ==
  ASSUME PipelineInv, status = "running", stage /= "idle"
  PROVE  /\ InPhase /\ Iterates /\ Running \in DefaultNames /\ At(Running)
         /\ Running = "RequirementPlanning" => design["requirement"] = <<>>
         /\ SendsOnly(Planned, Writes(Running)) /\ Writes(Running) \subseteq DesignKinds \ {"waiver"}
         /\ IsList(Planned) /\ Len(Planned) \in Nat
         /\ UNCHANGED workflowVars =>
              /\ Iterates' /\ candidates' = candidates /\ design' = design /\ faults' = faults
              /\ Running' = Running /\ Planned' = Planned
              /\ \A requests : Committed(requests)' = Committed(requests)
<1>1. Serves /\ BuildInv
  BY Serving
<1>2. InPhase /\ Iterates
  BY <1>1 DEF Serves, InPhase
<1>3. /\ Running \in DefaultNames /\ At(Running)
      /\ Running = "RequirementPlanning" => design["requirement"] = <<>>
  BY <1>1, <1>2, RunningIs
<1>4. SendsOnly(Planned, Writes(Running)) /\ Writes(Running) \subseteq DesignKinds \ {"waiver"}
  BY <1>1, <1>3, PlannedSends DEF BuildInv
<1>5. IsList(Planned) /\ Len(Planned) \in Nat
  BY <1>4, ListOfSeq DEF SendsOnly, IsList
<1>6. ASSUME UNCHANGED workflowVars
      PROVE  /\ Iterates' /\ candidates' = candidates /\ design' = design /\ faults' = faults
             /\ Running' = Running /\ Planned' = Planned
             /\ \A requests : Committed(requests)' = Committed(requests)
  <2>1. UNCHANGED <<designVars, plan, cursor>> /\ UNCHANGED vars /\ UNCHANGED runVars
    BY <1>6 DEF workflowVars, vars
  <2>2. /\ Running' = Running /\ Planned' = Planned
        /\ \A requests : Committed(requests)' = Committed(requests)
    BY <1>3, <2>1, PlannedStays
  <2>3. Iterates'
    BY <1>2, <2>1 DEF Iterates, NumPhases, vars
  <2>4. QED
    BY <2>1, <2>2, <2>3 DEF designVars, runVars
<1>7. QED
  BY <1>2, <1>3, <1>4, <1>5, <1>6

(* The agent asks for a requirement for each candidate. *)
LEMMA AgentPlans ==
  ASSUME candidates \in Seq(Candidate), Running = "RequirementPlanning"
  PROVE  /\ Len(candidates) \in Nat /\ DOMAIN candidates = 1 .. Len(candidates)
         /\ Len(Planned) = Len(candidates)
         /\ \A c \in 1 .. Len(candidates) : Planned[c] = [kind |-> "requirement", item |-> c]
<1> DEFINE N == Len(candidates)
           all == [c \in 1 .. N |-> c]
<1>1. N \in Nat /\ DOMAIN candidates = 1 .. N
  OBVIOUS
<1>2. Planned = Create("requirement", all)
  BY <1>1 DEF Planned, Gates
<1>3. Create("requirement", all) = [i \in 1 .. N |-> [kind |-> "requirement", item |-> i]]
  BY DEF Create
<1> HIDE DEF N, all
<1>4. Len(Planned) = N /\ \A c \in 1 .. N : Planned[c] = [kind |-> "requirement", item |-> c]
  BY <1>1, <1>2, <1>3
<1>5. QED
  BY <1>1, <1>4 DEF N

(* The next candidate is kept, or gone. *)
LEMMA KeptMore ==
  ASSUME NEW k \in Nat, NEW gone \in SUBSET (1 .. k)
  PROVE  /\ IsList(Kept(k, gone))
         /\ Kept(k + 1, gone) = Append(Kept(k, gone), k + 1)
         /\ Kept(k + 1, gone \cup {k + 1}) = Kept(k, gone)
<1> DEFINE items == [c \in 1 .. k |-> c]
           set == (1 .. k) \ gone
<1>1. IsList(items)
  <2>1. DOMAIN items = 1 .. k /\ items = [i \in 1 .. k |-> items[i]]
    OBVIOUS
  <2> HIDE DEF items
  <2>2. QED
    BY <2>1, ListOfFunction
<1>2. ToSet(items) = 1 .. k
  BY DEF ToSet
<1>3. [c \in 1 .. k + 1 |-> c] = Append(items, k + 1)
  OBVIOUS
<1>4. Kept(k, gone) = Keep(items, set)
  BY DEF Kept
<1>5. ASSUME NEW other, \A y \in 1 .. k : y \in set <=> y \in other
      PROVE  Keep([c \in 1 .. k + 1 |-> c], other)
               = IF k + 1 \in other THEN Append(Kept(k, gone), k + 1) ELSE Kept(k, gone)
  <2>1. \A y \in ToSet(items) : y \in set <=> y \in other
    BY <1>2, <1>5
  <2> HIDE DEF items, set
  <2> DEFINE x == k + 1
  <2> HIDE DEF x
  <2>2. Keep(Append(items, x), other)
          = IF x \in other THEN Append(Keep(items, set), x) ELSE Keep(items, set)
    BY <1>1, <2>1, KeepAppend
  <2>3. QED
    BY <1>3, <1>4, <2>2 DEF x
<1>6. Kept(k + 1, gone) = Append(Kept(k, gone), k + 1)
  <2>1. \A y \in 1 .. k : y \in set <=> y \in (1 .. k + 1) \ gone
    OBVIOUS
  <2>2. k + 1 \in (1 .. k + 1) \ gone
    OBVIOUS
  <2> HIDE DEF items, set
  <2>3. QED
    BY <1>5, <2>1, <2>2 DEF Kept
<1>7. Kept(k + 1, gone \cup {k + 1}) = Kept(k, gone)
  <2>1. \A y \in 1 .. k : y \in set <=> y \in (1 .. k + 1) \ (gone \cup {k + 1})
    OBVIOUS
  <2>2. k + 1 \notin (1 .. k + 1) \ (gone \cup {k + 1})
    OBVIOUS
  <2> HIDE DEF items, set
  <2>3. QED
    BY <1>5, <2>1, <2>2 DEF Kept
<1>8. IsList(Kept(k, gone))
  <2> HIDE DEF items, set
  <2>1. QED
    BY <1>1, <1>4, KeepFacts
<1>9. QED
  BY <1>6, <1>7, <1>8

(* A candidate that is kept is one more requirement of the design. *)
LEMMA AgentMakes ==
  ASSUME DesignLists, NEW k \in Nat, NEW gone \in SUBSET (1 .. k)
  PROVE  Committed(Create("requirement", Kept(k + 1, gone)))
           = [Committed(Create("requirement", Kept(k, gone))) EXCEPT !["requirement"] = Append(@, k + 1)]
<1> DEFINE old == Create("requirement", Kept(k, gone))
           r == [kind |-> "requirement", item |-> k + 1]
<1>1. IsList(Kept(k, gone)) /\ Kept(k + 1, gone) = Append(Kept(k, gone), k + 1)
  BY KeptMore
<1>2. Create("requirement", Kept(k + 1, gone)) = Append(old, r)
  <2> DEFINE kept == Kept(k, gone)
  <2>1. IsList(kept)
    BY <1>1
  <2> HIDE DEF kept
  <2>2. Create("requirement", Append(kept, k + 1))
          = Append(Create("requirement", kept), [kind |-> "requirement", item |-> k + 1])
    BY <2>1, CreateAppend
  <2>3. QED
    BY <1>1, <2>2 DEF kept
<1>3. SendsOnly(old, {"requirement"})
  BY <1>1, CreateFacts
<1>4. {"requirement"} \in SUBSET DesignKinds
  BY DEF DesignKinds
<1>5. r.kind \in {"requirement"}
  OBVIOUS
<1> HIDE DEF old, r
<1>6. Committed(Append(old, r)) = [Committed(old) EXCEPT ![r.kind] = Append(@, r.item)]
  BY <1>3, <1>4, <1>5, CommittedAppend
<1>7. QED
  BY <1>2, <1>6 DEF r, old

(* What is committed of the candidates that are kept stays so. *)
LEMMA KeptStays ==
  ASSUME NEW k, NEW gone, \A requests : Committed(requests)' = Committed(requests)
  PROVE  Committed(Create("requirement", Kept(k, gone)))' = Committed(Create("requirement", Kept(k, gone)))
<1> DEFINE made == Create("requirement", Kept(k, gone))
<1>1. made' = made
  BY DEF Create, Kept, Keep
<1> HIDE DEF made
<1>2. Committed(made)' = Committed(made)
  BY <1>1
<1>3. QED
  BY <1>2 DEF made

(* A request of a phase is answered with one more item, or changes nothing live. *)
LEMMA SendGives ==
  ASSUME PipelineInv, stage = "sending", UNCHANGED workflowVars,
         NEW k \in 0 .. Len(Planned), Rest(Planned, k) /= <<>>,
         NEW q, q = Planned[k + 1], K!Handles(RequestFor(q.kind, q.item)),
         Running /= "RequirementPlanning" => DesignOf(live) = Committed(SubSeq(Planned, 1, k))
  PROVE  /\ k + 1 \in 1 .. Len(Planned) /\ q.kind \in Writes(Running)
         /\ boots' = boots /\ (status' = "running" => IsList(records'))
         /\ Answers(RequestFor(q.kind, q.item)) =>
              LiveInv' /\ DesignOf(live') = [DesignOf(live) EXCEPT ![q.kind] = Append(@, q.item)]
         /\ Refuses(RequestFor(q.kind, q.item)) => LiveInv' /\ DesignOf(live') = DesignOf(live)
<1> DEFINE r == RequestFor(q.kind, q.item)
<1>1. K!Submit(r) /\ status = "running" /\ Admitted(r)
  BY HandledAreAdmitted
<1>2. BuildInv /\ Lowered /\ LiveInv /\ IsList(records)
  BY <1>1, Serving
<1>3. Running \in DefaultNames /\ IsList(Planned) /\ candidates' = candidates
  BY <1>1, InsidePhase
<1>4. k + 1 \in 1 .. Len(Planned) /\ q \in ToSet(Planned)
  BY <1>3, RestFacts
<1>5. /\ q.kind \in Writes(Running) /\ q.kind \in DesignKinds \ {"waiver"}
      /\ q.kind = "violation" => WellFound(q.item)
      /\ q.kind = "component" => live["line"] = <<>> /\ live["placement"] = <<>>
  BY <1>2, <1>3, <1>4, AsksSoundly
<1>6. WellFormed(r)
  BY <1>2, <1>5, RequestFormed DEF LiveInv
<1> DEFINE kind == q.kind
           item == q.item
<1>7. live' = K!Fold(live, r) =>
        LiveInv' /\ DesignOf(live') = [DesignOf(live) EXCEPT ![q.kind] = Append(@, q.item)]
  <2>1. /\ kind \in DesignKinds \ {"waiver"} /\ (kind = "violation" => WellFound(item))
        /\ Admitted(RequestFor(kind, item))
        /\ kind = "component" => live["line"] = <<>> /\ live["placement"] = <<>>
        /\ r = RequestFor(kind, item)
    BY <1>1, <1>5
  <2> HIDE DEF r, kind, item
  <2>2. ASSUME live' = K!Fold(live, r)
        PROVE  LiveInv' /\ DesignOf(live') = [DesignOf(live) EXCEPT ![kind] = Append(@, item)]
    <3>1. live' = K!Fold(live, RequestFor(kind, item))
      BY <2>1, <2>2
    <3>2. DesignOf(live') = [DesignOf(live) EXCEPT ![kind] = Append(@, item)]
      BY <1>2, <2>1, <3>1, ItemAdded
    <3>3. LiveInv'
      BY <1>2, <1>3, <2>1, <3>1, MadeKeepsLive
    <3>4. QED
      BY <3>2, <3>3
  <2>3. QED
    BY <2>2 DEF kind, item
<1> HIDE DEF r, kind, item
<1>8. /\ boots' = boots
      /\ status' = "down" \/ (status' = status /\ IsList(records'))
      /\ Answers(r) => live' = K!Fold(live, r)
      /\ Refuses(r) => live' = live
  BY <1>1, <1>2, <1>6, SubmitGives
<1>9. live' = live => LiveInv' /\ DesignOf(live') = DesignOf(live)
  BY <1>2, <1>3, LiveKept
<1>10. QED
  BY <1>4, <1>5, <1>7, <1>8, <1>9 DEF r

(* A phase other than the agent's sends a request: it goes on, or fails. *)
LEMMA PhaseSendsMaps ==
  ASSUME PipelineInv, Sends, Running /= "RequirementPlanning"
  PROVE  Maps
<1> DEFINE r == RequestFor(Head(todo).kind, Head(todo).item)
<1>1. /\ stage = "sending" /\ todo /= <<>> /\ UNCHANGED <<workflowVars, dropped>>
      /\ K!Handles(r)
      /\ \/ Answers(r) /\ todo' = Tail(todo) /\ UNCHANGED <<stage, lost>>
         \/ /\ Refuses(r)
            /\ lost' = lost + 1
            /\ stage' = IF GivesUp THEN "failing" ELSE stage
            /\ todo' = IF GivesUp THEN <<>> ELSE Tail(todo)
         \/ NoAnswer
  BY DEF Sends
<1>2. status = "running"
  BY <1>1, HandledAreAdmitted
<1>3. /\ boots = 1 /\ DesignLists /\ faults \in Nat /\ lost \in Nat /\ dropped \in Nat
      /\ faults + lost + dropped <= MaxFaults
  BY <1>2, Serving
<1>4. /\ InPhase /\ SendsOnly(Planned, Writes(Running))
      /\ Writes(Running) \in SUBSET DesignKinds
      /\ IsList(Planned) /\ Len(Planned) \in Nat
      /\ Iterates' /\ candidates' = candidates /\ design' = design /\ faults' = faults
      /\ Running' = Running /\ Planned' = Planned
      /\ \A requests : Committed(requests)' = Committed(requests)
  BY <1>1, <1>2, InsidePhase
<1>5. PICK k \in 0 .. Len(Planned) : SentUpTo(k)
  BY <1>4 DEF InPhase
<1>6. DesignOf(live) = Committed(SubSeq(Planned, 1, k)) /\ lost = 0 /\ todo = Rest(Planned, k)
  BY <1>1, <1>5 DEF SentUpTo
<1> DEFINE q == Planned[k + 1]
<1>7. /\ k + 1 \in 1 .. Len(Planned) /\ Head(todo) = q /\ Tail(todo) = Rest(Planned, k + 1)
      /\ SubSeq(Planned, 1, k + 1) = Append(SubSeq(Planned, 1, k), q)
  BY <1>1, <1>4, <1>6, RestFacts
<1>8. r = RequestFor(q.kind, q.item)
  BY <1>7
<1> HIDE DEF r, q
<1>9. /\ q.kind \in Writes(Running) /\ boots' = boots /\ (status' = "running" => IsList(records'))
      /\ Answers(r) =>
           LiveInv' /\ DesignOf(live') = [DesignOf(live) EXCEPT ![q.kind] = Append(@, q.item)]
      /\ Refuses(r) => LiveInv' /\ DesignOf(live') = DesignOf(live)
  <2>1. Rest(Planned, k) /= <<>> /\ K!Handles(RequestFor(q.kind, q.item)) /\ q = Planned[k + 1]
    BY <1>1, <1>6, <1>8 DEF q
  <2>2. QED
    BY <1>1, <1>6, <1>8, <2>1, SendGives
<1>10. SendsOnly(SubSeq(Planned, 1, k), Writes(Running))
  BY <1>4, SendsPrefix
<1>11. Committed(SubSeq(Planned, 1, k + 1))
         = [Committed(SubSeq(Planned, 1, k)) EXCEPT ![q.kind] = Append(@, q.item)]
  <2> DEFINE sent == SubSeq(Planned, 1, k)
             kinds == Writes(Running)
  <2>1. SendsOnly(sent, kinds) /\ kinds \in SUBSET DesignKinds /\ q.kind \in kinds
    BY <1>4, <1>9, <1>10
  <2> HIDE DEF sent, kinds
  <2>2. Committed(Append(sent, q)) = [Committed(sent) EXCEPT ![q.kind] = Append(@, q.item)]
    BY <1>3, <2>1, CommittedAppend
  <2>3. QED
    BY <1>7, <2>2 DEF sent
<1>12. \A n : Committed(SubSeq(Planned, 1, n))' = Committed(SubSeq(Planned, 1, n))
  BY <1>4
<1>13. CASE Answers(r) /\ todo' = Tail(todo) /\ UNCHANGED <<stage, lost>>
  <2>1. status' = "running"
    BY <1>13 DEF Answers
  <2>2. DesignOf(live') = Committed(SubSeq(Planned, 1, k + 1))'
    BY <1>6, <1>9, <1>11, <1>12, <1>13
  <2>3. stage' = "sending" /\ lost' = 0 /\ todo' = Rest(Planned, k + 1)'
    BY <1>1, <1>4, <1>6, <1>7, <1>13 DEF Rest
  <2>4. SentUpTo(k + 1)'
    BY <2>2, <2>3 DEF SentUpTo
  <2>5. k + 1 \in (0 .. Len(Planned))'
    BY <1>4, <1>7
  <2>6. InPhase'
    BY <1>4, <2>3, <2>4, <2>5 DEF InPhase
  <2>7. Serves'
    BY <1>1, <1>3, <1>4, <1>9, <1>13, <2>1, <2>6 DEF Serves
  <2>8. QED
    BY <1>1, <1>3, <1>9, <2>1, <2>7 DEF Maps, ProcessInv
<1>14. CASE /\ Refuses(r)
            /\ lost' = lost + 1
            /\ stage' = IF GivesUp THEN "failing" ELSE stage
            /\ todo' = IF GivesUp THEN <<>> ELSE Tail(todo)
  <2>1. status' = "running" /\ faults + lost + dropped < MaxFaults
    BY <1>14 DEF Refuses
  <2>2. DesignOf(live') = Committed(SubSeq(Planned, 1, k))'
    BY <1>6, <1>9, <1>12, <1>14
  <2>3. stage' = "failing" /\ lost' = 1
    BY <1>6, <1>14 DEF GivesUp
  <2>4. SentUpTo(k)'
    BY <2>2, <2>3 DEF SentUpTo
  <2>5. k \in (0 .. Len(Planned))'
    BY <1>4, <1>5
  <2>6. InPhase'
    BY <1>4, <2>3, <2>4, <2>5 DEF InPhase
  <2>7. lost' \in Nat /\ dropped' \in Nat /\ faults' + lost' + dropped' <= MaxFaults
    BY <1>1, <1>3, <1>4, <1>6, <2>1, <2>3, WorkflowAssumption
  <2>8. Serves'
    BY <1>9, <1>14, <2>1, <2>6, <2>7 DEF Serves
  <2>9. QED
    BY <1>1, <1>3, <1>9, <2>1, <2>8 DEF Maps, ProcessInv
<1>15. CASE NoAnswer
  <2>1. status' = "down"
    BY <1>15 DEF NoAnswer
  <2>2. QED
    BY <1>1, <1>3, <1>9, <2>1, Dead DEF Maps
<1>16. QED
  BY <1>1, <1>13, <1>14, <1>15

(* The agent sends a request: it goes on, with the candidate or without. *)
LEMMA AgentSendsMaps ==
  ASSUME PipelineInv, Sends, Running = "RequirementPlanning"
  PROVE  Maps
<1> DEFINE r == RequestFor(Head(todo).kind, Head(todo).item)
<1>1. /\ stage = "sending" /\ todo /= <<>> /\ UNCHANGED <<workflowVars, dropped>>
      /\ K!Handles(r)
      /\ \/ Answers(r) /\ todo' = Tail(todo) /\ UNCHANGED <<stage, lost>>
         \/ /\ Refuses(r)
            /\ lost' = lost + 1
            /\ stage' = IF GivesUp THEN "failing" ELSE stage
            /\ todo' = IF GivesUp THEN <<>> ELSE Tail(todo)
         \/ NoAnswer
  BY DEF Sends
<1>2. status = "running"
  BY <1>1, HandledAreAdmitted
<1>3. /\ boots = 1 /\ DesignLists /\ faults \in Nat /\ lost \in Nat /\ dropped \in Nat
      /\ faults + lost + dropped <= MaxFaults /\ candidates \in Seq(Candidate)
  BY <1>2, Serving
<1>4. /\ InPhase /\ IsList(Planned) /\ Len(Planned) \in Nat
      /\ Iterates' /\ candidates' = candidates /\ design' = design /\ faults' = faults
      /\ Running' = Running /\ Planned' = Planned
      /\ \A requests : Committed(requests)' = Committed(requests)
  BY <1>1, <1>2, InsidePhase
<1>5. /\ Len(candidates) \in Nat /\ Len(Planned) = Len(candidates)
      /\ \A c \in 1 .. Len(candidates) : Planned[c] = [kind |-> "requirement", item |-> c]
  BY <1>3, AgentPlans
<1>6. PICK k \in 0 .. Len(candidates) : \E gone \in SUBSET (1 .. k) : TriedUpTo(k, gone)
  BY <1>4 DEF InPhase
<1>7. PICK gone \in SUBSET (1 .. k) : TriedUpTo(k, gone)
  BY <1>6
<1>8. /\ DesignOf(live) = Committed(Create("requirement", Kept(k, gone)))
      /\ lost = Cardinality(gone) /\ todo = Rest(Planned, k)
  BY <1>1, <1>7 DEF TriedUpTo
<1> DEFINE q == Planned[k + 1]
<1>9. k \in Nat /\ k + 1 \in 1 .. Len(candidates) /\ Head(todo) = q /\ Tail(todo) = Rest(Planned, k + 1)
  BY <1>1, <1>4, <1>5, <1>8, RestFacts
<1>10. r = RequestFor(q.kind, q.item) /\ q.kind = "requirement" /\ q.item = k + 1
  <2>1. Head(todo) = q
    BY <1>9
  <2>2. q = [kind |-> "requirement", item |-> k + 1]
    BY <1>5, <1>9
  <2>3. r = RequestFor(q.kind, q.item)
    <3> HIDE DEF q
    <3>1. QED
      BY <2>1
  <2> HIDE DEF q
  <2>4. q.kind = "requirement" /\ q.item = k + 1
    BY <2>2
  <2>5. QED
    BY <2>3, <2>4
<1> HIDE DEF r, q
<1>11. /\ boots' = boots /\ (status' = "running" => IsList(records'))
       /\ Answers(r) =>
            LiveInv' /\ DesignOf(live') = [DesignOf(live) EXCEPT !["requirement"] = Append(@, k + 1)]
       /\ Refuses(r) => LiveInv' /\ DesignOf(live') = DesignOf(live)
  <2>1. Rest(Planned, k) /= <<>> /\ K!Handles(RequestFor(q.kind, q.item)) /\ q = Planned[k + 1]
        /\ k \in 0 .. Len(Planned)
    BY <1>1, <1>5, <1>8, <1>10 DEF q
  <2>2. QED
    BY <1>1, <1>10, <2>1, SendGives
<1>12. /\ Committed(Create("requirement", Kept(k + 1, gone)))
            = [DesignOf(live) EXCEPT !["requirement"] = Append(@, k + 1)]
       /\ Kept(k + 1, gone \cup {k + 1}) = Kept(k, gone)
  BY <1>3, <1>8, <1>9, AgentMakes, KeptMore
<1>13. \A n, g : Committed(Create("requirement", Kept(n, g)))' = Committed(Create("requirement", Kept(n, g)))
  <2>1. TAKE n, g
  <2>2. QED
    BY <1>4, KeptStays
<1>14. ASSUME NEW more, more \in {gone, gone \cup {k + 1}},
              status' = "running", LiveInv', stage' = "sending", todo' = Tail(todo),
              DesignOf(live') = Committed(Create("requirement", Kept(k + 1, more))),
              lost' = Cardinality(more), lost' \in Nat, faults' + lost' + dropped' <= MaxFaults
       PROVE  Maps
  <2>1. DesignOf(live') = Committed(Create("requirement", Kept(k + 1, more)))'
    BY <1>13, <1>14
  <2>2. todo' = Rest(Planned, k + 1)'
    BY <1>4, <1>9, <1>14 DEF Rest
  <2>3. TriedUpTo(k + 1, more)'
    BY <1>14, <2>1, <2>2 DEF TriedUpTo
  <2>4. k + 1 \in (0 .. Len(candidates))' /\ more \in SUBSET (1 .. k + 1)
    BY <1>4, <1>7, <1>9, <1>14
  <2>5. InPhase'
    BY <1>4, <1>14, <2>3, <2>4 DEF InPhase
  <2>6. Serves'
    BY <1>1, <1>3, <1>11, <1>14, <2>5 DEF Serves
  <2>7. QED
    BY <1>1, <1>3, <1>11, <1>14, <2>6 DEF Maps, ProcessInv
<1>15. CASE Answers(r) /\ todo' = Tail(todo) /\ UNCHANGED <<stage, lost>>
  <2>1. status' = "running"
    BY <1>15 DEF Answers
  <2>2. LiveInv' /\ DesignOf(live') = Committed(Create("requirement", Kept(k + 1, gone)))
    BY <1>11, <1>12, <1>15
  <2>3. stage' = "sending" /\ todo' = Tail(todo) /\ lost' = Cardinality(gone) /\ lost' \in Nat
        /\ faults' + lost' + dropped' <= MaxFaults
    BY <1>1, <1>3, <1>4, <1>8, <1>15
  <2>4. QED
    BY <1>14, <2>1, <2>2, <2>3
<1>16. CASE /\ Refuses(r)
            /\ lost' = lost + 1
            /\ stage' = IF GivesUp THEN "failing" ELSE stage
            /\ todo' = IF GivesUp THEN <<>> ELSE Tail(todo)
  <2>1. status' = "running" /\ faults + lost + dropped < MaxFaults
    BY <1>16 DEF Refuses
  <2>2. LiveInv' /\ DesignOf(live') = Committed(Create("requirement", Kept(k + 1, gone \cup {k + 1})))
    BY <1>8, <1>11, <1>12, <1>16
  <2>3. stage' = "sending" /\ todo' = Tail(todo)
    BY <1>1, <1>16 DEF GivesUp
  <2>4. Cardinality(gone \cup {k + 1}) = Cardinality(gone) + 1
    <3>1. IsFiniteSet(1 .. k)
      BY <1>9, FS_Interval
    <3>2. IsFiniteSet(gone) /\ k + 1 \notin gone
      <4>1. gone \subseteq 1 .. k /\ k + 1 \notin 1 .. k
        BY <1>7, <1>9
      <4>2. IsFiniteSet(gone)
        BY <3>1, <4>1, FS_Subset
      <4>3. QED
        BY <4>1, <4>2
    <3>3. QED
      BY <3>2, FS_AddElement
  <2>5. lost' = Cardinality(gone \cup {k + 1}) /\ lost' \in Nat
        /\ faults' + lost' + dropped' <= MaxFaults
    BY <1>1, <1>3, <1>4, <1>8, <1>16, <2>1, <2>4, WorkflowAssumption
  <2>6. QED
    BY <1>14, <2>1, <2>2, <2>3, <2>5
<1>17. CASE NoAnswer
  <2>1. status' = "down"
    BY <1>17 DEF NoAnswer
  <2>2. QED
    BY <1>1, <1>3, <1>11, <2>1, Dead DEF Maps
<1>18. QED
  BY <1>1, <1>15, <1>16, <1>17

(* Whether a phase passes depends on what is live only. *)
LEMMA PassesStays ==
  ASSUME live' = live, Running' = Running, candidates' = candidates
  PROVE  Passes' <=> Passes
<1>1. DesignOf(live)' = DesignOf(live) /\ OpenBlocking(DesignOf(live))' = OpenBlocking(DesignOf(live))
  BY DEF DesignOf, OpenBlocking
<1>2. \A gate : OwnOpenBlocking(gate, DesignOf(live))' = OwnOpenBlocking(gate, DesignOf(live))
  BY <1>1 DEF OwnOpenBlocking
<1>3. QED
  BY <1>1, <1>2 DEF Passes

(* All is sent: the phase passes or fails, on what is live, or on an error of its          *)
(* milestone.                                                                    *)
LEMMA JudgesMaps ==
  ASSUME PipelineInv, Judges
  PROVE  Maps
<1> DEFINE r == EventFor(Running)
<1>1. /\ stage = "sending" /\ todo = <<>> /\ status = "running"
      /\ UNCHANGED <<workflowVars, todo, dropped>>
      /\ \/ ~HasMilestone /\ stage' = Judged /\ UNCHANGED <<kernelVars, lost>>
         \/ /\ HasMilestone /\ K!Emit(r)
            /\ \/ Answers(r) /\ stage' = Judged /\ UNCHANGED lost
               \/ Refuses(r) /\ lost' = lost + 1 /\ stage' = "failing"
               \/ NoAnswer
  BY DEF Judges
<1>2. /\ boots = 1 /\ LiveInv /\ IsList(records)
      /\ faults \in Nat /\ lost \in Nat /\ dropped \in Nat
      /\ faults + lost + dropped <= MaxFaults /\ candidates \in Seq(Candidate)
  BY <1>1, Serving
<1>3. /\ InPhase /\ Running \in DefaultNames /\ IsList(Planned) /\ Len(Planned) \in Nat
      /\ Iterates' /\ candidates' = candidates /\ design' = design /\ faults' = faults
      /\ Running' = Running /\ Planned' = Planned
      /\ \A requests : Committed(requests)' = Committed(requests)
  BY <1>1, InsidePhase
<1>4. K!Emit(r) =>
        /\ boots' = boots /\ (status' = "running" => IsList(records'))
        /\ Answers(r) \/ Refuses(r) => status' = "running" /\ live' = live
  BY EventGives
<1> HIDE DEF r
<1>5. CASE K!Emit(r) /\ NoAnswer
  <2>1. status' = "down"
    BY <1>5 DEF NoAnswer
  <2>2. QED
    BY <1>1, <1>2, <1>4, <1>5, <2>1, Dead DEF Maps
<1>6. CASE /\ status' = "running" /\ boots' = boots /\ IsList(records') /\ live' = live
           /\ \/ stage' = Judged /\ lost' = lost
              \/ /\ HasMilestone /\ stage' = "failing" /\ lost' = lost + 1
                 /\ faults + lost + dropped < MaxFaults
  <2>1. LiveInv' /\ DesignOf(live') = DesignOf(live) /\ (Passes' <=> Passes)
    BY <1>2, <1>3, <1>6, LiveKept, PassesStays
  <2>2. stage' \in {"passing", "failing"}
    BY <1>6 DEF Judged
  <2>3. lost' \in Nat /\ dropped' \in Nat /\ faults' + lost' + dropped' <= MaxFaults
    BY <1>1, <1>2, <1>3, <1>6, WorkflowAssumption
  <2>4. InPhase' => Maps
    BY <1>1, <1>2, <1>6, <2>1, <2>3 DEF Maps, ProcessInv, Serves
  <2>5. CASE Running /= "RequirementPlanning"
    <3>1. PICK k \in 0 .. Len(Planned) : SentUpTo(k)
      BY <1>3, <2>5 DEF InPhase
    <3>2. DesignOf(live) = Committed(SubSeq(Planned, 1, k)) /\ lost = 0 /\ todo = Rest(Planned, k)
      BY <1>1, <3>1 DEF SentUpTo
    <3>3. k = Len(Planned)
      BY <1>1, <1>3, <3>2, RestFacts
    <3>4. DesignOf(live') = Committed(SubSeq(Planned, 1, k))'
      BY <1>3, <2>1, <3>2
    <3>5. stage' = "passing" => lost' = 0 /\ Passes
      BY <1>6, <3>2 DEF Judged
    <3>6. stage' = "failing" => lost' = 1 \/ (lost' = 0 /\ ~Passes)
      BY <1>6, <3>2 DEF Judged
    <3>7. SentUpTo(k)'
      BY <1>3, <2>1, <2>2, <3>3, <3>4, <3>5, <3>6 DEF SentUpTo
    <3>8. k \in (0 .. Len(Planned))'
      BY <1>3, <3>1
    <3>9. QED
      BY <1>3, <2>2, <2>4, <2>5, <3>7, <3>8 DEF InPhase
  <2>6. CASE Running = "RequirementPlanning"
    <3>1. Len(candidates) \in Nat /\ Len(Planned) = Len(candidates)
      BY <1>2, <2>6, AgentPlans
    <3>2. PICK k \in 0 .. Len(candidates) : \E gone \in SUBSET (1 .. k) : TriedUpTo(k, gone)
      BY <1>3, <2>6 DEF InPhase
    <3>3. PICK gone \in SUBSET (1 .. k) : TriedUpTo(k, gone)
      BY <3>2
    <3>4. /\ DesignOf(live) = Committed(Create("requirement", Kept(k, gone)))
          /\ lost = Cardinality(gone) /\ todo = Rest(Planned, k)
      BY <1>1, <3>3 DEF TriedUpTo
    <3>5. k = Len(candidates)
      BY <1>1, <1>3, <3>1, <3>2, <3>4, RestFacts
    <3>6. Passes <=> live["requirement"] /= <<>>
      BY <1>2, <2>6, AlwaysLowers DEF Passes, Gates
    <3>7. HasMilestone <=> Passes
      BY <2>6 DEF HasMilestone, Gates
    <3>8. DesignOf(live') = Committed(Create("requirement", Kept(k, gone)))'
      <4>1. Committed(Create("requirement", Kept(k, gone)))' = Committed(Create("requirement", Kept(k, gone)))
        BY <1>3, KeptStays
      <4>2. QED
        BY <2>1, <3>4, <4>1
    <3>9. stage' = "passing" => lost' = Cardinality(gone) /\ live'["requirement"] /= <<>>
      BY <1>6, <3>4, <3>6 DEF Judged
    <3>10. stage' = "failing" =>
             lost' = Cardinality(gone) + (IF live'["requirement"] = <<>> THEN 0 ELSE 1)
      BY <1>2, <1>6, <3>4, <3>6, <3>7 DEF Judged
    <3>11. TriedUpTo(k, gone)'
      BY <1>3, <2>2, <3>5, <3>8, <3>9, <3>10 DEF TriedUpTo
    <3>12. k \in (0 .. Len(candidates))'
      BY <1>3, <3>2
    <3>13. QED
      BY <1>3, <2>2, <2>4, <2>6, <3>11, <3>12 DEF InPhase
  <2>7. QED
    BY <2>5, <2>6
<1>7. ASSUME ~HasMilestone, stage' = Judged, UNCHANGED <<kernelVars, lost>> PROVE Maps
  BY <1>1, <1>2, <1>6, <1>7 DEF kernelVars
<1>8. ASSUME HasMilestone, K!Emit(r),
             \/ Answers(r) /\ stage' = Judged /\ UNCHANGED lost
             \/ Refuses(r) /\ lost' = lost + 1 /\ stage' = "failing"
      PROVE  Maps
  BY <1>4, <1>6, <1>8 DEF Refuses
<1>9. QED
  BY <1>1, <1>5, <1>7, <1>8

(* The phase returns: what it has done is a step of Workflow. *)
LEMMA ClosesMaps ==
  ASSUME PipelineInv, Closes
  PROVE  Maps
<1> DEFINE r == EventFor("closed")
           passing == stage = "passing"
<1>1. /\ stage \in {"passing", "failing"} /\ K!Emit(r) /\ UNCHANGED <<candidates, runs>>
      /\ \/ /\ (Answers(r) /\ UNCHANGED dropped) \/ (Refuses(r) /\ dropped' = dropped + 1)
            /\ IF stage = "passing" THEN PhaseSucceeds ELSE PhaseFails
            /\ design' = DesignOf(live)
            /\ released' = (released \/ (stage = "passing" /\ Running = "ManufacturingGeneration"))
            /\ faults' = faults + lost
            /\ stage' = "idle"
            /\ lost' = 0
            /\ UNCHANGED todo
         \/ NoAnswer
  BY DEF Closes
<1>2. /\ status = "running" /\ boots' = boots /\ (status' = "running" => IsList(records'))
      /\ Answers(r) \/ Refuses(r) =>
           status' = "running" /\ live' = live /\ DesignOf(live') = DesignOf(live) /\ LiveInv'
  BY <1>1, EventGives
<1> HIDE DEF r
<1>3. /\ boots = 1 /\ LiveInv /\ DesignLists /\ released \in BOOLEAN
      /\ faults \in Nat /\ lost \in Nat /\ dropped \in Nat
      /\ faults + lost + dropped <= MaxFaults /\ candidates \in Seq(Candidate)
  BY <1>2, Serving
<1>4. /\ InPhase /\ Running \in DefaultNames /\ At(Running)
      /\ Running = "RequirementPlanning" => design["requirement"] = <<>>
      /\ IsList(Planned) /\ Len(Planned) \in Nat
  BY <1>1, <1>2, InsidePhase
<1>5. CASE NoAnswer
  <2>1. status' = "down" /\ UNCHANGED workflowVars
    BY <1>5 DEF NoAnswer
  <2>2. QED
    BY <1>2, <1>3, <2>1, Dead DEF Maps
<1>6. CASE /\ (Answers(r) /\ UNCHANGED dropped) \/ (Refuses(r) /\ dropped' = dropped + 1)
           /\ IF stage = "passing" THEN PhaseSucceeds ELSE PhaseFails
           /\ design' = DesignOf(live)
           /\ released' = (released \/ (stage = "passing" /\ Running = "ManufacturingGeneration"))
           /\ faults' = faults + lost
           /\ stage' = "idle"
           /\ lost' = 0
           /\ UNCHANGED todo
  <2>1. dropped' \in Nat /\ faults' + lost' + dropped' <= MaxFaults
    BY <1>3, <1>6, WorkflowAssumption DEF Refuses
  <2>2. ProcessInv'
    <3>1. design' = DesignOf(live')
      BY <1>2, <1>6
    <3>2. Serves'
      BY <1>2, <1>6, <2>1, <3>1 DEF Serves
    <3>3. QED
      BY <1>2, <1>3, <1>6, <3>2 DEF ProcessInv
  <2>3. WorkflowNext => Maps
    BY <2>2 DEF Maps
  <2>4. Passes <=> PassesFor(Running, design')
    <3>1. Passes <=> PassesFor(Running, DesignOf(live))
      BY <1>3, <1>4, PassesMeans
    <3>2. QED
      BY <1>6, <3>1
  <2>5. CASE Running /= "RequirementPlanning"
    <3>1. PICK k \in 0 .. Len(Planned) : SentUpTo(k)
      BY <1>4, <2>5 DEF InPhase
    <3>2. /\ design' = Committed(SubSeq(Planned, 1, k))
          /\ stage = "passing" => lost = 0 /\ k = Len(Planned) /\ Passes
          /\ stage = "failing" => lost = 1 \/ (lost = 0 /\ k = Len(Planned) /\ ~Passes)
      BY <1>6, <3>1 DEF SentUpTo
    <3>3. k = Len(Planned) => design' = Committed(Planned)
      BY <1>4, <3>2, RestFacts
    <3>4. stage = "failing" /\ lost = 1 => Interrupted(Planned)
      <4>1. ASSUME stage = "failing", lost = 1 PROVE Interrupted(Planned)
        <5>1. faults < MaxFaults /\ faults' = faults + 1
          BY <1>3, <1>6, <4>1, WorkflowAssumption
        <5>2. PhaseFails /\ released' = released
          BY <1>3, <1>6, <4>1
        <5>3. QED
          BY <1>1, <3>1, <3>2, <5>1, <5>2 DEF Interrupted
      <4>2. QED
        BY <4>1
    <3>5. lost = 0 => faults' = faults
      BY <1>3, <1>6
    <3>6. stage = "failing" => released' = released /\ PhaseFails
      BY <1>3, <1>6
    <3>7. CASE Running \in Middle \cup Gates
      <4>1. released' = released
        BY <1>3, <1>6, <3>7 DEF Middle, Gates
      <4>2. ASSUME stage = "passing" \/ lost = 0
            PROVE  /\ design' = Committed(Planned)
                   /\ IF PassesFor(Running, design') THEN PhaseSucceeds ELSE PhaseFails
                   /\ UNCHANGED <<candidates, runVars>>
        <5>1. CASE stage = "passing"
          <6>1. PhaseSucceeds /\ PassesFor(Running, design')
            BY <1>6, <2>4, <3>2, <5>1
          <6>2. QED
            BY <1>1, <3>2, <3>3, <3>5, <4>1, <5>1, <6>1 DEF runVars
        <5>2. CASE stage = "failing"
          <6>1. PhaseFails /\ ~PassesFor(Running, design')
            BY <2>4, <3>2, <3>6, <4>2, <5>2
          <6>2. QED
            BY <1>1, <3>2, <3>3, <3>5, <4>1, <4>2, <5>2, <6>1 DEF runVars
        <5>3. QED
          BY <1>1, <5>1, <5>2
      <4>3. WorkflowNext
        BY <1>1, <1>4, <3>2, <3>4, <3>7, <4>2, RunIsStep
      <4>4. QED
        BY <2>3, <4>3
    <3>8. CASE Running = "ManufacturingGeneration"
      <4>1. Planned = <<>>
        BY <3>8 DEF Planned, Gates
      <4>2. k = 0 /\ Len(Planned) = 0
        BY <1>4, <3>1, <4>1
      <4>3. design' = design
        BY <1>3, <3>3, <4>1, <4>2, NothingSent
      <4>4. Passes <=> OpenBlocking(design) = {} /\ ManufacturingIr(design)
        <5>1. PassesFor(Running, design') <=> OpenBlocking(design') = {} /\ ManufacturingIr(design')
          BY <3>8 DEF PassesFor, Gates
        <5>2. QED
          BY <2>4, <4>3, <5>1
      <4>5. CASE stage = "passing"
        <5>1. released' = TRUE /\ PhaseSucceeds
          BY <1>3, <1>6, <3>8, <4>5
        <5>2. UNCHANGED <<designVars, faults, runs>>
          BY <1>1, <3>2, <3>5, <4>3, <4>5 DEF designVars
        <5>3. ManufacturingGeneration
          BY <1>4, <3>2, <3>8, <4>4, <4>5, <5>1, <5>2 DEF ManufacturingGeneration
        <5>4. QED
          BY <2>3, <5>3 DEF WorkflowNext
      <4>6. CASE stage = "failing"
        <5>1. CASE lost = 1
          <6>1. Interrupted(<<>>)
            BY <3>4, <4>1, <4>6, <5>1
          <6>2. ManufacturingGeneration
            BY <1>4, <3>8, <6>1 DEF ManufacturingGeneration
          <6>3. QED
            BY <2>3, <6>2 DEF WorkflowNext
        <5>2. CASE lost = 0 /\ ~Passes
          <6>1. UNCHANGED <<designVars, runVars>>
            BY <1>1, <3>5, <3>6, <4>3, <4>6, <5>2 DEF designVars, runVars
          <6>2. ManufacturingGeneration
            BY <1>4, <3>6, <3>8, <4>4, <4>6, <5>2, <6>1 DEF ManufacturingGeneration
          <6>3. QED
            BY <2>3, <6>2 DEF WorkflowNext
        <5>3. QED
          BY <3>2, <4>6, <5>1, <5>2
      <4>7. QED
        BY <1>1, <4>5, <4>6
    <3>9. QED
      BY <1>4, <2>5, <3>7, <3>8, PhasesAre
  <2>6. CASE Running = "RequirementPlanning"
    <3>1. Len(candidates) \in Nat /\ DOMAIN candidates = 1 .. Len(candidates)
      BY <1>3, <2>6, AgentPlans
    <3>2. PICK k \in 0 .. Len(candidates) : \E gone \in SUBSET (1 .. k) : TriedUpTo(k, gone)
      BY <1>4, <2>6 DEF InPhase
    <3>3. PICK gone \in SUBSET (1 .. k) : TriedUpTo(k, gone)
      BY <3>2
    <3>4. /\ DesignOf(live) = Committed(Create("requirement", Kept(k, gone)))
          /\ k = Len(candidates)
          /\ stage = "passing" => lost = Cardinality(gone) /\ live["requirement"] /= <<>>
          /\ stage = "failing" =>
               lost = Cardinality(gone) + (IF live["requirement"] = <<>> THEN 0 ELSE 1)
      BY <1>1, <3>3 DEF TriedUpTo
    <3>5. IsFiniteSet(gone) /\ Cardinality(gone) \in Nat /\ gone \in SUBSET DOMAIN candidates
      <4>1. IsFiniteSet(1 .. k)
        BY <3>1, <3>4, FS_Interval
      <4>2. IsFiniteSet(gone)
        BY <3>3, <4>1, FS_Subset
      <4>3. QED
        BY <3>1, <3>3, <3>4, <4>2, FS_CardinalityType
    <3> DEFINE kept == Keep([c \in DOMAIN candidates |-> c], DOMAIN candidates \ gone)
    <3>6. kept = Kept(k, gone) /\ IsList(kept)
      BY <3>1, <3>3, <3>4, KeptMore DEF Kept
    <3> HIDE DEF kept
    <3>7. design' = Committed(Create("requirement", kept))
      BY <1>6, <3>4, <3>6
    <3>8. kept = <<>> <=> live["requirement"] = <<>>
      <4> DEFINE made == Create("requirement", kept)
      <4>1. /\ SendsOnly(made, {"requirement"})
            /\ ToSet(made) = {[kind |-> "requirement", item |-> x] : x \in ToSet(kept)}
        BY <3>6, CreateFacts
      <4> HIDE DEF made
      <4>2. {"requirement"} \in SUBSET DesignKinds /\ "requirement" \in DesignKinds
        BY DEF DesignKinds
      <4>3. /\ IsList(Committed(made)["requirement"])
            /\ ToSet(Committed(made)["requirement"])
                 = Made("requirement") \cup {q.item : q \in {q \in ToSet(made) : q.kind = "requirement"}}
        BY <1>3, <4>1, <4>2, CommittedFacts
      <4>4. Made("requirement") = {}
        BY <1>4, <2>6, EmptyList DEF Made
      <4> DEFINE new == Committed(made)["requirement"]
      <4>5. ToSet(new) = ToSet(kept)
        <5>1. ToSet(new) = {q.item : q \in {q \in ToSet(made) : q.kind = "requirement"}}
          BY <4>3, <4>4
        <5> HIDE DEF new
        <5>2. ASSUME NEW x \in ToSet(kept) PROVE x \in ToSet(new)
          <6>1. [kind |-> "requirement", item |-> x] \in ToSet(made)
            BY <4>1
          <6>2. QED
            BY <5>1, <6>1
        <5>3. ASSUME NEW x \in ToSet(new) PROVE x \in ToSet(kept)
          <6>1. PICK q \in ToSet(made) : x = q.item
            BY <5>1
          <6>2. PICK y \in ToSet(kept) : q = [kind |-> "requirement", item |-> y]
            BY <4>1
          <6>3. QED
            BY <6>1, <6>2
        <5>4. QED
          BY <5>2, <5>3
      <4>6. Committed(made)["requirement"] = <<>> <=> kept = <<>>
        <5>1. IsList(new)
          BY <4>3
        <5> HIDE DEF new
        <5>2. new = <<>> <=> kept = <<>>
          BY <3>6, <4>5, <5>1, NoItems, EmptyList
        <5>3. QED
          BY <5>2 DEF new
      <4>7. Committed(made)["requirement"] = <<>> <=> live["requirement"] = <<>>
        <5>1. DesignOf(live) = Committed(made)
          BY <3>4, <3>6 DEF made
        <5>2. DesignOf(live)["requirement"] = <<>> <=> live["requirement"] = <<>>
          BY <1>3, <4>2, ItemsOf DEF LiveInv
        <5>3. QED
          BY <5>1, <5>2
      <4>8. QED
        BY <4>6, <4>7
    <3>9. faults' <= MaxFaults /\ UNCHANGED <<candidates, released, runs>>
      BY <1>1, <1>3, <1>6, <2>1, <2>6, WorkflowAssumption
    <3>10. \/ /\ faults' = faults + Cardinality(gone)
              /\ IF kept = <<>> THEN PhaseFails ELSE PhaseSucceeds
           \/ /\ faults' = faults + 1 + (IF kept = <<>> THEN 0 ELSE Cardinality(gone))
              /\ PhaseFails
      <4>1. CASE stage = "passing"
        <5>1. faults' = faults + Cardinality(gone) /\ kept /= <<>> /\ PhaseSucceeds
          BY <1>6, <3>4, <3>8, <4>1
        <5>2. QED
          BY <5>1
      <4>2. CASE stage = "failing" /\ kept = <<>>
        <5>1. faults' = faults + Cardinality(gone) /\ PhaseFails
          BY <1>3, <1>6, <3>4, <3>5, <3>8, <4>2
        <5>2. QED
          BY <4>2, <5>1
      <4>3. CASE stage = "failing" /\ kept /= <<>>
        <5>1. faults' = faults + 1 + Cardinality(gone) /\ PhaseFails
          BY <1>3, <1>6, <3>4, <3>5, <3>8, <4>3
        <5>2. QED
          BY <4>3, <5>1
      <4>4. QED
        BY <1>1, <4>1, <4>2, <4>3
    <3>11. At("RequirementPlanning")
      BY <1>4, <2>6
    <3>12. RequirementPlanning
      BY <3>5, <3>7, <3>9, <3>10, <3>11 DEF RequirementPlanning, kept
    <3>13. QED
      BY <2>3, <3>12 DEF WorkflowNext
  <2>7. QED
    BY <2>5, <2>6
<1>7. QED
  BY <1>1, <1>5, <1>6

(* The orchestrator returns between two phases only. *)
LEMMA ReturnsMaps ==
  ASSUME PipelineInv, Returns
  PROVE  Maps
<1>1. /\ status = "running" /\ Finishes /\ UNCHANGED <<kernelVars, designVars, runVars, phaseVars>>
  BY DEF Returns
<1>2. WorkflowNext
  BY <1>1 DEF WorkflowNext
<1>3. /\ boots = 1 /\ Serves /\ LiveInv /\ IsList(records)
      /\ lost \in Nat /\ dropped \in Nat /\ faults + lost + dropped <= MaxFaults
      /\ cursor \in Nat /\ NumPhases \in Nat
  <2>1. boots = 1 /\ Serves /\ LiveInv /\ IsList(records) /\ ReleaseInv /\ BuildInv
        /\ lost \in Nat /\ dropped \in Nat /\ faults + lost + dropped <= MaxFaults
    BY <1>1, Serving
  <2>2. cursor \in Nat /\ NumPhases \in Nat
    BY <2>1, <1>1 DEF BuildInv, WorkflowInv, ReleaseInv, PlanIsTail, NumPhases
  <2>3. QED
    BY <2>1, <2>2
<1>4. /\ live' = live /\ status' = status /\ boots' = boots /\ records' = records
      /\ stage' = stage /\ lost' = lost /\ dropped' = dropped
      /\ design' = design /\ candidates' = candidates /\ faults' = faults
  BY <1>1 DEF kernelVars, designVars, runVars, phaseVars
<1>5. ~Iterates
  BY <1>1, <1>3 DEF Finishes, Iterates
<1>6. stage = "idle" /\ lost = 0 /\ design = DesignOf(live)
  BY <1>3, <1>5 DEF Serves, InPhase
<1>7. LiveInv' /\ design' = DesignOf(live')
  BY <1>3, <1>4, <1>6, LiveKept
<1>8. Serves'
  BY <1>3, <1>4, <1>6, <1>7 DEF Serves
<1>9. ProcessInv'
  BY <1>1, <1>3, <1>4, <1>8 DEF ProcessInv
<1>10. QED
  BY <1>2, <1>9 DEF Maps

(* The process exits. *)
LEMMA EndsMaps ==
  ASSUME PipelineInv, Ends
  PROVE  Maps
<1>1. status /= "down" /\ status' = "down" /\ boots' = boots /\ UNCHANGED workflowVars
  BY DEF Ends, K!Exit, K!Dies
<1>2. boots = 1
  BY <1>1 DEF PipelineInv, ProcessInv
<1>3. QED
  BY <1>1, <1>2, Dead DEF Maps

(* No step of the process is none. *)
LEMMA ProcessKept ==
  ASSUME PipelineInv, UNCHANGED pipelineVars
  PROVE  ProcessInv'
<1>1. UNCHANGED workflowVars /\ UNCHANGED kernelVars /\ UNCHANGED phaseVars
  BY DEF pipelineVars
<1>2. /\ live' = live /\ status' = status /\ boots' = boots /\ records' = records /\ file' = file
      /\ stage' = stage /\ lost' = lost /\ dropped' = dropped /\ todo' = todo
      /\ design' = design /\ candidates' = candidates /\ faults' = faults
  BY <1>1 DEF kernelVars, workflowVars, designVars, runVars, phaseVars
<1>3. AtRest => AtRest'
  BY <1>2 DEF AtRest
<1>4. ASSUME status = "running" PROVE Serves'
  <2>1. /\ Serves /\ LiveInv /\ IsList(records)
        /\ lost \in Nat /\ dropped \in Nat /\ faults + lost + dropped <= MaxFaults
        /\ candidates \in Seq(Candidate)
    BY <1>4, Serving
  <2>2. LiveInv' /\ DesignOf(live') = DesignOf(live)
    BY <1>2, <2>1, LiveKept
  <2>3. CASE stage = "idle" /\ lost = 0 /\ design = DesignOf(live)
    BY <1>2, <2>1, <2>2, <2>3 DEF Serves
  <2>4. CASE stage /= "idle"
    <3>1. /\ InPhase /\ Iterates' /\ Running' = Running /\ Planned' = Planned
          /\ \A requests : Committed(requests)' = Committed(requests)
      BY <1>1, <1>4, <2>4, InsidePhase
    <3>2. Passes' <=> Passes
      BY <1>2, <3>1, PassesStays
    <3>3. \A n : Committed(SubSeq(Planned, 1, n))' = Committed(SubSeq(Planned, 1, n))
      BY <3>1
    <3>4. stage' \in {"sending", "passing", "failing"}
      BY <1>2, <3>1 DEF InPhase
    <3>5. CASE Running /= "RequirementPlanning"
      <4>1. PICK k \in 0 .. Len(Planned) : SentUpTo(k)
        BY <3>1, <3>5 DEF InPhase
      <4>2. SentUpTo(k)'
        BY <1>2, <2>2, <3>1, <3>2, <3>3, <4>1 DEF SentUpTo, Rest
      <4>3. k \in (0 .. Len(Planned))'
        BY <3>1, <4>1
      <4>4. InPhase'
        BY <3>1, <3>4, <3>5, <4>2, <4>3 DEF InPhase
      <4>5. QED
        BY <1>2, <2>1, <2>2, <4>4 DEF Serves
    <3>6. CASE Running = "RequirementPlanning"
      <4>1. PICK k \in 0 .. Len(candidates) : \E gone \in SUBSET (1 .. k) : TriedUpTo(k, gone)
        BY <3>1, <3>6 DEF InPhase
      <4>2. PICK gone \in SUBSET (1 .. k) : TriedUpTo(k, gone)
        BY <4>1
      <4>3. Committed(Create("requirement", Kept(k, gone)))' = Committed(Create("requirement", Kept(k, gone)))
        BY <3>1, KeptStays
      <4>4. DesignOf(live') = Committed(Create("requirement", Kept(k, gone)))'
        BY <2>2, <4>2, <4>3 DEF TriedUpTo
      <4>5. TriedUpTo(k, gone)'
        BY <1>2, <3>1, <4>2, <4>4 DEF TriedUpTo, Rest
      <4>6. k \in (0 .. Len(candidates))'
        BY <1>2, <4>1
      <4>7. InPhase'
        BY <3>1, <3>4, <3>6, <4>5, <4>6 DEF InPhase
      <4>8. QED
        BY <1>2, <2>1, <2>2, <4>7 DEF Serves
    <3>7. QED
      BY <3>5, <3>6
  <2>5. QED
    BY <2>1, <2>3, <2>4 DEF Serves, InPhase
<1>5. QED
  BY <1>2, <1>3, <1>4 DEF PipelineInv, ProcessInv

-----------------------------------------------------------------------------
(* The refinement *)

(* It holds before anything has started. *)
LEMMA PipelineInvInit ==
  ASSUME PipelineInit
  PROVE  PipelineInv
<1>1. WorkflowInit /\ K!Init /\ stage = "idle" /\ lost = 0 /\ dropped = 0
  BY DEF PipelineInit
<1>2. BuildInv /\ Lowered
  BY <1>1, BuildInvInit, LoweredInit
<1>3. AtRest
  BY <1>1 DEF K!Init, WorkflowInit, AtRest
<1>4. status = "down" /\ boots = 0 /\ file = K!EmptyFile
  BY <1>1 DEF K!Init
<1>5. QED
  BY <1>2, <1>3, <1>4 DEF PipelineInv, ProcessInv

(* Every step keeps it, and is a step of Workflow or none. *)
LEMMA PipelineInvStep ==
  ASSUME PipelineInv, [PipelineNext]_pipelineVars
  PROVE  PipelineInv' /\ [WorkflowNext]_workflowVars
<1>1. CASE PipelineNext
  <2>1. Sends => Maps
    BY PhaseSendsMaps, AgentSendsMaps
  <2>2. Maps
    BY <1>1, <2>1, StartsMaps, EntersMaps, JudgesMaps, ClosesMaps, ReturnsMaps, EndsMaps
       DEF PipelineNext
  <2>3. ProcessInv' /\ (WorkflowNext \/ UNCHANGED workflowVars)
    BY <2>2 DEF Maps
  <2>4. BuildInv /\ Lowered
    BY DEF PipelineInv
  <2>5. BuildInv'
    BY <2>3, <2>4, BuildInvStep, BuildInvKept
  <2>6. Lowered'
    BY <2>3, <2>4, <2>5, LoweredStep, LoweredKept
  <2>7. QED
    BY <2>3, <2>5, <2>6 DEF PipelineInv
<1>2. CASE UNCHANGED pipelineVars
  <2>1. UNCHANGED workflowVars /\ BuildInv /\ Lowered
    BY <1>2 DEF pipelineVars, PipelineInv
  <2>2. BuildInv' /\ Lowered'
    BY <2>1, BuildInvKept, LoweredKept
  <2>3. ProcessInv'
    BY <1>2, ProcessKept
  <2>4. QED
    BY <2>1, <2>2, <2>3 DEF PipelineInv
<1>3. QED
  BY <1>1, <1>2

(* The inductive invariant: between two phases the workflow's design is what is live in    *)
(* the kernel, and inside a phase what is live is the design with the requests sent so     *)
(* far, an error being the end of any phase but the agent's.                           *)
THEOREM ProcessInvariant == PipelineSpec => []PipelineInv
<1>1. PipelineInit => PipelineInv
  BY PipelineInvInit
<1>2. PipelineInv /\ [PipelineNext]_pipelineVars => PipelineInv'
  BY PipelineInvStep
<1>3. QED
  BY <1>1, <1>2, PTL DEF PipelineSpec

(* The process that sends its requests one by one to the seam and to a log that fails     *)
(* and dies does what Workflow has each phase do in one step.                            *)
THEOREM PipelineImplementsWorkflow == PipelineSpec => ImplementsWorkflow
<1>1. PipelineInit => WorkflowInit
  BY DEF PipelineInit
<1>2. PipelineInv /\ [PipelineNext]_pipelineVars => [WorkflowNext]_workflowVars
  BY PipelineInvStep
<1>3. QED
  BY <1>1, <1>2, ProcessInvariant, PTL DEF PipelineSpec, WorkflowSpec, ImplementsWorkflow

(* So a process that releases a design has verified it, and it holds all that was asked     *)
(* for (manufacturing_generation.rs), whatever the log did to its requests.              *)
THEOREM ProcessReleasesVerified == PipelineSpec => []ReleasedIsVerified /\ []ReleasedIsComplete
BY PipelineImplementsWorkflow, NoGateIsSlipped, OwnReleaseIsComplete, PTL DEF ImplementsWorkflow

-----------------------------------------------------------------------------
(* What is in the log *)

\* Only the last line of the file may want its newline.
WellWritten(f) ==
  /\ IsList(f.lines)
  /\ f.terminated \in BOOLEAN
  /\ f.terminated \/ f.lines /= <<>>

EventsIn(f) == {line.event : line \in ToSet(f.lines)}

\* What the records carry.
Carried(recs) == {record.event : record \in ToSet(recs)}

(* A file can be read if no line of it fails to parse. *)
LEMMA ReadableIs == \A f : K!Readable(f) <=> Unreadable \notin ToSet(f.lines)
BY DEF K!Readable, ToSet

(* Text written to a file leaves it readable only if it is on a line of its own.       *)
LEMMA TextWritten ==
  ASSUME NEW f, WellWritten(f), NEW line, NEW g, g = K!WriteText(f, line)
  PROVE  /\ WellWritten(g)
         /\ K!Readable(g) => /\ K!Readable(f) /\ line /= Unreadable
                             /\ ToSet(g.lines) = ToSet(f.lines) \cup {line}
<1>1. IsList(f.lines) /\ f.terminated \in BOOLEAN
  BY DEF WellWritten
<1>2. Len(f.lines) \in Nat /\ DOMAIN f.lines = 1 .. Len(f.lines)
  BY <1>1, ListOfSeq DEF IsList
<1>3. CASE f.terminated
  <2>1. g.lines = Append(f.lines, line) /\ g.terminated = FALSE
    BY <1>3 DEF K!WriteText
  <2>2. IsList(g.lines) /\ ToSet(g.lines) = ToSet(f.lines) \cup {line}
    BY <1>1, <2>1, ListAppend
  <2>3. g.lines /= <<>>
    BY <2>2, EmptyList
  <2>4. QED
    BY <2>1, <2>2, <2>3, ReadableIs DEF WellWritten
<1>4. CASE ~f.terminated
  <2> DEFINE n == Len(f.lines)
  <2>1. /\ g.lines = [f.lines EXCEPT ![n] = Unreadable]
        /\ g.terminated = FALSE
    BY <1>4 DEF K!WriteText
  <2>2. n \in 1 .. n
    <3>1. f.lines /= <<>>
      BY <1>4 DEF WellWritten
    <3>2. f.lines \in Seq(ToSet(f.lines))
      BY <1>1 DEF IsList
    <3>3. n /= 0
      BY <3>1, <3>2
    <3>4. QED
      BY <1>2, <3>3
  <2>3. /\ DOMAIN g.lines = 1 .. n /\ g.lines = [i \in 1 .. n |-> g.lines[i]]
        /\ g.lines[n] = Unreadable
    BY <1>2, <2>1, <2>2
  <2>4. IsList(g.lines)
    BY <1>2, <2>3, ListOfFunction
  <2>5. Unreadable \in ToSet(g.lines)
    BY <2>2, <2>3 DEF ToSet
  <2>6. g.lines /= <<>>
    BY <2>5, EmptyList
  <2>7. QED
    BY <2>1, <2>4, <2>5, <2>6, ReadableIs DEF WellWritten
<1>5. QED
  BY <1>1, <1>3, <1>4

(* A list is its first item and the others. *)
LEMMA HeadAndTail ==
  ASSUME NEW s, IsList(s), s /= <<>>
  PROVE  IsList(Tail(s)) /\ ToSet(s) = {Head(s)} \cup ToSet(Tail(s))
<1> DEFINE S == ToSet(s)
           t == Tail(s)
           n == Len(s)
<1>1. s \in Seq(S) /\ n \in Nat /\ DOMAIN s = 1 .. n
  BY ListOfSeq DEF IsList
<1>2. n /= 0 /\ Head(s) = s[1]
  BY <1>1
<1>3. t \in Seq(S) /\ Len(t) = n - 1 /\ \A i \in 1 .. n - 1 : t[i] = s[i + 1]
  BY <1>1, <1>2
<1> HIDE DEF S, t, n
<1>4. IsList(t) /\ DOMAIN t = 1 .. n - 1
  BY <1>3, ListOfSeq
<1>5. \A i \in 1 .. n : i = 1 \/ (i - 1 \in 1 .. n - 1 /\ s[i] = t[i - 1])
  BY <1>1, <1>3
<1>6. ToSet(s) \subseteq {Head(s)} \cup ToSet(t)
  BY <1>1, <1>2, <1>4, <1>5 DEF ToSet
<1>7. \A i \in 1 .. n - 1 : i + 1 \in 1 .. n
  BY <1>1
<1>8. 1 \in 1 .. n
  BY <1>1, <1>2
<1>9. {Head(s)} \cup ToSet(t) \subseteq ToSet(s)
  BY <1>1, <1>2, <1>3, <1>4, <1>7, <1>8 DEF ToSet
<1>10. QED
  BY <1>4, <1>6, <1>9 DEF t

(* The lines of records are the records, as far as they can be read.                   *)
LEMMA LinesAre ==
  ASSUME NEW recs, IsList(recs)
  PROVE  /\ IsList(K!Lines(recs))
         /\ Unreadable \notin ToSet(K!Lines(recs)) => ToSet(K!Lines(recs)) = ToSet(recs)
<1> DEFINE lines == K!Lines(recs)
<1>1. Len(recs) \in Nat /\ DOMAIN recs = 1 .. Len(recs)
  BY ListOfSeq DEF IsList
<1>2. /\ DOMAIN lines = 1 .. Len(recs) /\ lines = [i \in 1 .. Len(recs) |-> lines[i]]
      /\ \A i \in 1 .. Len(recs) : lines[i] = K!Line(recs[i])
  BY <1>1 DEF K!Lines
<1> HIDE DEF lines
<1>3. IsList(lines)
  BY <1>1, <1>2, ListOfFunction
<1>4. ASSUME Unreadable \notin ToSet(lines) PROVE \A i \in 1 .. Len(recs) : lines[i] = recs[i]
  <2>1. \A i \in 1 .. Len(recs) : lines[i] /= Unreadable
    BY <1>2, <1>4 DEF ToSet
  <2>2. QED
    BY <1>2, <2>1 DEF K!Line
<1>5. Unreadable \notin ToSet(lines) => ToSet(lines) = ToSet(recs)
  BY <1>1, <1>2, <1>4 DEF ToSet
<1>6. QED
  BY <1>3, <1>5 DEF lines

(* A batch written to the file joins what can be read there.                           *)
LEMMA AllWritten ==
  ASSUME NEW f, WellWritten(f), NEW recs, IsList(recs), NEW g, g = K!WriteAll(f, recs)
  PROVE  /\ WellWritten(g)
         /\ K!Readable(g) => K!Readable(f) /\ ToSet(g.lines) = ToSet(f.lines) \cup ToSet(recs)
<1>1. CASE recs = <<>>
  BY <1>1, EmptyList DEF K!WriteAll
<1>2. CASE recs /= <<>>
  <2> DEFINE line == K!Line(Head(recs))
             h == K!WriteText(f, line)
             rest == Tail(recs)
             lines == K!Lines(rest)
  <2>1. g.lines = h.lines \o lines /\ g.terminated = TRUE
    BY <1>2 DEF K!WriteAll
  <2>2. IsList(rest) /\ ToSet(recs) = {Head(recs)} \cup ToSet(rest)
    BY <1>2, HeadAndTail
  <2> HIDE DEF rest
  <2>3. IsList(lines) /\ (Unreadable \notin ToSet(lines) => ToSet(lines) = ToSet(rest))
    BY <2>2, LinesAre
  <2> HIDE DEF h, lines
  <2>4. /\ WellWritten(h)
        /\ K!Readable(h) => /\ K!Readable(f) /\ line /= Unreadable
                            /\ ToSet(h.lines) = ToSet(f.lines) \cup {line}
    BY TextWritten DEF h
  <2>5. IsList(g.lines) /\ ToSet(g.lines) = ToSet(h.lines) \cup ToSet(lines)
    BY <2>1, <2>3, <2>4, ListConcat DEF WellWritten
  <2>6. line /= Unreadable => line = Head(recs)
    BY DEF K!Line
  <2> HIDE DEF line
  <2>7. ASSUME K!Readable(g)
        PROVE  K!Readable(f) /\ ToSet(g.lines) = ToSet(f.lines) \cup ToSet(recs)
    <3>1. Unreadable \notin ToSet(h.lines) /\ Unreadable \notin ToSet(lines)
      BY <2>5, <2>7, ReadableIs
    <3>2. K!Readable(h)
      BY <3>1, ReadableIs
    <3>3. QED
      BY <2>2, <2>3, <2>4, <2>5, <2>6, <3>1, <3>2
  <2>8. QED
    BY <2>1, <2>5, <2>7 DEF WellWritten
<1>3. QED
  BY <1>1, <1>2

(* A batch that is cut short adds nothing else than its own.                           *)
LEMMA SomeWritten ==
  ASSUME NEW f, WellWritten(f), NEW recs, IsList(recs), NEW k \in 0 .. Len(recs) - 1,
         NEW torn \in K!Torn, NEW g, g = K!WriteSome(f, recs, k, torn)
  PROVE  /\ WellWritten(g)
         /\ K!Readable(g) => /\ K!Readable(f) /\ ToSet(f.lines) \subseteq ToSet(g.lines)
                             /\ ToSet(g.lines) \subseteq ToSet(f.lines) \cup ToSet(recs)
<1> DEFINE part == SubSeq(recs, 1, k)
           h == K!WriteAll(f, part)
<1>1. Len(recs) \in Nat /\ DOMAIN recs = 1 .. Len(recs)
  BY ListOfSeq DEF IsList
<1>2. k \in 0 .. Len(recs) /\ k + 1 \in 1 .. Len(recs)
  BY <1>1
<1>3. IsList(part) /\ ToSet(part) \subseteq ToSet(recs)
  BY <1>2, ListPrefix
<1> HIDE DEF part
<1>4. /\ WellWritten(h)
      /\ K!Readable(h) => K!Readable(f) /\ ToSet(h.lines) = ToSet(f.lines) \cup ToSet(part)
  BY <1>3, AllWritten
<1> DEFINE next == recs[k + 1]
<1>5. next \in ToSet(recs)
  BY <1>1, <1>2 DEF ToSet
<1> HIDE DEF h, next
<1>6. CASE torn = "nothing"
  <2>1. g = h
    BY <1>6 DEF K!WriteSome, h, part
  <2>2. QED
    BY <1>3, <1>4, <2>1
<1>7. ASSUME NEW line, g = K!WriteText(h, line), line /= Unreadable => line = next
      PROVE  /\ WellWritten(g)
             /\ K!Readable(g) => /\ K!Readable(f) /\ ToSet(f.lines) \subseteq ToSet(g.lines)
                                 /\ ToSet(g.lines) \subseteq ToSet(f.lines) \cup ToSet(recs)
  <2>1. /\ WellWritten(g)
        /\ K!Readable(g) => /\ K!Readable(h) /\ line /= Unreadable
                            /\ ToSet(g.lines) = ToSet(h.lines) \cup {line}
    BY <1>4, <1>7, TextWritten
  <2>2. QED
    BY <1>3, <1>4, <1>5, <1>7, <2>1
<1>8. CASE torn = "fragment"
  <2>1. g = K!WriteText(h, Unreadable)
    BY <1>8 DEF K!WriteSome, h, part
  <2>2. QED
    BY <1>7, <2>1
<1>9. CASE torn = "text"
  <2>1. g = K!WriteText(h, K!Line(next))
    BY <1>9 DEF K!WriteSome, h, part, next
  <2>2. K!Line(next) /= Unreadable => K!Line(next) = next
    BY DEF K!Line
  <2>3. QED
    BY <1>7, <2>1, <2>2
<1>10. QED
  BY <1>6, <1>8, <1>9 DEF K!Torn

(* The records of a batch carry its events. *)
LEMMA RecordsCarry ==
  ASSUME NEW events, IsList(events), NEW start
  PROVE  Carried(K!Records(start, events)) = ToSet(events)
<1>1. DOMAIN events = 1 .. Len(events)
  BY ListOfSeq DEF IsList
<1> DEFINE recs == K!Records(start, events)
<1>2. DOMAIN recs = DOMAIN events /\ \A i \in DOMAIN events : recs[i].event = events[i]
  BY DEF K!Records
<1> HIDE DEF recs
<1>3. Carried(recs) = {recs[i].event : i \in DOMAIN recs}
  BY DEF Carried, ToSet
<1>4. QED
  BY <1>2, <1>3 DEF ToSet, recs

(* The events of a request. *)
LEMMA EventsAre ==
  ASSUME NEW r, WellFormed(r)
  PROVE  ToSet(K!Events(r)) = ToSet(r.evidence) \cup ToSet(r.decision) \cup {r.entity}
                                \cup ToSet(r.pins) \cup ToSet(r.links)
<1>1. IsList(<<r.entity>>) /\ ToSet(<<r.entity>>) = {r.entity}
  BY OneItem
<1>2. /\ IsList(r.evidence \o r.decision)
      /\ ToSet(r.evidence \o r.decision) = ToSet(r.evidence) \cup ToSet(r.decision)
  BY ListConcat DEF WellFormed
<1> DEFINE s == r.evidence \o r.decision \o <<r.entity>>
<1>3. IsList(s) /\ ToSet(s) = ToSet(r.evidence) \cup ToSet(r.decision) \cup {r.entity}
  BY <1>1, <1>2, ListConcat
<1>4. K!Events(r) = s \o r.pins \o r.links
  BY DEF K!Events
<1> HIDE DEF s
<1>5. IsList(s \o r.pins) /\ ToSet(s \o r.pins) = ToSet(s) \cup ToSet(r.pins)
  BY <1>3, ListConcat DEF WellFormed
<1>6. ToSet(s \o r.pins \o r.links) = ToSet(s \o r.pins) \cup ToSet(r.links)
  BY <1>5, ListConcat DEF WellFormed
<1>7. QED
  BY <1>3, <1>4, <1>5, <1>6

(* The log grows by events of the request, by all of them if it is answered; and if it     *)
(* can be read now it could be before.                                                 *)
LEMMA LogGrows ==
  ASSUME WellWritten(file), IsList(records), NEW r, WellFormed(r), K!Submit(r)
  PROVE  /\ WellWritten(file')
         /\ K!Readable(file') =>
              /\ K!Readable(file) /\ EventsIn(file) \subseteq EventsIn(file')
              /\ EventsIn(file') \subseteq EventsIn(file) \cup ToSet(K!Events(r))
              /\ Answers(r) => ToSet(K!Events(r)) \subseteq EventsIn(file')
<1> DEFINE events == K!Events(r)
           batch == K!Records(Len(records), events)
<1>1. IsList(events)
  BY EventsList
<1> HIDE DEF events
<1>2. IsList(batch) /\ Carried(batch) = ToSet(events)
  BY <1>1, RecordsList, RecordsCarry
<1>3. CASE file' = K!WriteAll(file, batch)
  <2> HIDE DEF batch
  <2>1. /\ WellWritten(file')
        /\ K!Readable(file') =>
             K!Readable(file) /\ ToSet(file'.lines) = ToSet(file.lines) \cup ToSet(batch)
    BY <1>2, <1>3, AllWritten
  <2>2. K!Readable(file') => EventsIn(file') = EventsIn(file) \cup Carried(batch)
    BY <2>1 DEF EventsIn, Carried
  <2>3. QED
    BY <1>2, <2>1, <2>2 DEF events
<1>4. ASSUME NEW k \in 0 .. Len(batch) - 1, NEW torn \in K!Torn,
             file' = K!WriteSome(file, batch, k, torn)
      PROVE  /\ WellWritten(file')
             /\ K!Readable(file') =>
                  /\ K!Readable(file) /\ EventsIn(file) \subseteq EventsIn(file')
                  /\ EventsIn(file') \subseteq EventsIn(file) \cup ToSet(events)
  <2> HIDE DEF batch
  <2>1. /\ WellWritten(file')
        /\ K!Readable(file') =>
             /\ K!Readable(file) /\ ToSet(file.lines) \subseteq ToSet(file'.lines)
             /\ ToSet(file'.lines) \subseteq ToSet(file.lines) \cup ToSet(batch)
    BY <1>2, <1>4, SomeWritten
  <2>2. K!Readable(file') =>
          /\ EventsIn(file) \subseteq EventsIn(file')
          /\ EventsIn(file') \subseteq EventsIn(file) \cup Carried(batch)
    BY <2>1 DEF EventsIn, Carried
  <2>3. QED
    BY <1>2, <2>1, <2>2
<1>5. \/ file' = K!WriteAll(file, batch)
      \/ \E k \in 0 .. Len(batch) - 1, torn \in K!Torn : file' = K!WriteSome(file, batch, k, torn)
  BY DEF K!Submit, K!DiesInAppend, K!FailsToAppend, K!Appends, batch, events
<1>6. Answers(r) => file' = K!WriteAll(file, batch)
  BY SubmitGives DEF K!Appends, batch, events
<1>7. QED
  BY <1>3, <1>4, <1>5, <1>6 DEF events

(* The events of the lines are what they carry. *)
LEMMA EventsOfLines ==
  ASSUME NEW f, WellWritten(f)
  PROVE  IsList(K!EventsOf(f.lines)) /\ ToSet(K!EventsOf(f.lines)) = EventsIn(f)
<1> DEFINE n == Len(f.lines)
           h == K!EventsOf(f.lines)
<1>1. n \in Nat /\ DOMAIN f.lines = 1 .. n
  BY ListOfSeq DEF IsList, WellWritten
<1>2. /\ DOMAIN h = 1 .. n /\ h = [i \in 1 .. n |-> h[i]]
      /\ \A i \in 1 .. n : h[i] = f.lines[i].event
  BY <1>1 DEF K!EventsOf
<1> HIDE DEF h, n
<1>3. IsList(h)
  BY <1>1, <1>2, ListOfFunction
<1>4. ToSet(h) = EventsIn(f)
  BY <1>1, <1>2 DEF ToSet, EventsIn
<1>5. QED
  BY <1>3, <1>4 DEF h

\* A replay goes through some states.
Folds(folded, events) ==
  folded = [n \in 0 .. Len(events) |->
              IF n = 0 THEN K!EmptyState ELSE K!Apply(folded[n - 1], events[n])]

(* It does, and the last of them is what it gives. *)
LEMMA ReplayFolds ==
  ASSUME NEW events, Len(events) \in Nat
  PROVE  \E folded : Folds(folded, events) /\ K!Replay(events) = folded[Len(events)]
<1> DEFINE step(f, m) == IF m = 0 THEN K!EmptyState ELSE K!Apply(f[m - 1], events[m])
           upTo(f, n) == f = [m \in 0 .. n |-> step(f, m)]
           T == {n \in Nat : \E f : upTo(f, n)}
<1>1. 0 \in T
  <2> DEFINE f == [m \in 0 .. 0 |-> K!EmptyState]
  <2>1. \A m \in 0 .. 0 : step(f, m) = K!EmptyState
    OBVIOUS
  <2>2. upTo(f, 0)
    BY <2>1
  <2>3. QED
    BY <2>2
<1>2. ASSUME NEW n \in Nat, n \in T PROVE n + 1 \in T
  <2>1. PICK f : upTo(f, n)
    BY <1>2
  <2> DEFINE g == [m \in 0 .. n + 1 |-> IF m = n + 1 THEN K!Apply(f[n], events[n + 1]) ELSE f[m]]
  <2>2. \A m \in 0 .. n : g[m] = f[m] /\ f[m] = step(f, m)
    BY <2>1
  <2>3. ASSUME NEW m \in 0 .. n + 1 PROVE g[m] = step(g, m)
    <3>1. CASE m = n + 1
      <4>1. g[m] = K!Apply(f[n], events[n + 1]) /\ m /= 0 /\ m - 1 = n /\ n \in 0 .. n
        BY <3>1
      <4> HIDE DEF g
      <4>2. QED
        BY <2>2, <3>1, <4>1
    <3>2. CASE m = 0
      <4>1. 0 \in 0 .. n
        OBVIOUS
      <4> HIDE DEF g
      <4>2. QED
        BY <2>2, <3>2, <4>1
    <3>3. CASE m /= 0 /\ m /= n + 1
      <4>1. m \in 0 .. n /\ m - 1 \in 0 .. n
        BY <3>3
      <4> HIDE DEF g
      <4>2. QED
        BY <2>2, <3>3, <4>1
    <3>4. QED
      BY <3>1, <3>2, <3>3
  <2>4. DOMAIN g = 0 .. n + 1 /\ g = [m \in 0 .. n + 1 |-> g[m]]
    OBVIOUS
  <2>5. upTo(g, n + 1)
    <3> HIDE DEF g, step
    <3>1. [m \in 0 .. n + 1 |-> g[m]] = [m \in 0 .. n + 1 |-> step(g, m)]
      BY <2>3
    <3>2. QED
      BY <2>4, <3>1
  <2> HIDE DEF g, upTo
  <2>6. QED
    BY <2>5
<1>3. Nat \subseteq T
  <2> HIDE DEF T
  <2>1. QED
    BY <1>1, <1>2, NatInd
<1>4. \E f : Folds(f, events)
  BY <1>3 DEF Folds
<1> DEFINE folded == CHOOSE f : Folds(f, events)
<1>5. Folds(folded, events)
  BY <1>4
<1>6. K!Replay(events) = folded[Len(events)]
  BY DEF K!Replay, Folds
<1>7. QED
  BY <1>5, <1>6

\* A state of just these entities, none of which is a waiver.
MadeOf(state, entities) ==
  /\ DOMAIN state = K!StateKinds
  /\ \A kind \in K!ListKinds :
       IsList(state[kind]) /\ ToSet(state[kind]) = {e \in entities : e.kind = kind}
  /\ state["board"] = <<>> <=> ~\E e \in entities : e.kind = "board"

(* An event that is folded is one entity more. *)
LEMMA ApplyAdds ==
  ASSUME NEW state, NEW entities, MadeOf(state, entities), NEW e, e.kind /= "waiver"
  PROVE  MadeOf(K!Apply(state, e), entities \cup {e})
<1> DEFINE next == K!Apply(state, e)
           more == entities \cup {e}
<1>1. K!ListKinds \subseteq K!StateKinds /\ "board" \in K!StateKinds
      /\ "intent" \notin K!ListKinds /\ "board" \notin K!ListKinds /\ "audit" \notin K!StateKinds
      /\ DOMAIN state = K!StateKinds
  BY DEF K!StateKinds, K!ListKinds, K!SingleKinds, MadeOf
<1>2. CASE e.kind = "audit"
  <2>1. next = state
    BY <1>2 DEF K!Apply, K!SingleKinds
  <2>2. \A kind \in K!ListKinds : {x \in more : x.kind = kind} = {x \in entities : x.kind = kind}
    BY <1>1, <1>2
  <2>3. (\E x \in more : x.kind = "board") <=> (\E x \in entities : x.kind = "board")
    BY <1>2
  <2>4. QED
    BY <2>1, <2>2, <2>3 DEF MadeOf
<1>3. CASE e.kind \in K!SingleKinds
  <2>1. next = [state EXCEPT ![e.kind] = <<e>>]
    BY <1>3 DEF K!Apply, K!SingleKinds
  <2>2. e.kind = "intent" \/ e.kind = "board"
    BY <1>3 DEF K!SingleKinds
  <2>3. /\ DOMAIN next = K!StateKinds
        /\ \A kind \in K!ListKinds : next[kind] = state[kind]
        /\ next["board"] = IF e.kind = "board" THEN <<e>> ELSE state["board"]
    BY <1>1, <2>1, <2>2
  <2>4. <<e>> /= <<>>
    BY OneItem, EmptyList
  <2>5. \A kind \in K!ListKinds : {x \in more : x.kind = kind} = {x \in entities : x.kind = kind}
    BY <1>1, <2>2
  <2>6. (\E x \in more : x.kind = "board") <=> (e.kind = "board" \/ \E x \in entities : x.kind = "board")
    OBVIOUS
  <2> HIDE DEF next, more
  <2>7. QED
    BY <2>3, <2>4, <2>5, <2>6 DEF MadeOf, next, more
<1>4. CASE e.kind \notin K!SingleKinds \cup {"audit"}
  <2>1. next = [state EXCEPT ![e.kind] = Append(@, e)]
    BY <1>4 DEF K!Apply
  <2>2. /\ DOMAIN next = K!StateKinds
        /\ \A kind \in K!ListKinds \ {e.kind} : next[kind] = state[kind]
        /\ e.kind \in K!ListKinds => next[e.kind] = Append(state[e.kind], e)
        /\ next["board"] = state["board"]
    BY <1>1, <1>4, <2>1 DEF K!SingleKinds
  <2>3. \A kind \in K!ListKinds :
          kind /= e.kind => {x \in more : x.kind = kind} = {x \in entities : x.kind = kind}
    OBVIOUS
  <2>4. {x \in more : x.kind = e.kind} = {x \in entities : x.kind = e.kind} \cup {e}
    OBVIOUS
  <2>5. (\E x \in more : x.kind = "board") <=> (\E x \in entities : x.kind = "board")
    BY <1>4 DEF K!SingleKinds
  <2>6. e.kind \in K!ListKinds =>
          IsList(next[e.kind]) /\ ToSet(next[e.kind]) = ToSet(state[e.kind]) \cup {e}
    <3>1. SUFFICES ASSUME e.kind \in K!ListKinds
                   PROVE  IsList(next[e.kind]) /\ ToSet(next[e.kind]) = ToSet(state[e.kind]) \cup {e}
      OBVIOUS
    <3>2. IsList(state[e.kind]) /\ next[e.kind] = Append(state[e.kind], e)
      BY <2>2, <3>1 DEF MadeOf
    <3> HIDE DEF next
    <3>3. QED
      BY <3>2, ListAppend
  <2> HIDE DEF next, more
  <2>7. \A kind \in K!ListKinds :
          IsList(next[kind]) /\ ToSet(next[kind]) = {x \in more : x.kind = kind}
    BY <2>2, <2>3, <2>4, <2>6 DEF MadeOf
  <2>8. QED
    BY <2>2, <2>5, <2>7 DEF MadeOf, next, more
<1>5. QED
  BY <1>2, <1>3, <1>4

(* A replay is made of the events. *)
LEMMA ReplayIs ==
  ASSUME NEW events, IsList(events), \A e \in ToSet(events) : e.kind /= "waiver"
  PROVE  MadeOf(K!Replay(events), ToSet(events))
<1>1. Len(events) \in Nat /\ DOMAIN events = 1 .. Len(events)
  BY ListOfSeq DEF IsList
<1>2. PICK folded : Folds(folded, events) /\ K!Replay(events) = folded[Len(events)]
  BY <1>1, ReplayFolds
<1>3. /\ folded[0] = K!EmptyState
      /\ \A n \in 1 .. Len(events) : folded[n] = K!Apply(folded[n - 1], events[n])
  BY <1>1, <1>2 DEF Folds
<1> DEFINE first(n) == {events[i] : i \in 1 .. n}
           T == {n \in Nat : n <= Len(events) => MadeOf(folded[n], first(n))}
<1>4. 0 \in T
  <2>1. first(0) = {}
    OBVIOUS
  <2>2. DOMAIN K!EmptyState = K!StateKinds /\ \A kind \in K!StateKinds : K!EmptyState[kind] = <<>>
    BY DEF K!EmptyState
  <2>3. K!ListKinds \subseteq K!StateKinds /\ "board" \in K!StateKinds
    BY DEF K!StateKinds, K!SingleKinds
  <2>4. MadeOf(K!EmptyState, {})
    BY <2>2, <2>3, EmptyList DEF MadeOf
  <2>5. QED
    BY <1>3, <2>1, <2>4
<1>5. ASSUME NEW n \in Nat, n \in T PROVE n + 1 \in T
  <2>1. SUFFICES ASSUME n + 1 <= Len(events) PROVE MadeOf(folded[n + 1], first(n + 1))
    OBVIOUS
  <2>2. n + 1 \in 1 .. Len(events) /\ n + 1 - 1 = n /\ n <= Len(events)
    BY <1>1, <2>1
  <2> DEFINE e == events[n + 1]
  <2>3. e \in ToSet(events)
    BY <1>1, <2>2 DEF ToSet
  <2>4. first(n + 1) = first(n) \cup {e}
    <3>1. \A i \in 1 .. n + 1 : i = n + 1 \/ i \in 1 .. n
      OBVIOUS
    <3>2. \A i \in 1 .. n : i \in 1 .. n + 1
      OBVIOUS
    <3>3. n + 1 \in 1 .. n + 1
      OBVIOUS
    <3>4. QED
      BY <3>1, <3>2, <3>3
  <2>5. MadeOf(folded[n], first(n))
    BY <1>5, <2>2
  <2>6. folded[n + 1] = K!Apply(folded[n], e)
    BY <1>3, <2>2
  <2> HIDE DEF e, first
  <2>7. QED
    BY <2>3, <2>4, <2>5, <2>6, ApplyAdds
<1> HIDE DEF T
<1>6. Nat \subseteq T
  BY <1>4, <1>5, NatInd
<1>7. MadeOf(folded[Len(events)], first(Len(events)))
  <2>1. Len(events) \in T
    BY <1>1, <1>6
  <2> HIDE DEF first
  <2>2. QED
    BY <1>1, <2>1 DEF T
<1>8. first(Len(events)) = ToSet(events)
  BY <1>1 DEF ToSet
<1>9. QED
  BY <1>2, <1>7, <1>8


-----------------------------------------------------------------------------
(* What can be released *)

\* The kinds that the projections join.
Structure == {"block", "component", "pin", "net", "part", "line", "placement", "track"}

\* It can be lowered to manufacture, has a track on every net, a component for every
\* placement, and no violation.
Releasable(state) ==
  /\ K!LowersToManufacturing(state)
  /\ \A n \in K!Entities(state, "net") : \E t \in K!Entities(state, "track") : K!NameOf(n) \in t.names
  /\ \A p \in K!Entities(state, "placement") : K!NamesOfKind(p, "component") /= {}
  /\ K!Entities(state, "violation") = {}

\* The second state has what the first has, and of requirements perhaps more.
Extends(next, state) ==
  /\ \A kind \in Structure : K!Entities(next, kind) = K!Entities(state, kind)
  /\ K!Entities(state, "requirement") \subseteq K!Entities(next, "requirement")
  /\ \A r \in K!Entities(next, "requirement") : K!NamesOfKind(r, "intent") /= {}
  /\ state["board"] /= <<>> => next["board"] /= <<>>
  /\ K!Entities(state, "violation") = {} => K!Entities(next, "violation") = {}

(* A name is held, or named, according to the entities of a state. *)
LEMMA HoldsAndNames ==
  ASSUME NEW state, NEW n
  PROVE  /\ K!Holds(state, n) <=> \E e \in K!Entities(state, n[1]) : e.id = n[2]
         /\ \A kind : K!Naming(state, kind, n) /= {} <=>
                        \E e \in K!Entities(state, kind) : n \in e.names
<1>1. K!Holds(state, n) <=> \E e \in ToSet(state[n[1]]) : e.id = n[2]
  BY DEF K!Holds, ToSet
<1>2. \A kind : K!Naming(state, kind, n) /= {} <=> \E e \in ToSet(state[kind]) : n \in e.names
  BY DEF K!Naming, ToSet
<1>3. QED
  BY <1>1, <1>2, EntitiesOf

(* What is held goes on to be. *)
LEMMA HoldsStill ==
  ASSUME NEW state, NEW next, Extends(next, state), NEW n, n[1] \in Structure \cup {"requirement"}
  PROVE  K!Holds(state, n) => K!Holds(next, n)
<1>1. K!Entities(state, n[1]) \subseteq K!Entities(next, n[1])
  BY DEF Extends
<1>2. QED
  BY <1>1, HoldsAndNames

(* Nothing that a kind names is unknown, if nothing that it named was. *)
LEMMA UnknownStill ==
  ASSUME NEW state, NEW next, Extends(next, state), NEW kind \in Structure,
         NEW other \in Structure \cup {"requirement"}, NEW variant,
         K!ErrorUnknown(variant, state, K!NamedBy(state, kind, other)) = {}
  PROVE  K!ErrorUnknown(variant, next, K!NamedBy(next, kind, other)) = {}
<1>1. K!NamedBy(next, kind, other) = K!NamedBy(state, kind, other)
  BY DEF K!NamedBy, Extends
<1>2. \A n \in K!NamedBy(state, kind, other) : n[1] = other
  BY DEF K!NamedBy, K!NamesOfKind
<1>3. \A n \in K!NamedBy(state, kind, other) : K!Holds(state, n)
  BY DEF K!ErrorUnknown
<1>4. \A n \in K!NamedBy(state, kind, other) : K!Holds(next, n)
  BY <1>2, <1>3, HoldsStill
<1>5. QED
  BY <1>1, <1>4 DEF K!ErrorUnknown

(* The schematic still lowers. *)
LEMMA SchematicStill ==
  ASSUME NEW state, NEW next, Extends(next, state), K!LowersToSchematic(state)
  PROVE  K!LowersToSchematic(next)
<1>1. K!RequirementIr(next) = {}
  BY DEF K!RequirementIr, K!ErrorEach, Extends
<1>2. K!EngineeringIr(next) = {}
  <2>1. ASSUME NEW b \in K!Entities(next, "block")
        PROVE  /\ K!NamesOfKind(b, "requirement") /= {}
               /\ \A n \in K!NamesOfKind(b, "requirement") : K!Holds(next, n)
    <3>1. b \in K!Entities(state, "block")
      BY DEF Extends, Structure
    <3>2. /\ K!NamesOfKind(b, "requirement") /= {}
          /\ \A n \in K!NamesOfKind(b, "requirement") : K!Holds(state, n)
      BY <3>1 DEF K!LowersToSchematic, K!EngineeringIr, K!ErrorEach
    <3>3. \A n \in K!NamesOfKind(b, "requirement") : n[1] = "requirement"
      BY DEF K!NamesOfKind
    <3>4. QED
      BY <3>2, <3>3, HoldsStill
  <2>2. QED
    BY <2>1 DEF K!EngineeringIr, K!ErrorEach
<1>3. K!SchematicIr(next) = {}
  <2>1. ASSUME NEW c \in K!Entities(next, "component")
        PROVE  \E n \in K!NamesOfKind(c, "block") : K!Holds(next, n)
    <3>1. c \in K!Entities(state, "component")
      BY DEF Extends, Structure
    <3>2. PICK n \in K!NamesOfKind(c, "block") : K!Holds(state, n)
      BY <3>1 DEF K!LowersToSchematic, K!SchematicIr, K!ErrorEach
    <3>3. n[1] = "block"
      BY DEF K!NamesOfKind
    <3>4. QED
      BY <3>2, <3>3, HoldsStill DEF Structure
  <2>2. K!ErrorUnknown("UnknownNetMember", next, K!NamedBy(next, "net", "pin")) = {}
    <3>1. K!ErrorUnknown("UnknownNetMember", state, K!NamedBy(state, "net", "pin")) = {}
      BY DEF K!LowersToSchematic, K!SchematicIr
    <3>2. QED
      BY <3>1, UnknownStill DEF Structure
  <2>3. QED
    BY <2>1, <2>2 DEF K!SchematicIr, K!ErrorEach
<1>4. QED
  BY <1>1, <1>2, <1>3 DEF K!LowersToSchematic, K!LowersToRequirement

(* So does the board. *)
LEMMA BoardStill ==
  ASSUME NEW state, NEW next, Extends(next, state), K!PcbIr(state) = {}
  PROVE  K!PcbIr(next) = {}
<1>1. state["board"] /= <<>>
  BY DEF K!PcbIr
<1>2. next["board"] /= <<>>
  BY <1>1 DEF Extends
<1>3. /\ K!ErrorUnknown("PlacementUnknownComponent", state,
                        K!NamedBy(state, "placement", "component")) = {}
      /\ K!ErrorUnknown("TrackUnknownNet", state, K!NamedBy(state, "track", "net")) = {}
      /\ \A c \in K!Entities(state, "component") : K!Naming(state, "placement", K!NameOf(c)) /= {}
  BY <1>1 DEF K!PcbIr, K!ErrorEach
<1>4. /\ K!ErrorUnknown("PlacementUnknownComponent", next,
                        K!NamedBy(next, "placement", "component")) = {}
      /\ K!ErrorUnknown("TrackUnknownNet", next, K!NamedBy(next, "track", "net")) = {}
  BY <1>3, UnknownStill DEF Structure
<1>5. \A c \in K!Entities(next, "component") : K!Naming(next, "placement", K!NameOf(c)) /= {}
  <2>1. /\ K!Entities(next, "component") = K!Entities(state, "component")
        /\ K!Entities(next, "placement") = K!Entities(state, "placement")
    BY DEF Extends, Structure
  <2>2. QED
    BY <1>3, <2>1, HoldsAndNames
<1>6. QED
  BY <1>2, <1>4, <1>5 DEF K!PcbIr, K!ErrorEach

(* And the bill of materials. *)
LEMMA BomStill ==
  ASSUME NEW state, NEW next, Extends(next, state), K!BomIr(state) = {}
  PROVE  K!BomIr(next) = {}
<1>1. /\ K!ErrorUnknown("UnknownPart", state, K!NamedBy(state, "line", "part")) = {}
      /\ K!ErrorUnknown("LineItemUnknownComponent", state, K!NamedBy(state, "line", "component")) = {}
      /\ \A c \in K!Entities(state, "component") : K!Naming(state, "line", K!NameOf(c)) /= {}
  BY DEF K!BomIr, K!ErrorEach
<1>2. /\ K!ErrorUnknown("UnknownPart", next, K!NamedBy(next, "line", "part")) = {}
      /\ K!ErrorUnknown("LineItemUnknownComponent", next, K!NamedBy(next, "line", "component")) = {}
  BY <1>1, UnknownStill DEF Structure
<1>3. \A c \in K!Entities(next, "component") : K!Naming(next, "line", K!NameOf(c)) /= {}
  <2>1. /\ K!Entities(next, "component") = K!Entities(state, "component")
        /\ K!Entities(next, "line") = K!Entities(state, "line")
    BY DEF Extends, Structure
  <2>2. QED
    BY <1>1, <2>1, HoldsAndNames
<1>4. QED
  BY <1>2, <1>3 DEF K!BomIr, K!ErrorEach

(* No line orders an unknown part. *)
LEMMA PartsAreKnown ==
  ASSUME NEW state, K!BomIr(state) = {}, NEW i \in DOMAIN state["line"], NEW variant
  PROVE  K!ErrorUnknown(variant, state, K!NamesOfKind(state["line"][i], "part")) = {}
<1>1. state["line"][i] \in K!Entities(state, "line")
  BY EntitiesOf DEF ToSet
<1>2. \A n \in K!NamedBy(state, "line", "part") : K!Holds(state, n)
  BY DEF K!BomIr, K!ErrorUnknown
<1>3. \A n \in K!NamesOfKind(state["line"][i], "part") : K!Holds(state, n)
  BY <1>1, <1>2 DEF K!NamedBy
<1>4. QED
  BY <1>3 DEF K!ErrorUnknown

(* The join asks that what is placed is there and on a line. *)
LEMMA JoinIs ==
  ASSUME NEW state, K!BomIr(state) = {}
  PROVE  K!ManufacturingIr(state) = {} <=>
           \A p \in K!Entities(state, "placement") :
             K!Holds(state, K!Placed(p)) /\ K!Naming(state, "line", K!Placed(p)) /= {}
<1> DEFINE unknown(p) == {K!Error("PlacementUnknownComponent", K!Placed(p))}
           unsourced(p) == {K!Error("UnsourcedPlacement", K!Placed(p))}
           parts(p) == UNION {K!ErrorUnknown("UnknownPart", state,
                                             K!NamesOfKind(state["line"][i], "part")) :
                                i \in {i \in DOMAIN state["line"] : K!IsLineOf(i, state, K!Placed(p))}}
           errors(p) == IF ~K!Holds(state, K!Placed(p)) THEN unknown(p)
                        ELSE IF K!Naming(state, "line", K!Placed(p)) = {} THEN unsourced(p)
                        ELSE parts(p)
<1>1. K!ManufacturingIr(state) = UNION {errors(p) : p \in K!Entities(state, "placement")}
  BY DEF K!ManufacturingIr
<1>2. \A p : parts(p) = {}
  BY PartsAreKnown
<1>3. \A p : unknown(p) /= {} /\ unsourced(p) /= {}
  OBVIOUS
<1> HIDE DEF parts, unknown, unsourced
<1>4. \A p : errors(p) = {} <=> K!Holds(state, K!Placed(p)) /\ K!Naming(state, "line", K!Placed(p)) /= {}
  BY <1>2, <1>3
<1> HIDE DEF errors
<1>5. K!ManufacturingIr(state) = {} <=> \A p \in K!Entities(state, "placement") : errors(p) = {}
  BY <1>1
<1>6. QED
  BY <1>4, <1>5

(* A state that has what one has that can be released can be released. *)
LEMMA ReleasableStill ==
  ASSUME NEW state, NEW next, Extends(next, state), Releasable(state)
  PROVE  Releasable(next)
<1>1. /\ K!LowersToSchematic(state) /\ K!BomIr(state) = {} /\ K!PcbIr(state) = {}
      /\ K!ManufacturingIr(state) = {}
  BY DEF Releasable, K!LowersToManufacturing, K!LowersToBom, K!LowersToPcb
<1>2. K!LowersToSchematic(next) /\ K!BomIr(next) = {} /\ K!PcbIr(next) = {}
  BY <1>1, SchematicStill, BomStill, BoardStill
<1>3. /\ K!Entities(next, "placement") = K!Entities(state, "placement")
      /\ K!Entities(next, "component") = K!Entities(state, "component")
      /\ K!Entities(next, "line") = K!Entities(state, "line")
      /\ K!Entities(next, "net") = K!Entities(state, "net")
      /\ K!Entities(next, "track") = K!Entities(state, "track")
  BY DEF Extends, Structure
<1>4. ASSUME NEW p \in K!Entities(next, "placement")
      PROVE  K!Holds(next, K!Placed(p)) /\ K!Naming(next, "line", K!Placed(p)) /= {}
  <2>1. p \in K!Entities(state, "placement")
    BY <1>3
  <2>2. K!Holds(state, K!Placed(p)) /\ K!Naming(state, "line", K!Placed(p)) /= {}
    BY <1>1, <2>1, JoinIs
  <2> DEFINE n == K!Placed(p)
  <2> HIDE DEF n
  <2>3. K!Holds(state, n) /\ K!Naming(state, "line", n) /= {}
    BY <2>2 DEF n
  <2>4. K!Naming(next, "line", n) /= {}
    BY <1>3, <2>3, HoldsAndNames
  <2>5. n[1] = "component"
    <3>1. PICK q \in p.names : q[1] = "component"
      BY <2>1 DEF Releasable, K!NamesOfKind
    <3>2. QED
      BY <3>1 DEF n, K!Placed
  <2>6. K!Holds(next, n)
    BY <2>3, <2>5, HoldsStill DEF Structure
  <2>7. QED
    BY <2>4, <2>6 DEF n
<1>5. K!ManufacturingIr(next) = {}
  BY <1>2, <1>4, JoinIs
<1>6. QED
  BY <1>2, <1>3, <1>5 DEF Releasable, Extends, K!LowersToManufacturing, K!LowersToBom, K!LowersToPcb

-----------------------------------------------------------------------------
(* What a log says *)

\* What the log of a file replays to.
Replayed(f) == K!Replay(K!EventsOf(f.lines))

\* It has ManufacturingGenerated.
Says(f) == \E e \in EventsIn(f) : e.kind = "audit" /\ e.id[1] = "ManufacturingGeneration"

\* No waiver, and no requirement without an intent.
Regular(e) == e.kind /= "waiver" /\ (e.kind = "requirement" => K!NamesOfKind(e, "intent") /= {})

AllRegular(f) == \A e \in EventsIn(f) : Regular(e)

(* A log without waivers replays to its entities. *)
LEMMA ReplayedIs ==
  ASSUME NEW f, WellWritten(f), AllRegular(f)
  PROVE  MadeOf(Replayed(f), EventsIn(f))
<1> DEFINE events == K!EventsOf(f.lines)
<1>1. IsList(events) /\ ToSet(events) = EventsIn(f)
  BY EventsOfLines
<1>2. \A e \in ToSet(events) : e.kind /= "waiver"
  BY <1>1 DEF AllRegular, Regular
<1> HIDE DEF events
<1>3. MadeOf(K!Replay(events), ToSet(events))
  BY <1>1, <1>2, ReplayIs
<1>4. QED
  BY <1>1, <1>3 DEF Replayed, events

(* The entities of a state, by kind. *)
LEMMA MadeEntities ==
  ASSUME NEW state, NEW entities, MadeOf(state, entities), NEW kind \in K!ListKinds
  PROVE  K!Entities(state, kind) = {e \in entities : e.kind = kind}
BY EntitiesOf DEF MadeOf

(* The kinds of which a state has lists. *)
LEMMA ListsAre ==
  Structure \cup {"requirement", "violation"} \subseteq K!ListKinds /\ "audit" \notin K!ListKinds
BY DEF Structure, K!ListKinds

(* A log that can be released can be when audits have joined it. *)
LEMMA ReleasedStill ==
  ASSUME NEW f, NEW g, WellWritten(f), WellWritten(g), AllRegular(f), AllRegular(g),
         EventsIn(f) \subseteq EventsIn(g),
         \A e \in EventsIn(g) : e \in EventsIn(f) \/ e.kind = "audit",
         Releasable(Replayed(f))
  PROVE  Releasable(Replayed(g))
<1> DEFINE S == EventsIn(f)
           T == EventsIn(g)
           state == Replayed(f)
           next == Replayed(g)
<1>1. MadeOf(state, S) /\ MadeOf(next, T)
  BY ReplayedIs
<1>2. S \subseteq T /\ \A e \in T : Regular(e) /\ (e \in S \/ e.kind = "audit")
  BY DEF AllRegular
<1> HIDE DEF S, T, state, next
<1>3. \A kind \in K!ListKinds : {e \in T : e.kind = kind} = {e \in S : e.kind = kind}
  BY <1>2, ListsAre
<1>4. \A kind \in K!ListKinds : K!Entities(next, kind) = K!Entities(state, kind)
  <2>1. SUFFICES ASSUME NEW kind \in K!ListKinds PROVE K!Entities(next, kind) = K!Entities(state, kind)
    OBVIOUS
  <2>2. /\ K!Entities(next, kind) = {e \in T : e.kind = kind}
        /\ K!Entities(state, kind) = {e \in S : e.kind = kind}
    BY <1>1, MadeEntities
  <2>3. QED
    BY <1>3, <2>2
<1>5. \A r \in K!Entities(next, "requirement") : K!NamesOfKind(r, "intent") /= {}
  BY <1>1, <1>2, MadeEntities, ListsAre DEF Regular
<1>6. state["board"] /= <<>> => next["board"] /= <<>>
  BY <1>1, <1>2 DEF MadeOf
<1>7. Extends(next, state)
  BY <1>4, <1>5, <1>6, ListsAre DEF Extends
<1>8. QED
  BY <1>7, ReleasableStill DEF state, next

(* What the property asks of a log that can be released. *)
LEMMA ReleasableIsEnough ==
  ASSUME NEW state, Releasable(state)
  PROVE  /\ K!LowersToManufacturing(state)
         /\ \A n \in K!Entities(state, "net") : K!Naming(state, "track", K!NameOf(n)) /= {}
         /\ OpenBlocking(DesignOf(state)) = {}
<1>1. \A n \in K!Entities(state, "net") : K!Naming(state, "track", K!NameOf(n)) /= {}
  BY HoldsAndNames DEF Releasable
<1>2. OpenBlocking(DesignOf(state)) = {}
  <2>1. DOMAIN state["violation"] = {}
    BY EntitiesOf DEF Releasable, ToSet
  <2>2. DOMAIN DesignOf(state)["violation"] = {}
    BY <2>1 DEF DesignOf, DesignKinds
  <2>3. QED
    BY <2>2 DEF OpenBlocking, ToSet
<1>3. QED
  BY <1>1, <1>2 DEF Releasable

-----------------------------------------------------------------------------
(* The invariant of the record *)

\* A track names the net that it was laid for.
OnNets ==
  \A t \in K!Entities(live, "track") : \E n \in K!Entities(live, "net") :
    n.id[1] = t.id[1].net /\ K!NameOf(n) \in t.names

\* What the log may have and the process not know of: no more than what comes with
\* requirements, and what a gate would find again.
Asides == {"audit", "evidence", "decision", "link", "requirement"}

Expected(e) ==
  \/ e.kind \in Asides
  \/ e.kind \in NamedKinds /\ e \in K!Entities(live, e.kind)
  \/ e.kind = "violation" /\ Foreseen(e.id[1])

\* The phase fails, and with it the workflow.
Stuck == stage = "failing" /\ Running \notin Gates \cup {"RequirementPlanning"}

\* Nothing is sent any more.
Over ==
  status = "running" => pc = "returned" \/ Place > NumDefault \/ (Place = NumDefault /\ todo = <<>>)

\* The run has passed what is behind it.
RunInv == runs = 1 /\ (pc = "running" => Passed)

FileInv ==
  /\ WellWritten(file)
  /\ status = "starting" => file = K!EmptyFile
  /\ K!Readable(file) => AllRegular(file)

LiveOnFile ==
  status = "running" =>
    /\ live["waiver"] = <<>>
    /\ OnNets
    /\ K!Readable(file) => \A kind \in NamedKinds : K!Entities(live, kind) \subseteq EventsIn(file)
    /\ K!Readable(file) /\ pc = "running" /\ ~Stuck => \A e \in EventsIn(file) : Expected(e)

ReleaseOnFile == K!Readable(file) /\ Says(file) => Releasable(Replayed(file)) /\ Over

RecordInv == RunInv /\ FileInv /\ LiveOnFile /\ ReleaseOnFile

\* What is known of the process.
KnownInv == PipelineInv /\ Done /\ WholeInv

(* It says what is to be shown. *)
LEMMA RecordIsEnough ==
  ASSUME RecordInv
  PROVE  ReleaseIsOnRecord
<1>1. SUFFICES ASSUME K!Readable(file), SaysReleased
               PROVE  Releasable(K!Replay(K!History))
  BY ReleasableIsEnough DEF ReleaseIsOnRecord
<1>2. WellWritten(file)
  BY DEF RecordInv, FileInv
<1>3. ToSet(K!EventsOf(file.lines)) = EventsIn(file)
  BY <1>2, EventsOfLines
<1>4. K!History = K!EventsOf(file.lines)
  BY DEF K!History
<1>5. Says(file)
  BY <1>1, <1>3, <1>4 DEF SaysReleased, Says, ToSet
<1>6. Releasable(Replayed(file))
  BY <1>1, <1>5 DEF RecordInv, ReleaseOnFile
<1>7. QED
  BY <1>4, <1>6 DEF Replayed

(* What is foreseen depends on the design and on what has succeeded. *)
LEMMA ForeseenKept ==
  ASSUME UNCHANGED <<designVars, results>>, NEW f, Foreseen(f)
  PROVE  Foreseen(f)'
<1>1. PICK g \in 1 .. NumDefault :
        /\ PhaseNames[g] \in Gates
        /\ f \in ToSet(Findings(PhaseNames[g]))
        /\ \A k \in 1 .. NumDefault : k < g => Succeeded(PhaseNames[k])
  BY DEF Foreseen
<1>2. Same(Reads(PhaseNames[g]))
  BY DEF designVars, Same
<1>3. Findings(PhaseNames[g])' = Findings(PhaseNames[g])
  BY <1>1, <1>2, SameFindings
<1>4. \A other : Succeeded(other) => Succeeded(other)'
  BY DEF Succeeded
<1>5. QED
  BY <1>1, <1>3, <1>4 DEF Foreseen

(* The run keeps what it has passed, and what its gates find.                          *)
LEMMA RunGoesOn ==
  ASSUME KnownInv, RunInv, [WorkflowNext]_workflowVars, runs' = runs,
         pc = "running" \/ UNCHANGED workflowVars
  PROVE  RunInv' /\ \A f : pc = "running" /\ Foreseen(f) => Foreseen(f)'
<1>1. CASE UNCHANGED workflowVars
  <2>1. UNCHANGED <<designVars, results>> /\ pc' = pc /\ Place' = Place
    BY <1>1 DEF workflowVars, vars, Place, NumPhases, NumDefault
  <2>2. \A f : Foreseen(f) => Foreseen(f)'
    BY <2>1, ForeseenKept
  <2>3. \A other : Succeeded(other)' <=> Succeeded(other)
    BY <2>1 DEF Succeeded
  <2>4. Passed => Passed'
    BY <2>1, <2>3 DEF Passed, NumDefault
  <2>5. QED
    BY <2>1, <2>2, <2>4 DEF RunInv
<1>2. CASE WorkflowNext /\ pc = "running"
  <2>1. BuildInv /\ Done /\ Passed
    BY <1>2 DEF KnownInv, PipelineInv, RunInv
  <2>2. Passed' /\ \A f : Foreseen(f) => Foreseen(f)'
    BY <1>2, <2>1, PassedStays, ForeseenStays
  <2>3. QED
    BY <2>2 DEF RunInv
<1>3. QED
  BY <1>1, <1>2

(* An event of the engine or of a phase is an audit in the log, if it is written.          *)
LEMMA EventLogged ==
  ASSUME PipelineInv, WellWritten(file), NEW item, K!Emit(EventFor(item))
  PROVE  /\ WellWritten(file')
         /\ K!Readable(file') =>
              /\ K!Readable(file) /\ EventsIn(file) \subseteq EventsIn(file')
              /\ \A e \in EventsIn(file') :
                   e \in EventsIn(file) \/ (e.kind = "audit" /\ e.id[1] = item)
<1> DEFINE r == EventFor(item)
<1>1. status = "running" /\ K!Submit(r)
  BY DEF K!Emit, K!Requested
<1>2. IsList(records) /\ LiveInv
  BY <1>1, Serving
<1>3. WellFormed(r)
  BY <1>2, EventFolds DEF LiveInv
<1>4. \A e \in ToSet(K!Events(r)) : e.kind = "audit" /\ e.id[1] = item
  <2>1. ToSet(K!Events(r)) = ToSet(r.evidence) \cup ToSet(r.decision) \cup {r.entity}
                               \cup ToSet(r.pins) \cup ToSet(r.links)
    <3> HIDE DEF r
    <3>1. QED
      BY <1>3, EventsAre
  <2>2. /\ r.evidence = <<>> /\ r.decision = <<>> /\ r.pins = <<>> /\ r.links = <<>>
        /\ r.entity.kind = "audit" /\ r.entity.id[1] = item
    BY DEF EventFor, EntityOf, NewId
  <2> HIDE DEF r
  <2>3. QED
    BY <2>1, <2>2, EmptyList
<1> HIDE DEF r
<1>5. /\ WellWritten(file')
      /\ K!Readable(file') =>
           /\ K!Readable(file) /\ EventsIn(file) \subseteq EventsIn(file')
           /\ EventsIn(file') \subseteq EventsIn(file) \cup ToSet(K!Events(r))
  BY <1>1, <1>2, <1>3, LogGrows
<1>6. QED
  BY <1>4, <1>5

\* What was in the log stays, and nothing but audits joins it.
OnlyAudits ==
  K!Readable(file') =>
    /\ K!Readable(file) /\ EventsIn(file) \subseteq EventsIn(file')
    /\ \A e \in EventsIn(file') : e \in EventsIn(file) \/ e.kind = "audit"

(* Audits change nothing that is on record. *)
LEMMA AuditsKeepFile ==
  ASSUME FileInv, WellWritten(file'), OnlyAudits, status' /= "starting"
  PROVE  FileInv'
<1>1. K!Readable(file') => AllRegular(file')
  BY DEF OnlyAudits, FileInv, AllRegular, Regular
<1>2. QED
  BY <1>1 DEF FileInv

(* Nor what was released, if they do not say that something is. *)
LEMMA AuditsKeepRelease ==
  ASSUME FileInv, FileInv', ReleaseOnFile, OnlyAudits, Over => Over',
         K!Readable(file') /\ Says(file') => Says(file)
  PROVE  ReleaseOnFile'
<1>1. SUFFICES ASSUME K!Readable(file'), Says(file') PROVE Releasable(Replayed(file')) /\ Over'
  BY DEF ReleaseOnFile
<1>2. /\ K!Readable(file) /\ EventsIn(file) \subseteq EventsIn(file')
      /\ \A e \in EventsIn(file') : e \in EventsIn(file) \/ e.kind = "audit"
  BY <1>1 DEF OnlyAudits
<1>3. Releasable(Replayed(file)) /\ Over
  BY <1>1, <1>2 DEF ReleaseOnFile
<1>4. WellWritten(file) /\ WellWritten(file') /\ AllRegular(file) /\ AllRegular(file')
  BY <1>1, <1>2 DEF FileInv
<1>5. Releasable(Replayed(file'))
  BY <1>2, <1>3, <1>4, ReleasedStill
<1>6. QED
  BY <1>3, <1>5

(* Nor what is live, while nothing else changes. *)
LEMMA AuditsKeepLive ==
  ASSUME LiveOnFile, OnlyAudits,
         status' = "running" => status = "running" /\ live' = live,
         status' = "running" /\ pc' = "running" =>
           /\ pc = "running" /\ (Stuck => Stuck')
           /\ \A f : Foreseen(f) => Foreseen(f)'
  PROVE  LiveOnFile'
<1>1. SUFFICES ASSUME status' = "running" PROVE LiveOnFile'
  BY DEF LiveOnFile
<1>2. status = "running" /\ live' = live
  BY <1>1
<1>3. live'["waiver"] = <<>> /\ OnNets'
  BY <1>2 DEF LiveOnFile, OnNets
<1>4. K!Readable(file') => \A kind \in NamedKinds : K!Entities(live', kind) \subseteq EventsIn(file')
  BY <1>2 DEF LiveOnFile, OnlyAudits
<1>5. ASSUME K!Readable(file'), pc' = "running", ~Stuck', NEW e \in EventsIn(file')
      PROVE  Expected(e)'
  <2>1. e \in EventsIn(file) => Expected(e)
    BY <1>1, <1>2, <1>5 DEF LiveOnFile, OnlyAudits
  <2>2. e \in EventsIn(file) \/ e.kind = "audit"
    BY <1>5 DEF OnlyAudits
  <2>3. "audit" \in Asides
    BY DEF Asides
  <2>4. QED
    BY <1>1, <1>2, <1>5, <2>1, <2>2, <2>3 DEF Expected
<1>6. QED
  BY <1>3, <1>4, <1>5 DEF LiveOnFile

-----------------------------------------------------------------------------
(* The steps that log no entity *)

(* The phase that runs is at its place. *)
LEMMA RunsAtPlace ==
  ASSUME PipelineInv, Iterates, Running \in DefaultNames, At(Running)
  PROVE  /\ pc = "running" /\ Place \in 1 .. NumDefault /\ PhaseNames[Place] = Running
         /\ Running = "ManufacturingGeneration" <=> Place = NumDefault
         /\ Place = NumDefault => Running \notin Gates /\ Planned = <<>>
<1>1. ReleaseInv
  BY DEF PipelineInv, BuildInv, WorkflowInv
<1>2. Place \in 1 .. NumDefault /\ PhaseNames[Place] = Running
  BY <1>1, AtPlace
<1>3. pc = "running"
  BY DEF Iterates
<1>4. PhaseNames[15] = "ManufacturingGeneration" /\ NumDefault = 15
  BY DEF PhaseNames, NumDefault
<1>5. Running = "ManufacturingGeneration" => Place = NumDefault
  BY <1>2, DefaultNamesShape
<1>6. Place = NumDefault => Running = "ManufacturingGeneration"
  BY <1>2, <1>4
<1>7. Running = "ManufacturingGeneration" => Running \notin Gates /\ Planned = <<>>
  BY DEF Gates, Planned
<1>8. QED
  BY <1>2, <1>3, <1>5, <1>6, <1>7

(* A phase that returns has not more to send than the last one: nothing. *)
LEMMA PhaseOver ==
  ASSUME PipelineInv, Iterates, Running \in DefaultNames, At(Running),
         PhaseSucceeds \/ PhaseFails, Over, status = "running"
  PROVE  Over'
<1>1. /\ pc = "running" /\ Place \in 1 .. NumDefault
      /\ Place = NumDefault => Running \notin Gates
  BY RunsAtPlace
<1>2. Place = NumDefault /\ NumDefault = 15
  BY <1>1 DEF Over, NumDefault
<1>3. ReleaseInv /\ plan.loopbacks = DefaultLoopBacks
  BY DEF PipelineInv, BuildInv, WorkflowInv
<1> DEFINE phase == Running
<1>4. At(phase)
  OBVIOUS
<1> HIDE DEF phase
<1>5. /\ PhaseSucceeds => Place' = Place + 1
      /\ PhaseFails => GivenUp' \/ phase \in Gates
  BY <1>3, <1>4, Moves
<1>6. PhaseSucceeds => Place' > NumDefault
  BY <1>2, <1>5
<1>7. PhaseFails => pc' = "returned"
  BY <1>1, <1>2, <1>5 DEF GivenUp, phase
<1>8. NumDefault' = NumDefault
  BY DEF NumDefault
<1>9. QED
  BY <1>6, <1>7, <1>8 DEF Over

(* Between two phases, or inside one, what was over is. *)
LEMMA StillOver ==
  ASSUME UNCHANGED workflowVars, Over, status' = "running" => status = "running",
         Place = NumDefault => (todo = <<>> => todo' = <<>>)
  PROVE  Over'
<1>1. pc' = pc /\ Place' = Place /\ NumDefault' = NumDefault
  BY DEF workflowVars, vars, Place, NumPhases, NumDefault
<1>2. QED
  BY <1>1 DEF Over

(* A phase opens. *)
LEMMA EntersRecord ==
  ASSUME KnownInv, RecordInv, Enters, [WorkflowNext]_workflowVars
  PROVE  RecordInv'
<1> DEFINE r == EventFor("entered")
<1>1. /\ stage = "idle" /\ Iterates /\ UNCHANGED <<candidates, runs, dropped>> /\ K!Emit(r)
      /\ \/ /\ Answers(r)
            /\ stage' = "sending"
            /\ todo' = Planned
            /\ UNCHANGED <<vars, design, released, faults, lost>>
         \/ /\ Refuses(r)
            /\ PhaseFails
            /\ design' = DesignOf(live)
            /\ faults' = faults + 1
            /\ UNCHANGED <<stage, todo, lost, released>>
         \/ NoAnswer
  BY DEF Enters
<1>2. PipelineInv /\ RunInv /\ FileInv /\ LiveOnFile /\ ReleaseOnFile /\ WellWritten(file)
  BY DEF KnownInv, RecordInv, FileInv
<1>3. /\ status = "running"
      /\ Answers(r) \/ Refuses(r) => status' = "running" /\ live' = live
  BY <1>1, <1>2, EventGives
<1>4. /\ WellWritten(file')
      /\ K!Readable(file') =>
           /\ K!Readable(file) /\ EventsIn(file) \subseteq EventsIn(file')
           /\ \A e \in EventsIn(file') :
                e \in EventsIn(file) \/ (e.kind = "audit" /\ e.id[1] = "entered")
  BY <1>1, <1>2, EventLogged
<1> HIDE DEF r
<1>5. OnlyAudits /\ (K!Readable(file') /\ Says(file') => Says(file))
  BY <1>4 DEF OnlyAudits, Says
<1>6. Running \in DefaultNames /\ At(Running)
  BY <1>1, <1>2, RunningIs DEF PipelineInv
<1>7. pc = "running" /\ (Place = NumDefault => Planned = <<>>)
  BY <1>1, <1>2, <1>6, RunsAtPlace
<1>8. status' = "down" \/ (status' = "running" /\ live' = live)
  BY <1>1, <1>3 DEF NoAnswer
<1>9. runs' = runs
  BY <1>1
<1>10. RunInv' /\ \A f : Foreseen(f) => Foreseen(f)'
  BY <1>2, <1>7, <1>9, RunGoesOn
<1>11. Over => Over'
  <2>1. CASE NoAnswer
    BY <2>1 DEF NoAnswer, Over
  <2>2. CASE Answers(r) /\ todo' = Planned /\ UNCHANGED <<vars, design, released, faults, lost>>
    <3>1. UNCHANGED workflowVars
      BY <1>1, <2>2 DEF workflowVars, designVars, runVars
    <3>2. QED
      BY <1>3, <1>7, <2>2, <3>1, StillOver
  <2>3. CASE PhaseFails
    BY <1>1, <1>2, <1>3, <1>6, <2>3, PhaseOver
  <2>4. QED
    BY <1>1, <2>1, <2>2, <2>3
<1>12. FileInv'
  BY <1>2, <1>4, <1>5, <1>8, AuditsKeepFile
<1>13. ReleaseOnFile'
  BY <1>2, <1>5, <1>11, <1>12, AuditsKeepRelease
<1>14. LiveOnFile'
  BY <1>1, <1>2, <1>3, <1>5, <1>7, <1>8, <1>10, AuditsKeepLive DEF Stuck
<1>15. QED
  BY <1>10, <1>12, <1>13, <1>14 DEF RecordInv

(* A phase returns. *)
LEMMA ClosesRecord ==
  ASSUME KnownInv, RecordInv, Closes, [WorkflowNext]_workflowVars
  PROVE  RecordInv'
<1> DEFINE r == EventFor("closed")
<1>1. /\ stage \in {"passing", "failing"} /\ UNCHANGED <<candidates, runs>> /\ K!Emit(r)
      /\ \/ /\ Answers(r) \/ Refuses(r)
            /\ IF stage = "passing" THEN PhaseSucceeds ELSE PhaseFails
            /\ stage' = "idle"
            /\ todo' = todo
         \/ NoAnswer
  BY DEF Closes
<1>2. PipelineInv /\ RunInv /\ FileInv /\ LiveOnFile /\ ReleaseOnFile /\ WellWritten(file)
  BY DEF KnownInv, RecordInv, FileInv
<1>3. /\ status = "running"
      /\ Answers(r) \/ Refuses(r) => status' = "running" /\ live' = live
  BY <1>1, <1>2, EventGives
<1>4. /\ WellWritten(file')
      /\ K!Readable(file') =>
           /\ K!Readable(file) /\ EventsIn(file) \subseteq EventsIn(file')
           /\ \A e \in EventsIn(file') :
                e \in EventsIn(file) \/ (e.kind = "audit" /\ e.id[1] = "closed")
  BY <1>1, <1>2, EventLogged
<1> HIDE DEF r
<1>5. OnlyAudits /\ (K!Readable(file') /\ Says(file') => Says(file))
  BY <1>4 DEF OnlyAudits, Says
<1>6. Iterates /\ Running \in DefaultNames /\ At(Running)
  BY <1>1, <1>2, <1>3, InsidePhase
<1>7. pc = "running"
  BY <1>6 DEF Iterates
<1>8. status' = "down" \/ (status' = "running" /\ live' = live /\ ~NoAnswer)
  BY <1>1, <1>3 DEF NoAnswer
<1>9. runs' = runs
  BY <1>1
<1>10. RunInv' /\ \A f : Foreseen(f) => Foreseen(f)'
  BY <1>2, <1>7, <1>9, RunGoesOn
<1>11. Over => Over'
  <2>1. CASE NoAnswer
    BY <2>1 DEF NoAnswer, Over
  <2>2. CASE PhaseSucceeds \/ PhaseFails
    BY <1>2, <1>3, <1>6, <2>2, PhaseOver
  <2>3. QED
    BY <1>1, <2>1, <2>2
<1>12. Stuck /\ status' = "running" => pc' = "returned"
  <2>1. SUFFICES ASSUME Stuck, status' = "running" PROVE pc' = "returned"
    OBVIOUS
  <2>2. PhaseFails /\ Running \notin Gates
    BY <1>1, <1>8, <2>1 DEF Stuck, NoAnswer
  <2>3. ReleaseInv /\ plan.loopbacks = DefaultLoopBacks
    BY <1>2 DEF PipelineInv, BuildInv, WorkflowInv
  <2> DEFINE phase == Running
  <2>4. At(phase) /\ phase \notin Gates
    BY <1>6, <2>2
  <2> HIDE DEF phase
  <2>5. GivenUp'
    BY <2>2, <2>3, <2>4, Moves
  <2>6. QED
    BY <2>5 DEF GivenUp
<1>13. FileInv'
  BY <1>2, <1>4, <1>5, <1>8, AuditsKeepFile
<1>14. ReleaseOnFile'
  BY <1>2, <1>5, <1>11, <1>13, AuditsKeepRelease
<1>15. LiveOnFile'
  BY <1>2, <1>3, <1>5, <1>7, <1>8, <1>10, <1>12, AuditsKeepLive
<1>16. QED
  BY <1>10, <1>13, <1>14, <1>15 DEF RecordInv

(* The orchestrator returns, and the process ends. *)
LEMMA EndsRecord ==
  ASSUME KnownInv, RecordInv, Returns \/ Ends \/ UNCHANGED pipelineVars, [WorkflowNext]_workflowVars
  PROVE  RecordInv'
<1>1. RunInv /\ FileInv /\ LiveOnFile /\ ReleaseOnFile /\ WellWritten(file)
  BY DEF RecordInv, FileInv
<1>2. \/ Finishes /\ UNCHANGED <<designVars, runVars, kernelVars, phaseVars>> /\ status = "running"
      \/ status' = "down" /\ file' = file /\ UNCHANGED workflowVars
      \/ UNCHANGED workflowVars /\ UNCHANGED kernelVars /\ UNCHANGED phaseVars
  BY DEF Returns, Ends, K!Exit, K!Dies, pipelineVars
<1>3. file' = file /\ (status' = "down" \/ (status' = status /\ live' = live))
  BY <1>2 DEF kernelVars
<1>4. runs' = runs /\ (UNCHANGED workflowVars \/ (pc = "running" /\ pc' = "returned"))
  BY <1>2 DEF Finishes, workflowVars, runVars
<1>5. RunInv' /\ \A f : pc = "running" /\ Foreseen(f) => Foreseen(f)'
  BY <1>1, <1>4, RunGoesOn
<1>6. OnlyAudits /\ (Says(file') => Says(file))
  BY <1>3 DEF OnlyAudits, Says
<1>7. Over => Over'
  <2>1. CASE status' = "down" \/ pc' = "returned"
    BY <2>1 DEF Over
  <2>2. CASE UNCHANGED workflowVars /\ status' /= "down"
    <3>1. todo' = todo \/ pc' = "returned"
      BY <1>2, <2>2 DEF phaseVars
    <3>2. CASE todo' = todo
      BY <1>3, <2>2, <3>2, StillOver
    <3>3. QED
      BY <2>1, <3>1, <3>2
  <2>3. QED
    BY <1>3, <1>4, <2>1, <2>2
<1>8. FileInv'
  BY <1>1, <1>3, <1>6 DEF FileInv
<1>9. ReleaseOnFile'
  BY <1>1, <1>6, <1>7, <1>8, AuditsKeepRelease
<1>10. LiveOnFile'
  <2>1. status' = "running" => status = "running" /\ live' = live
    BY <1>3
  <2>2. ASSUME status' = "running", pc' = "running"
        PROVE  pc = "running" /\ (Stuck => Stuck') /\ \A f : Foreseen(f) => Foreseen(f)'
    <3>1. UNCHANGED workflowVars
      BY <1>4, <2>2
    <3>2. stage' = stage
      BY <1>2, <2>2 DEF phaseVars, Finishes
    <3>3. pc' = pc /\ Running' = Running
      BY <3>1 DEF workflowVars, vars, Running
    <3>4. Gates' = Gates
      BY DEF Gates
    <3>5. QED
      BY <1>5, <2>2, <3>2, <3>3, <3>4 DEF Stuck
  <2>3. QED
    BY <1>1, <1>6, <2>1, <2>2, AuditsKeepLive
<1>11. QED
  BY <1>5, <1>8, <1>9, <1>10 DEF RecordInv

-----------------------------------------------------------------------------
(* The release *)

(* Of the nets no two are one item. *)
LEMMA NetsOnce ==
  ASSUME LiveInv, Once, design = DesignOf(live),
         NEW m \in K!Entities(live, "net"), NEW n \in K!Entities(live, "net"), m.id[1] = n.id[1]
  PROVE  m = n
<1> DEFINE nets == live["net"]
           items == design["net"]
<1>1. IsList(nets)
  BY DEF LiveInv, StateLists, K!StateKinds, K!ListKinds
<1>2. DOMAIN nets = 1 .. Len(nets) /\ Len(nets) \in Nat
  BY <1>1, ListOfSeq DEF IsList
<1>3. "net" \in DesignKinds /\ StateLists
  BY DEF DesignKinds, LiveInv
<1>4. /\ IsList(items) /\ Len(items) = Len(nets)
      /\ \A i \in 1 .. Len(nets) : items[i] = nets[i].id[1]
  BY <1>3, ItemsOf
<1>5. IsInjective(items)
  BY <1>3 DEF Once
<1>6. DOMAIN items = 1 .. Len(nets)
  BY <1>4, ListOfSeq DEF IsList
<1>7. m \in ToSet(nets) /\ n \in ToSet(nets)
  BY EntitiesOf
<1> HIDE DEF nets, items
<1>8. PICK i \in 1 .. Len(nets), j \in 1 .. Len(nets) : nets[i] = m /\ nets[j] = n
  BY <1>2, <1>7 DEF ToSet
<1>9. items[i] = items[j]
  BY <1>4, <1>8
<1>10. i = j
  BY <1>5, <1>6, <1>9 DEF IsInjective
<1>11. QED
  BY <1>8, <1>10

(* What is about to be released can be. *)
LEMMA LiveIsReleasable ==
  ASSUME KnownInv, RecordInv, status = "running", stage = "sending",
         Running = "ManufacturingGeneration", Passes
  PROVE  Releasable(live) /\ design = DesignOf(live) /\ Place = NumDefault /\ pc = "running"
<1>1. /\ PipelineInv /\ BuildInv /\ LiveInv /\ DesignLists /\ WholeInv /\ runs = 1
      /\ live["waiver"] = <<>> /\ OnNets
  BY Serving DEF KnownInv, RecordInv, RunInv, LiveOnFile
<1>2. InPhase /\ Iterates /\ Running \in DefaultNames /\ At(Running)
  BY <1>1, InsidePhase
<1>3. Place = NumDefault /\ Planned = <<>> /\ pc = "running"
  BY <1>1, <1>2, RunsAtPlace
<1>4. design = DesignOf(live)
  <2>1. PICK k \in 0 .. Len(Planned) : SentUpTo(k)
    BY <1>2 DEF InPhase
  <2>2. Len(Planned) = 0
    BY <1>3
  <2>3. k = 0
    BY <2>1, <2>2
  <2>4. SubSeq(Planned, 1, k) = <<>>
    BY <1>3, <2>1, <2>3, RestFacts, EmptyList
  <2>5. Committed(<<>>) = design
    BY <1>1, NothingSent
  <2>6. QED
    BY <2>1, <2>4, <2>5 DEF SentUpTo
<1>5. OpenBlocking(design) = {} /\ K!LowersToManufacturing(live)
  BY <1>4 DEF Passes, Gates
<1>6. K!Entities(live, "violation") = {}
  <2>1. /\ "violation" \in DesignKinds /\ "waiver" \in DesignKinds /\ StateLists
    BY <1>1 DEF DesignKinds, LiveInv
  <2>2. design["waiver"] = <<>>
    BY <1>1, <1>4, <2>1, ItemsOf
  <2>3. ToSet(design["violation"]) = {}
    BY <1>5, <2>2, EmptyList DEF OpenBlocking
  <2>4. {e.id[1] : e \in K!Entities(live, "violation")} = {}
    BY <1>4, <2>1, <2>3, ItemsOf
  <2>5. QED
    BY <2>4
<1>7. ManufacturingIr(design)
  BY <1>1, <1>4, <1>5, ManufacturingLowers
<1>8. Whole /\ Once
  BY <1>1, <1>3 DEF WholeInv, GivenUp, BuildInv, Built
<1>9. ASSUME NEW n \in K!Entities(live, "net")
      PROVE  \E t \in K!Entities(live, "track") : K!NameOf(n) \in t.names
  <2>1. "net" \in DesignKinds /\ "track" \in DesignKinds /\ StateLists
    BY <1>1 DEF DesignKinds, LiveInv
  <2> DEFINE net == n.id[1]
  <2>2. net \in Made("net")
    BY <1>4, <2>1, ItemsOf DEF Made
  <2>3. Place > 5 /\ Place > 11
    BY <1>3 DEF NumDefault
  <2> HIDE DEF net
  <2>4. TracksOf(net) /= <<>>
    BY <1>1, <1>7, <1>8, <2>2, <2>3, RoutedToTheLast
  <2>5. PICK track \in Made("track") : track.net = net
    <3>1. ASSUME \A track \in Made("track") : track.net /= net PROVE FALSE
      <4>1. ToSet(design["track"]) \cap {t \in Made("track") : t.net = net} = {}
        BY <3>1 DEF Made
      <4>2. IsList(design["track"])
        BY <1>1, <2>1 DEF DesignLists
      <4>3. QED
        BY <2>4, <4>1, <4>2, KeepNothing DEF TracksOf
    <3>2. QED
      BY <3>1
  <2>6. PICK t \in K!Entities(live, "track") : t.id[1] = track
    BY <1>4, <2>1, <2>5, ItemsOf DEF Made
  <2>7. PICK m \in K!Entities(live, "net") : m.id[1] = t.id[1].net /\ K!NameOf(m) \in t.names
    BY <1>1, <2>6 DEF OnNets
  <2>8. m.id[1] = n.id[1]
    BY <2>5, <2>6, <2>7 DEF net
  <2>9. m = n
    BY <1>1, <1>4, <1>8, <2>7, <2>8, NetsOnce
  <2>10. QED
    BY <2>6, <2>7, <2>9
<1>10. \A p \in K!Entities(live, "placement") : K!NamesOfKind(p, "component") /= {}
  BY <1>1 DEF LiveInv, Linked, Named
<1>11. QED
  BY <1>3, <1>4, <1>5, <1>6, <1>9, <1>10 DEF Releasable

(* So can what its log replays to. *)
LEMMA LogIsReleasable ==
  ASSUME KnownInv, RecordInv, status = "running", stage = "sending",
         Running = "ManufacturingGeneration", Passes, K!Readable(file)
  PROVE  Releasable(Replayed(file))
<1>1. Releasable(live) /\ design = DesignOf(live) /\ Place = NumDefault /\ pc = "running"
  BY LiveIsReleasable
<1>2. WellWritten(file) /\ AllRegular(file) /\ BuildInv /\ LiveInv
  BY Serving DEF KnownInv, RecordInv, FileInv
<1>3. /\ \A kind \in NamedKinds : K!Entities(live, kind) \subseteq EventsIn(file)
      /\ \A e \in EventsIn(file) : Expected(e)
  BY <1>1 DEF RecordInv, LiveOnFile, Stuck
<1>4. K!Entities(live, "violation") = {}
  BY <1>1 DEF Releasable
<1>5. \A f : ~Foreseen(f)
  <2>1. SUFFICES ASSUME NEW f, Foreseen(f) PROVE FALSE
    OBVIOUS
  <2>2. PICK g \in 1 .. NumDefault : PhaseNames[g] \in Gates /\ f \in ToSet(Findings(PhaseNames[g]))
    BY <2>1 DEF Foreseen
  <2>3. PhaseNames[15] \notin Gates
    BY DEF PhaseNames, Gates
  <2>4. g < Place
    BY <1>1, <2>2, <2>3 DEF NumDefault
  <2>5. f \in Made("violation")
    BY <1>2, <2>2, <2>4 DEF BuildInv, WorkflowInv, GatesBehind
  <2>6. "violation" \in DesignKinds /\ StateLists
    BY <1>2 DEF DesignKinds, LiveInv
  <2>7. Made("violation") = {e.id[1] : e \in K!Entities(live, "violation")}
    BY <1>1, <2>6, ItemsOf DEF Made
  <2>8. QED
    BY <1>4, <2>5, <2>7
<1> DEFINE next == Replayed(file)
           L == EventsIn(file)
<1>6. MadeOf(next, L)
  BY <1>2, ReplayedIs
<1>7. \A e \in L : Regular(e) /\ Expected(e)
  BY <1>2, <1>3 DEF AllRegular
<1>8. Structure \cup {"requirement", "violation", "board"} \subseteq NamedKinds
  BY DEF Structure, NamedKinds, DesignKinds
<1>9. \A kind \in NamedKinds : \A e \in K!Entities(live, kind) : e \in L /\ e.kind = kind
  BY <1>2, <1>3 DEF LiveInv, OwnKinds
<1> HIDE DEF next, L
<1>10. ASSUME NEW kind \in Structure \cup {"requirement", "violation"}
       PROVE  K!Entities(next, kind) = {e \in L : e.kind = kind}
  BY <1>6, <1>10, MadeEntities, ListsAre
<1>11. ASSUME NEW kind \in Structure PROVE K!Entities(next, kind) = K!Entities(live, kind)
  <2>1. kind \notin Asides /\ kind /= "violation"
    BY <1>11 DEF Structure, Asides
  <2>2. \A e \in L : e.kind = kind => e \in K!Entities(live, kind)
    BY <1>5, <1>7, <2>1 DEF Expected
  <2>3. \A e \in K!Entities(live, kind) : e \in L /\ e.kind = kind
    BY <1>8, <1>9, <1>11
  <2>4. QED
    BY <1>10, <1>11, <2>2, <2>3
<1>12. K!Entities(live, "requirement") \subseteq K!Entities(next, "requirement")
  BY <1>8, <1>9, <1>10
<1>13. \A r \in K!Entities(next, "requirement") : K!NamesOfKind(r, "intent") /= {}
  BY <1>7, <1>10 DEF Regular
<1>14. K!Entities(next, "violation") = {}
  <2>1. "violation" \notin Asides
    BY DEF Asides
  <2>2. \A e \in L : e.kind /= "violation"
    BY <1>4, <1>5, <1>7, <2>1 DEF Expected
  <2>3. QED
    BY <1>10, <2>2
<1>15. ASSUME live["board"] /= <<>> PROVE next["board"] /= <<>>
  <2> DEFINE boards == live["board"]
  <2>1. IsList(boards)
    BY <1>2 DEF LiveInv, StateLists, K!StateKinds, K!SingleKinds
  <2>2. K!Entities(live, "board") = ToSet(boards)
    BY EntitiesOf
  <2>3. boards /= <<>>
    BY <1>15
  <2> HIDE DEF boards
  <2>4. PICK e \in ToSet(boards) : TRUE
    BY <2>1, <2>3, HeadAndTail
  <2>5. e \in L /\ e.kind = "board"
    BY <1>8, <1>9, <2>2, <2>4
  <2>6. QED
    BY <1>6, <2>5 DEF MadeOf
<1>16. Extends(next, live)
  BY <1>11, <1>12, <1>13, <1>14, <1>15 DEF Extends
<1>17. QED
  BY <1>1, <1>16, ReleasableStill DEF next

(* The phase decides, and records its milestone. *)
LEMMA JudgesRecord ==
  ASSUME KnownInv, RecordInv, Judges, [WorkflowNext]_workflowVars
  PROVE  RecordInv'
<1> DEFINE r == EventFor(Running)
<1>1. /\ stage = "sending" /\ todo = <<>> /\ todo' = todo /\ status = "running"
      /\ UNCHANGED workflowVars
      /\ \/ ~HasMilestone /\ UNCHANGED kernelVars
         \/ HasMilestone /\ K!Emit(r) /\ (Answers(r) \/ Refuses(r) \/ status' = "down")
  BY DEF Judges, NoAnswer
<1>2. PipelineInv /\ RunInv /\ FileInv /\ LiveOnFile /\ ReleaseOnFile /\ WellWritten(file)
  BY DEF KnownInv, RecordInv, FileInv
<1>3. Iterates /\ Running \in DefaultNames /\ At(Running) /\ Running' = Running
  BY <1>1, <1>2, InsidePhase
<1>4. pc = "running" /\ pc' = pc /\ runs' = runs /\ Place' = Place /\ NumDefault' = NumDefault
  BY <1>1, <1>3 DEF Iterates, workflowVars, vars, runVars, Place, NumPhases, NumDefault
<1>5. RunInv' /\ \A f : Foreseen(f) => Foreseen(f)'
  BY <1>1, <1>2, <1>4, RunGoesOn
<1>6. Over => Over'
  BY <1>1, <1>4 DEF Over
<1>7. status' = "down" \/ (status' = "running" /\ live' = live)
  <2>1. CASE UNCHANGED kernelVars
    BY <1>1, <2>1 DEF kernelVars
  <2>2. CASE K!Emit(r) /\ (Answers(r) \/ Refuses(r))
    BY <1>2, <2>2, EventGives
  <2>3. QED
    BY <1>1, <2>1, <2>2
<1>8. /\ WellWritten(file')
      /\ K!Readable(file') =>
           /\ K!Readable(file) /\ EventsIn(file) \subseteq EventsIn(file')
           /\ \A e \in EventsIn(file') :
                \/ e \in EventsIn(file)
                \/ HasMilestone /\ e.kind = "audit" /\ e.id[1] = Running
  <2>1. CASE UNCHANGED kernelVars
    BY <1>2, <2>1 DEF kernelVars
  <2>2. CASE HasMilestone /\ K!Emit(r)
    BY <1>2, <2>2, EventLogged
  <2>3. QED
    BY <1>1, <2>1, <2>2
<1> HIDE DEF r
<1>9. OnlyAudits
  BY <1>8 DEF OnlyAudits
<1>10. FileInv'
  BY <1>2, <1>7, <1>8, <1>9, AuditsKeepFile
<1>11. LiveOnFile'
  BY <1>1, <1>2, <1>4, <1>5, <1>7, <1>9, AuditsKeepLive DEF Stuck
<1>12. ReleaseOnFile'
  <2>1. CASE K!Readable(file') /\ Says(file') => Says(file)
    BY <1>2, <1>6, <1>9, <1>10, <2>1, AuditsKeepRelease
  <2>2. CASE K!Readable(file') /\ Says(file') /\ ~Says(file)
    <3>1. HasMilestone /\ Running = "ManufacturingGeneration"
      BY <1>8, <2>2 DEF Says
    <3>2. Passes
      BY <3>1 DEF HasMilestone, Gates
    <3>3. K!Readable(file) /\ EventsIn(file) \subseteq EventsIn(file')
          /\ \A e \in EventsIn(file') : e \in EventsIn(file) \/ e.kind = "audit"
      BY <1>8, <2>2
    <3>4. Releasable(Replayed(file))
      BY <1>1, <3>1, <3>2, <3>3, LogIsReleasable
    <3>5. WellWritten(file') /\ AllRegular(file) /\ AllRegular(file')
      BY <1>2, <1>8, <1>10, <2>2, <3>3 DEF FileInv
    <3>6. Releasable(Replayed(file'))
      BY <1>2, <3>3, <3>4, <3>5, ReleasedStill
    <3>7. Place = NumDefault
      BY <1>2, <1>3, <3>1, RunsAtPlace
    <3>8. Over'
      BY <1>1, <1>4, <3>7 DEF Over
    <3>9. QED
      BY <3>6, <3>8 DEF ReleaseOnFile
  <2>3. QED
    BY <2>1, <2>2
<1>13. QED
  BY <1>5, <1>10, <1>11, <1>12 DEF RecordInv

-----------------------------------------------------------------------------
(* The requests *)

(* What a request has written besides its entity. *)
LEMMA RequestEvents ==
  ASSUME NEW kind, NEW item, NEW r, r = RequestFor(kind, item), WellFormed(r),
         IsFiniteSet(r.entity.names)
  PROVE  \A e \in ToSet(K!Events(r)) :
           \/ e = r.entity
           \/ e.kind \in {"evidence", "decision", "link"}
           \/ kind = "component" /\ e.kind = "pin" /\ e \in ToSet(r.pins)
<1>1. ToSet(K!Events(r)) = ToSet(r.evidence) \cup ToSet(r.decision) \cup {r.entity}
                             \cup ToSet(r.pins) \cup ToSet(r.links)
  BY EventsAre
<1>2. \A e \in ToSet(r.evidence) : e.kind = "evidence"
  BY OneItem, EmptyList DEF RequestFor, EntityOf
<1>3. \A e \in ToSet(r.decision) : e.kind = "decision"
  BY OneItem, EmptyList DEF RequestFor, EntityOf
<1>4. \A e \in ToSet(r.pins) : kind = "component" /\ e.kind = "pin"
  BY OneItem, EmptyList DEF RequestFor, EntityOf
<1>5. IsList(LinksOf(r.entity)) /\ \A l \in ToSet(LinksOf(r.entity)) : l.kind = "link"
  BY LinksFormed
<1>6. \A e \in ToSet(r.links) : e.kind = "link"
  <2>1. CASE kind = "requirement"
    <3>1. PICK a, b : a.kind = "link" /\ b.kind = "link" /\ r.links = <<a>> \o LinksOf(r.entity) \o <<b>>
      BY <2>1 DEF RequestFor, LinkTo, EntityOf
    <3> DEFINE links == LinksOf(r.entity)
    <3> HIDE DEF links
    <3>2. IsList(<<a>>) /\ IsList(<<b>>) /\ ToSet(<<a>>) = {a} /\ ToSet(<<b>>) = {b}
      BY OneItem
    <3>3. IsList(<<a>> \o links) /\ ToSet(<<a>> \o links) = {a} \cup ToSet(links)
      BY <1>5, <3>2, ListConcat DEF links
    <3> DEFINE most == <<a>> \o links
    <3> HIDE DEF most
    <3>4. ToSet(most \o <<b>>) = ToSet(most) \cup {b}
      BY <3>2, <3>3, ListConcat DEF most
    <3>5. QED
      BY <1>5, <3>1, <3>3, <3>4 DEF links, most
  <2>2. CASE kind /= "requirement"
    BY <1>5, <2>2 DEF RequestFor
  <2>3. QED
    BY <2>1, <2>2
<1>7. QED
  BY <1>1, <1>2, <1>3, <1>4, <1>6

(* What the running phase sends next. *)
LEMMA NextRequest ==
  ASSUME PipelineInv, status = "running", stage = "sending", todo /= <<>>, NEW q, q = Head(todo)
  PROVE  /\ q.kind \in Writes(Running) /\ q.kind \in DesignKinds \ {"waiver"}
         /\ Running = "RequirementPlanning" => q.kind = "requirement"
         /\ Running \in Gates => q.kind = "violation" /\ q.item \in ToSet(Findings(Running))
         /\ WellFormed(RequestFor(q.kind, q.item))
         /\ IsFiniteSet(ReferencesOf(q.kind, q.item))
<1>1. BuildInv /\ Lowered /\ LiveInv /\ DesignLists /\ candidates \in Seq(Candidate)
  BY Serving
<1>2. InPhase /\ Running \in DefaultNames /\ IsList(Planned)
  BY InsidePhase
<1>3. PICK k \in 0 .. Len(Planned) :
        /\ todo = Rest(Planned, k)
        /\ Running /= "RequirementPlanning" => DesignOf(live) = Committed(SubSeq(Planned, 1, k))
  <2>1. CASE Running /= "RequirementPlanning"
    BY <1>2, <2>1 DEF InPhase, SentUpTo
  <2>2. CASE Running = "RequirementPlanning"
    <3>1. Len(Planned) = Len(candidates)
      BY <1>1, <2>2, AgentPlans
    <3>2. PICK k \in 0 .. Len(candidates) : \E gone \in SUBSET (1 .. k) : TriedUpTo(k, gone)
      BY <1>2, <2>2 DEF InPhase
    <3>3. todo = Rest(Planned, k)
      BY <3>2 DEF TriedUpTo
    <3>4. QED
      BY <2>2, <3>1, <3>2, <3>3
  <2>3. QED
    BY <2>1, <2>2
<1>4. q \in ToSet(Planned)
  <2> DEFINE s == Planned
  <2>1. IsList(s) /\ k \in 0 .. Len(s) /\ Rest(s, k) /= <<>> /\ q = Head(Rest(s, k))
    BY <1>2, <1>3
  <2> HIDE DEF s
  <2>2. Head(Rest(s, k)) = s[k + 1] /\ s[k + 1] \in ToSet(s)
    BY <2>1, RestFacts
  <2>3. QED
    BY <2>1, <2>2 DEF s
<1>5. /\ q.kind \in Writes(Running) /\ q.kind \in DesignKinds \ {"waiver"}
      /\ q.kind = "violation" => WellFound(q.item)
  BY <1>1, <1>2, <1>3, <1>4, AsksSoundly
<1>6. Running = "RequirementPlanning" => q.kind = "requirement"
  BY <1>5 DEF Writes, Gates
<1>7. ASSUME Running \in Gates PROVE q.kind = "violation" /\ q.item \in ToSet(Findings(Running))
  <2>1. Planned = Raising(Running)
    BY <1>7 DEF Planned, Gates
  <2>2. q \in {[kind |-> "violation", item |-> f] : f \in ToSet(Findings(Running)) \ Made("violation")}
    BY <1>1, <1>4, <1>7, <2>1, RaisingFacts
  <2>3. PICK f \in ToSet(Findings(Running)) : q = [kind |-> "violation", item |-> f]
    BY <2>2
  <2>4. QED
    BY <2>3
<1> DEFINE kind == q.kind
           item == q.item
<1>8. kind \in DesignKinds \ {"waiver"} /\ (kind = "violation" => WellFound(item))
  BY <1>5
<1>9. StateLists /\ OwnKinds
  BY <1>1 DEF LiveInv
<1> HIDE DEF kind, item
<1>10. WellFormed(RequestFor(kind, item))
  BY <1>8, <1>9, RequestFormed
<1>11. IsFiniteSet(ReferencesOf(kind, item))
  <2> DEFINE names == ReferencesOf(kind, item)
  <2>1. \A n \in names : Known(n)
    BY <1>8, <1>9, ReferencesKnown
  <2> HIDE DEF names
  <2>2. IsFiniteSet(names)
    BY <1>9, <2>1, KnownFinite
  <2>3. QED
    BY <2>2 DEF names
<1>12. QED
  BY <1>5, <1>6, <1>7, <1>10, <1>11 DEF kind, item

(* A track that the seam takes names a net. *)
LEMMA TracksName ==
  ASSUME NEW r, K!Handles(r), r.entity.kind = "track"
  PROVE  K!NamesOfKind(r.entity, "net") /= {}
<1>1. K!RouteNet(r)
  BY DEF K!Handles, K!Requested, K!CreateRequirement, K!CreateConstraint, K!RaiseViolation,
         K!GrantWaiver, K!CreateFunctionalBlock, K!RealizeComponent, K!CreateNet, K!CreatePart,
         K!CreateBomLineItem, K!CreateBoard, K!PlaceComponent, K!Emit
<1>2. QED
  BY <1>1 DEF K!RouteNet

(* So it is on the net that it was laid for. *)
LEMMA TrackOnNet ==
  ASSUME NEW item, NEW e, e.kind = "track", e.id[1] = item, e.names = ReferencesOf("track", item),
         K!NamesOfKind(e, "net") /= {}
  PROVE  \E n \in K!Entities(live, "net") : n.id[1] = e.id[1].net /\ K!NameOf(n) \in e.names
<1>1. e.names = NamesIn("net", {item.net})
  BY DEF ReferencesOf
<1>2. e.names /= {}
  BY DEF K!NamesOfKind
<1>3. PICK n \in K!Entities(live, "net") : n.id[1] \in {item.net} /\ K!NameOf(n) \in e.names
  BY <1>1, <1>2 DEF NamesIn
<1>4. QED
  BY <1>3

(* A requirement names the intent. *)
LEMMA RequirementNames ==
  ASSUME LiveInv, NEW item, NEW e, e.names = ReferencesOf("requirement", item)
  PROVE  K!NamesOfKind(e, "intent") /= {}
<1> DEFINE intents == live["intent"]
<1>1. intents /= <<>> /\ IsList(intents)
  BY DEF LiveInv, Linked, StateLists, K!StateKinds, K!SingleKinds
<1>2. K!Entities(live, "intent") = ToSet(intents)
  BY EntitiesOf
<1> HIDE DEF intents
<1>3. PICK n \in ToSet(intents) : TRUE
  BY <1>1, HeadAndTail
<1>4. n.kind = "intent"
  BY <1>2, <1>3 DEF LiveInv, OwnKinds, NamedKinds
<1>5. K!NameOf(n) \in e.names
  BY <1>2, <1>3 DEF ReferencesOf
<1>6. K!NameOf(n)[1] = "intent"
  BY <1>4 DEF K!NameOf
<1>7. QED
  BY <1>5, <1>6 DEF K!NamesOfKind

(* What a request leaves in the log is its own. *)
LEMMA RequestLogged ==
  ASSUME KnownInv, RecordInv, stage = "sending", todo /= <<>>, NEW r,
         r = RequestFor(Head(todo).kind, Head(todo).item), K!Handles(r)
  PROVE  /\ WellWritten(file') /\ status = "running"
         /\ K!Readable(file') =>
              /\ K!Readable(file) /\ EventsIn(file) \subseteq EventsIn(file')
              /\ \A e \in EventsIn(file') :
                   \/ e \in EventsIn(file)
                   \/ e = r.entity
                   \/ e.kind \in {"evidence", "decision", "link"}
                   \/ r.entity.kind = "component" /\ e.kind = "pin" /\ e \in ToSet(r.pins)
              /\ Answers(r) => r.entity \in EventsIn(file') /\ ToSet(r.pins) \subseteq EventsIn(file')
<1>1. K!Submit(r) /\ status = "running"
  BY HandledAreAdmitted
<1>2. WellWritten(file) /\ IsList(records) /\ PipelineInv
  BY <1>1, Serving DEF KnownInv, RecordInv, FileInv
<1> DEFINE kind == Head(todo).kind
           item == Head(todo).item
<1>3. WellFormed(r) /\ IsFiniteSet(ReferencesOf(kind, item))
  BY <1>1, <1>2, NextRequest
<1> HIDE DEF kind, item
<1>4. r = RequestFor(kind, item)
  BY DEF kind, item
<1>5. r.entity.kind = kind /\ IsFiniteSet(r.entity.names)
  BY <1>3, <1>4, RequestIs
<1>6. \A e \in ToSet(K!Events(r)) :
        \/ e = r.entity
        \/ e.kind \in {"evidence", "decision", "link"}
        \/ kind = "component" /\ e.kind = "pin" /\ e \in ToSet(r.pins)
  BY <1>3, <1>4, <1>5, RequestEvents
<1>7. r.entity \in ToSet(K!Events(r)) /\ ToSet(r.pins) \subseteq ToSet(K!Events(r))
  BY <1>3, EventsAre
<1>8. /\ WellWritten(file')
      /\ K!Readable(file') =>
           /\ K!Readable(file) /\ EventsIn(file) \subseteq EventsIn(file')
           /\ EventsIn(file') \subseteq EventsIn(file) \cup ToSet(K!Events(r))
           /\ Answers(r) => ToSet(K!Events(r)) \subseteq EventsIn(file')
  BY <1>1, <1>2, <1>3, LogGrows
<1>9. QED
  BY <1>1, <1>5, <1>6, <1>7, <1>8

(* What is live after a request that was answered. *)
LEMMA RequestLives ==
  ASSUME KnownInv, RecordInv, stage = "sending", todo /= <<>>, NEW r,
         r = RequestFor(Head(todo).kind, Head(todo).item), K!Handles(r), Answers(r)
  PROVE  /\ live'["waiver"] = <<>> /\ OnNets'
         /\ \A kind \in NamedKinds : K!Entities(live, kind) \subseteq K!Entities(live', kind)
         /\ \A kind \in NamedKinds : \A e \in K!Entities(live', kind) :
              e \in K!Entities(live, kind) \/ e = r.entity \/ e \in ToSet(r.pins)
         /\ r.entity \in K!Entities(live', r.entity.kind)
         /\ ToSet(r.pins) \subseteq K!Entities(live', "pin")
<1>1. K!Submit(r) /\ status = "running" /\ Admitted(r)
  BY HandledAreAdmitted
<1>2. /\ IsList(records) /\ PipelineInv /\ LiveInv
      /\ live["waiver"] = <<>> /\ OnNets
  BY <1>1, Serving DEF KnownInv, RecordInv, LiveOnFile
<1> DEFINE kind == Head(todo).kind
           item == Head(todo).item
<1>3. WellFormed(r) /\ kind \in DesignKinds \ {"waiver"}
  BY <1>1, <1>2, NextRequest
<1> HIDE DEF kind, item
<1>4. r = RequestFor(kind, item)
  BY DEF kind, item
<1>5. r.entity.kind = kind /\ r.entity.id[1] = item /\ r.entity.names = ReferencesOf(kind, item)
  BY <1>4, RequestIs
<1>6. live' = K!Fold(live, r)
  BY <1>1, <1>2, <1>3, SubmitGives
<1>7. /\ \A k \in NamedKinds \ {r.entity.kind, "pin"} :
           live'[k] = live[k] /\ K!Entities(live', k) = K!Entities(live, k)
      /\ K!Entities(live', r.entity.kind) = K!Entities(live, r.entity.kind) \cup {r.entity}
      /\ K!Entities(live', "pin") = K!Entities(live, "pin") \cup ToSet(r.pins)
  BY <1>1, <1>2, <1>3, <1>5, <1>6, LiveGrows
<1>8. {"waiver", "track", "net"} \subseteq NamedKinds \ {"pin"}
  BY DEF NamedKinds, DesignKinds
<1>9. live'["waiver"] = <<>>
  BY <1>2, <1>3, <1>5, <1>7, <1>8
<1>10. K!Entities(live, "net") \subseteq K!Entities(live', "net")
  BY <1>5, <1>7, <1>8
<1>11. ASSUME NEW t \in K!Entities(live', "track")
       PROVE  \E n \in K!Entities(live', "net") : n.id[1] = t.id[1].net /\ K!NameOf(n) \in t.names
  <2>1. CASE t \in K!Entities(live, "track")
    BY <1>2, <1>10, <2>1 DEF OnNets
  <2>2. CASE t \notin K!Entities(live, "track")
    <3>1. r.entity.kind = "track" /\ t = r.entity
      BY <1>7, <1>8, <2>2
    <3>2. K!NamesOfKind(t, "net") /= {}
      BY <3>1, TracksName
    <3>3. t.kind = "track" /\ t.id[1] = item /\ t.names = ReferencesOf("track", item)
      BY <1>5, <3>1
    <3>4. \E n \in K!Entities(live, "net") : n.id[1] = t.id[1].net /\ K!NameOf(n) \in t.names
      BY <3>2, <3>3, TrackOnNet
    <3>5. QED
      BY <1>10, <3>4
  <2>3. QED
    BY <2>1, <2>2
<1>12. OnNets'
  BY <1>11 DEF OnNets
<1>13. QED
  BY <1>7, <1>9, <1>12

(* What is in the log after a request of a phase that goes on is expected. *)
LEMMA SentIsExpected ==
  ASSUME KnownInv, RecordInv, Sends, [WorkflowNext]_workflowVars, status' = "running",
         K!Readable(file'), ~Stuck', NEW e \in EventsIn(file')
  PROVE  Expected(e)'
<1> DEFINE r == RequestFor(Head(todo).kind, Head(todo).item)
<1>1. /\ stage = "sending" /\ todo /= <<>> /\ UNCHANGED workflowVars
      /\ K!Handles(r)
      /\ \/ Answers(r) /\ UNCHANGED stage
         \/ Refuses(r) /\ stage' = IF GivesUp THEN "failing" ELSE stage
  BY DEF Sends, NoAnswer
<1>2. PipelineInv /\ RunInv /\ status = "running"
  BY <1>1, HandledAreAdmitted DEF KnownInv, RecordInv
<1>3. InPhase /\ Iterates /\ Running \in DefaultNames /\ At(Running) /\ Running' = Running
  BY <1>1, <1>2, InsidePhase
<1>4. /\ pc = "running" /\ Place \in 1 .. NumDefault /\ PhaseNames[Place] = Running
  BY <1>2, <1>3, RunsAtPlace
<1>5. runs' = runs
  BY <1>1 DEF workflowVars, runVars
<1>6. \A f : Foreseen(f) => Foreseen(f)'
  BY <1>1, <1>2, <1>4, <1>5, RunGoesOn DEF KnownInv
<1> DEFINE kind == Head(todo).kind
           item == Head(todo).item
<1>7. /\ kind \in DesignKinds \ {"waiver"}
      /\ Running = "RequirementPlanning" => kind = "requirement"
      /\ Running \in Gates => kind = "violation" /\ item \in ToSet(Findings(Running))
      /\ WellFormed(RequestFor(kind, item))
  BY <1>1, <1>2, NextRequest
<1> HIDE DEF kind, item
<1>8. r.entity.kind = kind /\ r.entity.id[1] = item
  BY RequestIs DEF kind, item
<1>9. /\ EventsIn(file) \subseteq EventsIn(file') /\ K!Readable(file)
      /\ \/ e \in EventsIn(file)
         \/ e = r.entity
         \/ e.kind \in {"evidence", "decision", "link"}
         \/ r.entity.kind = "component" /\ e.kind = "pin" /\ e \in ToSet(r.pins)
  BY <1>1, RequestLogged
<1>10. Answers(r) =>
         /\ \A k \in NamedKinds : K!Entities(live, k) \subseteq K!Entities(live', k)
         /\ r.entity \in K!Entities(live', r.entity.kind)
         /\ ToSet(r.pins) \subseteq K!Entities(live', "pin")
  BY <1>1, RequestLives
<1>11. Refuses(r) => live' = live
  <2>1. K!Submit(r)
    BY <1>1, HandledAreAdmitted
  <2>2. IsList(records) /\ WellFormed(r)
    BY <1>2, <1>7, Serving DEF kind, item
  <2> HIDE DEF r
  <2>3. QED
    BY <2>1, <2>2, SubmitGives
<1> HIDE DEF r
<1>12. Asides' = Asides
  BY DEF Asides
<1>13. ASSUME e \in EventsIn(file) PROVE Expected(e)'
  <2>1. Expected(e)
    BY <1>1, <1>2, <1>4, <1>9, <1>13 DEF RecordInv, LiveOnFile, Stuck
  <2>2. \A k \in NamedKinds : K!Entities(live, k) \subseteq K!Entities(live', k)
    BY <1>1, <1>10, <1>11
  <2>3. QED
    BY <1>6, <1>12, <2>1, <2>2 DEF Expected
<1>14. ASSUME e.kind \in {"evidence", "decision", "link"} PROVE Expected(e)'
  BY <1>14 DEF Expected, Asides
<1>15. ASSUME Answers(r), e = r.entity PROVE Expected(e)'
  <2>1. e.kind \in NamedKinds
    BY <1>7, <1>8, <1>15 DEF NamedKinds
  <2>2. e \in K!Entities(live', e.kind)
    BY <1>10, <1>15
  <2>3. QED
    BY <2>1, <2>2 DEF Expected
<1>16. ASSUME Answers(r), e.kind = "pin", e \in ToSet(r.pins) PROVE Expected(e)'
  BY <1>10, <1>16 DEF Expected, NamedKinds
<1>17. ASSUME Refuses(r), stage' = IF GivesUp THEN "failing" ELSE stage,
              e = r.entity \/ r.entity.kind = "component"
       PROVE  Expected(e)'
  <2>1. Running \in Gates \cup {"RequirementPlanning"}
    <3>1. GivesUp => stage' = "failing"
      BY <1>17
    <3>2. ~GivesUp => Running = "RequirementPlanning"
      BY DEF GivesUp
    <3>3. Gates' = Gates
      BY DEF Gates
    <3>4. QED
      BY <1>3, <3>1, <3>2, <3>3 DEF Stuck
  <2>2. kind \in {"requirement", "violation"}
    BY <1>7, <2>1
  <2>3. e = r.entity
    BY <1>8, <1>17, <2>2
  <2>4. CASE kind = "requirement"
    BY <1>8, <2>3, <2>4 DEF Expected, Asides
  <2>5. CASE kind = "violation"
    <3>1. Running \in Gates
      BY <1>7, <2>1, <2>5
    <3>2. item \in ToSet(Findings(PhaseNames[Place]))
      BY <1>4, <1>7, <3>1
    <3>3. \A k \in 1 .. NumDefault : k < Place => Succeeded(PhaseNames[k])
      BY <1>2, <1>4 DEF RunInv, Passed
    <3>4. e.kind = "violation" /\ e.id[1] = item
      BY <1>8, <2>3, <2>5
    <3>5. Foreseen(e.id[1])
      BY <1>4, <3>1, <3>2, <3>3, <3>4 DEF Foreseen
    <3>6. Foreseen(e.id[1])'
      BY <1>6, <3>5
    <3>7. QED
      BY <3>4, <3>6 DEF Expected
  <2>6. QED
    BY <2>2, <2>4, <2>5
<1>18. QED
  BY <1>1, <1>9, <1>13, <1>14, <1>15, <1>16, <1>17

(* A phase sends a request. *)
LEMMA SendsRecord ==
  ASSUME KnownInv, RecordInv, Sends, [WorkflowNext]_workflowVars
  PROVE  RecordInv'
<1> DEFINE r == RequestFor(Head(todo).kind, Head(todo).item)
<1>1. /\ stage = "sending" /\ todo /= <<>> /\ UNCHANGED workflowVars
      /\ K!Handles(r)
      /\ Answers(r) \/ Refuses(r) \/ status' = "down"
  BY DEF Sends, NoAnswer
<1>2. PipelineInv /\ RunInv /\ FileInv /\ LiveOnFile /\ ReleaseOnFile /\ status = "running"
  BY <1>1, HandledAreAdmitted DEF KnownInv, RecordInv
<1>3. Iterates /\ Running \in DefaultNames /\ At(Running)
  BY <1>1, <1>2, InsidePhase
<1>4. pc = "running" /\ Place \in 1 .. NumDefault
  BY <1>2, <1>3, RunsAtPlace
<1>5. runs' = runs
  BY <1>1 DEF workflowVars, runVars
<1>6. RunInv'
  BY <1>1, <1>2, <1>4, <1>5, RunGoesOn DEF KnownInv
<1> DEFINE kind == Head(todo).kind
           item == Head(todo).item
<1>7. kind \in DesignKinds \ {"waiver"} /\ WellFormed(RequestFor(kind, item))
  BY <1>1, <1>2, NextRequest
<1> HIDE DEF kind, item
<1>8. r.entity.kind = kind /\ r.entity.names = ReferencesOf(kind, item)
  BY RequestIs DEF kind, item
<1>9. /\ WellWritten(file')
      /\ K!Readable(file') =>
           /\ K!Readable(file) /\ EventsIn(file) \subseteq EventsIn(file')
           /\ \A e \in EventsIn(file') :
                \/ e \in EventsIn(file)
                \/ e = r.entity
                \/ e.kind \in {"evidence", "decision", "link"}
                \/ r.entity.kind = "component" /\ e.kind = "pin" /\ e \in ToSet(r.pins)
           /\ Answers(r) => r.entity \in EventsIn(file') /\ ToSet(r.pins) \subseteq EventsIn(file')
  BY <1>1, RequestLogged
<1>10. Answers(r) =>
         /\ live'["waiver"] = <<>> /\ OnNets'
         /\ \A k \in NamedKinds : \A e \in K!Entities(live', k) :
              e \in K!Entities(live, k) \/ e = r.entity \/ e \in ToSet(r.pins)
  BY <1>1, RequestLives
<1>11. Refuses(r) => live' = live
  <2>1. K!Submit(r)
    BY <1>1, HandledAreAdmitted
  <2>2. IsList(records) /\ WellFormed(r)
    BY <1>2, <1>7, Serving DEF kind, item
  <2> HIDE DEF r
  <2>3. QED
    BY <2>1, <2>2, SubmitGives
<1> HIDE DEF r
<1>12. Regular(r.entity)
  <2>1. LiveInv
    BY <1>2, Serving
  <2>2. kind = "requirement" => K!NamesOfKind(r.entity, "intent") /= {}
    BY <1>8, <2>1, RequirementNames
  <2>3. QED
    BY <1>7, <1>8, <2>2 DEF Regular
<1>13. FileInv'
  <2>1. \A e : e.kind \in {"evidence", "decision", "link", "pin"} => Regular(e)
    BY DEF Regular
  <2>2. K!Readable(file') => AllRegular(file')
    BY <1>2, <1>9, <1>12, <2>1 DEF FileInv, AllRegular
  <2>3. status' /= "starting"
    BY <1>1, <1>2 DEF Answers, Refuses
  <2>4. QED
    BY <1>9, <2>2, <2>3 DEF FileInv
<1>14. ReleaseOnFile'
  <2>1. ~Over
    BY <1>1, <1>2, <1>4 DEF Over, NumDefault
  <2>2. K!Readable(file) => ~Says(file)
    BY <1>2, <2>1 DEF ReleaseOnFile
  <2>3. kind /= "audit"
    BY <1>7 DEF DesignKinds
  <2>4. K!Readable(file') => ~Says(file')
    BY <1>8, <1>9, <2>2, <2>3 DEF Says
  <2>5. QED
    BY <2>4 DEF ReleaseOnFile
<1>15. LiveOnFile'
  <2>1. SUFFICES ASSUME status' = "running" PROVE LiveOnFile'
    BY DEF LiveOnFile
  <2>2. Answers(r) \/ Refuses(r)
    BY <1>1, <2>1
  <2>3. live'["waiver"] = <<>> /\ OnNets'
    BY <1>2, <1>10, <1>11, <2>2 DEF LiveOnFile, OnNets
  <2>4. ASSUME K!Readable(file'), NEW k \in NamedKinds
        PROVE  K!Entities(live', k) \subseteq EventsIn(file')
    BY <1>2, <1>9, <1>10, <1>11, <2>2, <2>4 DEF LiveOnFile
  <2>5. K!Readable(file') /\ ~Stuck' => \A e \in EventsIn(file') : Expected(e)'
    BY <2>1, SentIsExpected
  <2>6. NamedKinds' = NamedKinds
    BY DEF NamedKinds, DesignKinds
  <2>7. QED
    BY <2>3, <2>4, <2>5, <2>6 DEF LiveOnFile
<1>16. QED
  BY <1>6, <1>13, <1>14, <1>15 DEF RecordInv

(* The process starts. *)
LEMMA StartsRecord ==
  ASSUME KnownInv, RecordInv, Starts, [WorkflowNext]_workflowVars
  PROVE  RecordInv'
<1>1. UNCHANGED workflowVars /\ PipelineInv /\ RunInv /\ FileInv
  BY DEF Starts, KnownInv, RecordInv
<1>2. runs' = runs
  BY <1>1 DEF workflowVars, runVars
<1>3. RunInv'
  BY <1>1, <1>2, RunGoesOn
<1>4. WellWritten(K!EmptyFile) /\ EventsIn(K!EmptyFile) = {}
  BY EmptyList DEF WellWritten, EventsIn, K!EmptyFile
<1>5. CASE K!Boot
  <2>1. status = "down" /\ boots = 0 /\ status' = "starting"
    BY <1>1, <1>5 DEF K!Boot, PipelineInv, ProcessInv
  <2>2. file = K!EmptyFile
    BY <1>1, <2>1 DEF PipelineInv, ProcessInv
  <2>3. file' = K!EmptyFile
    BY <1>5, <2>2 DEF K!Boot
  <2>4. FileInv' /\ ~Says(file')
    BY <1>4, <2>3 DEF FileInv, AllRegular, Says
  <2>5. LiveOnFile' /\ ReleaseOnFile'
    BY <2>1, <2>4 DEF LiveOnFile, ReleaseOnFile
  <2>6. QED
    BY <1>3, <2>4, <2>5 DEF RecordInv
<1>6. ASSUME NEW intent \in Intents, K!CaptureIntent(intent) PROVE RecordInv'
  <2>1. status = "starting" /\ intent.kind = "intent"
    BY <1>6, PipelineAssumption DEF K!CaptureIntent, K!OfKind
  <2>2. IsList(records) /\ AtRest /\ file = K!EmptyFile
    BY <1>1, <2>1 DEF PipelineInv, ProcessInv, FileInv
  <2> DEFINE batch == K!Records(Len(records), <<intent>>)
  <2>3. IsList(batch) /\ Carried(batch) = {intent} /\ Len(batch) \in Nat \ {0}
    <3>1. IsList(<<intent>>) /\ ToSet(<<intent>>) = {intent} /\ Len(<<intent>>) = 1
      BY OneItem
    <3>2. Carried(batch) = ToSet(<<intent>>)
      BY <3>1, RecordsCarry
    <3>3. IsList(batch) /\ Len(batch) = Len(<<intent>>)
      BY <3>1, RecordsList
    <3>4. QED
      BY <3>1, <3>2, <3>3
  <2> HIDE DEF batch
  <2>4. ASSUME file' = K!WriteAll(file, batch)
        PROVE  WellWritten(file') /\ (K!Readable(file') => EventsIn(file') = {intent})
    <3>1. /\ WellWritten(file')
          /\ K!Readable(file') => ToSet(file'.lines) = ToSet(file.lines) \cup ToSet(batch)
      BY <1>4, <2>2, <2>3, <2>4, AllWritten
    <3>2. K!Readable(file') => EventsIn(file') = EventsIn(file) \cup Carried(batch)
      BY <3>1 DEF EventsIn, Carried
    <3>3. QED
      BY <1>4, <2>2, <2>3, <3>1, <3>2
  <2>5. ASSUME NEW k \in 0 .. Len(batch) - 1, NEW torn \in K!Torn,
               file' = K!WriteSome(file, batch, k, torn)
        PROVE  WellWritten(file') /\ (K!Readable(file') => EventsIn(file') \subseteq {intent})
    <3>1. /\ WellWritten(file')
          /\ K!Readable(file') => ToSet(file'.lines) \subseteq ToSet(file.lines) \cup ToSet(batch)
      BY <1>4, <2>2, <2>3, <2>5, SomeWritten
    <3>2. K!Readable(file') => EventsIn(file') \subseteq EventsIn(file) \cup Carried(batch)
      BY <3>1 DEF EventsIn, Carried
    <3>3. QED
      BY <1>4, <2>2, <2>3, <3>1, <3>2
  <2>6. \/ file' = K!WriteAll(file, batch)
        \/ \E k \in 0 .. Len(batch) - 1, torn \in K!Torn : file' = K!WriteSome(file, batch, k, torn)
    <3>1. 0 \in 0 .. Len(batch) - 1
      BY <2>3
    <3>2. CASE K!Appends(<<intent>>)
      BY <3>2 DEF K!Appends, batch
    <3>3. CASE K!DiesInAppend(<<intent>>)
      BY <3>3 DEF K!DiesInAppend, batch
    <3>4. CASE \E torn \in K!Torn : file' = K!WriteSome(file, batch, 0, torn)
      BY <3>1, <3>4
    <3>5. QED
      BY <1>6, <3>2, <3>3, <3>4 DEF K!CaptureIntent, batch
  <2>7. WellWritten(file') /\ (K!Readable(file') => EventsIn(file') \subseteq {intent})
    BY <2>4, <2>5, <2>6
  <2>8. status' = "down"
        \/ (status' = "running" /\ file' = K!WriteAll(file, batch) /\ live' = K!Apply(live, intent))
    BY <1>6 DEF K!CaptureIntent, K!DiesInAppend, K!Dies, K!Appends, batch
  <2>9. FileInv'
    BY <2>1, <2>7, <2>8 DEF FileInv, AllRegular, Regular
  <2>10. ReleaseOnFile'
    BY <2>1, <2>7 DEF ReleaseOnFile, Says
  <2>11. LiveOnFile'
    <3>1. SUFFICES ASSUME status' = "running" PROVE LiveOnFile'
      BY DEF LiveOnFile
    <3>2. live' = [K!EmptyState EXCEPT !["intent"] = <<intent>>]
      BY <2>1, <2>2, <2>8, <3>1 DEF AtRest, K!Apply, K!SingleKinds
    <3>3. {"intent", "waiver", "track"} \subseteq K!StateKinds /\ NamedKinds \subseteq K!StateKinds
      BY DEF K!StateKinds, K!SingleKinds, K!ListKinds, DesignKinds, NamedKinds
    <3>4. /\ live'["intent"] = <<intent>>
          /\ \A kind \in K!StateKinds \ {"intent"} : live'[kind] = <<>>
      BY <3>2, <3>3 DEF K!EmptyState
    <3>5. /\ K!Entities(live', "intent") = {intent}
          /\ \A kind \in K!StateKinds \ {"intent"} : K!Entities(live', kind) = {}
      BY <3>4, EntitiesOf, OneItem, EmptyList
    <3>6. live'["waiver"] = <<>> /\ OnNets'
      BY <3>3, <3>4, <3>5 DEF OnNets
    <3>7. K!Readable(file') => EventsIn(file') = {intent}
      BY <2>4, <2>8, <3>1
    <3>8. K!Readable(file') =>
            \A kind \in NamedKinds : K!Entities(live', kind) \subseteq EventsIn(file')
      BY <3>3, <3>5, <3>7
    <3>9. Expected(intent)'
      BY <2>1, <3>5 DEF Expected, NamedKinds
    <3>10. NamedKinds' = NamedKinds
      BY DEF NamedKinds, DesignKinds
    <3>11. QED
      BY <3>6, <3>7, <3>8, <3>9, <3>10 DEF LiveOnFile
  <2>12. QED
    BY <1>3, <2>9, <2>10, <2>11 DEF RecordInv
<1>7. QED
  BY <1>5, <1>6 DEF Starts

-----------------------------------------------------------------------------
(* The record *)

(* Nothing is on record before anything has started. *)
LEMMA RecordInit ==
  ASSUME PipelineInit
  PROVE  RecordInv
<1>1. K!Init /\ WorkflowInit
  BY DEF PipelineInit
<1>2. status = "down" /\ file = K!EmptyFile
  BY <1>1 DEF K!Init
<1>3. WellWritten(file) /\ EventsIn(file) = {}
  BY <1>2, EmptyList DEF WellWritten, EventsIn, K!EmptyFile
<1>4. FileInv /\ LiveOnFile /\ ReleaseOnFile
  BY <1>2, <1>3 DEF FileInv, LiveOnFile, ReleaseOnFile, AllRegular, Says
<1>5. runs = 1 /\ Passed
  <2>1. /\ runs = 1 /\ cursor = 1
        /\ plan.names = SubSeq(PhaseNames, 1, 15) /\ Len(PhaseNames) = 15
    BY <1>1 DEF WorkflowInit, Init, PlanFrom, PhaseNames
  <2>2. Place = 1
    BY <2>1 DEF Place, NumPhases, NumDefault
  <2>3. QED
    BY <2>1, <2>2 DEF Passed, NumDefault
<1>6. QED
  BY <1>4, <1>5 DEF RecordInv, RunInv

(* Every step keeps the record. *)
LEMMA RecordStep ==
  ASSUME KnownInv, RecordInv, [PipelineNext]_pipelineVars
  PROVE  RecordInv'
<1>1. [WorkflowNext]_workflowVars
  BY PipelineInvStep DEF KnownInv
<1>2. QED
  BY <1>1, StartsRecord, EntersRecord, SendsRecord, JudgesRecord, ClosesRecord, EndsRecord
     DEF PipelineNext

(* A log that says that the design was released to manufacture replays to one that can be   *)
(* lowered to it, has a track on every net and no open violation, whichever write had       *)
(* failed and wherever the process died ("no design with an open blocking defect is ever     *)
(* released", manufacturing_generation.rs).  All that is live is in the log; and what the    *)
(* log has beyond it, of requests whose write failed, takes nothing of that away.            *)
THEOREM ReleasesAreOnRecord == PipelineSpec => []ReleaseIsOnRecord
<1>1. PipelineSpec => []KnownInv
  <2>1. WorkflowSpec => []Done /\ []WholeInv
    BY DoneInvariant, WholeInvariant, PTL
  <2>2. ImplementsWorkflow => []Done /\ []WholeInv
    BY <2>1 DEF ImplementsWorkflow
  <2>3. PipelineInv /\ Done /\ WholeInv => KnownInv
    BY DEF KnownInv
  <2>4. QED
    BY <2>2, <2>3, ProcessInvariant, PipelineImplementsWorkflow, PTL
<1>2. PipelineInit => RecordInv
  BY RecordInit
<1>3. KnownInv /\ RecordInv /\ [PipelineNext]_pipelineVars => RecordInv'
  BY RecordStep
<1>4. RecordInv => ReleaseIsOnRecord
  BY RecordIsEnough
<1>5. QED
  BY <1>1, <1>2, <1>3, <1>4, PTL DEF PipelineSpec
=============================================================================
