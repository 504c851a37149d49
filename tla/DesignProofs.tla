---------------------------- MODULE DesignProofs ----------------------------
(***************************************************************************)
(* What the operators of Design, Verification and Workflow give, for every    *)
(* design: the lists that the phases make, what their requests commit, what the   *)
(* rules look at and what a gate raises.                                          *)
(***************************************************************************)
EXTENDS Workflow, SequenceFacts

-----------------------------------------------------------------------------
(* What is kept of a list *)

\* f has what is kept of the first items, of none to all.
KeepsUpTo(f, items, set) ==
  /\ f[0] = <<>>
  /\ \A n \in 1 .. Len(items) :
       f[n] = IF items[n] \in set THEN Append(f[n - 1], items[n]) ELSE f[n - 1]

(* What is kept of a list is made of it one item after another.                  *)
LEMMA KeepSteps ==
  ASSUME NEW items, IsList(items), NEW set
  PROVE  \E f : KeepsUpTo(f, items, set) /\ Keep(items, set) = f[Len(items)]
<1> DEFINE S == ToSet(items)
           N == Len(items)
           longer(s, n) == IF items[n] \in set THEN Append(s, items[n]) ELSE s
           step == [n \in 1 .. N |-> [s \in Seq(S) |-> longer(s, n)]]
           IsUpTo(f) == f = [n \in 0 .. N |->
                               IF n = 0 THEN <<>>
                               ELSE IF items[n] \in set THEN Append(f[n - 1], items[n])
                               ELSE f[n - 1]]
<1>1. N \in Nat /\ DOMAIN items = 1 .. N /\ \A n \in 1 .. N : items[n] \in S
  BY ListOfSeq DEF IsList
<1>2. step \in [1 .. N -> [Seq(S) -> Seq(S)]]
  <2>1. \A n \in 1 .. N, s \in Seq(S) : longer(s, n) \in Seq(S)
    BY <1>1
  <2> HIDE DEF longer, S, N
  <2>2. QED
    BY <2>1
<1>3. \E f : IsUpTo(f)
  <2>1. PICK f \in [0 .. N -> Seq(S)] :
          f[0] = <<>> /\ \A n \in 1 .. N : f[n] = step[n][f[n - 1]]
    <3> DEFINE R == Seq(S)
               base == <<>>
    <3>1. base \in R /\ N \in Nat /\ step \in [1 .. N -> [R -> R]]
      BY <1>1, <1>2
    <3> HIDE DEF step, R, N, base
    <3>2. \E f : IsIteration(f, N, R, base, step)
      BY <3>1, Iteration
    <3>3. QED
      BY <3>2 DEF IsIteration, R, base
  <2>2. \A n \in 1 .. N : f[n] = longer(f[n - 1], n)
    <3>1. \A n \in 1 .. N : n - 1 \in 0 .. N
      BY <1>1
    <3> HIDE DEF longer, S, N
    <3>2. QED
      BY <2>1, <3>1
  <2>3. \A n \in 0 .. N : f[n] = IF n = 0 THEN <<>>
                               ELSE IF items[n] \in set THEN Append(f[n - 1], items[n])
                               ELSE f[n - 1]
    <3>1. \A n \in 0 .. N : n = 0 \/ n \in 1 .. N
      BY <1>1
    <3> HIDE DEF S, N
    <3>2. QED
      BY <2>1, <2>2, <3>1
  <2>4. f = [n \in 0 .. N |-> f[n]]
    BY <2>1
  <2> HIDE DEF S, N
  <2>5. QED
    BY <2>3, <2>4
<1>4. PICK f : IsUpTo(f) /\ Keep(items, set) = f[N]
  <2> DEFINE upTo == CHOOSE f : IsUpTo(f)
  <2>1. IsUpTo(upTo)
    BY <1>3
  <2>2. Keep(items, set) = upTo[N]
    BY DEF Keep
  <2> HIDE DEF IsUpTo, upTo
  <2>3. QED
    BY <2>1, <2>2
<1>5. f[0] = <<>> /\ \A n \in 1 .. N : f[n] = longer(f[n - 1], n)
  <2>1. 0 \in 0 .. N /\ \A n \in 1 .. N : n \in 0 .. N /\ n /= 0
    BY <1>1
  <2>2. f = [n \in 0 .. N |->
               IF n = 0 THEN <<>>
               ELSE IF items[n] \in set THEN Append(f[n - 1], items[n])
               ELSE f[n - 1]]
    BY <1>4
  <2> HIDE DEF N
  <2>3. QED
    BY <2>1, <2>2
<1>6. Keep(items, set) = f[N]
  BY <1>4
<1>7. KeepsUpTo(f, items, set)
  BY <1>5 DEF KeepsUpTo
<1> HIDE DEF IsUpTo
<1>8. QED
  BY <1>6, <1>7

(* What is kept of a list: the items of the set, and no others.                 *)
LEMMA KeepFacts ==
  ASSUME NEW items, IsList(items), NEW set
  PROVE  /\ IsList(Keep(items, set))
         /\ ToSet(Keep(items, set)) = ToSet(items) \cap set
         /\ IsInjective(items) => IsInjective(Keep(items, set))
<1> DEFINE S == ToSet(items)
           N == Len(items)
           longer(s, n) == IF items[n] \in set THEN Append(s, items[n]) ELSE s
           Gives(s, n) == /\ s \in Seq(S)
                          /\ ToSet(s) = {items[i] : i \in 1 .. n} \cap set
                          /\ IsInjective(items) => IsInjective(s)
<1>1. N \in Nat /\ DOMAIN items = 1 .. N /\ \A n \in 1 .. N : items[n] \in S
  BY ListOfSeq DEF IsList
<1>4. PICK f : KeepsUpTo(f, items, set) /\ Keep(items, set) = f[N]
  BY KeepSteps
<1>5. f[0] = <<>> /\ \A n \in 1 .. N : f[n] = longer(f[n - 1], n)
  BY <1>4 DEF KeepsUpTo
<1> DEFINE T == {n \in Nat : n <= N => Gives(f[n], n)}
<1>6. 0 \in T
  <2>1. ToSet(<<>>) = {} /\ <<>> \in Seq(S)
    BY EmptyList
  <2>2. {items[i] : i \in 1 .. 0} = {}
    OBVIOUS
  <2> HIDE DEF S
  <2>3. IsInjective(<<>>)
    BY DEF IsInjective
  <2>4. QED
    BY <1>5, <2>1, <2>2, <2>3
<1>7. ASSUME NEW n \in Nat, n \in T PROVE n + 1 \in T
  <2>1. SUFFICES ASSUME n + 1 <= N PROVE Gives(f[n + 1], n + 1)
    OBVIOUS
  <2>2. f[n + 1] = longer(f[n], n + 1) /\ Gives(f[n], n) /\ items[n + 1] \in S
    BY <1>1, <1>5, <1>7, <2>1
  <2>3. {items[i] : i \in 1 .. n + 1} = {items[i] : i \in 1 .. n} \cup {items[n + 1]}
    OBVIOUS
  <2> HIDE DEF S
  <2>4. /\ Append(f[n], items[n + 1]) \in Seq(S)
        /\ ToSet(Append(f[n], items[n + 1])) = ToSet(f[n]) \cup {items[n + 1]}
    <3>1. IsList(f[n])
      BY <2>2, ListOfSeq
    <3>2. QED
      BY <2>2, <3>1, ListAppend
  <2>5. ASSUME IsInjective(items) PROVE IsInjective(Append(f[n], items[n + 1]))
    <3>1. \A i \in 1 .. n : i \in 1 .. N /\ n + 1 \in 1 .. N /\ i /= n + 1
      BY <1>1, <2>1
    <3>2. items[n + 1] \notin {items[i] : i \in 1 .. n}
      <4> HIDE DEF N
      <4>1. QED
        BY <1>1, <2>5, <3>1 DEF IsInjective
    <3>3. IsList(f[n]) /\ IsInjective(f[n]) /\ items[n + 1] \notin ToSet(f[n])
      BY <2>2, <2>5, <3>2, ListOfSeq
    <3>4. QED
      BY <3>3, InjectiveAppend
  <2>6. CASE items[n + 1] \in set
    BY <2>2, <2>3, <2>4, <2>5, <2>6
  <2>7. CASE items[n + 1] \notin set
    BY <2>2, <2>3, <2>7
  <2>8. QED
    BY <2>6, <2>7
<1>8. Nat \subseteq T
  <2> HIDE DEF T
  <2>1. QED
    BY <1>6, <1>7, NatInd
<1>9. Gives(f[N], N)
  <2>1. N \in T
    BY <1>1, <1>8
  <2> HIDE DEF N, Gives
  <2>2. QED
    BY <1>1, <2>1
<1>10. {items[i] : i \in 1 .. N} = ToSet(items)
  BY <1>1 DEF ToSet
<1>11. QED
  <2>1. IsList(f[N])
    <3> HIDE DEF S, N
    <3>1. QED
      BY <1>9, ListOfSeq
  <2>2. QED
    BY <1>4, <1>9, <1>10, <2>1

(* A longer list keeps what it kept, and its last item if that is in the set.       *)
LEMMA KeepAppend ==
  ASSUME NEW items, IsList(items), NEW x, NEW set, NEW other,
         \A y \in ToSet(items) : y \in set <=> y \in other
  PROVE  Keep(Append(items, x), other)
           = IF x \in other THEN Append(Keep(items, set), x) ELSE Keep(items, set)
<1> DEFINE N == Len(items)
           all == Append(items, x)
<1>1. /\ N \in Nat /\ DOMAIN items = 1 .. N /\ IsList(all) /\ Len(all) = N + 1
      /\ \A n \in 1 .. N : all[n] = items[n] /\ items[n] \in ToSet(items)
      /\ all[N + 1] = x
  <2>1. items \in Seq(ToSet(items) \cup {x})
    BY ListOfWider
  <2>2. QED
    BY <2>1, ListOfSeq, ListAppend, AppendFacts
<1>2. PICK f : KeepsUpTo(f, items, set) /\ Keep(items, set) = f[N]
  BY KeepSteps
<1>3. PICK g : KeepsUpTo(g, all, other) /\ Keep(all, other) = g[Len(all)]
  <2> HIDE DEF all
  <2>1. QED
    BY <1>1, KeepSteps
<1> DEFINE T == {n \in Nat : n <= N => g[n] = f[n]}
<1> HIDE DEF N, all
<1>4. 0 \in T
  BY <1>2, <1>3 DEF KeepsUpTo
<1>5. ASSUME NEW n \in Nat, n \in T PROVE n + 1 \in T
  <2>1. SUFFICES ASSUME n + 1 <= N PROVE g[n + 1] = f[n + 1]
    OBVIOUS
  <2>2. n + 1 \in 1 .. N /\ n + 1 \in 1 .. N + 1 /\ (n + 1) - 1 = n /\ g[n] = f[n]
    BY <1>1, <1>5, <2>1
  <2>3. QED
    BY <1>1, <1>2, <1>3, <2>2 DEF KeepsUpTo
<1>6. Nat \subseteq T
  <2> HIDE DEF T
  <2>1. QED
    BY <1>4, <1>5, NatInd
<1>7. g[N] = f[N] /\ N + 1 \in 1 .. N + 1 /\ (N + 1) - 1 = N
  BY <1>1, <1>6
<1>8. QED
  BY <1>1, <1>2, <1>3, <1>7 DEF all, KeepsUpTo

-----------------------------------------------------------------------------
(* The requests of a phase, and what is committed of them *)

\* All that a phase sends makes items of these kinds.
SendsOnly(requests, kinds) ==
  IsList(requests) /\ \A r \in ToSet(requests) : r.kind \in kinds

(* A request for each item. *)
LEMMA CreateFacts ==
  ASSUME NEW items, IsList(items), NEW kind
  PROVE  /\ SendsOnly(Create(kind, items), {kind})
         /\ ToSet(Create(kind, items)) = {[kind |-> kind, item |-> x] : x \in ToSet(items)}
<1> DEFINE made == Create(kind, items)
<1>1. Len(items) \in Nat /\ DOMAIN items = 1 .. Len(items)
  BY ListOfSeq DEF IsList
<1>2. /\ DOMAIN made = 1 .. Len(items)
      /\ \A i \in 1 .. Len(items) : made[i] = [kind |-> kind, item |-> items[i]]
      /\ made = [i \in 1 .. Len(items) |-> made[i]]
  BY <1>1 DEF Create
<1> HIDE DEF made
<1>3. IsList(made)
  BY <1>1, <1>2, ListOfFunction
<1>4. ToSet(made) = {[kind |-> kind, item |-> x] : x \in ToSet(items)}
  BY <1>1, <1>2 DEF ToSet
<1>5. QED
  BY <1>3, <1>4 DEF made, SendsOnly

(* What a phase sends in parts is of the kinds of its parts. *)
LEMMA SendsNothing ==
  ASSUME NEW kinds PROVE SendsOnly(<<>>, kinds)
BY EmptyList DEF SendsOnly

(* The kinds are an upper bound. *)
LEMMA SendsMore ==
  ASSUME NEW requests, NEW fewer, NEW kinds, fewer \subseteq kinds, SendsOnly(requests, fewer)
  PROVE  SendsOnly(requests, kinds)
BY DEF SendsOnly

(* Two lists of requests in a row. *)
LEMMA SendsBoth ==
  ASSUME NEW s, NEW t, NEW kinds, SendsOnly(s, kinds), SendsOnly(t, kinds)
  PROVE  SendsOnly(s \o t, kinds)
BY ListConcat DEF SendsOnly

(* Many lists of requests in a row. *)
LEMMA SendsAll ==
  ASSUME NEW seqs, IsList(seqs), NEW kinds, \A i \in DOMAIN seqs : SendsOnly(seqs[i], kinds)
  PROVE  SendsOnly(FlattenSeq(seqs), kinds)
BY FlattenFacts DEF SendsOnly

(* What is sent until an error. *)
LEMMA SendsPrefix ==
  ASSUME NEW requests, NEW kinds, SendsOnly(requests, kinds), NEW k \in 0 .. Len(requests)
  PROVE  SendsOnly(SubSeq(requests, 1, k), kinds)
BY ListPrefix DEF SendsOnly

(* The items of a design are in lists, one for each kind.                       *)
DesignLists ==
  /\ design = [kind \in DesignKinds |-> design[kind]]
  /\ \A kind \in DesignKinds : IsList(design[kind])

\* No item is in the design twice.
Once == \A kind \in DesignKinds : IsInjective(design[kind])

\* Requests for items that are not in the design, none of them twice.
Fresh(requests) ==
  /\ IsInjective(requests)
  /\ \A r \in ToSet(requests) :
       r = [kind |-> r.kind, item |-> r.item] /\ r.item \notin Made(r.kind)

\* The items of the design and those that the requests are for.
ItemsWith(requests) ==
  (UNION {Made(kind) : kind \in DesignKinds}) \cup {r.item : r \in ToSet(requests)}

\* f has what is committed of the first requests, of none to all.
CommitsUpTo(f, requests) ==
  /\ f \in [0 .. Len(requests) -> [DesignKinds -> Seq(ItemsWith(requests))]]
  /\ f[0] = design
  /\ \A n \in 1 .. Len(requests) :
       f[n] = [f[n - 1] EXCEPT ![requests[n].kind] = Append(@, requests[n].item)]

(* What is committed is made of the design by one request after another.          *)
LEMMA CommittedSteps ==
  ASSUME DesignLists, NEW requests, NEW kinds \in SUBSET DesignKinds, SendsOnly(requests, kinds)
  PROVE  \E f : CommitsUpTo(f, requests) /\ Committed(requests) = f[Len(requests)]
<1> DEFINE asked == {r.item : r \in ToSet(requests)}
           owned == UNION {Made(kind) : kind \in DesignKinds}
           Items == owned \cup asked
           N == Len(requests)
           D == [DesignKinds -> Seq(Items)]
           more(d, n) == [d EXCEPT ![requests[n].kind] = Append(@, requests[n].item)]
           step == [n \in 1 .. N |-> [d \in D |-> more(d, n)]]
           IsAfter(f) == f = [n \in 0 .. N |-> IF n = 0 THEN design ELSE more(f[n - 1], n)]
<1>1. /\ N \in Nat /\ DOMAIN requests = 1 .. N
      /\ \A n \in 1 .. N : requests[n] \in ToSet(requests)
  BY ListOfSeq DEF IsList, SendsOnly
<1>2. \A n \in 1 .. N : requests[n].kind \in kinds /\ requests[n].item \in Items
  <2>1. \A n \in 1 .. N : requests[n].kind \in kinds
    <3> HIDE DEF N
    <3>1. QED
      BY <1>1 DEF SendsOnly
  <2>2. \A r \in ToSet(requests) : r.item \in Items
    <3>1. \A r \in ToSet(requests) : r.item \in asked
      OBVIOUS
    <3> HIDE DEF asked, owned
    <3>2. QED
      BY <3>1
  <2> HIDE DEF N, Items
  <2>3. QED
    BY <1>1, <2>1, <2>2
<1>3. design \in D
  <2>1. \A kind \in DesignKinds : design[kind] \in Seq(Items)
    <3>1. SUFFICES ASSUME NEW kind \in DesignKinds PROVE design[kind] \in Seq(Items)
      OBVIOUS
    <3>2. ToSet(design[kind]) \subseteq Items /\ IsList(design[kind])
      BY DEF Made, DesignLists
    <3> HIDE DEF Items
    <3>3. QED
      BY <3>2, ListOfWider
  <2> HIDE DEF Items
  <2>2. QED
    BY <2>1 DEF DesignLists
<1> HIDE DEF Items
<1>4. ASSUME NEW d \in D, NEW n \in 1 .. N
      PROVE  /\ more(d, n) \in D
             /\ more(d, n)[requests[n].kind] = Append(d[requests[n].kind], requests[n].item)
             /\ \A kind \in DesignKinds \ {requests[n].kind} : more(d, n)[kind] = d[kind]
  <2>1. requests[n].kind \in DesignKinds
    BY <1>2
  <2>2. d[requests[n].kind] \in Seq(Items)
    BY <2>1
  <2>3. Append(d[requests[n].kind], requests[n].item) \in Seq(Items)
    BY <1>2, <2>2
  <2> HIDE DEF N
  <2>4. QED
    BY <2>1, <2>3
<1>5. PICK f : /\ f \in [0 .. N -> D] /\ f[0] = design
               /\ \A n \in 1 .. N : f[n] = more(f[n - 1], n)
  <2>1. step \in [1 .. N -> [D -> D]]
    <3> HIDE DEF more, D, N
    <3>1. QED
      BY <1>4
  <2>2. \E f : IsIteration(f, N, D, design, step)
    <3> HIDE DEF step, D, N
    <3>1. QED
      BY <1>1, <1>3, <2>1, Iteration
  <2>3. PICK f : IsIteration(f, N, D, design, step)
    <3> HIDE DEF step, D, N
    <3>1. QED
      BY <2>2
  <2>4. ASSUME NEW n \in 1 .. N PROVE f[n] = more(f[n - 1], n)
    <3>1. f[n] = step[n][f[n - 1]] /\ n - 1 \in 0 .. N /\ f \in [0 .. N -> D]
      <4>1. n - 1 \in 0 .. N
        BY <1>1
      <4> HIDE DEF step, D, N
      <4>2. QED
        BY <2>3, <4>1 DEF IsIteration
    <3>2. f[n - 1] \in D
      <4> HIDE DEF D, N
      <4>1. QED
        BY <3>1
    <3> HIDE DEF more, D, N
    <3>3. QED
      BY <3>1, <3>2
  <2>5. f \in [0 .. N -> D] /\ f[0] = design
    BY <2>3 DEF IsIteration
  <2> HIDE DEF more, D, N
  <2>6. QED
    BY <2>4, <2>5
<1>6. IsAfter(f)
  <2>1. \A n \in 0 .. N : n = 0 \/ n \in 1 .. N
    BY <1>1
  <2> HIDE DEF more, D, N
  <2>2. \A n \in 0 .. N : f[n] = IF n = 0 THEN design ELSE more(f[n - 1], n)
    BY <1>5, <2>1
  <2>3. f = [n \in 0 .. N |-> f[n]]
    BY <1>5
  <2>4. QED
    BY <2>2, <2>3
<1>7. PICK g : IsAfter(g) /\ Committed(requests) = g[N]
  <2> DEFINE after == CHOOSE h : IsAfter(h)
  <2>1. IsAfter(after)
    BY <1>6
  <2>2. Committed(requests) = after[N]
    BY DEF Committed
  <2> HIDE DEF after, IsAfter
  <2>3. QED
    BY <2>1, <2>2
<1>8. g[0] = design /\ \A n \in 1 .. N : g[n] = more(g[n - 1], n)
  <2>1. 0 \in 0 .. N /\ \A n \in 1 .. N : n \in 0 .. N /\ n /= 0
    BY <1>1
  <2>2. g = [n \in 0 .. N |-> IF n = 0 THEN design ELSE more(g[n - 1], n)]
    BY <1>7
  <2> HIDE DEF more, N
  <2>3. QED
    BY <2>1, <2>2
<1> HIDE DEF IsAfter, step, D, N
<1> DEFINE T == {n \in Nat : n <= N => g[n] \in D}
<1>9. \A n \in 0 .. N : g[n] \in D
  <2>1. 0 \in T
    BY <1>3, <1>8
  <2>2. ASSUME NEW n \in Nat, n \in T PROVE n + 1 \in T
    <3>1. SUFFICES ASSUME n + 1 <= N PROVE g[n + 1] \in D
      OBVIOUS
    <3>2. n + 1 \in 1 .. N /\ (n + 1) - 1 = n /\ g[n] \in D
      BY <1>1, <2>2, <3>1
    <3> HIDE DEF more
    <3>3. g[n + 1] = more(g[n], n + 1) /\ more(g[n], n + 1) \in D
      BY <1>4, <1>8, <3>2
    <3>4. QED
      BY <3>3
  <2>3. Nat \subseteq T
    <3> HIDE DEF T
    <3>1. QED
      BY <2>1, <2>2, NatInd
  <2>4. QED
    BY <1>1, <2>3
<1>10. g \in [0 .. N -> D]
  <2>1. g = [n \in 0 .. N |-> g[n]]
    BY <1>7 DEF IsAfter
  <2>2. QED
    BY <1>9, <2>1
<1>11. CommitsUpTo(g, requests)
  <2>1. g \in [0 .. Len(requests) -> [DesignKinds -> Seq(ItemsWith(requests))]]
    <3>1. Items = ItemsWith(requests)
      BY DEF ItemsWith, Items
    <3>2. QED
      BY <1>10, <3>1 DEF D, N
  <2>2. g[0] = design
    BY <1>8
  <2>3. \A n \in 1 .. Len(requests) :
          g[n] = [g[n - 1] EXCEPT ![requests[n].kind] = Append(@, requests[n].item)]
    BY <1>8 DEF N
  <2>4. QED
    BY <2>1, <2>2, <2>3 DEF CommitsUpTo
<1> HIDE DEF more, Items
<1>12. QED
  BY <1>7, <1>11 DEF N

(* What is committed of a list of requests: for each kind, the items that it has *)
(* already, and those of the requests of the kind.                              *)
LEMMA CommittedFacts ==
  ASSUME DesignLists, NEW requests, NEW kinds \in SUBSET DesignKinds, SendsOnly(requests, kinds)
  PROVE  /\ DOMAIN Committed(requests) = DesignKinds
         /\ Committed(requests) = [kind \in DesignKinds |-> Committed(requests)[kind]]
         /\ \A kind \in DesignKinds :
              /\ IsList(Committed(requests)[kind])
              /\ ToSet(Committed(requests)[kind])
                   = Made(kind) \cup {r.item : r \in {q \in ToSet(requests) : q.kind = kind}}
              /\ kind \notin kinds => Committed(requests)[kind] = design[kind]
              /\ Once /\ Fresh(requests) => IsInjective(Committed(requests)[kind])
<1> DEFINE asked == {r.item : r \in ToSet(requests)}
           owned == UNION {Made(kind) : kind \in DesignKinds}
           Items == owned \cup asked
           N == Len(requests)
           D == [DesignKinds -> Seq(Items)]
           more(d, n) == [d EXCEPT ![requests[n].kind] = Append(@, requests[n].item)]
           sent(n, kind) == {requests[i].item : i \in {j \in 1 .. n : requests[j].kind = kind}}
           Good(d, n) ==
             /\ d \in D
             /\ \A kind \in DesignKinds :
                  /\ ToSet(d[kind]) = Made(kind) \cup sent(n, kind)
                  /\ kind \notin kinds => d[kind] = design[kind]
                  /\ Once /\ Fresh(requests) => IsInjective(d[kind])
<1>1. /\ N \in Nat /\ DOMAIN requests = 1 .. N
      /\ \A n \in 1 .. N : requests[n] \in ToSet(requests)
  BY ListOfSeq DEF IsList, SendsOnly
<1>2. \A n \in 1 .. N : requests[n].kind \in kinds /\ requests[n].item \in Items
  <2>1. \A n \in 1 .. N : requests[n].kind \in kinds
    <3> HIDE DEF N
    <3>1. QED
      BY <1>1 DEF SendsOnly
  <2>2. \A r \in ToSet(requests) : r.item \in Items
    <3>1. \A r \in ToSet(requests) : r.item \in asked
      OBVIOUS
    <3> HIDE DEF asked, owned
    <3>2. QED
      BY <3>1
  <2> HIDE DEF N, Items
  <2>3. QED
    BY <1>1, <2>1, <2>2
<1>3. design \in D
  <2>1. \A kind \in DesignKinds : design[kind] \in Seq(Items)
    <3>1. SUFFICES ASSUME NEW kind \in DesignKinds PROVE design[kind] \in Seq(Items)
      OBVIOUS
    <3>2. ToSet(design[kind]) \subseteq Items /\ IsList(design[kind])
      BY DEF Made, DesignLists
    <3> HIDE DEF Items
    <3>3. QED
      BY <3>2, ListOfWider
  <2> HIDE DEF Items
  <2>2. QED
    BY <2>1 DEF DesignLists
<1> HIDE DEF Items
<1>4. ASSUME NEW d \in D, NEW n \in 1 .. N
      PROVE  /\ more(d, n) \in D
             /\ more(d, n)[requests[n].kind] = Append(d[requests[n].kind], requests[n].item)
             /\ \A kind \in DesignKinds \ {requests[n].kind} : more(d, n)[kind] = d[kind]
  <2>1. requests[n].kind \in DesignKinds
    BY <1>2
  <2>2. d[requests[n].kind] \in Seq(Items)
    BY <2>1
  <2>3. Append(d[requests[n].kind], requests[n].item) \in Seq(Items)
    BY <1>2, <2>2
  <2> HIDE DEF N
  <2>4. QED
    BY <2>1, <2>3
<1>7. PICK g : CommitsUpTo(g, requests) /\ Committed(requests) = g[N]
  <2> HIDE DEF N
  <2>1. QED
    BY CommittedSteps DEF N
<1>8. g[0] = design /\ \A n \in 1 .. N : g[n] = more(g[n - 1], n)
  BY <1>7 DEF CommitsUpTo
<1> DEFINE T == {n \in Nat : n <= N => Good(g[n], n)}
<1>9. 0 \in T
  <2>1. \A kind : sent(0, kind) = {}
    OBVIOUS
  <2> HIDE DEF sent, D
  <2>2. Good(g[0], 0)
    BY <1>3, <1>8, <2>1 DEF Made, Once
  <2> HIDE DEF Good
  <2>3. QED
    BY <2>2
<1>10. ASSUME NEW n \in Nat, n \in T PROVE n + 1 \in T
  <2>1. SUFFICES ASSUME n + 1 <= N PROVE Good(g[n + 1], n + 1)
    <3> HIDE DEF Good, N
    <3>1. QED
      OBVIOUS
  <2> DEFINE r == requests[n + 1]
             d == g[n]
  <2>2. n + 1 \in 1 .. N /\ n + 1 - 1 = n
    BY <1>1, <2>1
  <2>3. Good(d, n)
    <3> HIDE DEF Good, N
    <3>1. QED
      BY <1>1, <1>10, <2>1
  <2>4. g[n + 1] = more(d, n + 1)
    <3> HIDE DEF more, N
    <3>1. QED
      BY <1>8, <2>2
  <2>5. /\ g[n + 1] \in D /\ g[n + 1][r.kind] = Append(d[r.kind], r.item)
        /\ \A kind \in DesignKinds \ {r.kind} : g[n + 1][kind] = d[kind]
    <3>1. d \in D
      BY <2>3
    <3> HIDE DEF more, D, N, d
    <3>2. /\ more(d, n + 1) \in D
          /\ more(d, n + 1)[r.kind] = Append(d[r.kind], r.item)
          /\ \A kind \in DesignKinds \ {r.kind} : more(d, n + 1)[kind] = d[kind]
      BY <1>4, <2>2, <3>1
    <3>3. QED
      BY <2>4, <3>2
  <2>6. r.kind \in kinds /\ r.kind \in DesignKinds
    BY <1>2, <2>2
  <2>7. ToSet(Append(d[r.kind], r.item)) = ToSet(d[r.kind]) \cup {r.item}
    <3>1. d[r.kind] \in Seq(Items)
      BY <2>3, <2>6
    <3>2. IsList(d[r.kind])
      BY <3>1, ListOfSeq
    <3>3. QED
      BY <3>2, ListAppend
  <2>8. sent(n + 1, r.kind) = sent(n, r.kind) \cup {r.item}
    OBVIOUS
  <2>9. \A kind \in DesignKinds \ {r.kind} : sent(n + 1, kind) = sent(n, kind)
    <3>1. ASSUME NEW kind \in DesignKinds \ {r.kind} PROVE sent(n + 1, kind) = sent(n, kind)
      <4>1. {j \in 1 .. n + 1 : requests[j].kind = kind} = {j \in 1 .. n : requests[j].kind = kind}
        <5>1. \A j \in 1 .. n + 1 : j \in 1 .. n \/ j = n + 1
          OBVIOUS
        <5>2. \A j \in 1 .. n : j \in 1 .. n + 1
          OBVIOUS
        <5>3. QED
          BY <5>1, <5>2
      <4>2. QED
        BY <4>1
    <3>2. QED
      BY <3>1
  <2>10. ASSUME Once, Fresh(requests) PROVE IsInjective(Append(d[r.kind], r.item))
    <3>1. r \in ToSet(requests)
      BY <1>1, <2>2
    <3>2. r.item \notin Made(r.kind) /\ r = [kind |-> r.kind, item |-> r.item]
      BY <2>10, <3>1 DEF Fresh
    <3>3. ASSUME NEW j \in 1 .. n, requests[j].kind = r.kind, requests[j].item = r.item
          PROVE  FALSE
      <4>1. j \in 1 .. N /\ j /= n + 1
        BY <1>1, <2>2
      <4>2. requests[j] = [kind |-> requests[j].kind, item |-> requests[j].item]
        BY <1>1, <2>10, <4>1 DEF Fresh
      <4>3. requests[j] = requests[n + 1]
        BY <3>2, <3>3, <4>2
      <4>4. QED
        BY <1>1, <2>2, <2>10, <4>1, <4>3 DEF Fresh, IsInjective
    <3>4. r.item \notin sent(n, r.kind)
      BY <3>3
    <3>5. d[r.kind] \in Seq(Items) /\ IsInjective(d[r.kind])
      BY <2>3, <2>6, <2>10
    <3>6. r.item \notin ToSet(d[r.kind])
      BY <2>3, <2>6, <3>2, <3>4
    <3>7. QED
      <4>1. IsList(d[r.kind])
        BY <3>5, ListOfSeq
      <4> HIDE DEF d, r
      <4>2. QED
        BY <3>5, <3>6, <4>1, InjectiveAppend
  <2> HIDE DEF sent, D, r, d
  <2>11. ASSUME NEW kind \in DesignKinds
         PROVE  /\ ToSet(g[n + 1][kind]) = Made(kind) \cup sent(n + 1, kind)
                /\ kind \notin kinds => g[n + 1][kind] = design[kind]
                /\ Once /\ Fresh(requests) => IsInjective(g[n + 1][kind])
    BY <2>3, <2>5, <2>6, <2>7, <2>8, <2>9, <2>10
  <2>12. QED
    BY <2>5, <2>11
<1>11. Good(g[N], N)
  <2>1. Nat \subseteq T
    <3> HIDE DEF T
    <3>1. QED
      BY <1>9, <1>10, NatInd
  <2>2. N \in T
    BY <1>1, <2>1
  <2> HIDE DEF Good, N
  <2>3. QED
    BY <1>1, <2>2
<1>12. \A kind : sent(N, kind) = {r.item : r \in {q \in ToSet(requests) : q.kind = kind}}
  BY <1>1 DEF ToSet
<1> HIDE DEF sent, N
<1>13. \A kind \in DesignKinds : IsList(g[N][kind])
  <2>1. \A kind \in DesignKinds : g[N][kind] \in Seq(Items)
    BY <1>11
  <2>2. QED
    BY <2>1, ListOfSeq
<1>14. g[N] = [kind \in DesignKinds |-> g[N][kind]] /\ DOMAIN g[N] = DesignKinds
  BY <1>11
<1>15. QED
  BY <1>7, <1>11, <1>12, <1>13, <1>14

(* One request more, and its item is one more of its kind.                        *)
LEMMA CommittedAppend ==
  ASSUME DesignLists, NEW requests, NEW kinds \in SUBSET DesignKinds, SendsOnly(requests, kinds),
         NEW r, r.kind \in kinds
  PROVE  Committed(Append(requests, r))
           = [Committed(requests) EXCEPT ![r.kind] = Append(@, r.item)]
<1> DEFINE N == Len(requests)
           all == Append(requests, r)
<1>1. /\ N \in Nat /\ DOMAIN requests = 1 .. N /\ IsList(all) /\ Len(all) = N + 1
      /\ \A n \in 1 .. N : all[n] = requests[n]
      /\ all[N + 1] = r
      /\ ToSet(all) = ToSet(requests) \cup {r} /\ IsList(requests)
  <2>1. IsList(requests)
    BY DEF SendsOnly
  <2>2. requests \in Seq(ToSet(requests) \cup {r})
    BY <2>1, ListOfWider
  <2>3. QED
    BY <2>1, <2>2, ListOfSeq, ListAppend, AppendFacts
<1>2. SendsOnly(all, kinds)
  <2> HIDE DEF all
  <2>1. QED
    BY <1>1 DEF SendsOnly
<1>3. PICK f : CommitsUpTo(f, requests) /\ Committed(requests) = f[N]
  BY CommittedSteps
<1>4. PICK g : CommitsUpTo(g, all) /\ Committed(all) = g[Len(all)]
  <2> HIDE DEF all
  <2>1. QED
    BY <1>2, CommittedSteps
<1> DEFINE T == {n \in Nat : n <= N => g[n] = f[n]}
<1> HIDE DEF N, all
<1>5. 0 \in T
  BY <1>3, <1>4 DEF CommitsUpTo
<1>6. ASSUME NEW n \in Nat, n \in T PROVE n + 1 \in T
  <2>1. SUFFICES ASSUME n + 1 <= N PROVE g[n + 1] = f[n + 1]
    OBVIOUS
  <2>2. n + 1 \in 1 .. N /\ n + 1 \in 1 .. N + 1 /\ (n + 1) - 1 = n /\ g[n] = f[n]
    BY <1>1, <1>6, <2>1
  <2>3. f[n + 1] = [f[n] EXCEPT ![requests[n + 1].kind] = Append(@, requests[n + 1].item)]
    BY <1>3, <2>2 DEF CommitsUpTo, N
  <2>4. g[n + 1] = [g[n] EXCEPT ![all[n + 1].kind] = Append(@, all[n + 1].item)]
    BY <1>1, <1>4, <2>2 DEF CommitsUpTo
  <2>5. QED
    BY <1>1, <2>2, <2>3, <2>4
<1>7. Nat \subseteq T
  <2> HIDE DEF T
  <2>1. QED
    BY <1>5, <1>6, NatInd
<1>8. g[N] = f[N] /\ N + 1 \in 1 .. N + 1 /\ (N + 1) - 1 = N
  BY <1>1, <1>7
<1>9. g[N + 1] = [g[N] EXCEPT ![r.kind] = Append(@, r.item)]
  BY <1>1, <1>4, <1>8 DEF CommitsUpTo
<1>10. QED
  BY <1>1, <1>3, <1>4, <1>8, <1>9 DEF all

-----------------------------------------------------------------------------
(* What the rules look at *)

\* The kinds that the rules of a gate read.
Reads(gate) ==
  CASE gate = "ConstraintVerification" -> {"requirement", "constraint"}
    [] gate = "ErcVerification" -> {"component", "net"}
    [] gate = "BomVerification" -> {"component", "line"}
    [] OTHER -> DesignKinds \ {"violation", "waiver"}

\* The design keeps its items of these kinds.
Same(kinds) == candidates' = candidates /\ \A kind \in kinds : design'[kind] = design[kind]

(* What the requirements state is theirs alone. *)
LEMMA SameStated ==
  ASSUME Same({"requirement"})
  PROVE  /\ Made("requirement")' = Made("requirement")
         /\ FabricationLengths' = FabricationLengths
<1>1. candidates' = candidates /\ design'["requirement"] = design["requirement"]
  BY DEF Same
<1>2. Made("requirement")' = Made("requirement")
  BY <1>1 DEF Made
<1>3. QED
  BY <1>1, <1>2 DEF FabricationLengths, Stated, TargetsOf

(* The rules on the constraints read the requirements and the constraints. *)
LEMMA SameConstraintRules ==
  ASSUME Same({"requirement", "constraint"})
  PROVE  ConstraintConsistency' = ConstraintConsistency /\ ThermalJunction' = ThermalJunction
<1>1. /\ candidates' = candidates /\ design'["requirement"] = design["requirement"]
      /\ design'["constraint"] = design["constraint"]
  BY DEF Same
<1>2. ConstraintConsistency' = ConstraintConsistency
  BY <1>1 DEF ConstraintConsistency, Contradicts, FindPairs, Finding
<1>3. ThermalJunction' = ThermalJunction
  BY <1>1 DEF ThermalJunction, Overheats, TargetsOf, Made
<1>4. QED
  BY <1>2, <1>3

(* The electrical rules read the components and the nets. *)
LEMMA SameErcRules ==
  ASSUME Same({"component", "net"})
  PROVE  ErcPowerNetUndriven' = ErcPowerNetUndriven /\ ErcMultipleDrivers' = ErcMultipleDrivers
<1>1. /\ candidates' = candidates /\ design'["net"] = design["net"]
      /\ Made("net")' = Made("net") /\ Made("component")' = Made("component")
  BY DEF Same, Made
<1>2. ErcPowerNetUndriven' = ErcPowerNetUndriven
  BY <1>1 DEF ErcPowerNetUndriven, DriversOf, ConsumersOf, ClassOf
<1>3. ErcMultipleDrivers' = ErcMultipleDrivers
  BY <1>1 DEF ErcMultipleDrivers, DriversOf, ClassOf
<1>4. QED
  BY <1>2, <1>3

(* The rules on the bill of materials read the components and the lines. *)
LEMMA SameBomRules ==
  ASSUME Same({"component", "line"})
  PROVE  BomCoverage' = BomCoverage /\ BomLifecycle' = BomLifecycle
<1>1. /\ candidates' = candidates /\ design'["component"] = design["component"]
      /\ design'["line"] = design["line"]
  BY DEF Same
<1>2. BomCoverage' = BomCoverage
  BY <1>1 DEF BomCoverage, Covers, ClassOf, Made
<1>3. BomLifecycle' = BomLifecycle
  BY <1>1 DEF BomLifecycle
<1>4. QED
  BY <1>2, <1>3

(* The rules on the layout read everything but the violations and their waivers. *)
LEMMA SameLayoutRules ==
  ASSUME Same(DesignKinds \ {"violation", "waiver"})
  PROVE  /\ DrcOutOfBounds' = DrcOutOfBounds
         /\ DrcCourtyardOverlap' = DrcCourtyardOverlap
         /\ DrcTraceWidth' = DrcTraceWidth
         /\ DrcUnroutedNet' = DrcUnroutedNet
         /\ DrcNetOpen' = DrcNetOpen
         /\ DrcCopperClearance' = DrcCopperClearance
         /\ DfmEdgeClearance' = DfmEdgeClearance
         /\ DfmTraceEdgeClearance' = DfmTraceEdgeClearance
         /\ EmcAntennaLength' = EmcAntennaLength
<1>1. /\ candidates' = candidates /\ design'["board"] = design["board"]
      /\ design'["placement"] = design["placement"] /\ design'["track"] = design["track"]
      /\ design'["net"] = design["net"] /\ design'["requirement"] = design["requirement"]
      /\ design'["component"] = design["component"]
  BY DEF Same, DesignKinds
<1>2. /\ Made("placement")' = Made("placement") /\ Made("track")' = Made("track")
      /\ Made("net")' = Made("net") /\ Made("component")' = Made("component")
      /\ Made("requirement")' = Made("requirement")
  BY <1>1 DEF Made
<1>3. FabricationLengths' = FabricationLengths
  BY <1>1, SameStated DEF Same
<1>4. BoardEdge' = BoardEdge
  BY <1>1 DEF BoardEdge
<1>5. EdgeKeepout' = EdgeKeepout
  BY <1>3 DEF EdgeKeepout
<1>6. DrcOutOfBounds' = DrcOutOfBounds
  BY <1>1, <1>2, <1>4 DEF DrcOutOfBounds
<1>7. DrcCourtyardOverlap' = DrcCourtyardOverlap
  BY <1>1 DEF DrcCourtyardOverlap
<1>8. DrcTraceWidth' = DrcTraceWidth
  BY <1>1, <1>2, <1>3 DEF DrcTraceWidth
<1>9. \A net : TracksOf(net)' = TracksOf(net)
  BY <1>1, <1>2 DEF TracksOf
<1>10. \A net : MembersOf(net)' = MembersOf(net)
  BY <1>1, <1>2 DEF MembersOf, PadsOf, DriversOf, ConsumersOf, ClassOf
<1>11. DrcUnroutedNet' = DrcUnroutedNet
  BY <1>1, <1>2, <1>9 DEF DrcUnroutedNet
<1>12. DrcNetOpen' = DrcNetOpen
  BY <1>1, <1>2, <1>9, <1>10 DEF DrcNetOpen
<1>13. DrcCopperClearance' = DrcCopperClearance
  BY <1>1, <1>3 DEF DrcCopperClearance
<1>14. DfmEdgeClearance' = DfmEdgeClearance
  BY <1>1, <1>2, <1>4, <1>5 DEF DfmEdgeClearance, NearEdge
<1>15. DfmTraceEdgeClearance' = DfmTraceEdgeClearance
  BY <1>1, <1>2, <1>4, <1>5 DEF DfmTraceEdgeClearance, NearEdge
<1>16. EmcAntennaLength' = EmcAntennaLength
  BY <1>1, <1>2, ZenonT(60) DEF EmcAntennaLength, TargetsOf
<1>17. QED
  BY <1>6, <1>7, <1>8, <1>11, <1>12, <1>13, <1>14, <1>15, <1>16

(* A list of one item, and of two. *)
LEMMA OneItem == \A a : IsList(<<a>>) /\ ToSet(<<a>>) = {a}
BY DEF IsList, ToSet

(* A list of two items. *)
LEMMA TwoItems == \A a, b : IsList(<<a, b>>) /\ ToSet(<<a, b>>) = {a, b}
BY DEF IsList, ToSet

\* The rules of a gate, as a set.
RulesBy(gate) == ToSet(RulesOf(gate))

(* The rules of each gate, in a list. *)
LEMMA RulesFacts ==
  ASSUME NEW gate \in Gates
  PROVE  /\ IsList(RulesOf(gate))
         /\ gate = "ConstraintVerification" =>
              RulesBy(gate) = {"constraint-consistency", "thermal-tj"}
         /\ gate = "ErcVerification" =>
              RulesBy(gate) = {"erc-power-net-undriven", "erc-multiple-drivers"}
         /\ gate = "BomVerification" => RulesBy(gate) = {"bom-coverage", "bom-lifecycle"}
         /\ gate = "DrcVerification" =>
              RulesBy(gate) =
                {"drc-out-of-bounds", "drc-courtyard-overlap", "drc-trace-width",
                 "drc-unrouted-net", "drc-net-open", "drc-copper-clearance",
                 "drc-ampacity-width", "drc-impedance-match"}
         /\ gate = "DfmVerification" =>
              RulesBy(gate) = {"dfm-edge-clearance", "dfm-trace-edge-clearance"}
         /\ gate = "EmcAnalysis" => RulesBy(gate) = {"emc-antenna-length"}
<1>1. /\ RulesOf("ConstraintVerification") = <<"constraint-consistency", "thermal-tj">>
      /\ RulesOf("ErcVerification") = <<"erc-power-net-undriven", "erc-multiple-drivers">>
      /\ RulesOf("BomVerification") = <<"bom-coverage", "bom-lifecycle">>
      /\ RulesOf("DrcVerification") =
           <<"drc-out-of-bounds", "drc-courtyard-overlap", "drc-trace-width",
             "drc-unrouted-net", "drc-net-open", "drc-copper-clearance",
             "drc-ampacity-width", "drc-impedance-match">>
      /\ RulesOf("DfmVerification") = <<"dfm-edge-clearance", "dfm-trace-edge-clearance">>
      /\ RulesOf("EmcAnalysis") = <<"emc-antenna-length">>
  BY DEF RulesOf
<1>2. /\ IsList(<<"constraint-consistency", "thermal-tj">>)
      /\ IsList(<<"erc-power-net-undriven", "erc-multiple-drivers">>)
      /\ IsList(<<"bom-coverage", "bom-lifecycle">>)
      /\ IsList(<<"dfm-edge-clearance", "dfm-trace-edge-clearance">>)
      /\ IsList(<<"emc-antenna-length">>)
      /\ IsList(<<"drc-out-of-bounds", "drc-courtyard-overlap", "drc-trace-width",
                  "drc-unrouted-net", "drc-net-open", "drc-copper-clearance",
                  "drc-ampacity-width", "drc-impedance-match">>)
  <2>1. IsList(<<"constraint-consistency", "thermal-tj">>)
    BY TwoItems
  <2>2. IsList(<<"erc-power-net-undriven", "erc-multiple-drivers">>)
    BY TwoItems
  <2>3. IsList(<<"bom-coverage", "bom-lifecycle">>)
    BY TwoItems
  <2>4. IsList(<<"dfm-edge-clearance", "dfm-trace-edge-clearance">>)
    BY TwoItems
  <2>5. IsList(<<"emc-antenna-length">>)
    BY OneItem
  <2>6. IsList(<<"drc-out-of-bounds", "drc-courtyard-overlap", "drc-trace-width",
                  "drc-unrouted-net", "drc-net-open", "drc-copper-clearance",
                  "drc-ampacity-width", "drc-impedance-match">>)
    BY DEF IsList, ToSet
  <2>7. QED
    BY <2>1, <2>2, <2>3, <2>4, <2>5, <2>6
<1>3. /\ ToSet(<<"constraint-consistency", "thermal-tj">>)
           = {"constraint-consistency", "thermal-tj"}
      /\ ToSet(<<"erc-power-net-undriven", "erc-multiple-drivers">>)
           = {"erc-power-net-undriven", "erc-multiple-drivers"}
      /\ ToSet(<<"bom-coverage", "bom-lifecycle">>) = {"bom-coverage", "bom-lifecycle"}
      /\ ToSet(<<"dfm-edge-clearance", "dfm-trace-edge-clearance">>)
           = {"dfm-edge-clearance", "dfm-trace-edge-clearance"}
      /\ ToSet(<<"emc-antenna-length">>) = {"emc-antenna-length"}
  BY OneItem, TwoItems
<1>4. ToSet(<<"drc-out-of-bounds", "drc-courtyard-overlap", "drc-trace-width",
              "drc-unrouted-net", "drc-net-open", "drc-copper-clearance",
              "drc-ampacity-width", "drc-impedance-match">>)
        = {"drc-out-of-bounds", "drc-courtyard-overlap", "drc-trace-width",
           "drc-unrouted-net", "drc-net-open", "drc-copper-clearance",
           "drc-ampacity-width", "drc-impedance-match"}
  BY DEF ToSet
<1>5. QED
  BY <1>1, <1>2, <1>3, <1>4 DEF Gates, RulesBy

(* A gate finds what it found before, as long as no kind that its rules read grows. *)
LEMMA SameFindings ==
  ASSUME NEW gate \in Gates, Same(Reads(gate))
  PROVE  Findings(gate)' = Findings(gate)
<1>1. \A rule \in RulesBy(gate) : Evaluate(rule)' = Evaluate(rule)
  <2>1. CASE gate = "ConstraintVerification"
    BY <2>1, RulesFacts, SameConstraintRules DEF Reads, Evaluate
  <2>2. CASE gate = "ErcVerification"
    BY <2>2, RulesFacts, SameErcRules DEF Reads, Evaluate
  <2>3. CASE gate = "BomVerification"
    BY <2>3, RulesFacts, SameBomRules DEF Reads, Evaluate
  <2>4. CASE gate \in {"DrcVerification", "DfmVerification", "EmcAnalysis"}
    <3>1. Reads(gate) = DesignKinds \ {"violation", "waiver"}
      BY <2>4 DEF Reads
    <3>2. Same(DesignKinds \ {"violation", "waiver"})
      BY <3>1
    <3>3. QED
      BY <2>4, <3>2, RulesFacts, SameLayoutRules DEF Evaluate
  <2>5. QED
    BY <2>1, <2>2, <2>3, <2>4 DEF Gates
<1>2. \A i \in DOMAIN RulesOf(gate) : Evaluate(RulesOf(gate)[i])' = Evaluate(RulesOf(gate)[i])
  BY <1>1 DEF RulesBy, ToSet
<1>3. QED
  BY <1>2 DEF Findings

-----------------------------------------------------------------------------
(* The rules find lists *)

(* The findings on each item of a list are a list. *)
LEMMA FindEachList ==
  ASSUME NEW items, IsList(items), NEW rule, NEW kind
  PROVE  IsList(FindEach(rule, kind, items))
<1> DEFINE found == FindEach(rule, kind, items)
<1>1. Len(items) \in Nat /\ DOMAIN items = 1 .. Len(items)
  BY ListOfSeq DEF IsList
<1>2. DOMAIN found = 1 .. Len(items) /\ found = [i \in 1 .. Len(items) |-> found[i]]
  BY <1>1 DEF FindEach
<1>3. QED
  BY <1>1, <1>2, ListOfFunction

(* And so are those on each pair. *)
LEMMA FindPairsList ==
  ASSUME NEW pairs, IsList(pairs), NEW items, NEW rule, NEW kind
  PROVE  IsList(FindPairs(rule, kind, items, pairs))
<1> DEFINE found == FindPairs(rule, kind, items, pairs)
<1>1. Len(pairs) \in Nat /\ DOMAIN pairs = 1 .. Len(pairs)
  BY ListOfSeq DEF IsList
<1>2. DOMAIN found = 1 .. Len(pairs) /\ found = [i \in 1 .. Len(pairs) |-> found[i]]
  BY <1>1 DEF FindPairs
<1>3. QED
  BY <1>1, <1>2, ListOfFunction

(* The pairs of positions, all of them. *)
LEMMA PairsFacts ==
  ASSUME NEW items, IsList(items)
  PROVE  /\ IsList(PairsOf(items))
         /\ ToSet(PairsOf(items)) = {p \in (1 .. Len(items)) \X (1 .. Len(items)) : p[1] < p[2]}
         /\ IsInjective(PairsOf(items))
<1> DEFINE n == Len(items)
           after(i) == [d \in 1 .. n - i |-> <<i, i + d>>]
           seqs == [i \in 1 .. n |-> after(i)]
<1>1. n \in Nat /\ DOMAIN items = 1 .. n
  BY ListOfSeq DEF IsList
<1>2. PairsOf(items) = FlattenSeq(seqs)
  BY <1>1 DEF PairsOf
<1>3. IsList(seqs) /\ DOMAIN seqs = 1 .. n
  BY <1>1, ListOfFunction
<1>4. ASSUME NEW i \in 1 .. n
      PROVE  /\ IsList(after(i))
             /\ ToSet(after(i)) = {p \in (1 .. n) \X (1 .. n) : p[1] = i /\ p[1] < p[2]}
  <2>1. n - i \in Nat
    BY <1>1
  <2>2. IsList(after(i))
    BY <2>1, ListOfFunction
  <2>3. ToSet(after(i)) = {<<i, i + d>> : d \in 1 .. n - i}
    BY DEF ToSet
  <2>4. {<<i, i + d>> : d \in 1 .. n - i}
          = {p \in (1 .. n) \X (1 .. n) : p[1] = i /\ p[1] < p[2]}
    <3>1. \A d \in 1 .. n - i : i + d \in 1 .. n /\ i < i + d
      BY <1>1
    <3>2. ASSUME NEW p \in (1 .. n) \X (1 .. n), p[1] = i, p[1] < p[2]
          PROVE  p \in {<<i, i + d>> : d \in 1 .. n - i}
      <4>1. p[2] - i \in 1 .. n - i /\ i + (p[2] - i) = p[2] /\ p = <<p[1], p[2]>>
        BY <1>1, <3>2
      <4>2. QED
        BY <3>2, <4>1
    <3> HIDE DEF n
    <3>3. QED
      BY <3>1, <3>2
  <2>5. QED
    BY <2>2, <2>3, <2>4
<1>5. \A i \in 1 .. n : seqs[i] = after(i)
  OBVIOUS
<1>6. \A i \in 1 .. n : IsInjective(after(i))
  <2>1. SUFFICES ASSUME NEW i \in 1 .. n, NEW c \in 1 .. n - i, NEW d \in 1 .. n - i,
                        <<i, i + c>> = <<i, i + d>>
                 PROVE  c = d
    BY DEF IsInjective
  <2>2. i + c = i + d
    BY <2>1
  <2>3. QED
    BY <1>1, <2>2
<1> HIDE DEF seqs, after
<1>7. Apart(seqs)
  <2> HIDE DEF n
  <2>1. \A i \in 1 .. n : \A p \in ToSet(seqs[i]) : p[1] = i
    BY <1>4, <1>5
  <2>2. QED
    BY <1>3, <1>5, <1>6, <2>1 DEF Apart
<1>8. /\ IsList(FlattenSeq(seqs)) /\ IsInjective(FlattenSeq(seqs))
      /\ ToSet(FlattenSeq(seqs)) = UNION {ToSet(seqs[i]) : i \in 1 .. n}
  BY <1>3, <1>4, <1>5, <1>7, FlattenFacts
<1>9. UNION {ToSet(seqs[i]) : i \in 1 .. n} = {p \in (1 .. n) \X (1 .. n) : p[1] < p[2]}
  <2> HIDE DEF n
  <2>1. \A i \in 1 .. n : ToSet(seqs[i]) = {p \in (1 .. n) \X (1 .. n) : p[1] = i /\ p[1] < p[2]}
    BY <1>4, <1>5
  <2>2. \A p \in (1 .. n) \X (1 .. n) : p[1] \in 1 .. n
    OBVIOUS
  <2>3. QED
    BY <2>1, <2>2
<1>10. QED
  BY <1>2, <1>8, <1>9

(* Some of the pairs of a list. *)
LEMMA KeepsPairs ==
  ASSUME NEW items, IsList(items), NEW set, NEW rule, NEW kind
  PROVE  IsList(FindPairs(rule, kind, items, Keep(PairsOf(items), set)))
BY PairsFacts, KeepFacts, FindPairsList

(* Some of the items of a list. *)
LEMMA KeepsItems ==
  ASSUME NEW items, IsList(items), NEW set, NEW rule, NEW kind
  PROVE  IsList(FindEach(rule, kind, Keep(items, set)))
BY KeepFacts, FindEachList

(* Whatever the design, a rule finds a list, and so does a gate. *)
LEMMA EvaluateList ==
  ASSUME DesignLists, NEW gate \in Gates, NEW rule \in RulesBy(gate)
  PROVE  IsList(Evaluate(rule))
<1>1. /\ IsList(design["requirement"]) /\ IsList(design["constraint"]) /\ IsList(design["net"])
      /\ IsList(design["component"]) /\ IsList(design["line"]) /\ IsList(design["placement"])
      /\ IsList(design["track"])
  BY DEF DesignLists, DesignKinds
<1>2. IsList(<<>>) /\ \A f : IsList(<<f>>)
  BY OneItem, EmptyList
<1>3. /\ IsList(ConstraintConsistency) /\ IsList(ThermalJunction)
      /\ IsList(ErcPowerNetUndriven) /\ IsList(ErcMultipleDrivers)
      /\ IsList(BomCoverage) /\ IsList(BomLifecycle)
  BY <1>1, KeepsPairs, KeepsItems DEF ConstraintConsistency, ThermalJunction,
       ErcPowerNetUndriven, ErcMultipleDrivers, BomCoverage, BomLifecycle
<1>4. /\ IsList(DrcOutOfBounds) /\ IsList(DrcCourtyardOverlap) /\ IsList(DrcTraceWidth)
      /\ IsList(DrcUnroutedNet) /\ IsList(DrcNetOpen) /\ IsList(DrcCopperClearance)
  BY <1>1, <1>2, KeepsPairs, KeepsItems DEF DrcOutOfBounds, DrcCourtyardOverlap,
       DrcTraceWidth, DrcUnroutedNet, DrcNetOpen, DrcCopperClearance
<1>5. IsList(DfmEdgeClearance) /\ IsList(DfmTraceEdgeClearance) /\ IsList(EmcAntennaLength)
  BY <1>1, <1>2, KeepsItems DEF DfmEdgeClearance, DfmTraceEdgeClearance, EmcAntennaLength
<1>6. QED
  BY <1>2, <1>3, <1>4, <1>5, RulesFacts DEF Evaluate, Gates

(* The findings of all the rules of a gate are a list. *)
LEMMA FindingsList ==
  ASSUME DesignLists, NEW gate \in Gates
  PROVE  IsList(Findings(gate))
<1> DEFINE rules == RulesOf(gate)
           seqs == [i \in DOMAIN rules |-> Evaluate(rules[i])]
<1>1. IsList(rules)
  BY RulesFacts
<1>2. Len(rules) \in Nat /\ DOMAIN rules = 1 .. Len(rules) /\ \A i \in DOMAIN rules : rules[i] \in RulesBy(gate)
  BY <1>1, ListOfSeq DEF IsList, RulesBy
<1>3. IsList(seqs)
  BY <1>2, ListOfFunction
<1>4. \A i \in DOMAIN seqs : IsList(seqs[i])
  BY <1>2, EvaluateList
<1>5. IsList(FlattenSeq(seqs))
  BY <1>3, <1>4, FlattenFacts
<1>6. QED
  BY <1>5 DEF Findings

-----------------------------------------------------------------------------
(* What the phases send *)

(* A request for each item that is not made yet. *)
LEMMA MissingFacts ==
  ASSUME NEW items, IsList(items), NEW kind
  PROVE  /\ SendsOnly(CreateMissing(kind, items), {kind})
         /\ ToSet(CreateMissing(kind, items))
              = {[kind |-> kind, item |-> x] : x \in ToSet(items) \ Made(kind)}
<1> DEFINE set == ToSet(items) \ Made(kind)
           kept == Keep(items, set)
<1>1. IsList(kept) /\ ToSet(kept) = set
  BY KeepFacts
<1> HIDE DEF set, kept
<1>2. QED
  BY <1>1, CreateFacts DEF CreateMissing, set, kept

(* A net has finitely many pads. *)
LEMMA MembersFinite ==
  ASSUME DesignLists, NEW net
  PROVE  IsFiniteSet(MembersOf(net))
<1>1. IsFiniteSet(Made("placement"))
  BY ListFinite DEF DesignLists, DesignKinds, Made
<1>2. QED
  BY <1>1, FS_Subset DEF MembersOf

(* The tracks of a net are a list. *)
LEMMA ChainList ==
  ASSUME DesignLists, NEW net
  PROVE  IsList(ChainOf(net))
<1> DEFINE members == LeftToRight(MembersOf(net))
           n == Cardinality(MembersOf(net))
           chain == [k \in 1 .. n - 1 |-> Track(net, members[k], members[k + 1])]
<1>1. n \in Nat
  BY MembersFinite, FS_CardinalityType
<1>2. ChainOf(net) = IF n = 1 THEN <<Track(net, members[1], members[1])>> ELSE chain
  BY DEF ChainOf
<1> HIDE DEF members
<1>3. IsList(chain)
  <2>1. CASE n = 0
    <3>1. 1 .. n - 1 = 1 .. 0
      BY <2>1
    <3>2. DOMAIN chain = 1 .. 0 /\ chain = [k \in 1 .. 0 |-> chain[k]]
      BY <3>1
    <3> HIDE DEF chain
    <3>3. QED
      BY <3>2, ListOfFunction
  <2>2. CASE n > 0
    <3>1. n - 1 \in Nat
      BY <1>1, <2>2
    <3>2. DOMAIN chain = 1 .. n - 1 /\ chain = [k \in 1 .. n - 1 |-> chain[k]]
      OBVIOUS
    <3> HIDE DEF chain
    <3>3. QED
      BY <3>1, <3>2, ListOfFunction
  <2>3. QED
    BY <1>1, <2>1, <2>2
<1> HIDE DEF chain, n
<1>4. QED
  BY <1>2, <1>3, OneItem

(* The places of the components that have no placement. *)
LEMMA UnplacedList ==
  ASSUME DesignLists
  PROVE  /\ IsList(Unplaced) /\ IsInjective(Unplaced)
         /\ ToSet(Unplaced) = {i \in DOMAIN design["component"] :
              \A p \in Made("placement") : p.component /= design["component"][i]}
<1> DEFINE comps == design["component"]
           places == [i \in DOMAIN comps |-> i]
           free == {i \in DOMAIN comps : \A p \in Made("placement") : p.component /= comps[i]}
<1>1. IsList(comps)
  BY DEF DesignLists, DesignKinds
<1>2. Len(comps) \in Nat /\ DOMAIN comps = 1 .. Len(comps)
  BY <1>1, ListOfSeq DEF IsList
<1>3. IsList(places)
  BY <1>2, ListOfFunction
<1>4. ToSet(places) = DOMAIN comps /\ IsInjective(places)
  BY DEF ToSet, IsInjective
<1>5. Unplaced = Keep(places, free)
  BY DEF Unplaced
<1> HIDE DEF places, free
<1>6. QED
  BY <1>3, <1>4, <1>5, KeepFacts DEF free

(* The classes of the components are a list, none of them twice. *)
LEMMA ClassesList ==
  ASSUME DesignLists
  PROVE  IsList(ClassesInOrder) /\ IsInjective(ClassesInOrder)
<1> DEFINE comps == design["component"]
           places == [i \in DOMAIN comps |-> i]
           first == {i \in DOMAIN comps : \A j \in 1 .. i - 1 : ClassOf(comps[j]) /= ClassOf(comps[i])}
           firsts == Keep(places, first)
<1>1. IsList(comps)
  BY DEF DesignLists, DesignKinds
<1>2. Len(comps) \in Nat /\ DOMAIN comps = 1 .. Len(comps)
  BY <1>1, ListOfSeq DEF IsList
<1>3. IsList(places) /\ IsInjective(places)
  BY <1>2, ListOfFunction DEF IsInjective
<1>4. IsList(firsts) /\ IsInjective(firsts) /\ ToSet(firsts) \subseteq first
  <2> HIDE DEF places, first
  <2>1. QED
    BY <1>3, KeepFacts
<1>5. Len(firsts) \in Nat /\ DOMAIN firsts = 1 .. Len(firsts) /\ \A k \in DOMAIN firsts : firsts[k] \in first
  <2> HIDE DEF firsts, first
  <2>1. QED
    BY <1>4, ListOfSeq DEF IsList
<1>6. ClassesInOrder = [k \in DOMAIN firsts |-> ClassOf(comps[firsts[k]])]
  BY DEF ClassesInOrder
<1>7. \A i, j \in first : ClassOf(comps[i]) = ClassOf(comps[j]) => i = j
  <2>1. SUFFICES ASSUME NEW i \in first, NEW j \in first, ClassOf(comps[i]) = ClassOf(comps[j]), i /= j
                 PROVE  FALSE
    OBVIOUS
  <2>2. i \in 1 .. Len(comps) /\ j \in 1 .. Len(comps)
    BY <1>2
  <2>3. i \in 1 .. j - 1 \/ j \in 1 .. i - 1
    BY <1>2, <2>1, <2>2
  <2>4. QED
    BY <2>1, <2>3
<1> HIDE DEF firsts, first
<1>8. IsList(ClassesInOrder)
  BY <1>5, <1>6, ListOfFunction
<1>9. IsInjective(ClassesInOrder)
  BY <1>4, <1>5, <1>6, <1>7 DEF IsInjective
<1>10. QED
  BY <1>8, <1>9

(* Each planning phase makes items of its own kinds only. *)
LEMMA PlanningSends ==
  ASSUME DesignLists
  PROVE  /\ SendsOnly(Analyzing, {"block"})
         /\ SendsOnly(Extracting, {"constraint"})
         /\ SendsOnly(SchematicPlan, {"component", "net"})
         /\ SendsOnly(BomPlan, {"part", "line"})
         /\ SendsOnly(FloorPlan, {"board"})
         /\ SendsOnly(Placing, {"placement"})
         /\ SendsOnly(Routing, {"track"})
<1>1. /\ IsList(design["requirement"]) /\ IsList(design["block"]) /\ IsList(design["net"])
      /\ IsList(design["component"])
  BY DEF DesignLists, DesignKinds
<1>2. SendsOnly(Analyzing, {"block"})
  BY <1>1, MissingFacts DEF Analyzing
<1>3. SendsOnly(Extracting, {"constraint"})
  BY <1>1, KeepFacts, MissingFacts DEF Extracting
<1>4. SendsOnly(SchematicPlan, {"component", "net"})
  <2> DEFINE nets == Keep(NetNames, {net \in ToSet(NetNames) : PadsOf(net, Made("block")) /= {}})
  <2>1. IsList(NetNames)
    BY DEF NetNames, IsList, ToSet
  <2>2. IsList(nets)
    BY <2>1, KeepFacts
  <2>3. SendsOnly(Create("component", design["block"]), {"component", "net"})
    <3>1. SendsOnly(Create("component", design["block"]), {"component"})
      BY <1>1, CreateFacts
    <3>2. QED
      BY <3>1, SendsMore
  <2>4. SendsOnly(Create("net", nets), {"component", "net"})
    <3> HIDE DEF nets
    <3>1. SendsOnly(Create("net", nets), {"net"})
      BY <2>2, CreateFacts
    <3>2. QED
      BY <3>1, SendsMore
  <2>5. SendsOnly(<<>>, {"component", "net"})
    BY SendsNothing
  <2> HIDE DEF nets
  <2>6. SendsOnly(Create("component", design["block"]) \o Create("net", nets), {"component", "net"})
    BY <2>3, <2>4, SendsBoth
  <2>7. QED
    BY <2>5, <2>6 DEF SchematicPlan, nets
<1>5. SendsOnly(BomPlan, {"part", "line"})
  <2> DEFINE classes == ClassesInOrder
             ordering(k) == CreateMissing("part", <<classes[k]>>) \o Create("line", <<classes[k]>>)
             seqs == [k \in DOMAIN classes |-> ordering(k)]
  <2>1. Len(classes) \in Nat /\ DOMAIN classes = 1 .. Len(classes)
    BY ClassesList, ListOfSeq DEF IsList
  <2>2. IsList(seqs)
    BY <2>1, ListOfFunction
  <2>3. \A k \in DOMAIN seqs : SendsOnly(seqs[k], {"part", "line"})
    <3>1. SUFFICES ASSUME NEW k \in DOMAIN seqs PROVE SendsOnly(ordering(k), {"part", "line"})
      OBVIOUS
    <3>2. /\ SendsOnly(CreateMissing("part", <<classes[k]>>), {"part"})
          /\ SendsOnly(Create("line", <<classes[k]>>), {"line"})
      BY OneItem, MissingFacts, CreateFacts
    <3>3. /\ SendsOnly(CreateMissing("part", <<classes[k]>>), {"part", "line"})
          /\ SendsOnly(Create("line", <<classes[k]>>), {"part", "line"})
      BY <3>2, SendsMore
    <3>4. QED
      BY <3>3, SendsBoth
  <2>4. SendsOnly(FlattenSeq(seqs), {"part", "line"})
    <3> HIDE DEF seqs
    <3>1. QED
      BY <2>2, <2>3, SendsAll
  <2>5. QED
    BY <2>4, SendsNothing DEF BomPlan
<1>6. SendsOnly(FloorPlan, {"board"})
  BY OneItem, CreateFacts, SendsNothing DEF FloorPlan
<1>7. SendsOnly(Placing, {"placement"})
  <2> DEFINE placed == [k \in DOMAIN Unplaced |->
                          PlacementAt(Unplaced[k], design["component"][Unplaced[k]])]
  <2>1. Len(Unplaced) \in Nat /\ DOMAIN Unplaced = 1 .. Len(Unplaced)
    BY UnplacedList, ListOfSeq DEF IsList
  <2>2. IsList(placed)
    BY <2>1, ListOfFunction
  <2> HIDE DEF placed
  <2>3. SendsOnly(Create("placement", placed), {"placement"})
    BY <2>2, CreateFacts
  <2>4. QED
    BY <2>3, SendsNothing DEF Placing, OnBoard, placed
<1>8. SendsOnly(Routing, {"track"})
  <2> DEFINE unrouted == Keep(design["net"], {net \in Made("net") : TracksOf(net) = <<>>})
             seqs == [k \in DOMAIN unrouted |-> Create("track", ChainOf(unrouted[k]))]
  <2>1. IsList(unrouted)
    BY <1>1, KeepFacts
  <2>2. Len(unrouted) \in Nat /\ DOMAIN unrouted = 1 .. Len(unrouted)
    <3> HIDE DEF unrouted
    <3>1. QED
      BY <2>1, ListOfSeq DEF IsList
  <2>3. Routing = OnBoard(FlattenSeq(seqs))
    BY DEF Routing
  <2> HIDE DEF unrouted
  <2>4. IsList(seqs)
    BY <2>2, ListOfFunction
  <2>5. \A k \in DOMAIN seqs : SendsOnly(seqs[k], {"track"})
    BY ChainList, CreateFacts
  <2> HIDE DEF seqs
  <2>6. SendsOnly(FlattenSeq(seqs), {"track"})
    BY <2>4, <2>5, SendsAll
  <2>7. QED
    BY <2>3, <2>6, SendsNothing DEF OnBoard
<1>9. QED
  BY <1>2, <1>3, <1>4, <1>5, <1>6, <1>7, <1>8

(* A gate raises all that it finds and that is not on record. *)
LEMMA RaisingFacts ==
  ASSUME DesignLists, NEW gate \in Gates
  PROVE  /\ SendsOnly(Raising(gate), {"violation"})
         /\ ToSet(Raising(gate)) = {[kind |-> "violation", item |-> f] :
                                      f \in ToSet(Findings(gate)) \ Made("violation")}
BY FindingsList, MissingFacts DEF Raising

-----------------------------------------------------------------------------
(* The row of placements and the order of a net's pads *)

(* Placements whose centres are not above one another have an order from left to  *)
(* right: how many of the others are to the left of each tells its place.          *)
LEMMA LeftToRightFacts ==
  ASSUME NEW places, IsFiniteSet(places),
         \A p \in places : Centre(p).x \in Int,
         \A p, q \in places : Centre(p).x = Centre(q).x => p = q
  PROVE  /\ LeftToRight(places) \in [1 .. Cardinality(places) -> places]
         /\ IsInjective(LeftToRight(places))
         /\ \A p \in places : \E k \in 1 .. Cardinality(places) : LeftToRight(places)[k] = p
<1> DEFINE n == Cardinality(places)
           x(p) == Centre(p).x
           left(p) == {q \in places : x(q) < x(p)}
           rank == [p \in places |-> Cardinality(left(p)) + 1]
           at == [k \in 1 .. n |-> CHOOSE p \in places : rank[p] = k]
           Sorts(s) == /\ IsInjective(s)
                       /\ \A j, k \in DOMAIN s : j < k => Centre(s[j]).x <= Centre(s[k]).x
<1>1. n \in Nat /\ IsFiniteSet(1 .. n) /\ Cardinality(1 .. n) = n
  <2>1. n \in Nat
    BY FS_CardinalityType
  <2>2. QED
    BY <2>1, FS_Interval
<1>2. ASSUME NEW p \in places
      PROVE  IsFiniteSet(left(p)) /\ Cardinality(left(p)) \in Nat /\ Cardinality(left(p)) < n
  <2>1. IsFiniteSet(left(p)) /\ Cardinality(left(p)) <= n /\ (n = Cardinality(left(p)) => places = left(p))
    BY FS_Subset
  <2>2. p \notin left(p)
    OBVIOUS
  <2>3. Cardinality(left(p)) \in Nat
    BY <2>1, FS_CardinalityType
  <2> HIDE DEF left, n
  <2>4. QED
    BY <1>1, <2>1, <2>2, <2>3
<1>3. ASSUME NEW p \in places, NEW q \in places, x(p) < x(q)
      PROVE  rank[p] < rank[q]
  <2>1. left(p) \subseteq left(q) /\ p \in left(q) /\ p \notin left(p)
    BY <1>3
  <2>2. /\ Cardinality(left(p)) <= Cardinality(left(q))
        /\ Cardinality(left(p)) /= Cardinality(left(q))
    <3>1. left(p) \in SUBSET left(q) /\ left(p) /= left(q) /\ IsFiniteSet(left(q))
      BY <1>2, <2>1
    <3> HIDE DEF left
    <3>2. QED
      BY <3>1, FS_Subset
  <2>3. Cardinality(left(p)) \in Nat /\ Cardinality(left(q)) \in Nat
    BY <1>2
  <2> HIDE DEF left
  <2>4. QED
    BY <2>2, <2>3
<1>4. rank \in [places -> 1 .. n] /\ IsInjective(rank)
  <2>1. \A p \in places : Cardinality(left(p)) + 1 \in 1 .. n
    <3>1. \A p \in places : Cardinality(left(p)) \in Nat /\ Cardinality(left(p)) < n
      BY <1>2
    <3> HIDE DEF left, n
    <3>2. QED
      BY <1>1, <3>1
  <2>2. rank \in [places -> 1 .. n]
    <3> HIDE DEF left, n
    <3>1. QED
      BY <2>1
  <2>3. \A p, q \in places : rank[p] = rank[q] => p = q
    <3>1. SUFFICES ASSUME NEW p \in places, NEW q \in places, rank[p] = rank[q]
                   PROVE  p = q
      OBVIOUS
    <3>2. rank[p] \in Int /\ rank[q] \in Int
      BY <2>2
    <3>3. ~(x(p) < x(q)) /\ ~(x(q) < x(p))
      <4> HIDE DEF rank, x
      <4>1. QED
        BY <1>3, <3>1, <3>2
    <3>4. QED
      BY <3>3
  <2>4. QED
    BY <2>2, <2>3 DEF IsInjective
<1>5. \A k \in 1 .. n : \E p \in places : rank[p] = k
  <2> HIDE DEF rank, n
  <2>1. rank \in Injection(places, 1 .. n)
    BY <1>4 DEF Injection, IsInjective
  <2>2. rank \in Surjection(places, 1 .. n)
    BY <1>1, <2>1, FS_Injection DEF n
  <2>3. QED
    BY <2>2 DEF Surjection
<1>6. at \in [1 .. n -> places] /\ \A k \in 1 .. n : rank[at[k]] = k
  <2>1. \A k \in 1 .. n : at[k] \in places /\ rank[at[k]] = k
    <3> HIDE DEF rank, n
    <3>1. QED
      BY <1>5
  <2> HIDE DEF rank, n
  <2>2. QED
    BY <2>1
<1> HIDE DEF at
<1>7. Sorts(at)
  <2>1. IsInjective(at)
    <3> HIDE DEF rank
    <3>1. QED
      BY <1>6 DEF IsInjective
  <2>2. ASSUME NEW j \in 1 .. n, NEW k \in 1 .. n, j < k PROVE Centre(at[j]).x <= Centre(at[k]).x
    <3>1. at[j] \in places /\ at[k] \in places /\ rank[at[j]] = j /\ rank[at[k]] = k
      BY <1>6
    <3>2. j \in Int /\ k \in Int
      BY <1>1
    <3>3. ~(x(at[k]) < x(at[j]))
      <4> HIDE DEF rank, x
      <4>1. QED
        BY <1>3, <2>2, <3>1, <3>2
    <3>4. x(at[j]) \in Int /\ x(at[k]) \in Int
      BY <3>1
    <3>5. QED
      BY <3>3, <3>4
  <2>3. DOMAIN at = 1 .. n
    BY <1>6
  <2>4. QED
    BY <2>1, <2>2, <2>3
<1> DEFINE s == LeftToRight(places)
<1>8. s \in [1 .. n -> places] /\ Sorts(s)
  BY <1>6, <1>7 DEF LeftToRight
<1> HIDE DEF s
<1>9. \A p \in places : \E k \in 1 .. n : s[k] = p
  <2> HIDE DEF n
  <2>1. s \in Injection(1 .. n, places)
    BY <1>8 DEF Injection, IsInjective
  <2>2. s \in Surjection(1 .. n, places)
    BY <1>1, <2>1, FS_Injection DEF n
  <2>3. QED
    BY <2>2 DEF Surjection
<1>10. QED
  BY <1>8, <1>9 DEF s

-----------------------------------------------------------------------------
(* Lists of which nothing is kept *)

(* Nothing is kept of a list if none of it is in the set. *)
LEMMA KeepNothing ==
  ASSUME NEW items, IsList(items), NEW set, ToSet(items) \cap set = {}
  PROVE  Keep(items, set) = <<>>
<1>1. Keep(items, set) \in Seq({})
  BY KeepFacts DEF IsList
<1>2. QED
  BY <1>1

(* And what is in the set is kept. *)
LEMMA KeptNothing ==
  ASSUME NEW items, IsList(items), NEW set, Keep(items, set) = <<>>
  PROVE  ToSet(items) \cap set = {}
<1>1. ToSet(Keep(items, set)) = ToSet(items) \cap set
  BY KeepFacts
<1>2. QED
  BY <1>1, EmptyList

(* A net without tracks. *)
LEMMA NoTracks ==
  ASSUME NEW net, design["track"] = <<>>
  PROVE  TracksOf(net) = <<>>
<1>1. IsList(design["track"]) /\ ToSet(design["track"]) = {}
  BY EmptyList
<1>2. \A set : Keep(design["track"], set) = <<>>
  BY <1>1, KeepNothing
<1>3. QED
  BY <1>2 DEF TracksOf

-----------------------------------------------------------------------------
(* No phase makes anything twice *)

(* What is committed of fresh requests: no item twice. *)
LEMMA FreshCommits ==
  ASSUME DesignLists, Once, NEW requests, NEW kinds \in SUBSET DesignKinds,
         SendsOnly(requests, kinds), Fresh(requests), design' = Committed(requests)
  PROVE  Once'
<1>1. \A kind \in DesignKinds : IsInjective(Committed(requests)[kind])
  BY CommittedFacts
<1>2. QED
  BY <1>1 DEF Once, IsInjective

(* No request. *)
LEMMA FreshNothing == Fresh(<<>>)
BY EmptyList DEF Fresh, IsInjective

(* The first of the requests. *)
LEMMA FreshPrefix ==
  ASSUME NEW requests, IsList(requests), Fresh(requests), NEW k \in 0 .. Len(requests)
  PROVE  Fresh(SubSeq(requests, 1, k))
BY ListPrefix DEF Fresh

(* A request for each of some items that are not made. *)
LEMMA FreshCreate ==
  ASSUME NEW items, IsList(items), IsInjective(items), NEW kind,
         ToSet(items) \cap Made(kind) = {}
  PROVE  Fresh(Create(kind, items))
<1>1. \A i \in DOMAIN items : Create(kind, items)[i] = [kind |-> kind, item |-> items[i]]
  BY DEF Create
<1>2. DOMAIN Create(kind, items) = DOMAIN items
  BY DEF Create
<1>3. IsInjective(Create(kind, items))
  <2>1. SUFFICES ASSUME NEW i \in DOMAIN items, NEW j \in DOMAIN items,
                        Create(kind, items)[i] = Create(kind, items)[j]
                 PROVE  i = j
    BY <1>2 DEF IsInjective
  <2>2. [kind |-> kind, item |-> items[i]] = [kind |-> kind, item |-> items[j]]
    BY <1>1, <2>1
  <2>3. items[i] = items[j]
    <3>1. \A x : [kind |-> kind, item |-> x].item = x
      OBVIOUS
    <3>2. QED
      BY <2>2, <3>1
  <2>4. QED
    BY <2>3 DEF IsInjective
<1>4. ToSet(Create(kind, items)) = {[kind |-> kind, item |-> x] : x \in ToSet(items)}
  BY CreateFacts
<1>5. QED
  BY <1>3, <1>4 DEF Fresh

(* A request for each of some items that is not made yet. *)
LEMMA FreshMissing ==
  ASSUME NEW items, IsList(items), IsInjective(items), NEW kind
  PROVE  Fresh(CreateMissing(kind, items))
<1> DEFINE set == ToSet(items) \ Made(kind)
           kept == Keep(items, set)
<1>1. IsList(kept) /\ ToSet(kept) = set /\ IsInjective(kept)
  BY KeepFacts
<1> HIDE DEF kept
<1>2. Fresh(Create(kind, kept))
  BY <1>1, FreshCreate
<1>3. QED
  BY <1>2 DEF CreateMissing, kept

(* Requests for two kinds of items. *)
LEMMA FreshBoth ==
  ASSUME NEW s, NEW t, NEW kind, NEW other, kind /= other,
         SendsOnly(s, {kind}), SendsOnly(t, {other}), Fresh(s), Fresh(t)
  PROVE  Fresh(s \o t)
<1>1. ToSet(s) \cap ToSet(t) = {}
  BY DEF SendsOnly
<1>2. IsInjective(s \o t) /\ ToSet(s \o t) = ToSet(s) \cup ToSet(t)
  BY <1>1, InjectiveConcat, ListConcat DEF SendsOnly, Fresh
<1>3. QED
  BY <1>2 DEF Fresh

(* Many lists of requests, each for something of its own. *)
LEMMA FreshAll ==
  ASSUME NEW seqs, IsList(seqs), \A i \in DOMAIN seqs : IsList(seqs[i]) /\ Fresh(seqs[i]),
         \A i, j \in DOMAIN seqs : i /= j => ToSet(seqs[i]) \cap ToSet(seqs[j]) = {}
  PROVE  Fresh(FlattenSeq(seqs))
<1>1. Apart(seqs)
  BY DEF Apart, Fresh
<1>2. /\ IsInjective(FlattenSeq(seqs))
      /\ ToSet(FlattenSeq(seqs)) = UNION {ToSet(seqs[i]) : i \in DOMAIN seqs}
  BY <1>1, FlattenFacts
<1>3. QED
  BY <1>2 DEF Fresh

(* A list of one item. *)
LEMMA OnceOne == \A a : IsInjective(<<a>>)
BY DEF IsInjective

-----------------------------------------------------------------------------
(* The row of components *)

\* Where a component stands in the row.
InARow ==
  \A p \in Made("placement") :
    \E i \in DOMAIN design["component"] : p = PlacementAt(i, design["component"][i])

(* Two places of the row are more than a courtyard apart. *)
LEMMA PlacesApart ==
  ASSUME NEW i \in Nat \ {0}, NEW j \in Nat \ {0}, NEW c, NEW d
  PROVE  /\ PlacementAt(i, c).x \in Nat /\ PlacementAt(i, c).x >= 8
         /\ PlacementAt(i, c).y = 8 /\ PlacementAt(i, c).edge \in {24, 36}
         /\ PlacementAt(i, c).component = c
         /\ Centre(PlacementAt(i, c)).x \in Nat
         /\ i < j => /\ Centre(PlacementAt(i, c)).x < Centre(PlacementAt(j, d)).x
                     /\ PlacementAt(i, c).x + PlacementAt(i, c).edge < PlacementAt(j, d).x
<1> DEFINE p == PlacementAt(i, c)
           q == PlacementAt(j, d)
<1>1. /\ p.x = 8 + (i - 1) * 48 /\ p.y = 8 /\ p.edge \in {24, 36} /\ p.component = c
      /\ q.x = 8 + (j - 1) * 48 /\ q.y = 8 /\ q.edge \in {24, 36}
  BY DEF PlacementAt, Margin, Pitch, Courtyard
<1>2. Centre(p).x = p.x + p.edge \div 2 /\ Centre(q).x = q.x + q.edge \div 2
  BY DEF Centre
<1> HIDE DEF p, q
<1>3. 24 \div 2 = 12 /\ 36 \div 2 = 18
  OBVIOUS
<1>4. p.edge \div 2 \in {12, 18} /\ q.edge \div 2 \in {12, 18}
  BY <1>1, <1>3
<1>5. p.x \in Nat /\ p.x >= 8 /\ q.x \in Nat
  BY <1>1
<1>6. Centre(p).x \in Nat
  BY <1>2, <1>4, <1>5
<1>7. i < j => p.x + 48 <= q.x
  BY <1>1
<1>8. i < j => Centre(p).x < Centre(q).x /\ p.x + p.edge < q.x
  BY <1>1, <1>2, <1>4, <1>5, <1>7
<1>9. QED
  BY <1>1, <1>5, <1>6, <1>8 DEF p, q

(* No two placements are at one place, of one component, or above one another. *)
LEMMA RowFacts ==
  ASSUME DesignLists, Once, InARow
  PROVE  /\ \A p \in Made("placement") :
              /\ p.x \in Nat /\ p.x >= 8 /\ p.y = 8 /\ p.edge \in {24, 36}
              /\ Centre(p).x \in Nat
         /\ \A p, q \in Made("placement") :
              /\ Centre(p).x = Centre(q).x => p = q
              /\ p.component = q.component => p = q
              /\ p = q \/ p.x + p.edge < q.x \/ q.x + q.edge < p.x
<1> DEFINE comps == design["component"]
<1>1. IsList(comps) /\ IsInjective(comps)
  BY DEF DesignLists, Once, DesignKinds
<1>2. DOMAIN comps \subseteq Nat \ {0}
  <2>1. DOMAIN comps = 1 .. Len(comps) /\ Len(comps) \in Nat
    BY <1>1, ListOfSeq DEF IsList
  <2>2. QED
    BY <2>1
<1>3. \A p \in Made("placement") : \E i \in DOMAIN comps : p = PlacementAt(i, comps[i])
  BY DEF InARow
<1> HIDE DEF comps
<1>4. ASSUME NEW p \in Made("placement")
      PROVE  /\ p.x \in Nat /\ p.x >= 8 /\ p.y = 8 /\ p.edge \in {24, 36}
             /\ Centre(p).x \in Nat
  BY <1>2, <1>3, PlacesApart
<1>5. ASSUME NEW p \in Made("placement"), NEW q \in Made("placement")
      PROVE  /\ Centre(p).x = Centre(q).x => p = q
             /\ p.component = q.component => p = q
             /\ p = q \/ p.x + p.edge < q.x \/ q.x + q.edge < p.x
  <2>1. PICK i \in DOMAIN comps : p = PlacementAt(i, comps[i])
    BY <1>3
  <2>2. PICK j \in DOMAIN comps : q = PlacementAt(j, comps[j])
    BY <1>3
  <2>3. i \in Nat \ {0} /\ j \in Nat \ {0}
    BY <1>2
  <2>4. i < j \/ j < i \/ i = j
    BY <2>3
  <2>5. p.component = comps[i] /\ q.component = comps[j]
    BY <2>1, <2>2, <2>3, PlacesApart
  <2>6. p.component = q.component => i = j
    BY <1>1, <2>5 DEF IsInjective
  <2>7. /\ i < j => Centre(p).x < Centre(q).x /\ p.x + p.edge < q.x
        /\ j < i => Centre(q).x < Centre(p).x /\ q.x + q.edge < p.x
    BY <2>1, <2>2, <2>3, PlacesApart
  <2>8. i = j => p = q
    BY <2>1, <2>2
  <2>9. Centre(p).x \in Nat /\ Centre(q).x \in Nat
    BY <1>4
  <2>10. Centre(p).x = Centre(q).x => i = j
    BY <2>4, <2>7, <2>9
  <2>11. QED
    BY <2>4, <2>6, <2>7, <2>8, <2>10
<1>6. QED
  BY <1>4, <1>5

(* A net is routed by tracks of its own, between its pads, none of them twice. *)
LEMMA ChainFacts ==
  ASSUME DesignLists, Once, InARow, NEW net
  PROVE  /\ IsList(ChainOf(net)) /\ IsInjective(ChainOf(net))
         /\ \A t \in ToSet(ChainOf(net)) :
              \E p, q \in MembersOf(net) : t = Track(net, p, q)
<1> DEFINE places == MembersOf(net)
           members == LeftToRight(places)
           n == Cardinality(places)
           chain == [k \in 1 .. n - 1 |-> Track(net, members[k], members[k + 1])]
<1>1. IsFiniteSet(places) /\ n \in Nat
  BY MembersFinite, FS_CardinalityType
<1>2. places \subseteq Made("placement")
  BY DEF MembersOf
<1>3. /\ \A p \in places : Centre(p).x \in Int
      /\ \A p, q \in places : Centre(p).x = Centre(q).x => p = q
  <2> HIDE DEF places
  <2>1. QED
    BY <1>2, RowFacts
<1>4. members \in [1 .. n -> places] /\ IsInjective(members)
  <2> HIDE DEF places
  <2>1. QED
    BY <1>1, <1>3, LeftToRightFacts
<1>5. IsList(ChainOf(net))
  BY ChainList
<1>6. ChainOf(net) = IF n = 1 THEN <<Track(net, members[1], members[1])>> ELSE chain
  BY DEF ChainOf
<1> HIDE DEF places, members, n
<1>7. \A k \in 1 .. n - 1 : k \in 1 .. n /\ k + 1 \in 1 .. n
  BY <1>1
<1>8. IsInjective(ChainOf(net))
  <2>1. IsInjective(chain)
    <3>1. SUFFICES ASSUME NEW j \in 1 .. n - 1, NEW k \in 1 .. n - 1,
                          Track(net, members[j], members[j + 1])
                            = Track(net, members[k], members[k + 1])
                   PROVE  j = k
      BY DEF IsInjective
    <3>2. Centre(members[j]) = Centre(members[k])
      BY <3>1 DEF Track
    <3>3. members[j] = members[k]
      BY <1>3, <1>4, <1>7, <3>2
    <3>4. QED
      BY <1>4, <1>7, <3>3 DEF IsInjective
  <2> HIDE DEF chain
  <2>2. QED
    BY <1>6, <2>1, OnceOne
<1>9. ASSUME NEW t \in ToSet(ChainOf(net))
      PROVE  \E p, q \in places : t = Track(net, p, q)
  <2>1. CASE n = 1
    <3>1. members[1] \in places
      BY <1>4, <2>1
    <3>2. t = Track(net, members[1], members[1])
      <4>1. ToSet(ChainOf(net)) = {Track(net, members[1], members[1])}
        BY <1>6, <2>1, OneItem
      <4>2. QED
        BY <4>1
    <3>3. QED
      BY <3>1, <3>2
  <2>2. CASE n /= 1
    <3>1. PICK k \in 1 .. n - 1 : t = Track(net, members[k], members[k + 1])
      BY <1>6, <2>2 DEF ToSet
    <3>2. QED
      BY <1>4, <1>7, <3>1
  <2>3. QED
    BY <2>1, <2>2
<1>10. QED
  BY <1>5, <1>8, <1>9 DEF places

\* The nets are made after the components.
NetsAfter == design["component"] = <<>> => design["net"] = <<>>

(* No planning phase asks for what is made already, or for anything twice. *)
LEMMA PlanningFresh ==
  ASSUME DesignLists, Once, InARow, NetsAfter
  PROVE  /\ Fresh(Analyzing) /\ Fresh(Extracting) /\ Fresh(SchematicPlan) /\ Fresh(BomPlan)
         /\ Fresh(FloorPlan) /\ Fresh(Placing) /\ Fresh(Routing)
<1>1. /\ \A kind \in DesignKinds : IsList(design[kind]) /\ IsInjective(design[kind])
      /\ {"requirement", "block", "component", "net", "placement", "track", "line", "part", "board"}
            \subseteq DesignKinds
  BY DEF DesignLists, Once, DesignKinds
<1>2. Fresh(Analyzing)
  BY <1>1, FreshMissing DEF Analyzing
<1>3. Fresh(Extracting)
  <2> DEFINE kept == Keep(design["requirement"],
                       {r \in Made("requirement") : candidates[r].targets /= <<>>})
  <2>1. IsList(kept) /\ IsInjective(kept)
    BY <1>1, KeepFacts
  <2> HIDE DEF kept
  <2>2. Fresh(CreateMissing("constraint", kept))
    BY <2>1, FreshMissing
  <2>3. QED
    BY <2>2 DEF Extracting, kept
<1>4. Fresh(SchematicPlan)
  <2> DEFINE nets == Keep(NetNames, {net \in ToSet(NetNames) : PadsOf(net, Made("block")) /= {}})
  <2>1. IsList(NetNames) /\ IsInjective(NetNames)
    BY DEF NetNames, IsList, ToSet, IsInjective
  <2>2. IsList(nets) /\ IsInjective(nets)
    BY <2>1, KeepFacts
  <2>3. CASE design["component"] /= <<>>
    BY <2>3, FreshNothing DEF SchematicPlan
  <2>4. CASE design["component"] = <<>>
    <3> HIDE DEF nets
    <3>1. Made("component") = {} /\ Made("net") = {}
      BY <2>4, EmptyList DEF NetsAfter, Made
    <3>2. Fresh(Create("component", design["block"])) /\ Fresh(Create("net", nets))
      BY <1>1, <2>2, <3>1, FreshCreate
    <3>3. SendsOnly(Create("component", design["block"]), {"component"}) /\ SendsOnly(Create("net", nets), {"net"})
      BY <1>1, <2>2, CreateFacts
    <3>4. Fresh(Create("component", design["block"]) \o Create("net", nets))
      BY <3>2, <3>3, FreshBoth
    <3>5. QED
      BY <2>4, <3>4 DEF SchematicPlan, nets
  <2>5. QED
    BY <2>3, <2>4
<1>5. Fresh(BomPlan)
  <2> DEFINE classes == ClassesInOrder
             parts(k) == CreateMissing("part", <<classes[k]>>)
             lines(k) == Create("line", <<classes[k]>>)
             seqs == [k \in DOMAIN classes |-> parts(k) \o lines(k)]
  <2>1. IsList(classes) /\ IsInjective(classes)
    BY ClassesList
  <2>2. Len(classes) \in Nat /\ DOMAIN classes = 1 .. Len(classes)
    BY <2>1, ListOfSeq DEF IsList
  <2>3. CASE design["line"] = <<>>
    <3>1. ASSUME NEW k \in DOMAIN classes
          PROVE  /\ IsList(seqs[k]) /\ Fresh(seqs[k])
                 /\ \A r \in ToSet(seqs[k]) : r.item = classes[k]
      <4>1. /\ IsList(<<classes[k]>>) /\ IsInjective(<<classes[k]>>)
            /\ ToSet(<<classes[k]>>) = {classes[k]}
        BY OneItem, OnceOne
      <4>2. Made("line") = {}
        BY <2>3, EmptyList DEF Made
      <4>3. /\ SendsOnly(parts(k), {"part"})
            /\ ToSet(parts(k)) \subseteq {[kind |-> "part", item |-> classes[k]]}
        <5>1. ToSet(parts(k)) = {[kind |-> "part", item |-> x] : x \in {classes[k]} \ Made("part")}
          BY <4>1, MissingFacts
        <5>2. QED
          BY <4>1, <5>1, MissingFacts
      <4>4. /\ SendsOnly(lines(k), {"line"})
            /\ ToSet(lines(k)) = {[kind |-> "line", item |-> x] : x \in {classes[k]}}
        BY <4>1, CreateFacts
      <4>5. Fresh(parts(k)) /\ Fresh(lines(k))
        BY <4>1, <4>2, FreshMissing, FreshCreate
      <4> HIDE DEF parts, lines
      <4>6. Fresh(parts(k) \o lines(k))
        BY <4>3, <4>4, <4>5, FreshBoth
      <4>7. IsList(parts(k) \o lines(k)) /\ ToSet(parts(k) \o lines(k)) = ToSet(parts(k)) \cup ToSet(lines(k))
        BY <4>3, <4>4, ListConcat DEF SendsOnly
      <4>8. \A r \in ToSet(parts(k) \o lines(k)) : r.item = classes[k]
        BY <4>3, <4>4, <4>7
      <4>9. QED
        BY <4>6, <4>7, <4>8
    <3>2. IsList(seqs) /\ DOMAIN seqs = DOMAIN classes
      BY <2>2, ListOfFunction
    <3> HIDE DEF seqs
    <3>3. \A i, j \in DOMAIN seqs : i /= j => ToSet(seqs[i]) \cap ToSet(seqs[j]) = {}
      <4>1. SUFFICES ASSUME NEW i \in DOMAIN classes, NEW j \in DOMAIN classes, i /= j
                     PROVE  ToSet(seqs[i]) \cap ToSet(seqs[j]) = {}
        BY <3>2
      <4>2. classes[i] /= classes[j]
        BY <2>1, <4>1 DEF IsInjective
      <4>3. QED
        BY <3>1, <4>2
    <3>4. Fresh(FlattenSeq(seqs))
      BY <3>1, <3>2, <3>3, FreshAll
    <3>5. QED
      BY <2>3, <3>4 DEF BomPlan, seqs
  <2>4. QED
    BY <2>3, FreshNothing DEF BomPlan
<1>6. Fresh(FloorPlan)
  <2>1. CASE design["board"] = <<>>
    <3>1. Made("board") = {}
      BY <2>1, EmptyList DEF Made
    <3>2. \A edge : Fresh(Create("board", <<edge>>))
      BY <3>1, OneItem, OnceOne, FreshCreate
    <3>3. QED
      BY <3>2, FreshNothing DEF FloorPlan
  <2>2. QED
    BY <2>1, FreshNothing DEF FloorPlan
<1>7. Fresh(Placing)
  <2> DEFINE comps == design["component"]
             placed == [k \in DOMAIN Unplaced |-> PlacementAt(Unplaced[k], comps[Unplaced[k]])]
  <2>1. /\ Len(Unplaced) \in Nat /\ DOMAIN Unplaced = 1 .. Len(Unplaced) /\ IsInjective(Unplaced)
        /\ \A k \in DOMAIN Unplaced :
             /\ Unplaced[k] \in DOMAIN comps
             /\ \A p \in Made("placement") : p.component /= comps[Unplaced[k]]
    <3>1. Len(Unplaced) \in Nat /\ DOMAIN Unplaced = 1 .. Len(Unplaced)
          /\ \A k \in DOMAIN Unplaced : Unplaced[k] \in ToSet(Unplaced)
      BY UnplacedList, ListOfSeq DEF IsList
    <3>2. QED
      BY <3>1, UnplacedList
  <2>2. IsList(placed) /\ DOMAIN placed = DOMAIN Unplaced
    BY <2>1, ListOfFunction
  <2>3. IsInjective(comps)
    BY <1>1
  <2> HIDE DEF comps
  <2>4. \A k \in DOMAIN Unplaced : placed[k].component = comps[Unplaced[k]]
    BY DEF PlacementAt
  <2> HIDE DEF placed
  <2>5. IsInjective(placed)
    <3>1. SUFFICES ASSUME NEW j \in DOMAIN Unplaced, NEW k \in DOMAIN Unplaced, placed[j] = placed[k]
                   PROVE  j = k
      BY <2>2 DEF IsInjective
    <3>2. comps[Unplaced[j]] = comps[Unplaced[k]]
      BY <2>4, <3>1
    <3>3. Unplaced[j] = Unplaced[k]
      BY <2>1, <2>3, <3>2 DEF IsInjective
    <3>4. QED
      BY <2>1, <3>3 DEF IsInjective
  <2>6. ToSet(placed) \cap Made("placement") = {}
    BY <2>1, <2>2, <2>4 DEF ToSet
  <2>7. Fresh(Create("placement", placed))
    BY <2>2, <2>5, <2>6, FreshCreate
  <2>8. QED
    BY <2>7, FreshNothing DEF Placing, OnBoard, placed, comps
<1>8. Fresh(Routing)
  <2> DEFINE set == {net \in Made("net") : TracksOf(net) = <<>>}
             unrouted == Keep(design["net"], set)
             seqs == [k \in DOMAIN unrouted |-> Create("track", ChainOf(unrouted[k]))]
  <2>1. IsList(unrouted) /\ IsInjective(unrouted) /\ ToSet(unrouted) \subseteq set
    <3> HIDE DEF set
    <3>1. QED
      BY <1>1, KeepFacts
  <2>2. Routing = OnBoard(FlattenSeq(seqs))
    BY DEF Routing
  <2> HIDE DEF unrouted
  <2>3. /\ Len(unrouted) \in Nat /\ DOMAIN unrouted = 1 .. Len(unrouted)
        /\ \A k \in DOMAIN unrouted : unrouted[k] \in ToSet(unrouted)
    BY <2>1, ListOfSeq DEF IsList
  <2>4. ASSUME NEW k \in DOMAIN unrouted
        PROVE  /\ IsList(seqs[k]) /\ Fresh(seqs[k])
               /\ \A r \in ToSet(seqs[k]) : r.item.net = unrouted[k]
    <3> DEFINE net == unrouted[k]
               chain == ChainOf(net)
    <3>1. /\ IsList(chain) /\ IsInjective(chain)
          /\ \A t \in ToSet(chain) : \E p, q \in MembersOf(net) : t = Track(net, p, q)
      BY ChainFacts
    <3> HIDE DEF chain
    <3>2. \A t \in ToSet(chain) : t.net = net
      BY <3>1 DEF Track
    <3>3. TracksOf(net) = <<>>
      BY <2>1, <2>3
    <3>4. \A t \in Made("track") : t.net /= net
      <4>1. ToSet(TracksOf(net)) = ToSet(design["track"]) \cap {t \in Made("track") : t.net = net}
        BY <1>1, KeepFacts DEF TracksOf
      <4>2. ToSet(TracksOf(net)) = {}
        BY <3>3, EmptyList
      <4>3. QED
        BY <4>1, <4>2 DEF Made
    <3>5. Fresh(Create("track", chain))
      BY <3>1, <3>2, <3>4, FreshCreate
    <3>6. IsList(Create("track", chain))
          /\ ToSet(Create("track", chain)) = {[kind |-> "track", item |-> x] : x \in ToSet(chain)}
      BY <3>1, CreateFacts DEF SendsOnly
    <3>7. \A r \in ToSet(Create("track", chain)) : r.item.net = net
      BY <3>2, <3>6
    <3>8. seqs[k] = Create("track", chain)
      BY DEF chain
    <3>9. QED
      BY <3>5, <3>6, <3>7, <3>8
  <2>5. IsList(seqs) /\ DOMAIN seqs = DOMAIN unrouted
    BY <2>3, ListOfFunction
  <2> HIDE DEF seqs
  <2>6. \A i, j \in DOMAIN seqs : i /= j => ToSet(seqs[i]) \cap ToSet(seqs[j]) = {}
    <3>1. SUFFICES ASSUME NEW i \in DOMAIN unrouted, NEW j \in DOMAIN unrouted, i /= j
                   PROVE  ToSet(seqs[i]) \cap ToSet(seqs[j]) = {}
      BY <2>5
    <3>2. unrouted[i] /= unrouted[j]
      BY <2>1, <3>1 DEF IsInjective
    <3>3. QED
      BY <2>4, <3>2
  <2>7. Fresh(FlattenSeq(seqs))
    BY <2>4, <2>5, <2>6, FreshAll
  <2>8. QED
    BY <2>2, <2>7, FreshNothing DEF OnBoard
<1>9. QED
  BY <1>2, <1>3, <1>4, <1>5, <1>6, <1>7, <1>8

-----------------------------------------------------------------------------
(* No rule finds anything twice *)

\* Findings of one rule, none of them twice.
FoundOnce(rule, found) == IsInjective(found) /\ \A f \in ToSet(found) : f.rule = rule

(* A rule that looks at one item at a time. *)
LEMMA FindEachOnce ==
  ASSUME NEW items, IsList(items), IsInjective(items), NEW set, NEW rule, NEW kind
  PROVE  FoundOnce(rule, FindEach(rule, kind, Keep(items, set)))
<1> DEFINE kept == Keep(items, set)
           found == FindEach(rule, kind, kept)
<1>1. IsList(kept) /\ IsInjective(kept)
  BY KeepFacts
<1> HIDE DEF kept
<1>2. /\ DOMAIN found = DOMAIN kept
      /\ \A i \in DOMAIN kept : found[i] = [rule |-> rule, subjects |-> {<<kind, kept[i]>>}]
  BY DEF FindEach, Finding
<1> HIDE DEF found
<1>3. IsInjective(found)
  <2>1. SUFFICES ASSUME NEW i \in DOMAIN kept, NEW j \in DOMAIN kept, found[i] = found[j]
                 PROVE  i = j
    BY <1>2 DEF IsInjective
  <2>2. \A s : [rule |-> rule, subjects |-> s].subjects = s
    OBVIOUS
  <2>3. {<<kind, kept[i]>>} = {<<kind, kept[j]>>}
    BY <1>2, <2>1, <2>2
  <2>4. <<kind, kept[i]>> = <<kind, kept[j]>>
    BY <2>3
  <2>5. kept[i] = kept[j]
    BY <2>4
  <2>6. QED
    BY <1>1, <2>5 DEF IsInjective
<1>4. \A f \in ToSet(found) : f.rule = rule
  BY <1>2 DEF ToSet
<1>5. QED
  BY <1>3, <1>4 DEF FoundOnce, found, kept

(* A rule that looks at two items at a time. *)
LEMMA FindPairsOnce ==
  ASSUME NEW items, IsList(items), IsInjective(items), NEW set, NEW rule, NEW kind
  PROVE  FoundOnce(rule, FindPairs(rule, kind, items, Keep(PairsOf(items), set)))
<1> DEFINE n == Len(items)
           pairs == Keep(PairsOf(items), set)
           found == FindPairs(rule, kind, items, pairs)
           both(p) == {<<kind, items[p[1]]>>, <<kind, items[p[2]]>>}
<1>1. n \in Nat /\ DOMAIN items = 1 .. n
  BY ListOfSeq DEF IsList
<1>2. /\ IsList(pairs) /\ IsInjective(pairs)
      /\ ToSet(pairs) \subseteq {p \in (1 .. n) \X (1 .. n) : p[1] < p[2]}
  BY PairsFacts, KeepFacts
<1> HIDE DEF pairs
<1>3. \A k \in DOMAIN pairs : pairs[k] \in (1 .. n) \X (1 .. n) /\ pairs[k][1] < pairs[k][2]
  <2>1. \A k \in DOMAIN pairs : pairs[k] \in ToSet(pairs)
    BY DEF ToSet
  <2>2. QED
    BY <1>2, <2>1
<1>4. /\ DOMAIN found = DOMAIN pairs
      /\ \A k \in DOMAIN pairs : found[k] = [rule |-> rule, subjects |-> both(pairs[k])]
  BY DEF FindPairs, Finding
<1> HIDE DEF found
<1>5. ASSUME NEW p \in (1 .. n) \X (1 .. n), NEW q \in (1 .. n) \X (1 .. n),
             p[1] < p[2], q[1] < q[2], both(p) = both(q)
      PROVE  p = q
  <2>1. p[1] \in 1 .. n /\ p[2] \in 1 .. n /\ q[1] \in 1 .. n /\ q[2] \in 1 .. n
        /\ p = <<p[1], p[2]>> /\ q = <<q[1], q[2]>>
    OBVIOUS
  <2>2. \A x, y : <<kind, x>> = <<kind, y>> => x = y
    OBVIOUS
  <2>3. \A i, j \in 1 .. n : items[i] = items[j] => i = j
    BY <1>1 DEF IsInjective
  <2>4. /\ <<kind, items[p[1]]>> = <<kind, items[q[1]]>> \/ <<kind, items[p[1]]>> = <<kind, items[q[2]]>>
        /\ <<kind, items[p[2]]>> = <<kind, items[q[1]]>> \/ <<kind, items[p[2]]>> = <<kind, items[q[2]]>>
    BY <1>5
  <2>5. /\ p[1] = q[1] \/ p[1] = q[2]
        /\ p[2] = q[1] \/ p[2] = q[2]
    BY <2>1, <2>2, <2>3, <2>4
  <2>6. p[1] = q[1] /\ p[2] = q[2]
    BY <1>1, <1>5, <2>1, <2>5
  <2>7. QED
    BY <2>1, <2>6
<1>6. IsInjective(found)
  <2>1. SUFFICES ASSUME NEW i \in DOMAIN pairs, NEW j \in DOMAIN pairs, found[i] = found[j]
                 PROVE  i = j
    BY <1>4 DEF IsInjective
  <2>2. \A s : [rule |-> rule, subjects |-> s].subjects = s
    OBVIOUS
  <2>3. both(pairs[i]) = both(pairs[j])
    <3> HIDE DEF both
    <3>1. QED
      BY <1>4, <2>1, <2>2
  <2> HIDE DEF both
  <2>4. pairs[i] = pairs[j]
    BY <1>3, <1>5, <2>3
  <2>5. QED
    BY <1>2, <2>4 DEF IsInjective
<1>7. \A f \in ToSet(found) : f.rule = rule
  <2> HIDE DEF both
  <2>1. QED
    BY <1>4 DEF ToSet
<1>8. QED
  BY <1>6, <1>7 DEF FoundOnce, found, pairs

(* A rule that finds nothing, or one thing. *)
LEMMA FoundFew ==
  /\ \A rule : FoundOnce(rule, <<>>)
  /\ \A rule, subjects : FoundOnce(rule, <<Finding(rule, subjects)>>)
<1>1. \A rule : FoundOnce(rule, <<>>)
  BY EmptyList DEF FoundOnce, IsInjective
<1>2. ASSUME NEW rule, NEW subjects PROVE FoundOnce(rule, <<Finding(rule, subjects)>>)
  BY OneItem, OnceOne DEF FoundOnce, Finding
<1>3. QED
  BY <1>1, <1>2

(* Every rule finds a thing once. *)
LEMMA EvaluateOnce ==
  ASSUME DesignLists, Once, NEW gate \in Gates, NEW rule \in RulesBy(gate)
  PROVE  FoundOnce(rule, Evaluate(rule))
<1>1. \A kind \in DesignKinds : IsList(design[kind]) /\ IsInjective(design[kind])
  BY DEF DesignLists, Once
<1>2. /\ "requirement" \in DesignKinds /\ "constraint" \in DesignKinds /\ "net" \in DesignKinds
      /\ "component" \in DesignKinds /\ "line" \in DesignKinds /\ "placement" \in DesignKinds
      /\ "track" \in DesignKinds
  BY DEF DesignKinds
<1>3. /\ FoundOnce("constraint-consistency", ConstraintConsistency)
      /\ FoundOnce("thermal-tj", ThermalJunction)
      /\ FoundOnce("erc-power-net-undriven", ErcPowerNetUndriven)
      /\ FoundOnce("erc-multiple-drivers", ErcMultipleDrivers)
      /\ FoundOnce("bom-coverage", BomCoverage)
      /\ FoundOnce("bom-lifecycle", BomLifecycle)
  BY <1>1, <1>2, FindPairsOnce, FindEachOnce DEF ConstraintConsistency, ThermalJunction,
       ErcPowerNetUndriven, ErcMultipleDrivers, BomCoverage, BomLifecycle
<1>4. /\ FoundOnce("drc-out-of-bounds", DrcOutOfBounds)
      /\ FoundOnce("drc-courtyard-overlap", DrcCourtyardOverlap)
      /\ FoundOnce("drc-trace-width", DrcTraceWidth)
      /\ FoundOnce("drc-unrouted-net", DrcUnroutedNet)
      /\ FoundOnce("drc-net-open", DrcNetOpen)
      /\ FoundOnce("drc-copper-clearance", DrcCopperClearance)
  BY <1>1, <1>2, FoundFew, FindPairsOnce, FindEachOnce DEF DrcOutOfBounds, DrcCourtyardOverlap,
       DrcTraceWidth, DrcUnroutedNet, DrcNetOpen, DrcCopperClearance
<1>5. /\ FoundOnce("dfm-edge-clearance", DfmEdgeClearance)
      /\ FoundOnce("dfm-trace-edge-clearance", DfmTraceEdgeClearance)
      /\ FoundOnce("emc-antenna-length", EmcAntennaLength)
  BY <1>1, <1>2, FoundFew, FindEachOnce DEF DfmEdgeClearance, DfmTraceEdgeClearance,
       EmcAntennaLength
<1>6. QED
  BY <1>3, <1>4, <1>5, FoundFew, RulesFacts DEF Evaluate, Gates

(* And so does a gate, whose rules are each registered once. *)
LEMMA RaisingFresh ==
  ASSUME DesignLists, Once, NEW gate \in Gates
  PROVE  Fresh(Raising(gate))
<1> DEFINE rules == RulesOf(gate)
           seqs == [i \in DOMAIN rules |-> Evaluate(rules[i])]
<1>1. IsList(rules) /\ IsInjective(rules)
  <2>1. IsInjective(rules)
    BY DEF RulesOf, Gates, IsInjective
  <2>2. QED
    BY <2>1, RulesFacts
<1>2. /\ Len(rules) \in Nat /\ DOMAIN rules = 1 .. Len(rules)
      /\ \A i \in DOMAIN rules : rules[i] \in RulesBy(gate)
  BY <1>1, ListOfSeq DEF IsList, RulesBy
<1>3. IsList(seqs) /\ DOMAIN seqs = DOMAIN rules
  BY <1>2, ListOfFunction
<1> HIDE DEF rules
<1>4. \A i \in DOMAIN seqs : IsList(seqs[i]) /\ FoundOnce(rules[i], seqs[i])
  BY <1>2, EvaluateList, EvaluateOnce
<1> HIDE DEF seqs
<1>5. Apart(seqs)
  <2>1. \A i \in DOMAIN seqs : IsInjective(seqs[i])
    BY <1>4 DEF FoundOnce
  <2>2. ASSUME NEW i \in DOMAIN seqs, NEW j \in DOMAIN seqs, i /= j
        PROVE  ToSet(seqs[i]) \cap ToSet(seqs[j]) = {}
    <3>1. rules[i] /= rules[j]
      BY <1>1, <1>3, <2>2 DEF IsInjective
    <3>2. QED
      BY <1>4, <3>1 DEF FoundOnce
  <2>3. QED
    BY <2>1, <2>2 DEF Apart
<1>6. IsInjective(FlattenSeq(seqs))
  BY <1>3, <1>4, <1>5, FlattenFacts
<1>7. IsList(Findings(gate)) /\ IsInjective(Findings(gate))
  BY <1>6, FindingsList DEF Findings, seqs, rules
<1>8. QED
  BY <1>7, FreshMissing DEF Raising

-----------------------------------------------------------------------------
(* What the phases build *)

\* Copper runs from the centre of a courtyard to that of another, or to itself.
OnCentres(t) ==
  /\ t.width = TraceWidth
  /\ \E p, q \in Made("placement") : t.from = Centre(p) /\ t.to = Centre(q)

\* A design that the planning phases may have made, whatever failed on the way.
Built ==
  /\ Once
  /\ NetsAfter
  /\ InARow
  /\ \A t \in Made("track") : OnCentres(t)
  /\ Made("board") \subseteq Nat

\* Requests for what a design may have.
WellMade(requests) ==
  /\ Fresh(requests)
  /\ \A r \in ToSet(requests) :
       /\ r.kind = "placement" =>
            \E i \in DOMAIN design["component"] : r.item = PlacementAt(i, design["component"][i])
       /\ r.kind = "track" => OnCentres(r.item)
       /\ r.kind = "board" => r.item \in Nat

(* The first of them. *)
LEMMA WellMadePrefix ==
  ASSUME NEW requests, IsList(requests), WellMade(requests), NEW k \in 0 .. Len(requests)
  PROVE  WellMade(SubSeq(requests, 1, k))
BY ListPrefix, FreshPrefix DEF WellMade

(* They keep it so. *)
LEMMA Builds ==
  ASSUME DesignLists, Built, NEW sent, NEW kinds \in SUBSET DesignKinds, SendsOnly(sent, kinds),
         WellMade(sent), design' = Committed(sent), candidates' = candidates,
         design'["component"] = design["component"] \/ design["component"] = <<>>,
         NetsAfter'
  PROVE  Built'
<1>1. Fresh(sent) /\ Once /\ InARow
  BY DEF WellMade, Built
<1>2. Once'
  BY <1>1, FreshCommits
<1>3. /\ \A kind \in DesignKinds :
           Made(kind)' = Made(kind) \cup {r.item : r \in {q \in ToSet(sent) : q.kind = kind}}
      /\ "placement" \in DesignKinds /\ "track" \in DesignKinds /\ "board" \in DesignKinds
  <2>1. \A kind \in DesignKinds :
          ToSet(design'[kind]) = Made(kind) \cup {r.item : r \in {q \in ToSet(sent) : q.kind = kind}}
    BY CommittedFacts
  <2>2. QED
    BY <2>1 DEF Made, DesignKinds
<1>4. Made("placement") \subseteq Made("placement")'
  BY <1>3
<1>5. InARow'
  <2>1. \A p \in Made("placement")' :
          \E i \in DOMAIN design["component"] : p = PlacementAt(i, design["component"][i])
    <3>1. ASSUME NEW p \in Made("placement")'
          PROVE  \E i \in DOMAIN design["component"] : p = PlacementAt(i, design["component"][i])
      <4>1. CASE p \in Made("placement")
        BY <1>1, <4>1 DEF InARow
      <4>2. CASE \E r \in ToSet(sent) : r.kind = "placement" /\ r.item = p
        BY <4>2 DEF WellMade
      <4>3. QED
        BY <1>3, <4>1, <4>2
    <3>2. QED
      BY <3>1
  <2>2. CASE design'["component"] = design["component"]
    <3>1. \A i \in DOMAIN design["component"] :
            PlacementAt(i, design["component"][i])' = PlacementAt(i, design["component"][i])
      BY <2>2 DEF PlacementAt, ClassOf
    <3>2. QED
      BY <2>1, <2>2, <3>1 DEF InARow
  <2>3. CASE design["component"] = <<>>
    <3>1. Made("placement")' = {}
      BY <2>1, <2>3
    <3>2. QED
      BY <3>1 DEF InARow
  <2>4. QED
    BY <2>2, <2>3
<1>6. ASSUME NEW t \in Made("track")' PROVE OnCentres(t)'
  <2>1. OnCentres(t)
    <3>1. CASE t \in Made("track")
      BY <3>1 DEF Built
    <3>2. CASE \E r \in ToSet(sent) : r.kind = "track" /\ r.item = t
      BY <3>2 DEF WellMade
    <3>3. QED
      BY <1>3, <3>1, <3>2
  <2>2. QED
    BY <1>4, <2>1 DEF OnCentres
<1>7. Made("board")' \subseteq Nat
  <2>1. \A r \in ToSet(sent) : r.kind = "board" => r.item \in Nat
    BY DEF WellMade
  <2>2. Made("board") \subseteq Nat
    BY DEF Built
  <2>3. QED
    BY <1>3, <2>1, <2>2
<1>8. QED
  BY <1>2, <1>5, <1>6, <1>7 DEF Built

-----------------------------------------------------------------------------
(* What the requirements state *)

(* The values of the targets are natural numbers, for those of the candidates are. *)
LEMMA StatedValues ==
  ASSUME DesignLists, candidates \in Seq(Candidate), Made("requirement") \subseteq DOMAIN candidates,
         NEW category, NEW dimension
  PROVE  Stated(category, dimension) \in Seq(Nat)
<1> DEFINE own == Keep(design["requirement"],
                    {r \in Made("requirement") : candidates[r].category = category})
           seqs == [k \in DOMAIN own |-> TargetsOf(own[k], dimension)]
           targets == FlattenSeq(seqs)
<1>1. IsList(own) /\ ToSet(own) \subseteq Made("requirement")
  <2>1. IsList(design["requirement"])
    BY DEF DesignLists, DesignKinds
  <2>2. QED
    BY <2>1, KeepFacts DEF Made
<1>2. Stated(category, dimension) = [k \in DOMAIN targets |-> targets[k].value]
  BY DEF Stated
<1> HIDE DEF own
<1>3. Len(own) \in Nat /\ DOMAIN own = 1 .. Len(own) /\ \A k \in DOMAIN own : own[k] \in DOMAIN candidates
  BY <1>1, ListOfSeq DEF IsList
<1>4. ASSUME NEW r \in DOMAIN candidates
      PROVE  IsList(TargetsOf(r, dimension)) /\ ToSet(TargetsOf(r, dimension)) \subseteq Quantity
  <2> DEFINE all == candidates[r].targets
  <2>1. all \in Seq(Quantity)
    <3>1. candidates[r] \in Candidate
      BY <1>4
    <3>2. QED
      BY <3>1 DEF Candidate
  <2>2. IsList(all) /\ ToSet(all) \subseteq Quantity
    BY <2>1, ListOfSeq
  <2>3. TargetsOf(r, dimension) = Keep(all, {t \in ToSet(all) : t.dimension = dimension})
    BY DEF TargetsOf
  <2> HIDE DEF all
  <2>4. QED
    BY <2>2, <2>3, KeepFacts
<1>5. IsList(seqs) /\ DOMAIN seqs = DOMAIN own
  BY <1>3, ListOfFunction
<1>6. \A k \in DOMAIN seqs : IsList(seqs[k]) /\ ToSet(seqs[k]) \subseteq Quantity
  BY <1>3, <1>4
<1> HIDE DEF seqs
<1>7. IsList(targets) /\ ToSet(targets) \subseteq Quantity
  BY <1>5, <1>6, FlattenFacts
<1> HIDE DEF targets
<1>8. Len(targets) \in Nat /\ DOMAIN targets = 1 .. Len(targets) /\ \A k \in DOMAIN targets : targets[k] \in Quantity
  BY <1>7, ListOfSeq DEF IsList
<1>9. \A k \in DOMAIN targets : targets[k].value \in Nat
  BY <1>8 DEF Quantity
<1>10. QED
  BY <1>2, <1>8, <1>9

(* No phase asks for what a design may not have. *)
LEMMA PlanningWellMade ==
  ASSUME DesignLists, Built, candidates \in Seq(Candidate),
         Made("requirement") \subseteq DOMAIN candidates
  PROVE  /\ WellMade(Analyzing) /\ WellMade(Extracting) /\ WellMade(SchematicPlan)
         /\ WellMade(BomPlan) /\ WellMade(FloorPlan) /\ WellMade(Placing) /\ WellMade(Routing)
         /\ \A gate \in Gates : WellMade(Raising(gate))
<1>1. Once /\ InARow /\ NetsAfter
  BY DEF Built
<1>2. ASSUME NEW requests, NEW kinds, SendsOnly(requests, kinds), Fresh(requests),
             kinds \cap {"placement", "track", "board"} = {}
      PROVE  WellMade(requests)
  BY <1>2 DEF WellMade, SendsOnly
<1>3. WellMade(Analyzing) /\ WellMade(Extracting) /\ WellMade(SchematicPlan) /\ WellMade(BomPlan)
  <2>1. /\ {"block"} \cap {"placement", "track", "board"} = {}
        /\ {"constraint"} \cap {"placement", "track", "board"} = {}
        /\ {"component", "net"} \cap {"placement", "track", "board"} = {}
        /\ {"part", "line"} \cap {"placement", "track", "board"} = {}
    OBVIOUS
  <2>2. QED
    BY <1>1, <1>2, <2>1, PlanningSends, PlanningFresh
<1>4. ASSUME NEW gate \in Gates PROVE WellMade(Raising(gate))
  <2>1. {"violation"} \cap {"placement", "track", "board"} = {}
    OBVIOUS
  <2>2. QED
    BY <1>1, <1>2, <2>1, RaisingFacts, RaisingFresh
<1>5. WellMade(FloorPlan)
  <2>1. Fresh(FloorPlan) /\ SendsOnly(FloorPlan, {"board"})
    BY <1>1, PlanningFresh, PlanningSends
  <2>2. \A r \in ToSet(FloorPlan) : r.item \in Nat
    <3> DEFINE lengths == Stated("Mechanical", "Length")
               edge == IF lengths = <<>> THEN DefaultEdge ELSE lengths[1]
    <3>1. lengths \in Seq(Nat)
      BY StatedValues
    <3> HIDE DEF lengths
    <3>2. edge \in Nat
      BY <3>1 DEF DefaultEdge
    <3>3. FloorPlan = <<>> \/ FloorPlan = Create("board", <<edge>>)
      BY DEF FloorPlan, lengths
    <3> HIDE DEF edge
    <3>4. ToSet(Create("board", <<edge>>)) = {[kind |-> "board", item |-> x] : x \in {edge}}
      <4>1. IsList(<<edge>>) /\ ToSet(<<edge>>) = {edge}
        BY OneItem
      <4>2. ToSet(Create("board", <<edge>>)) = {[kind |-> "board", item |-> x] : x \in ToSet(<<edge>>)}
        BY <4>1, CreateFacts
      <4>3. QED
        BY <4>1, <4>2
    <3>5. QED
      BY <3>2, <3>3, <3>4, EmptyList
  <2>3. QED
    BY <2>1, <2>2 DEF WellMade, SendsOnly
<1>6. WellMade(Placing)
  <2>1. Fresh(Placing) /\ SendsOnly(Placing, {"placement"})
    BY <1>1, PlanningFresh, PlanningSends
  <2>2. ASSUME NEW r \in ToSet(Placing)
        PROVE  \E i \in DOMAIN design["component"] : r.item = PlacementAt(i, design["component"][i])
    <3> DEFINE comps == design["component"]
               placed == [k \in DOMAIN Unplaced |-> PlacementAt(Unplaced[k], comps[Unplaced[k]])]
    <3>1. Placing = Create("placement", placed)
      BY <2>2, EmptyList DEF Placing, OnBoard
    <3>2. \A k \in DOMAIN Unplaced : Unplaced[k] \in DOMAIN comps
      BY UnplacedList, ListOfSeq DEF IsList
    <3>3. PICK k \in DOMAIN Unplaced : r = [kind |-> "placement", item |-> placed[k]]
      BY <3>1 DEF Create, ToSet
    <3>4. r.item = PlacementAt(Unplaced[k], comps[Unplaced[k]])
      BY <3>3
    <3>5. QED
      BY <3>2, <3>4
  <2>3. QED
    BY <2>1, <2>2 DEF WellMade, SendsOnly
<1>7. WellMade(Routing)
  <2>1. Fresh(Routing) /\ SendsOnly(Routing, {"track"})
    BY <1>1, PlanningFresh, PlanningSends
  <2>2. ASSUME NEW r \in ToSet(Routing)
        PROVE  OnCentres(r.item)
    <3> DEFINE unrouted == Keep(design["net"], {net \in Made("net") : TracksOf(net) = <<>>})
               seqs == [k \in DOMAIN unrouted |-> Create("track", ChainOf(unrouted[k]))]
    <3>1. Routing = FlattenSeq(seqs)
      BY <2>2, EmptyList DEF Routing, OnBoard
    <3>2. IsList(unrouted)
      BY KeepFacts DEF DesignLists, DesignKinds
    <3> HIDE DEF unrouted
    <3>3. Len(unrouted) \in Nat /\ DOMAIN unrouted = 1 .. Len(unrouted)
      BY <3>2, ListOfSeq DEF IsList
    <3>4. IsList(seqs) /\ \A k \in DOMAIN seqs : IsList(seqs[k])
      BY <3>3, ListOfFunction, ChainList, CreateFacts DEF SendsOnly
    <3>5. \E k \in DOMAIN seqs : r \in ToSet(seqs[k])
      <4> HIDE DEF seqs
      <4>1. QED
        BY <3>1, <3>4, FlattenFacts
    <3>6. PICK k \in DOMAIN unrouted : r \in ToSet(Create("track", ChainOf(unrouted[k])))
      BY <3>5
    <3> DEFINE net == unrouted[k]
    <3>7. /\ ToSet(Create("track", ChainOf(net))) = {[kind |-> "track", item |-> x] : x \in ToSet(ChainOf(net))}
          /\ \A t \in ToSet(ChainOf(net)) : \E p, q \in MembersOf(net) : t = Track(net, p, q)
      BY <1>1, ChainFacts, CreateFacts
    <3>8. r.item \in ToSet(ChainOf(net))
      BY <3>6, <3>7
    <3> HIDE DEF net
    <3>9. PICK p \in MembersOf(net), q \in MembersOf(net) : r.item = Track(net, p, q)
      BY <3>7, <3>8
    <3>10. p \in Made("placement") /\ q \in Made("placement")
      BY DEF MembersOf
    <3>11. r.item.width = TraceWidth /\ r.item.from = Centre(p) /\ r.item.to = Centre(q)
      BY <3>9 DEF Track
    <3>12. QED
      BY <3>10, <3>11 DEF OnCentres
  <2>3. QED
    BY <2>1, <2>2 DEF WellMade, SendsOnly
<1>8. QED
  BY <1>3, <1>4, <1>5, <1>6, <1>7

(* The first request for a schematic is for a component, if any is for a net. *)
LEMMA SchematicOrder ==
  ASSUME DesignLists, NetsAfter, NEW k \in 0 .. Len(SchematicPlan),
         design' = Committed(SubSeq(SchematicPlan, 1, k))
  PROVE  NetsAfter'
<1> DEFINE all == SchematicPlan
           sent == SubSeq(all, 1, k)
           comps == Create("component", design["block"])
           nets == Create("net", Keep(NetNames,
                     {net \in ToSet(NetNames) : PadsOf(net, Made("block")) /= {}}))
<1>1. SendsOnly(all, {"component", "net"}) /\ SendsOnly(sent, {"component", "net"})
  BY PlanningSends, SendsPrefix
<1>2. {"component", "net"} \in SUBSET DesignKinds /\ "component" \in DesignKinds /\ "net" \in DesignKinds
  BY DEF DesignKinds
<1>3. \A kind \in {"component", "net"} :
        /\ IsList(design'[kind])
        /\ ToSet(design'[kind]) = Made(kind) \cup {r.item : r \in {q \in ToSet(sent) : q.kind = kind}}
  <2> HIDE DEF sent
  <2>1. design' = Committed(sent)
    BY DEF sent
  <2>2. \A kind \in DesignKinds :
          /\ IsList(design'[kind])
          /\ ToSet(design'[kind]) = Made(kind) \cup {r.item : r \in {q \in ToSet(sent) : q.kind = kind}}
    BY <1>1, <1>2, <2>1, CommittedFacts
  <2>3. QED
    BY <1>2, <2>2
<1>4. SUFFICES ASSUME design'["component"] = <<>> PROVE design'["net"] = <<>>
  BY DEF NetsAfter
<1>5. /\ Made("component") = {} /\ \A r \in ToSet(sent) : r.kind /= "component"
  <2> HIDE DEF sent
  <2>1. QED
    BY <1>3, <1>4, EmptyList
<1>6. design["component"] = <<>> /\ design["net"] = <<>>
  <2>1. IsList(design["component"])
    BY DEF DesignLists, DesignKinds
  <2>2. Len(design["component"]) \in Nat /\ \A i \in DOMAIN design["component"] : design["component"][i] \in Made("component")
    BY <2>1, ListOfSeq DEF IsList, Made
  <2>3. design["component"] = <<>>
    BY <1>5, <2>1, <2>2 DEF IsList
  <2>4. QED
    BY <2>3 DEF NetsAfter
<1>7. ToSet(sent) = {}
  <2>1. all = comps \o nets
    BY <1>6 DEF SchematicPlan
  <2>2. CASE k = 0
    <3>1. sent = <<>>
      <4>1. all \in Seq(ToSet(all))
        BY <1>1 DEF SendsOnly, IsList
      <4> HIDE DEF all
      <4>2. QED
        BY <2>2, <4>1
    <3>2. QED
      BY <3>1, EmptyList
  <2>3. CASE k /= 0 /\ design["block"] /= <<>>
    <3>1. IsList(design["block"]) /\ IsList(comps) /\ IsList(nets)
      <4>1. IsList(design["block"]) /\ IsList(NetNames)
        BY DEF DesignLists, DesignKinds, NetNames, IsList, ToSet
      <4>2. QED
        BY <4>1, CreateFacts, KeepFacts DEF SendsOnly
    <3>2. Len(design["block"]) \in Nat /\ Len(design["block"]) >= 1 /\ DOMAIN design["block"] = 1 .. Len(design["block"])
      <4>1. design["block"] \in Seq(ToSet(design["block"]))
        BY <3>1 DEF IsList
      <4>2. QED
        BY <2>3, <4>1
    <3>3. DOMAIN comps = 1 .. Len(design["block"]) /\ comps[1].kind = "component"
      BY <3>2 DEF Create
    <3> HIDE DEF comps, nets
    <3>4. (comps \o nets)[1] = comps[1] /\ Len(comps \o nets) \in Nat
      <4>1. comps \in Seq(ToSet(comps) \cup ToSet(nets)) /\ nets \in Seq(ToSet(comps) \cup ToSet(nets))
        BY <3>1, ListOfWider
      <4>2. DOMAIN comps = 1 .. Len(comps)
        BY <4>1
      <4>3. Len(comps) >= 1
        BY <3>2, <3>3, <4>1, <4>2
      <4>4. QED
        BY <4>1, <4>3
    <3>5. sent[1] = all[1] /\ 1 \in DOMAIN sent
      <4>1. all \in Seq(ToSet(all)) /\ k \in 1 .. Len(all)
        BY <1>1, <2>3 DEF SendsOnly, IsList
      <4> HIDE DEF all
      <4>2. QED
        BY <4>1
    <3>6. sent[1].kind = "component" /\ sent[1] \in ToSet(sent)
      <4> HIDE DEF sent, all
      <4>1. QED
        BY <2>1, <3>3, <3>4, <3>5 DEF ToSet
    <3>7. QED
      BY <1>5, <3>6
  <2>4. CASE design["block"] = <<>>
    <3>1. Made("block") = {}
      BY <2>4, EmptyList DEF Made
    <3>2. \A net \in ToSet(NetNames) : PadsOf(net, {}) = {}
      <4>1. ToSet(NetNames) = {"VBUS", "VOUT", "GND"}
        BY DEF NetNames, ToSet
      <4>2. QED
        BY <4>1 DEF PadsOf, DriversOf, ConsumersOf
    <3>3. ToSet(comps) = {}
      BY <2>4 DEF Create, ToSet
    <3>4. IsList(NetNames)
      BY DEF NetNames, IsList, ToSet
    <3>5. ToSet(nets) = {} /\ IsList(nets)
      <4> DEFINE some == {net \in ToSet(NetNames) : PadsOf(net, Made("block")) /= {}}
                 kept == Keep(NetNames, some)
      <4>1. some = {}
        BY <3>1, <3>2
      <4>2. IsList(kept) /\ ToSet(kept) = {}
        <5> HIDE DEF some
        <5>1. QED
          BY <3>4, <4>1, KeepFacts
      <4> HIDE DEF kept
      <4>3. ToSet(Create("net", kept)) = {} /\ IsList(Create("net", kept))
        BY <4>2, CreateFacts DEF SendsOnly
      <4>4. QED
        BY <4>3 DEF kept
    <3>6. IsList(comps)
      BY CreateFacts DEF SendsOnly, DesignLists, DesignKinds
    <3> HIDE DEF comps, nets
    <3>7. ToSet(all) = {}
      BY <2>1, <3>3, <3>5, <3>6, ListConcat
    <3>8. IsList(all) /\ k \in 0 .. Len(all)
      BY <1>1 DEF SendsOnly
    <3> HIDE DEF all
    <3>9. ToSet(sent) \subseteq ToSet(all)
      BY <3>8, ListPrefix
    <3>10. QED
      BY <3>7, <3>9
  <2>5. QED
    BY <2>2, <2>3, <2>4
<1>8. ToSet(design'["net"]) = {}
  <2>1. Made("net") = {}
    BY <1>6, EmptyList DEF Made
  <2> HIDE DEF sent
  <2>2. QED
    BY <1>3, <1>7, <2>1
<1>9. QED
  <2>1. design'["net"] \in Seq({})
    BY <1>3, <1>8 DEF IsList
  <2>2. QED
    BY <2>1

-----------------------------------------------------------------------------
(* Phases that ask for nothing *)

(* A list of no items. *)
LEMMA NoItems ==
  ASSUME NEW s, IsList(s), ToSet(s) = {}
  PROVE  s = <<>>
<1>1. s \in Seq({})
  BY DEF IsList
<1>2. QED
  BY <1>1

(* What is committed of no requests. *)
LEMMA NothingCommitted ==
  ASSUME DesignLists, design' = Committed(<<>>)
  PROVE  design' = design
<1>1. SendsOnly(<<>>, {}) /\ {} \in SUBSET DesignKinds
  BY SendsNothing
<1>2. /\ design' = [kind \in DesignKinds |-> design'[kind]]
      /\ \A kind \in DesignKinds : design'[kind] = design[kind]
  BY <1>1, CommittedFacts
<1>3. QED
  BY <1>2 DEF DesignLists

(* A placed component is not placed again. *)
LEMMA NothingToPlace == DesignLists /\ PcbIr(design) => Placing = <<>>
<1> SUFFICES ASSUME DesignLists, PcbIr(design) PROVE Placing = <<>>
  OBVIOUS
<1>1. \A i \in DOMAIN design["component"] :
        \E p \in Made("placement") : p.component = design["component"][i]
  BY DEF PcbIr, Made, ToSet
<1>2. IsList(Unplaced) /\ ToSet(Unplaced) = {}
  BY <1>1, UnplacedList
<1>3. Unplaced = <<>>
  BY <1>2, NoItems
<1>4. Placing = <<>> \/ DOMAIN Placing = {}
  BY <1>3 DEF Placing, OnBoard, Create
<1>5. IsList(Placing) /\ ToSet(Placing) = {}
  BY <1>4, EmptyList, PlanningSends DEF ToSet, SendsOnly
<1>6. QED
  BY <1>5, NoItems

(* A net that has tracks, or no place to start one, is not routed again. *)
LEMMA NothingToRoute ==
  /\ DesignLists
  /\ \A net \in Made("net") : TracksOf(net) = <<>> => ChainOf(net) = <<>>
  => Routing = <<>>
<1> SUFFICES ASSUME DesignLists,
                    \A net \in Made("net") : TracksOf(net) = <<>> => ChainOf(net) = <<>>
             PROVE  Routing = <<>>
  OBVIOUS
<1> DEFINE set == {net \in Made("net") : TracksOf(net) = <<>>}
           unrouted == Keep(design["net"], set)
           seqs == [k \in DOMAIN unrouted |-> Create("track", ChainOf(unrouted[k]))]
<1>1. Routing = <<>> \/ Routing = FlattenSeq(seqs)
  BY DEF Routing, OnBoard
<1>2. IsList(unrouted) /\ ToSet(unrouted) \subseteq set
  <2>1. IsList(design["net"])
    BY DEF DesignLists, DesignKinds
  <2> HIDE DEF set
  <2>2. QED
    BY <2>1, KeepFacts
<1>3. \A k \in DOMAIN unrouted : ChainOf(unrouted[k]) = <<>>
  BY <1>2 DEF ToSet
<1> HIDE DEF unrouted
<1>4. Len(unrouted) \in Nat /\ DOMAIN unrouted = 1 .. Len(unrouted)
  BY <1>2, ListOfSeq DEF IsList
<1>5. SendsOnly(Create("track", <<>>), {"track"}) /\ ToSet(Create("track", <<>>)) = {}
  BY EmptyList, CreateFacts
<1>6. /\ IsList(seqs) /\ DOMAIN seqs = DOMAIN unrouted
      /\ \A k \in DOMAIN seqs : IsList(seqs[k]) /\ ToSet(seqs[k]) = {}
  BY <1>3, <1>4, <1>5, ListOfFunction DEF SendsOnly
<1> HIDE DEF seqs
<1>7. IsList(FlattenSeq(seqs)) /\ ToSet(FlattenSeq(seqs)) = {}
  BY <1>6, FlattenFacts
<1>8. QED
  BY <1>1, <1>7, NoItems

-----------------------------------------------------------------------------
(* Copper that the clearance rule finds *)

(* A gate finds all that its rules find. *)
LEMMA RuleFinds ==
  ASSUME DesignLists, NEW gate \in Gates, NEW rule \in RulesBy(gate)
  PROVE  ToSet(Evaluate(rule)) \subseteq ToSet(Findings(gate))
<1> DEFINE rules == RulesOf(gate)
           seqs == [i \in DOMAIN rules |-> Evaluate(rules[i])]
<1>1. IsList(rules)
  BY RulesFacts
<1>2. Len(rules) \in Nat /\ DOMAIN rules = 1 .. Len(rules) /\ \A i \in DOMAIN rules : rules[i] \in RulesBy(gate)
  BY <1>1, ListOfSeq DEF IsList, RulesBy
<1>3. IsList(seqs) /\ DOMAIN seqs = DOMAIN rules
  BY <1>2, ListOfFunction
<1>4. \A i \in DOMAIN seqs : IsList(seqs[i])
  BY <1>2, EvaluateList
<1>5. \E i \in DOMAIN seqs : seqs[i] = Evaluate(rule)
  BY DEF RulesBy, ToSet
<1>6. Findings(gate) = FlattenSeq(seqs)
  BY DEF Findings
<1> HIDE DEF seqs
<1>7. QED
  BY <1>3, <1>4, <1>5, <1>6, FlattenFacts

(* An end of a segment is nearer to it than any distance. *)
LEMMA EndIsNear ==
  ASSUME NEW s, s.from.x \in Int, s.from.y \in Int, s.to.x \in Int, s.to.y \in Int,
         NEW p \in {s.from, s.to}, NEW r \in Nat \ {0}
  PROVE  PointNearer(p, s, r)
<1> DEFINE dx == s.to.x - s.from.x
           dy == s.to.y - s.from.y
           length == Square(s.from, s.to)
           along == (p.x - s.from.x) * dx + (p.y - s.from.y) * dy
           across == Orient(s.from, s.to, p)
<1>1. r * r > 0
  BY DEF Square
<1>2. Square(p, p) = 0
  BY DEF Square
<1>3. length = dx * dx + dy * dy /\ length \in Int
  BY DEF Square
<1> DEFINE first == Square(p, s.from) < r * r
           second == Square(p, s.to) < r * r
           third == across * across < r * r * length
<1>4. PointNearer(p, s, r) <=> CASE along <= 0      -> first
                                 [] along >= length -> second
                                 [] OTHER           -> third
  BY DEF PointNearer
<1>5. /\ along \in Int /\ (along <= 0 \/ along >= length)
      /\ along <= 0 => first
      /\ along >= length => second
  <2>1. CASE p = s.from
    <3>1. along = 0 /\ Square(p, s.to) = length
      BY <2>1
    <3> HIDE DEF along, length
    <3>2. QED
      BY <1>1, <1>2, <1>3, <2>1, <3>1
  <2>2. CASE p = s.to
    <3>1. along = length /\ Square(p, s.from) = length
      BY <1>3, <2>2 DEF Square
    <3> HIDE DEF along, length
    <3>2. QED
      BY <1>1, <1>2, <1>3, <2>2, <3>1
  <2>3. QED
    BY <2>1, <2>2
<1> HIDE DEF along, length, first, second, third
<1>6. QED
  BY <1>3, <1>4, <1>5

(* Two nets that have copper at one pad are too near each other for any spacing. *)
LEMMA SharedPadIsTooNear ==
  ASSUME NEW s, OnCentres(s), NEW t, OnCentres(t), DesignLists, Once, InARow,
         s.net /= t.net, {s.from, s.to} \cap {t.from, t.to} /= {}, NEW space \in Nat
  PROVE  TooNear(s, t, space)
<1>1. \A p \in Made("placement") : Centre(p).x \in Int /\ Centre(p).y \in Int
  <2>1. SUFFICES ASSUME NEW p \in Made("placement") PROVE Centre(p).x \in Int /\ Centre(p).y \in Int
    OBVIOUS
  <2>2. p.x \in Int /\ p.y \in Int /\ p.edge \in {24, 36}
    BY RowFacts
  <2>3. p.edge \div 2 \in Int
    BY <2>2
  <2>4. Centre(p).x = p.x + p.edge \div 2 /\ Centre(p).y = p.y + p.edge \div 2
    BY DEF Centre
  <2>5. QED
    BY <2>2, <2>3, <2>4
<1>2. t.from.x \in Int /\ t.from.y \in Int /\ t.to.x \in Int /\ t.to.y \in Int
  BY <1>1 DEF OnCentres
<1> DEFINE r == space + (s.width + t.width) \div 2
<1>3. r \in Nat \ {0}
  <2>1. s.width = 2 /\ t.width = 2
    BY DEF OnCentres, TraceWidth
  <2>2. (2 + 2) \div 2 = 2
    OBVIOUS
  <2>3. r = space + 2
    BY <2>1, <2>2
  <2>4. QED
    BY <2>3
<1>4. TooNear(s, t, space) <=> s.net /= t.net /\ SegmentsNearer(s, t, r)
  BY DEF TooNear
<1> HIDE DEF r
<1>5. s.from \in {t.from, t.to} \/ s.to \in {t.from, t.to}
  OBVIOUS
<1>6. PointNearer(s.from, t, r) \/ PointNearer(s.to, t, r)
  BY <1>2, <1>3, <1>5, EndIsNear
<1>7. QED
  BY <1>4, <1>6 DEF SegmentsNearer

(* The rule about copper clearance finds every two tracks that are too near. *)
LEMMA ClearanceFinds ==
  ASSUME DesignLists, FabricationLengths \in Seq(Nat), Len(FabricationLengths) >= 3,
         NEW s \in Made("track"), NEW t \in Made("track"),
         TooNear(s, t, FabricationLengths[3]), TooNear(t, s, FabricationLengths[3])
  PROVE  \E f \in ToSet(DrcCopperClearance) : f.rule = "drc-copper-clearance"
<1> DEFINE ts == design["track"]
           space == FabricationLengths[3]
           near == {n \in ToSet(PairsOf(ts)) : TooNear(ts[n[1]], ts[n[2]], space)}
           pairs == Keep(PairsOf(ts), near)
           found == FindPairs("drc-copper-clearance", "track", ts, pairs)
<1>1. IsList(ts)
  BY DEF DesignLists, DesignKinds
<1>2. Len(ts) \in Nat /\ DOMAIN ts = 1 .. Len(ts)
  BY <1>1, ListOfSeq DEF IsList
<1>3. PICK i \in DOMAIN ts, j \in DOMAIN ts : ts[i] = s /\ ts[j] = t
  BY DEF Made, ToSet
<1>4. i /= j
  <2>1. s.net /= t.net
    BY DEF TooNear
  <2>2. QED
    BY <1>3, <2>1
<1>5. ToSet(PairsOf(ts)) = {p \in (1 .. Len(ts)) \X (1 .. Len(ts)) : p[1] < p[2]} /\ IsList(PairsOf(ts))
  BY <1>1, PairsFacts
<1>6. DrcCopperClearance = found
  <2>1. ~(Len(FabricationLengths) < 3)
    <3>1. Len(FabricationLengths) \in Nat
      OBVIOUS
    <3>2. QED
      BY <3>1
  <2>2. QED
    BY <2>1 DEF DrcCopperClearance
<1> HIDE DEF ts, space
<1>7. \E n : n \in near
  <2>1. \A a, b : <<a, b>>[1] = a /\ <<a, b>>[2] = b
    OBVIOUS
  <2>2. CASE i < j
    <3>1. <<i, j>> \in ToSet(PairsOf(ts))
      BY <1>2, <1>3, <1>5, <2>2
    <3>2. TooNear(ts[i], ts[j], space)
      BY <1>3 DEF space
    <3>3. QED
      BY <2>1, <3>1, <3>2
  <2>3. CASE j < i
    <3>1. <<j, i>> \in ToSet(PairsOf(ts))
      BY <1>2, <1>3, <1>5, <2>3
    <3>2. TooNear(ts[j], ts[i], space)
      BY <1>3 DEF space
    <3>3. QED
      BY <2>1, <3>1, <3>2
  <2>4. i < j \/ j < i
    BY <1>2, <1>3, <1>4
  <2>5. QED
    BY <2>2, <2>3, <2>4
<1>8. IsList(pairs) /\ ToSet(pairs) = ToSet(PairsOf(ts)) \cap near
  <2> HIDE DEF near
  <2>1. QED
    BY <1>5, KeepFacts
<1>9. \E k : k \in DOMAIN pairs
  <2>1. \E n : n \in ToSet(pairs)
    BY <1>7, <1>8
  <2> HIDE DEF pairs
  <2>2. QED
    BY <2>1 DEF ToSet
<1> HIDE DEF pairs
<1>10. /\ DOMAIN found = DOMAIN pairs
       /\ \A k \in DOMAIN pairs : found[k].rule = "drc-copper-clearance"
  BY DEF FindPairs, Finding
<1> HIDE DEF found
<1>11. QED
  BY <1>6, <1>9, <1>10 DEF ToSet

-----------------------------------------------------------------------------
(* The disjoint set of the open-net rule *)

\* What the rule's parents stand for: every node but the roots has a parent further up,
\* and root tells above each node the root that its path leads to.
Forest(parent, height, root, N) ==
  /\ parent \in [1 .. N -> 1 .. N]
  /\ height \in [1 .. N -> Nat]
  /\ root \in [1 .. N -> 1 .. N]
  /\ \A i \in 1 .. N : parent[i] /= i => height[parent[i]] > height[i]
  /\ \A i \in 1 .. N : root[parent[i]] = root[i]
  /\ \A i \in 1 .. N : parent[i] = i => root[i] = i
  /\ \A i \in 1 .. N : parent[root[i]] = root[i]

\* Where a turn of the loop of find starts and ends.
Searches(N) == [node : 1 .. N, parent : [1 .. N -> 1 .. N]]

\* One turn of the loop.
Turn(last) ==
  LET up == last.parent[last.node]
  IN  IF up = last.node THEN last
      ELSE [node   |-> last.parent[up],
            parent |-> [last.parent EXCEPT ![last.node] = last.parent[up]]]

\* All turns of the loop from x on.
AreTurns(at, p, x, N) ==
  /\ at \in [0 .. N -> Searches(N)]
  /\ at[0] = [node |-> x, parent |-> p]
  /\ \A n \in 1 .. N : at[n] = Turn(at[n - 1])

(* A parent function is a list of as many nodes. *)
LEMMA ParentLength ==
  ASSUME NEW N \in Nat, NEW S, NEW p \in [1 .. N -> S]
  PROVE  Len(p) = N
<1>1. p \in Seq(S)
  BY SeqDef
<1>2. QED
  BY <1>1, LenProperties

(* A turn keeps to the nodes. *)
LEMMA TurnType ==
  ASSUME NEW N \in Nat, NEW last \in Searches(N)
  PROVE  Turn(last) \in Searches(N)
<1> DEFINE up == last.parent[last.node]
<1>1. up \in 1 .. N /\ last.parent[up] \in 1 .. N /\ last.parent \in [1 .. N -> 1 .. N]
  BY DEF Searches
<1>2. QED
  BY <1>1 DEF Turn, Searches

(* Find takes as many turns as there are nodes. *)
LEMMA FindTurns ==
  ASSUME NEW N \in Nat, NEW p \in [1 .. N -> 1 .. N], NEW x \in 1 .. N
  PROVE  \E at : AreTurns(at, p, x, N) /\ Find(p, x) = at[N]
<1> DEFINE S == Searches(N)
           base == [node |-> x, parent |-> p]
           step == [n \in 1 .. N |-> [s \in S |-> Turn(s)]]
           IsUpTo(f) == f = [n \in 0 .. N |-> IF n = 0 THEN base ELSE Turn(f[n - 1])]
           upTo == CHOOSE f : IsUpTo(f)
<1>1. base \in S
  BY DEF Searches
<1>2. step \in [1 .. N -> [S -> S]]
  <2>1. \A s \in S : Turn(s) \in S
    BY TurnType
  <2> HIDE DEF S
  <2>2. QED
    BY <2>1
<1>3. Find(p, x) = upTo[N]
  BY ParentLength DEF Find, Turn
<1>4. \A n \in 1 .. N : \A s \in S : step[n][s] = Turn(s)
  BY DEF step
<1> HIDE DEF S, base, step, upTo
<1>5. PICK f : IsIteration(f, N, S, base, step)
  BY <1>1, <1>2, Iteration
<1>6. \A n \in 1 .. N : n - 1 \in 0 .. N /\ n \in 0 .. N /\ n /= 0
  OBVIOUS
<1>7. IsUpTo(f)
  <2>1. \A n \in 0 .. N : n = 0 \/ n \in 1 .. N
    OBVIOUS
  <2>2. \A n \in 0 .. N : f[n] = IF n = 0 THEN base ELSE Turn(f[n - 1])
    BY <1>4, <1>5, <1>6, <2>1 DEF IsIteration
  <2>3. f = [n \in 0 .. N |-> f[n]]
    BY <1>5 DEF IsIteration
  <2>4. QED
    BY <2>2, <2>3
<1>8. IsUpTo(upTo)
  <2> HIDE DEF IsUpTo
  <2>1. QED
    BY <1>7 DEF upTo
<1>9. upTo[0] = base /\ \A n \in 1 .. N : upTo[n] = Turn(upTo[n - 1])
  BY <1>6, <1>8
<1>10. upTo \in [0 .. N -> S]
  <2> DEFINE T == {n \in Nat : n <= N => upTo[n] \in S}
  <2>1. 0 \in T
    BY <1>1, <1>9
  <2>2. ASSUME NEW n \in Nat, n \in T PROVE n + 1 \in T
    <3>1. SUFFICES ASSUME n + 1 <= N PROVE upTo[n + 1] \in S
      OBVIOUS
    <3>2. n + 1 \in 1 .. N /\ (n + 1) - 1 = n /\ upTo[n] \in S
      BY <2>2, <3>1
    <3>3. upTo[n + 1] = Turn(upTo[n])
      BY <1>9, <3>2
    <3>4. QED
      BY <3>2, <3>3, TurnType DEF S
  <2>3. Nat \subseteq T
    <3> HIDE DEF T
    <3>1. QED
      BY <2>1, <2>2, NatInd
  <2>4. \A n \in 0 .. N : upTo[n] \in S
    BY <2>3
  <2>5. upTo = [n \in 0 .. N |-> upTo[n]]
    BY <1>8
  <2>6. QED
    BY <2>4, <2>5
<1>11. QED
  BY <1>3, <1>9, <1>10 DEF base, S, AreTurns

(* Find keeps to the nodes. *)
LEMMA FindType ==
  ASSUME NEW N \in Nat, NEW p \in [1 .. N -> 1 .. N], NEW x \in 1 .. N
  PROVE  Find(p, x) \in Searches(N)
<1>1. PICK at : AreTurns(at, p, x, N) /\ Find(p, x) = at[N]
  BY FindTurns
<1>2. N \in 0 .. N
  OBVIOUS
<1>3. QED
  BY <1>1, <1>2 DEF AreTurns

(* Halving a path leads to the same root. *)
LEMMA Halves ==
  ASSUME NEW N \in Nat, NEW height, NEW root, NEW last \in Searches(N),
         Forest(last.parent, height, root, N), last.parent[last.node] /= last.node
  PROVE  /\ Forest(Turn(last).parent, height, root, N)
         /\ root[Turn(last).node] = root[last.node]
         /\ height[Turn(last).node] > height[last.node]
<1> DEFINE p == last.parent
           y == last.node
           z == p[p[y]]
           q == [p EXCEPT ![y] = z]
<1>1. /\ y \in 1 .. N /\ p \in [1 .. N -> 1 .. N] /\ p[y] \in 1 .. N /\ z \in 1 .. N
      /\ Turn(last) = [node |-> z, parent |-> q]
  BY DEF Searches, Turn
<1> HIDE DEF p, y
<1>2. /\ height \in [1 .. N -> Nat] /\ root \in [1 .. N -> 1 .. N]
      /\ \A i \in 1 .. N : p[i] /= i => height[p[i]] > height[i]
      /\ \A i \in 1 .. N : root[p[i]] = root[i]
      /\ \A i \in 1 .. N : p[i] = i => root[i] = i
      /\ \A i \in 1 .. N : p[root[i]] = root[i]
  BY DEF Forest, p
<1>3. p[y] /= y
  BY DEF p, y
<1>4. root[z] = root[y]
  BY <1>1, <1>2
<1>5. height[z] > height[y]
  <2>1. height[p[y]] > height[y] /\ (z = p[y] \/ height[z] > height[p[y]])
    BY <1>1, <1>2, <1>3
  <2>2. height[y] \in Nat /\ height[p[y]] \in Nat /\ height[z] \in Nat
    BY <1>1, <1>2
  <2>3. QED
    BY <2>1, <2>2
<1>6. z /= y
  BY <1>1, <1>2, <1>5
<1> HIDE DEF z
<1>7. q \in [1 .. N -> 1 .. N] /\ \A i \in 1 .. N : q[i] = IF i = y THEN z ELSE p[i]
  BY <1>1
<1> HIDE DEF q
<1>8. /\ \A i \in 1 .. N : q[i] /= i => height[q[i]] > height[i]
      /\ \A i \in 1 .. N : root[q[i]] = root[i]
      /\ \A i \in 1 .. N : q[i] = i => root[i] = i
      /\ \A i \in 1 .. N : q[root[i]] = root[i]
  <2>1. ASSUME NEW i \in 1 .. N
        PROVE  /\ q[i] /= i => height[q[i]] > height[i]
               /\ root[q[i]] = root[i]
               /\ q[i] = i => root[i] = i
    BY <1>2, <1>4, <1>5, <1>6, <1>7
  <2>2. ASSUME NEW i \in 1 .. N PROVE q[root[i]] = root[i]
    <3>1. root[i] \in 1 .. N /\ p[root[i]] = root[i] /\ root[i] /= y
      BY <1>2, <1>3
    <3>2. QED
      BY <1>7, <3>1
  <2>3. QED
    BY <2>1, <2>2
<1>9. Forest(q, height, root, N)
  BY <1>2, <1>7, <1>8 DEF Forest
<1>10. QED
  BY <1>1, <1>4, <1>5, <1>9 DEF y

(* Find finds the root, and leaves all nodes below theirs. *)
LEMMA FindGives ==
  ASSUME NEW N \in Nat, NEW p, NEW height, NEW root, Forest(p, height, root, N), NEW x \in 1 .. N
  PROVE  Find(p, x).node = root[x] /\ Forest(Find(p, x).parent, height, root, N)
<1> DEFINE Above(y) == {j \in 1 .. N : height[j] > height[y]}
<1>1. p \in [1 .. N -> 1 .. N] /\ root \in [1 .. N -> 1 .. N] /\ height \in [1 .. N -> Nat]
  BY DEF Forest
<1>2. PICK at : /\ at \in [0 .. N -> Searches(N)]
                /\ at[0] = [node |-> x, parent |-> p]
                /\ \A n \in 1 .. N : at[n] = Turn(at[n - 1])
                /\ Find(p, x) = at[N]
  <2>1. PICK at : AreTurns(at, p, x, N) /\ Find(p, x) = at[N]
    BY <1>1, FindTurns
  <2>2. QED
    BY <2>1 DEF AreTurns
<1>3. IsFiniteSet(1 .. N) /\ Cardinality(1 .. N) = N
  BY FS_Interval
<1>4. ASSUME NEW y \in 1 .. N
      PROVE  IsFiniteSet(Above(y)) /\ Cardinality(Above(y)) \in Nat /\ Cardinality(Above(y)) < N
  <2>1. Above(y) \subseteq 1 .. N /\ y \notin Above(y)
    BY <1>1
  <2> HIDE DEF Above
  <2>2. Above(y) /= 1 .. N
    BY <2>1
  <2>3. IsFiniteSet(Above(y)) /\ Cardinality(Above(y)) <= N /\ Cardinality(Above(y)) /= N
    BY <1>3, <2>1, <2>2, FS_Subset
  <2>4. QED
    BY <2>3, FS_CardinalityType
<1>5. ASSUME NEW y \in 1 .. N, NEW z \in 1 .. N, height[z] > height[y]
      PROVE  Cardinality(Above(z)) < Cardinality(Above(y))
  <2>1. \A j \in 1 .. N : height[j] \in Nat
    BY <1>1
  <2>2. \A j \in 1 .. N : height[j] > height[z] => height[j] > height[y]
    BY <1>5, <2>1
  <2>3. Above(z) \subseteq Above(y) /\ z \in Above(y) /\ z \notin Above(z)
    BY <1>5, <2>1, <2>2
  <2> HIDE DEF Above
  <2>4. /\ Cardinality(Above(z)) <= Cardinality(Above(y))
        /\ Cardinality(Above(z)) /= Cardinality(Above(y))
    BY <1>4, <2>3, FS_Subset
  <2>5. Cardinality(Above(z)) \in Nat /\ Cardinality(Above(y)) \in Nat
    BY <1>4
  <2>6. QED
    BY <2>4, <2>5
<1> HIDE DEF Above
<1> DEFINE Gives(s, n) == /\ Forest(s.parent, height, root, N)
                          /\ root[s.node] = root[x]
                          /\ s.parent[s.node] = s.node \/ Cardinality(Above(s.node)) + n < N
           T == {n \in Nat : n <= N => Gives(at[n], n)}
<1>6. 0 \in T
  <2>1. Cardinality(Above(x)) + 0 < N
    BY <1>4
  <2>2. at[0].node = x /\ at[0].parent = p
    BY <1>2
  <2>3. QED
    BY <2>1, <2>2
<1>7. ASSUME NEW n \in Nat, n \in T PROVE n + 1 \in T
  <2>1. SUFFICES ASSUME n + 1 <= N PROVE Gives(at[n + 1], n + 1)
    OBVIOUS
  <2>2. n \in 0 .. N /\ n + 1 \in 1 .. N /\ (n + 1) - 1 = n /\ n + 1 \in 0 .. N
    BY <2>1
  <2>3. Gives(at[n], n) /\ at[n] \in Searches(N) /\ at[n + 1] = Turn(at[n]) /\ at[n + 1] \in Searches(N)
    BY <1>2, <1>7, <2>1, <2>2
  <2>4. CASE at[n].parent[at[n].node] = at[n].node
    <3>1. at[n + 1] = at[n]
      BY <2>3, <2>4 DEF Turn
    <3>2. QED
      BY <2>3, <2>4, <3>1
  <2>5. CASE at[n].parent[at[n].node] /= at[n].node
    <3>1. /\ Forest(at[n + 1].parent, height, root, N)
          /\ root[at[n + 1].node] = root[at[n].node]
          /\ height[at[n + 1].node] > height[at[n].node]
      BY <2>3, <2>5, Halves
    <3>2. at[n].node \in 1 .. N /\ at[n + 1].node \in 1 .. N
      BY <2>3 DEF Searches
    <3>3. Cardinality(Above(at[n + 1].node)) < Cardinality(Above(at[n].node))
      BY <1>5, <3>1, <3>2
    <3>4. /\ Cardinality(Above(at[n + 1].node)) \in Nat /\ Cardinality(Above(at[n].node)) \in Nat
          /\ Cardinality(Above(at[n].node)) + n < N
      BY <1>4, <2>3, <2>5, <3>2
    <3>5. Cardinality(Above(at[n + 1].node)) + (n + 1) < N
      BY <3>3, <3>4
    <3>6. QED
      BY <2>3, <3>1, <3>5
  <2>6. QED
    BY <2>4, <2>5
<1>8. Gives(at[N], N)
  <2>1. Nat \subseteq T
    <3> HIDE DEF T
    <3>1. QED
      BY <1>6, <1>7, NatInd
  <2>2. QED
    BY <2>1
<1>9. at[N] \in Searches(N) /\ at[N].node \in 1 .. N
  <2>1. N \in 0 .. N
    OBVIOUS
  <2>2. at[N] \in Searches(N)
    BY <1>2, <2>1
  <2>3. QED
    BY <2>2 DEF Searches
<1>10. at[N].parent[at[N].node] = at[N].node
  BY <1>4, <1>8, <1>9
<1>11. root[at[N].node] = at[N].node
  BY <1>8, <1>9, <1>10 DEF Forest
<1>12. QED
  BY <1>2, <1>8, <1>11

\* The roots when those above two nodes are joined.
Merged(root, a, b) == [i \in DOMAIN root |-> IF root[i] = root[a] THEN root[b] ELSE root[i]]

(* Union joins what is below two roots, and nothing else. *)
LEMMA UnionGives ==
  ASSUME NEW N \in Nat, NEW p, NEW height, NEW root, Forest(p, height, root, N),
         NEW a \in 1 .. N, NEW b \in 1 .. N
  PROVE  \E higher : Forest(Union(p, a, b), higher, Merged(root, a, b), N)
<1> DEFINE fa == Find(p, a)
           fb == Find(fa.parent, b)
           q == fb.parent
           ra == root[a]
           rb == root[b]
           r == Merged(root, a, b)
<1>1. fa.node = ra /\ Forest(fa.parent, height, root, N)
  BY FindGives
<1> HIDE DEF fa
<1>2. fb.node = rb /\ Forest(q, height, root, N)
  BY <1>1, FindGives
<1>3. Union(p, a, b) = IF ra = rb THEN q ELSE [q EXCEPT ![ra] = rb]
  BY <1>1, <1>2 DEF Union, fa
<1> HIDE DEF fb, q
<1>4. /\ q \in [1 .. N -> 1 .. N] /\ height \in [1 .. N -> Nat] /\ root \in [1 .. N -> 1 .. N]
      /\ \A i \in 1 .. N : q[i] /= i => height[q[i]] > height[i]
      /\ \A i \in 1 .. N : root[q[i]] = root[i]
      /\ \A i \in 1 .. N : q[i] = i => root[i] = i
      /\ \A i \in 1 .. N : q[root[i]] = root[i]
  BY <1>2 DEF Forest
<1>5. ra \in 1 .. N /\ rb \in 1 .. N /\ root[ra] = ra /\ root[rb] = rb
  BY <1>4
<1>6. /\ r \in [1 .. N -> 1 .. N]
      /\ \A i \in 1 .. N : r[i] = IF root[i] = ra THEN rb ELSE root[i]
  BY <1>4, <1>5 DEF Merged
<1>7. CASE ra = rb
  <2>1. r = root
    <3>1. \A i \in 1 .. N : r[i] = root[i]
      BY <1>6, <1>7
    <3> HIDE DEF r
    <3>2. QED
      BY <1>4, <1>6, <3>1
  <2>2. QED
    BY <1>2, <1>3, <1>7, <2>1
<1>8. CASE ra /= rb
  <2> DEFINE u == [q EXCEPT ![ra] = rb]
             higher == [i \in 1 .. N |-> IF root[i] = rb THEN height[i] + height[ra] + 1 ELSE height[i]]
  <2> HIDE DEF r, ra, rb
  <2>1. u \in [1 .. N -> 1 .. N] /\ \A i \in 1 .. N : u[i] = IF i = ra THEN rb ELSE q[i]
    BY <1>4, <1>5
  <2>2. /\ higher \in [1 .. N -> Nat]
        /\ \A i \in 1 .. N : higher[i] = IF root[i] = rb THEN height[i] + height[ra] + 1 ELSE height[i]
    <3>1. \A i \in 1 .. N : height[i] \in Nat /\ height[i] + height[ra] + 1 \in Nat
      BY <1>4, <1>5
    <3>2. QED
      BY <3>1
  <2>3. \A i \in 1 .. N : height[i] \in Nat
    BY <1>4
  <2> HIDE DEF u, higher
  <2>4. ASSUME NEW i \in 1 .. N, u[i] /= i PROVE higher[u[i]] > higher[i]
    <3>1. CASE i = ra
      <4>1. /\ u[i] = rb /\ higher[rb] = height[rb] + height[ra] + 1
            /\ higher[i] = height[ra]
        BY <1>5, <1>8, <2>1, <2>2, <3>1
      <4>2. height[rb] \in Nat /\ height[ra] \in Nat
        BY <1>5, <2>3
      <4>3. QED
        BY <4>1, <4>2
    <3>2. CASE i /= ra
      <4>1. u[i] = q[i] /\ height[q[i]] > height[i] /\ root[q[i]] = root[i] /\ q[i] \in 1 .. N
        BY <1>4, <2>1, <2>4, <3>2
      <4>2. height[q[i]] \in Nat /\ height[i] \in Nat /\ height[ra] \in Nat
        BY <1>5, <2>3, <4>1
      <4>3. CASE root[i] = rb
        <5>1. /\ higher[u[i]] = height[q[i]] + height[ra] + 1
              /\ higher[i] = height[i] + height[ra] + 1
          BY <2>2, <4>1, <4>3
        <5>2. QED
          BY <4>1, <4>2, <5>1
      <4>4. CASE root[i] /= rb
        <5>1. higher[u[i]] = height[q[i]] /\ higher[i] = height[i]
          BY <2>2, <4>1, <4>4
        <5>2. QED
          BY <4>1, <5>1
      <4>5. QED
        BY <4>3, <4>4
    <3>3. QED
      BY <3>1, <3>2
  <2>5. ASSUME NEW i \in 1 .. N PROVE r[u[i]] = r[i]
    BY <1>4, <1>5, <1>6, <1>8, <2>1
  <2>6. ASSUME NEW i \in 1 .. N, u[i] = i PROVE r[i] = i
    BY <1>4, <1>5, <1>6, <1>8, <2>1, <2>6
  <2>7. ASSUME NEW i \in 1 .. N PROVE u[r[i]] = r[i]
    <3>1. CASE root[i] = ra
      <4>1. r[i] = rb /\ q[rb] = rb /\ u[rb] = q[rb]
        BY <1>4, <1>5, <1>6, <1>8, <2>1, <3>1 DEF rb
      <4>2. QED
        BY <4>1
    <3>2. CASE root[i] /= ra
      <4>1. r[i] = root[i] /\ root[i] \in 1 .. N /\ q[root[i]] = root[i] /\ u[root[i]] = q[root[i]]
        BY <1>4, <1>6, <2>1, <3>2
      <4>2. QED
        BY <4>1
    <3>3. QED
      BY <3>1, <3>2
  <2>8. Forest(u, higher, r, N)
    BY <1>6, <2>1, <2>2, <2>4, <2>5, <2>6, <2>7 DEF Forest
  <2>9. QED
    BY <1>3, <1>8, <2>8 DEF u, r
<1>9. QED
  BY <1>7, <1>8

\* A turn of the loop that counts the roots.
Counting(N) ==
  [n \in 1 .. N |->
     [s \in [roots : SUBSET (1 .. N), parent : [1 .. N -> 1 .. N]] |->
        [roots  |-> s.roots \cup {Find(s.parent, n).node},
         parent |-> Find(s.parent, n).parent]]]

(* The number of components is the number of roots. *)
LEMMA CountGives ==
  ASSUME NEW N \in Nat, NEW p, NEW height, NEW root, Forest(p, height, root, N)
  PROVE  ComponentCount(p) = Cardinality({root[i] : i \in 1 .. N})
<1> DEFINE S == [roots : SUBSET (1 .. N), parent : [1 .. N -> 1 .. N]]
           base == [roots |-> {}, parent |-> p]
           more(s, n) == [roots  |-> s.roots \cup {Find(s.parent, n).node},
                          parent |-> Find(s.parent, n).parent]
           step == Counting(N)
           IsUpTo(f) == f = [n \in 0 .. N |-> IF n = 0 THEN base ELSE more(f[n - 1], n)]
           upTo == CHOOSE f : IsUpTo(f)
<1>1. p \in [1 .. N -> 1 .. N] /\ root \in [1 .. N -> 1 .. N] /\ base \in S
  BY DEF Forest
<1>2. \A n \in 1 .. N : \A s \in S : more(s, n) \in S
  <2>1. SUFFICES ASSUME NEW n \in 1 .. N, NEW s \in S PROVE more(s, n) \in S
    OBVIOUS
  <2>2. s.parent \in [1 .. N -> 1 .. N] /\ s.roots \in SUBSET (1 .. N)
    OBVIOUS
  <2>3. Find(s.parent, n) \in Searches(N)
    BY <2>2, FindType
  <2>4. Find(s.parent, n).node \in 1 .. N /\ Find(s.parent, n).parent \in [1 .. N -> 1 .. N]
    BY <2>3 DEF Searches
  <2>5. QED
    BY <2>2, <2>4
<1>3. step \in [1 .. N -> [S -> S]] /\ \A n \in 1 .. N : \A s \in S : step[n][s] = more(s, n)
  <2>1. step = [n \in 1 .. N |-> [s \in S |-> more(s, n)]]
    BY DEF Counting
  <2> HIDE DEF step, S, more
  <2>2. QED
    BY <1>2, <2>1
<1>4. ComponentCount(p) = Cardinality(upTo[N].roots)
  <2>1. Len(p) = N
    BY <1>1, ParentLength
  <2>2. QED
    BY <2>1 DEF ComponentCount
<1> HIDE DEF S, base, step, upTo, more
<1>5. PICK f : IsIteration(f, N, S, base, step)
  BY <1>1, <1>3, Iteration
<1>6. \A n \in 1 .. N : n - 1 \in 0 .. N /\ n \in 0 .. N /\ n /= 0
  OBVIOUS
<1>7. IsUpTo(f)
  <2>1. \A n \in 0 .. N : n = 0 \/ n \in 1 .. N
    OBVIOUS
  <2>2. \A n \in 0 .. N : f[n] = IF n = 0 THEN base ELSE more(f[n - 1], n)
    BY <1>3, <1>5, <1>6, <2>1 DEF IsIteration
  <2>3. f = [n \in 0 .. N |-> f[n]]
    BY <1>5 DEF IsIteration
  <2>4. QED
    BY <2>2, <2>3
<1>8. IsUpTo(upTo)
  <2> HIDE DEF IsUpTo
  <2>1. QED
    BY <1>7 DEF upTo
<1>9. upTo[0] = base /\ \A n \in 1 .. N : upTo[n] = more(upTo[n - 1], n)
  BY <1>6, <1>8
<1> DEFINE Above(n) == {root[i] : i \in 1 .. n}
           T == {n \in Nat : n <= N => Forest(upTo[n].parent, height, root, N) /\ upTo[n].roots = Above(n)}
<1>10. 0 \in T
  <2>1. Above(0) = {}
    OBVIOUS
  <2>2. QED
    BY <1>9, <2>1 DEF base
<1>11. ASSUME NEW n \in Nat, n \in T PROVE n + 1 \in T
  <2>1. SUFFICES ASSUME n + 1 <= N
                 PROVE  Forest(upTo[n + 1].parent, height, root, N) /\ upTo[n + 1].roots = Above(n + 1)
    OBVIOUS
  <2>2. n + 1 \in 1 .. N /\ (n + 1) - 1 = n
    BY <2>1
  <2>3. Forest(upTo[n].parent, height, root, N) /\ upTo[n].roots = Above(n)
    BY <1>11, <2>1
  <2>4. upTo[n + 1] = more(upTo[n], n + 1)
    BY <1>9, <2>2
  <2>5. /\ Find(upTo[n].parent, n + 1).node = root[n + 1]
        /\ Forest(Find(upTo[n].parent, n + 1).parent, height, root, N)
    BY <2>2, <2>3, FindGives
  <2>6. 1 .. n + 1 = (1 .. n) \cup {n + 1}
    OBVIOUS
  <2>7. Above(n + 1) = Above(n) \cup {root[n + 1]}
    BY <2>6
  <2>8. QED
    BY <2>3, <2>4, <2>5, <2>7 DEF more
<1>12. Nat \subseteq T
  <2> HIDE DEF T
  <2>1. QED
    BY <1>10, <1>11, NatInd
<1>13. upTo[N].roots = Above(N)
  BY <1>12
<1>14. QED
  BY <1>4, <1>13

\* A track joins two nodes, and is between them.
Joins(t, nodes) == NodesAt(t.from, nodes) /= {} /\ NodesAt(t.to, nodes) /= {}

\* No track joins a node of the set to another.
Respects(C, tracks, nodes, n) ==
  \A m \in 1 .. n : Joins(tracks[m], nodes) =>
    (NodeAt(tracks[m].from, nodes) \in C <=> NodeAt(tracks[m].to, nodes) \in C)

\* The roots tell which nodes the first n tracks join.
Connects(root, tracks, nodes, n) ==
  /\ \A m \in 1 .. n : Joins(tracks[m], nodes) =>
       root[NodeAt(tracks[m].from, nodes)] = root[NodeAt(tracks[m].to, nodes)]
  /\ \A C \in SUBSET (DOMAIN root) : Respects(C, tracks, nodes, n) =>
       \A i \in DOMAIN root : root[i] \in C <=> i \in C

\* So the parents do.
Follows(parent, tracks, nodes, n, N) ==
  \E height, root : Forest(parent, height, root, N) /\ Connects(root, tracks, nodes, n)

(* The first node at a point is one of those at it. *)
LEMMA NodeAtFacts ==
  ASSUME NEW N \in Nat, NEW nodes, DOMAIN nodes = 1 .. N, NEW point, NodesAt(point, nodes) /= {}
  PROVE  NodeAt(point, nodes) \in 1 .. N /\ Centre(nodes[NodeAt(point, nodes)]) = point
<1> DEFINE at == NodesAt(point, nodes)
<1>1. at \in SUBSET Nat /\ at /= {}
  BY DEF NodesAt
<1>2. at \subseteq 1 .. N /\ \A i \in at : Centre(nodes[i]) = point
  BY DEF NodesAt
<1> HIDE DEF at
<1>3. \E x \in at : \A y \in at : x <= y
  BY <1>1, LeastNat
<1>4. Min(at) \in at
  BY <1>3 DEF Min
<1>5. QED
  BY <1>2, <1>4 DEF NodeAt, at

(* One more track joins two nodes more. *)
LEMMA ConnectsMore ==
  ASSUME NEW N \in Nat, NEW nodes, DOMAIN nodes = 1 .. N, NEW tracks, NEW n \in Nat,
         NEW root \in [1 .. N -> 1 .. N], Connects(root, tracks, nodes, n),
         Joins(tracks[n + 1], nodes)
  PROVE  Connects(Merged(root, NodeAt(tracks[n + 1].from, nodes), NodeAt(tracks[n + 1].to, nodes)),
                  tracks, nodes, n + 1)
<1> DEFINE From(m) == NodeAt(tracks[m].from, nodes)
           To(m) == NodeAt(tracks[m].to, nodes)
           a == From(n + 1)
           b == To(n + 1)
           r == Merged(root, a, b)
<1>1. \A m : Joins(tracks[m], nodes) => From(m) \in 1 .. N /\ To(m) \in 1 .. N
  BY NodeAtFacts DEF Joins
<1>2. a \in 1 .. N /\ b \in 1 .. N
  BY <1>1
<1> HIDE DEF a, b
<1>3. r \in [1 .. N -> 1 .. N] /\ \A i \in 1 .. N : r[i] = IF root[i] = root[a] THEN root[b] ELSE root[i]
  BY <1>2 DEF Merged
<1>4. \A m \in 1 .. n : Joins(tracks[m], nodes) => root[From(m)] = root[To(m)]
  BY DEF Connects
<1>5. \A C \in SUBSET (1 .. N) : Respects(C, tracks, nodes, n) => \A i \in 1 .. N : root[i] \in C <=> i \in C
  BY DEF Connects
<1>6. \A m \in 1 .. n + 1 : m = n + 1 \/ m \in 1 .. n
  OBVIOUS
<1>7. \A m \in 1 .. n : m \in 1 .. n + 1
  OBVIOUS
<1>8. r[a] = root[b] /\ r[b] = root[b]
  BY <1>2, <1>3
<1> HIDE DEF From, To, r
<1>9. ASSUME NEW m \in 1 .. n + 1, Joins(tracks[m], nodes) PROVE r[From(m)] = r[To(m)]
  <2>1. CASE m = n + 1
    BY <1>8, <2>1 DEF a, b
  <2>2. CASE m \in 1 .. n
    BY <1>1, <1>3, <1>4, <1>9, <2>2
  <2>3. QED
    BY <1>6, <2>1, <2>2
<1>10. ASSUME NEW C \in SUBSET (1 .. N), Respects(C, tracks, nodes, n + 1), NEW i \in 1 .. N
       PROVE  r[i] \in C <=> i \in C
  <2>1. Respects(C, tracks, nodes, n)
    BY <1>7, <1>10 DEF Respects
  <2>2. \A j \in 1 .. N : root[j] \in C <=> j \in C
    BY <1>5, <2>1
  <2>3. a \in C <=> b \in C
    BY <1>10 DEF Respects, a, b, From, To
  <2>4. QED
    BY <1>2, <1>3, <2>2, <2>3
<1>11. Connects(r, tracks, nodes, n + 1)
  BY <1>3, <1>9, <1>10 DEF Connects, From, To
<1>12. QED
  BY <1>11 DEF r, a, b, From, To

\* A turn of the loop over the tracks.
Joining(tracks, nodes, N) ==
  [n \in 1 .. Len(tracks) |->
     [s \in [1 .. N -> 1 .. N] |->
        IF NodesAt(tracks[n].from, nodes) = {} \/ NodesAt(tracks[n].to, nodes) = {} THEN s
        ELSE Union(s, NodeAt(tracks[n].from, nodes), NodeAt(tracks[n].to, nodes))]]

(* Union keeps to the nodes. *)
LEMMA UnionType ==
  ASSUME NEW N \in Nat, NEW p \in [1 .. N -> 1 .. N], NEW a \in 1 .. N, NEW b \in 1 .. N
  PROVE  Union(p, a, b) \in [1 .. N -> 1 .. N]
<1>1. Find(p, a) \in Searches(N)
  BY FindType
<1>2. Find(p, a).parent \in [1 .. N -> 1 .. N] /\ Find(p, a).node \in 1 .. N
  BY <1>1 DEF Searches
<1>3. Find(Find(p, a).parent, b) \in Searches(N)
  BY <1>2, FindType
<1>4. /\ Find(Find(p, a).parent, b).parent \in [1 .. N -> 1 .. N]
      /\ Find(Find(p, a).parent, b).node \in 1 .. N
  BY <1>3 DEF Searches
<1>5. QED
  BY <1>2, <1>4 DEF Union

(* The tracks join what they connect. *)
LEMMA JoinedGives ==
  ASSUME NEW N \in Nat, NEW nodes, IsList(nodes), Len(nodes) = N, NEW tracks, IsList(tracks)
  PROVE  Follows(Joined(tracks, nodes), tracks, nodes, Len(tracks), N)
<1> DEFINE S == [1 .. N -> 1 .. N]
           M == Len(tracks)
           base == [i \in 1 .. N |-> i]
           more(s, n) ==
             IF NodesAt(tracks[n].from, nodes) = {} \/ NodesAt(tracks[n].to, nodes) = {} THEN s
             ELSE Union(s, NodeAt(tracks[n].from, nodes), NodeAt(tracks[n].to, nodes))
           step == Joining(tracks, nodes, N)
           IsUpTo(f) == f = [n \in 0 .. M |-> IF n = 0 THEN base ELSE more(f[n - 1], n)]
           upTo == CHOOSE f : IsUpTo(f)
<1>1. M \in Nat /\ DOMAIN nodes = 1 .. N
  BY ListOfSeq DEF IsList
<1>2. \A n \in 1 .. M : \A s \in S : more(s, n) \in S
  BY <1>1, NodeAtFacts, UnionType
<1>3. step \in [1 .. M -> [S -> S]] /\ \A n \in 1 .. M : \A s \in S : step[n][s] = more(s, n)
  <2>1. step = [n \in 1 .. M |-> [s \in S |-> more(s, n)]]
    BY DEF Joining
  <2> HIDE DEF step, S, more
  <2>2. QED
    BY <1>2, <2>1
<1>4. Joined(tracks, nodes) = upTo[M]
  BY <1>1 DEF Joined
<1>5. base \in S
  OBVIOUS
<1> HIDE DEF S, M, step, upTo, more, base
<1>6. PICK f : IsIteration(f, M, S, base, step)
  BY <1>1, <1>3, <1>5, Iteration
<1>7. \A n \in 1 .. M : n - 1 \in 0 .. M /\ n \in 0 .. M /\ n /= 0
  BY <1>1
<1>8. IsUpTo(f)
  <2>1. \A n \in 0 .. M : n = 0 \/ n \in 1 .. M
    BY <1>1
  <2>2. \A n \in 0 .. M : f[n] = IF n = 0 THEN base ELSE more(f[n - 1], n)
    BY <1>3, <1>6, <1>7, <2>1 DEF IsIteration
  <2>3. f = [n \in 0 .. M |-> f[n]]
    BY <1>6 DEF IsIteration
  <2>4. QED
    BY <2>2, <2>3
<1>9. IsUpTo(upTo)
  <2> HIDE DEF IsUpTo
  <2>1. QED
    BY <1>8 DEF upTo
<1>10. upTo[0] = base /\ \A n \in 1 .. M : upTo[n] = more(upTo[n - 1], n)
  <2>1. 0 \in 0 .. M
    BY <1>1
  <2>2. QED
    BY <1>7, <1>9, <2>1
<1> DEFINE T == {n \in Nat : n <= M => Follows(upTo[n], tracks, nodes, n, N)}
<1>11. 0 \in T
  <2> DEFINE height == [i \in 1 .. N |-> 0]
  <2>1. Forest(base, height, base, N)
    BY DEF Forest, base
  <2>2. Connects(base, tracks, nodes, 0)
    BY DEF Connects, base
  <2>3. QED
    BY <1>10, <2>1, <2>2 DEF Follows
<1>12. ASSUME NEW n \in Nat, n \in T PROVE n + 1 \in T
  <2>1. SUFFICES ASSUME n + 1 <= M PROVE Follows(upTo[n + 1], tracks, nodes, n + 1, N)
    OBVIOUS
  <2>2. n + 1 \in 1 .. M /\ (n + 1) - 1 = n /\ n <= M
    BY <1>1, <2>1
  <2>3. Follows(upTo[n], tracks, nodes, n, N)
    BY <1>12, <2>2
  <2>4. PICK height, root : Forest(upTo[n], height, root, N) /\ Connects(root, tracks, nodes, n)
    BY <2>3 DEF Follows
  <2>5. upTo[n + 1] = more(upTo[n], n + 1)
    BY <1>10, <2>2
  <2>6. root \in [1 .. N -> 1 .. N]
    BY <2>4 DEF Forest
  <2>7. CASE Joins(tracks[n + 1], nodes)
    <3> DEFINE a == NodeAt(tracks[n + 1].from, nodes)
               b == NodeAt(tracks[n + 1].to, nodes)
    <3>1. a \in 1 .. N /\ b \in 1 .. N
      BY <1>1, <2>7, NodeAtFacts DEF Joins
    <3>2. Connects(Merged(root, a, b), tracks, nodes, n + 1)
      BY <1>1, <2>4, <2>6, <2>7, ConnectsMore
    <3>3. upTo[n + 1] = Union(upTo[n], a, b)
      BY <2>5, <2>7 DEF more, Joins
    <3> HIDE DEF a, b
    <3>4. PICK higher : Forest(Union(upTo[n], a, b), higher, Merged(root, a, b), N)
      BY <2>4, <3>1, UnionGives
    <3>5. QED
      BY <3>2, <3>3, <3>4 DEF Follows
  <2>8. CASE ~Joins(tracks[n + 1], nodes)
    <3>1. upTo[n + 1] = upTo[n]
      BY <2>5, <2>8 DEF more, Joins
    <3>2. \A m \in 1 .. n + 1 : m = n + 1 \/ m \in 1 .. n
      OBVIOUS
    <3>3. \A m \in 1 .. n : m \in 1 .. n + 1
      OBVIOUS
    <3>4. Connects(root, tracks, nodes, n + 1)
      BY <2>4, <2>8, <3>2, <3>3 DEF Connects, Respects
    <3>5. QED
      BY <2>4, <3>1, <3>4 DEF Follows
  <2>9. QED
    BY <2>7, <2>8
<1>13. Nat \subseteq T
  <2> HIDE DEF T
  <2>1. QED
    BY <1>11, <1>12, NatInd
<1>14. Follows(upTo[M], tracks, nodes, M, N)
  BY <1>1, <1>13
<1>15. QED
  BY <1>4, <1>14 DEF M

\* Some of the nodes, which no track joins to the others.
IsIsland(C, tracks, nodes) ==
  /\ C \subseteq DOMAIN nodes /\ C /= {} /\ C /= DOMAIN nodes
  /\ Respects(C, tracks, nodes, Len(tracks))

(* Several roots are more than one. *)
LEMMA MoreThanOne ==
  ASSUME NEW N \in Nat, NEW root \in [1 .. N -> 1 .. N]
  PROVE  Cardinality({root[i] : i \in 1 .. N}) > 1 <=>
           \E i, j \in 1 .. N : root[i] /= root[j]
<1> DEFINE R == {root[i] : i \in 1 .. N}
<1>1. IsFiniteSet(R) /\ Cardinality(R) \in Nat
  <2>1. R \subseteq 1 .. N
    OBVIOUS
  <2> HIDE DEF R
  <2>2. IsFiniteSet(1 .. N)
    BY FS_Interval
  <2>3. IsFiniteSet(R)
    BY <2>1, <2>2, FS_Subset
  <2>4. QED
    BY <2>3, FS_CardinalityType
<1>2. ASSUME NEW i \in 1 .. N, NEW j \in 1 .. N, root[i] /= root[j] PROVE Cardinality(R) > 1
  <2> DEFINE D == {root[i], root[j]}
  <2>1. D \subseteq R
    OBVIOUS
  <2>2. Cardinality(D) = 2 /\ IsFiniteSet(D)
    <3>1. IsFiniteSet({root[i]}) /\ Cardinality({root[i]}) = 1
      BY FS_Singleton
    <3>2. D = {root[i]} \cup {root[j]} /\ root[j] \notin {root[i]}
      BY <1>2
    <3>3. IsFiniteSet({root[i]} \cup {root[j]}) /\ Cardinality({root[i]} \cup {root[j]}) = 1 + 1
      BY <3>1, <3>2, FS_AddElement
    <3> HIDE DEF D
    <3>4. QED
      BY <3>2, <3>3
  <2> HIDE DEF D, R
  <2>3. Cardinality(D) <= Cardinality(R)
    BY <1>1, <2>1, FS_Subset
  <2>4. QED
    BY <1>1, <2>2, <2>3
<1>3. ASSUME Cardinality(R) > 1 PROVE \E i, j \in 1 .. N : root[i] /= root[j]
  <2>1. SUFFICES ASSUME \A i, j \in 1 .. N : root[i] = root[j] PROVE FALSE
    OBVIOUS
  <2>2. R /= {}
    <3> HIDE DEF R
    <3>1. R = {} => Cardinality(R) = 0
      BY FS_EmptySet
    <3>2. QED
      BY <1>3, <3>1
  <2>3. PICK x \in R : TRUE
    BY <2>2
  <2>4. R = {x}
    BY <2>1, <2>3
  <2> HIDE DEF R
  <2>5. Cardinality(R) = 1
    BY <2>4, FS_Singleton
  <2>6. QED
    BY <1>3, <2>5
<1>4. QED
  BY <1>2, <1>3

(* A net is open if some of its nodes are an island. *)
LEMMA OpenIsIsland ==
  ASSUME NEW nodes, IsList(nodes), NEW tracks, IsList(tracks)
  PROVE  IsOpen(tracks, nodes) <=> tracks /= <<>> /\ \E C : IsIsland(C, tracks, nodes)
<1> DEFINE N == Len(nodes)
<1>1. N \in Nat /\ DOMAIN nodes = 1 .. N
  BY ListOfSeq DEF IsList
<1>2. Follows(Joined(tracks, nodes), tracks, nodes, Len(tracks), N)
  BY <1>1, JoinedGives
<1>3. PICK height, root : /\ Forest(Joined(tracks, nodes), height, root, N)
                          /\ Connects(root, tracks, nodes, Len(tracks))
  BY <1>2 DEF Follows
<1>4. root \in [1 .. N -> 1 .. N]
  BY <1>3 DEF Forest
<1>5. ComponentCount(Joined(tracks, nodes)) = Cardinality({root[i] : i \in 1 .. N})
  BY <1>1, <1>3, CountGives
<1>6. ComponentCount(Joined(tracks, nodes)) > 1 <=> \E i, j \in 1 .. N : root[i] /= root[j]
  BY <1>1, <1>4, <1>5, MoreThanOne
<1>7. ASSUME NEW i \in 1 .. N, NEW j \in 1 .. N, root[i] /= root[j]
      PROVE  N >= 2 /\ \E C : IsIsland(C, tracks, nodes)
  <2> DEFINE C == {k \in 1 .. N : root[k] = root[i]}
  <2>1. C \subseteq 1 .. N /\ i \in C /\ j \notin C
    BY <1>7
  <2>2. Respects(C, tracks, nodes, Len(tracks))
    <3>1. ASSUME NEW m \in 1 .. Len(tracks), Joins(tracks[m], nodes)
          PROVE  NodeAt(tracks[m].from, nodes) \in C <=> NodeAt(tracks[m].to, nodes) \in C
      <4>1. root[NodeAt(tracks[m].from, nodes)] = root[NodeAt(tracks[m].to, nodes)]
        BY <1>3, <3>1 DEF Connects
      <4>2. NodeAt(tracks[m].from, nodes) \in 1 .. N /\ NodeAt(tracks[m].to, nodes) \in 1 .. N
        BY <1>1, <3>1, NodeAtFacts DEF Joins
      <4>3. QED
        BY <4>1, <4>2
    <3> HIDE DEF C
    <3>2. QED
      BY <3>1 DEF Respects
  <2>3. N >= 2
    BY <1>1, <1>7
  <2> HIDE DEF C
  <2>4. QED
    BY <1>1, <2>1, <2>2, <2>3 DEF IsIsland
<1>8. ASSUME NEW C, IsIsland(C, tracks, nodes)
      PROVE  N >= 2 /\ \E i, j \in 1 .. N : root[i] /= root[j]
  <2>1. C \subseteq 1 .. N /\ Respects(C, tracks, nodes, Len(tracks))
    BY <1>1, <1>8 DEF IsIsland
  <2>2. PICK i \in 1 .. N, j \in 1 .. N : i \in C /\ j \notin C
    BY <1>1, <1>8 DEF IsIsland
  <2>3. root[i] \in C /\ root[j] \notin C
    <3>1. DOMAIN root = 1 .. N
      BY <1>4
    <3>2. QED
      BY <1>3, <2>1, <2>2, <3>1 DEF Connects
  <2>4. i /= j
    BY <2>2
  <2>5. QED
    BY <1>1, <2>3, <2>4
<1>9. QED
  BY <1>6, <1>7, <1>8 DEF IsOpen
=============================================================================
