--------------------------- MODULE SequenceFacts ---------------------------
(***************************************************************************)
(* Induction, in the form that the proofs of this project use: over a set     *)
(* given by what its members satisfy, so that every fact is of first order.   *)
(* An event log is a sequence, and what replay, the engine and the phases make *)
(* of one is shown one element after another.                                 *)
(***************************************************************************)
EXTENDS Naturals, Integers, Sequences, FiniteSetTheorems, SequenceTheorems,
        WellFoundedInduction, SequencesExt, TLAPS

-----------------------------------------------------------------------------
(* Natural numbers *)

(* A set of numbers that is not empty has a least member: the intervals below  *)
(* the members are finite sets, and strict inclusion is well founded on those. *)
LEMMA LeastNat ==
  ASSUME NEW T \in SUBSET Nat, T # {}
  PROVE  \E x \in T : \A y \in T : x <= y
<1> DEFINE R == StrictSubsetOrdering(Nat)
           S == FiniteSubsetsOf(Nat)
           U == {1 .. n : n \in T}
<1>1. IsWellFoundedOn(R, S)
  BY FS_StrictSubsetOrderingWellFounded
<1>2. U \subseteq S /\ U # {}
  <2>1. \A n \in T : 1 .. n \in S
    BY FS_Interval DEF FiniteSubsetsOf
  <2>2. QED
    BY <2>1
<1>3. \E x \in U : \A y \in U : ~(<<y, x>> \in R)
  <2> HIDE DEF R, S, U
  <2>1. QED
    BY <1>1, <1>2, WFMin
<1>4. PICK n \in T : \A m \in T : ~(<<1 .. m, 1 .. n>> \in R)
  BY <1>3
<1>5. ASSUME NEW m \in T, m < n PROVE FALSE
  <2>1. /\ 1 .. m \in SUBSET Nat /\ 1 .. n \in SUBSET Nat
        /\ 1 .. m \subseteq 1 .. n /\ n \in 1 .. n /\ n \notin 1 .. m
    BY <1>5
  <2>2. <<1 .. m, 1 .. n>> \in R
    BY <2>1 DEF StrictSubsetOrdering
  <2>3. QED
    BY <1>4, <2>2
<1>6. QED
  BY <1>5

(* A set that has 0, and with a number its successor, has every number.       *)
LEMMA NatInd ==
  ASSUME NEW T, 0 \in T, \A n \in Nat : n \in T => n + 1 \in T
  PROVE  Nat \subseteq T
<1> DEFINE B == {n \in Nat : n \notin T}
<1>1. SUFFICES ASSUME B # {} PROVE FALSE
  OBVIOUS
<1>2. PICK x \in B : \A y \in B : x <= y
  <2>1. B \in SUBSET Nat
    OBVIOUS
  <2> HIDE DEF B
  <2>2. QED
    BY <1>1, <2>1, LeastNat
<1>3. x # 0 /\ x - 1 \in Nat /\ x - 1 \notin B
  BY <1>2
<1>4. QED
  BY <1>3

-----------------------------------------------------------------------------
(* Recursion *)

\* A function on 0 .. N with values in S, each made from the one before it.
IsIteration(f, N, S, base, step) ==
  /\ f \in [0 .. N -> S]
  /\ f[0] = base
  /\ \A n \in 1 .. N : f[n] = step[n][f[n - 1]]

(* A recursive function on 0 .. N exists, when its steps stay within a set.    *)
LEMMA Iteration ==
  ASSUME NEW N \in Nat, NEW S, NEW base \in S, NEW step \in [1 .. N -> [S -> S]]
  PROVE  \E f : IsIteration(f, N, S, base, step)
<1> DEFINE upTo(f, n) == f[0] = base /\ \A m \in 1 .. n : f[m] = step[m][f[m - 1]]
           T == {n \in Nat : n <= N => \E f \in [0 .. n -> S] : upTo(f, n)}
<1>1. 0 \in T
  <2> DEFINE f == [m \in 0 .. 0 |-> base]
  <2>1. f \in [0 .. 0 -> S] /\ f[0] = base /\ \A m \in 1 .. 0 : f[m] = step[m][f[m - 1]]
    OBVIOUS
  <2> HIDE DEF f
  <2>2. QED
    BY <2>1
<1>2. ASSUME NEW n \in Nat, n \in T PROVE n + 1 \in T
  <2>1. SUFFICES ASSUME n + 1 <= N PROVE \E f \in [0 .. n + 1 -> S] : upTo(f, n + 1)
    OBVIOUS
  <2>2. PICK f \in [0 .. n -> S] : upTo(f, n)
    BY <1>2, <2>1
  <2> DEFINE next == step[n + 1][f[n]]
             g == [m \in 0 .. n + 1 |-> IF m = n + 1 THEN next ELSE f[m]]
  <2>3. next \in S
    BY <2>1
  <2>4. /\ g \in [0 .. n + 1 -> S] /\ g[n + 1] = next
        /\ \A m \in 0 .. n : g[m] = f[m]
    <3> HIDE DEF next
    <3>1. QED
      BY <2>3
  <2> HIDE DEF g
  <2>5. ASSUME NEW m \in 1 .. n + 1 PROVE g[m] = step[m][g[m - 1]]
    <3>1. CASE m = n + 1
      BY <2>4, <3>1
    <3>2. CASE m /= n + 1
      <4>1. m \in 1 .. n /\ m \in 0 .. n /\ m - 1 \in 0 .. n
        BY <3>2
      <4>2. QED
        BY <2>2, <2>4, <4>1
    <3>3. QED
      BY <3>1, <3>2
  <2>6. g[0] = base
    BY <2>2, <2>4
  <2>7. QED
    BY <2>4, <2>5, <2>6
<1>3. Nat \subseteq T
  <2> HIDE DEF T
  <2>1. QED
    BY <1>1, <1>2, NatInd
<1>4. N \in T
  BY <1>3
<1>5. QED
  BY <1>4 DEF IsIteration

(* Two recursions that take the same steps come to the same, and the longer goes on from  *)
(* there.                                                                       *)
LEMMA IterationGoesOn ==
  ASSUME NEW N \in Nat, NEW S, NEW base, NEW f, NEW g, NEW step, NEW other,
         IsIteration(f, N, S, base, step), IsIteration(g, N + 1, S, base, other),
         \A n \in 1 .. N : other[n] = step[n]
  PROVE  g[N + 1] = other[N + 1][f[N]]
<1> DEFINE T == {n \in Nat : n <= N => g[n] = f[n]}
<1>1. 0 \in T
  BY DEF IsIteration
<1>2. ASSUME NEW n \in Nat, n \in T PROVE n + 1 \in T
  <2>1. SUFFICES ASSUME n + 1 <= N PROVE g[n + 1] = f[n + 1]
    OBVIOUS
  <2>2. n + 1 \in 1 .. N /\ n + 1 \in 1 .. N + 1 /\ (n + 1) - 1 = n /\ g[n] = f[n]
    BY <1>2, <2>1
  <2>3. g[n + 1] = other[n + 1][g[n]] /\ f[n + 1] = step[n + 1][f[n]]
    BY <2>2 DEF IsIteration
  <2>4. QED
    BY <2>2, <2>3
<1>3. Nat \subseteq T
  <2> HIDE DEF T
  <2>1. QED
    BY <1>1, <1>2, NatInd
<1>4. g[N] = f[N]
  BY <1>3
<1>5. N + 1 \in 1 .. N + 1 /\ (N + 1) - 1 = N
  OBVIOUS
<1>6. QED
  BY <1>4, <1>5 DEF IsIteration

-----------------------------------------------------------------------------
(* Sequences *)

(* What an append makes of a sequence.                                        *)
LEMMA AppendFacts ==
  ASSUME NEW S, NEW s \in Seq(S), NEW e \in S
  PROVE  /\ Append(s, e) \in Seq(S) /\ Len(Append(s, e)) = Len(s) + 1 /\ Len(s) \in Nat
         /\ DOMAIN s = 1 .. Len(s) /\ DOMAIN Append(s, e) = 1 .. Len(s) + 1
         /\ \A i \in 1 .. Len(s) : Append(s, e)[i] = s[i]
         /\ Append(s, e)[Len(s) + 1] = e
OBVIOUS

(* A set that has the empty sequence, and with a sequence every one longer by  *)
(* an element, has every sequence.                                            *)
LEMMA SeqInd ==
  ASSUME NEW S, NEW T, <<>> \in T,
         \A s \in Seq(S), e \in S : s \in T => Append(s, e) \in T
  PROVE  Seq(S) \subseteq T
<1> DEFINE N == {n \in Nat : \A s \in Seq(S) : Len(s) = n => s \in T}
<1>1. 0 \in N
  <2>1. \A s \in Seq(S) : Len(s) = 0 => s = <<>>
    OBVIOUS
  <2>2. QED
    BY <2>1
<1>2. ASSUME NEW n \in Nat, n \in N PROVE n + 1 \in N
  <2>1. SUFFICES ASSUME NEW s \in Seq(S), Len(s) = n + 1 PROVE s \in T
    OBVIOUS
  <2> DEFINE front == SubSeq(s, 1, n)
  <2>2. front \in Seq(S) /\ Len(front) = n /\ \A i \in 1 .. n : front[i] = s[i]
    BY <2>1
  <2>3. s[n + 1] \in S
    BY <2>1
  <2> HIDE DEF front
  <2>4. Append(front, s[n + 1]) = s
    <3>1. \A i \in 1 .. n + 1 : Append(front, s[n + 1])[i] = s[i]
      BY <2>1, <2>2, <2>3
    <3>2. /\ Append(front, s[n + 1]) \in Seq(S)
          /\ Len(Append(front, s[n + 1])) = Len(s)
      BY <2>1, <2>2, <2>3
    <3>3. QED
      BY <2>1, <3>1, <3>2, SeqEqual
  <2>5. front \in T
    BY <1>2, <2>2
  <2>6. QED
    BY <2>2, <2>3, <2>4, <2>5
<1>3. Nat \subseteq N
  <2> HIDE DEF N
  <2>1. QED
    BY <1>1, <1>2, NatInd
<1>4. QED
  <2>1. ASSUME NEW s \in Seq(S) PROVE s \in T
    <3>1. Len(s) \in N
      BY <1>3
    <3>2. QED
      BY <3>1
  <2>2. QED
    BY <2>1

(* Concatenation: its type, nothing more, one element more, and three in a row. *)
LEMMA ConcatFacts ==
  ASSUME NEW S
  PROVE  /\ \A s, t \in Seq(S) : s \o t \in Seq(S)
         /\ \A s \in Seq(S) : s \o <<>> = s /\ <<>> \o s = s
         /\ \A s \in Seq(S), e \in S : Append(s, e) \in Seq(S) /\ s \o <<e>> = Append(s, e)
         /\ \A s, t \in Seq(S), e \in S : s \o Append(t, e) = Append(s \o t, e)
         /\ \A s, t, u \in Seq(S) : s \o (t \o u) = (s \o t) \o u
<1>1. \A s, t \in Seq(S) : s \o t \in Seq(S)
  OBVIOUS
<1>2. \A s \in Seq(S) : s \o <<>> = s /\ <<>> \o s = s
  BY ConcatEmptySeq
<1>3. \A s \in Seq(S), e \in S :
        Append(s, e) \in Seq(S) /\ s \o <<e>> = Append(s, e) /\ <<e>> \in Seq(S)
  BY AppendIsConcat
<1>4. \A s, t, u \in Seq(S) : s \o (t \o u) = (s \o t) \o u
  BY ConcatAssociative
<1>5. ASSUME NEW s \in Seq(S), NEW t \in Seq(S), NEW e \in S
      PROVE  s \o Append(t, e) = Append(s \o t, e)
  <2>1. s \o (t \o <<e>>) = (s \o t) \o <<e>>
    BY <1>3, <1>4
  <2>2. QED
    BY <1>1, <1>3, <2>1
<1>6. QED
  BY <1>1, <1>2, <1>3, <1>4, <1>5

(* A sequence of a subset's members is one of the set's.                       *)
LEMMA SeqOfSubset ==
  ASSUME NEW S, NEW U \in SUBSET S, NEW s \in Seq(U)
  PROVE  s \in Seq(S)
BY SeqMonotonic

-----------------------------------------------------------------------------
(* Lists: what the operators on them that the model uses give *)

\* A sequence, of whatever items.
IsList(s) == s \in Seq(ToSet(s))

(* A sequence over any set is a list of its own items.                         *)
LEMMA ListOfSeq ==
  ASSUME NEW S, NEW s \in Seq(S)
  PROVE  /\ IsList(s) /\ ToSet(s) \subseteq S /\ Len(s) \in Nat /\ DOMAIN s = 1 .. Len(s)
         /\ \A i \in DOMAIN s : s[i] \in ToSet(s)
<1>1. Len(s) \in Nat /\ DOMAIN s = 1 .. Len(s) /\ s \in [1 .. Len(s) -> S]
  OBVIOUS
<1>2. \A i \in 1 .. Len(s) : s[i] \in ToSet(s) /\ s[i] \in S
  BY <1>1 DEF ToSet
<1>3. s \in [1 .. Len(s) -> ToSet(s)]
  BY <1>1, <1>2
<1>4. s \in Seq(ToSet(s))
  BY <1>1, <1>3, SeqDef
<1>5. QED
  BY <1>1, <1>2, <1>4 DEF IsList, ToSet

(* A function on 1 .. n is a list.                                             *)
LEMMA ListOfFunction ==
  ASSUME NEW n \in Nat, NEW s, DOMAIN s = 1 .. n, s = [i \in 1 .. n |-> s[i]]
  PROVE  IsList(s) /\ Len(s) = n
<1>1. \A i \in 1 .. n : s[i] \in ToSet(s)
  BY DEF ToSet
<1>2. s \in [1 .. n -> ToSet(s)]
  BY <1>1
<1>3. s \in Seq(ToSet(s))
  BY <1>2, SeqDef
<1>4. QED
  BY <1>3 DEF IsList

(* A list of items of a set is a sequence over the set. *)
LEMMA ListOfWider ==
  ASSUME NEW S, NEW s, IsList(s), ToSet(s) \subseteq S
  PROVE  s \in Seq(S)
BY SeqMonotonic DEF IsList

(* The empty list. *)
LEMMA EmptyList == IsList(<<>>) /\ ToSet(<<>>) = {}
BY DEF IsList, ToSet

(* A list with an item more. *)
LEMMA ListAppend ==
  ASSUME NEW s, IsList(s), NEW e
  PROVE  IsList(Append(s, e)) /\ ToSet(Append(s, e)) = ToSet(s) \cup {e}
<1> DEFINE S == ToSet(s) \cup {e}
           t == Append(s, e)
<1>1. s \in Seq(S) /\ e \in S
  BY ListOfWider
<1>2. /\ t \in Seq(S) /\ Len(t) = Len(s) + 1 /\ Len(s) \in Nat /\ DOMAIN s = 1 .. Len(s)
      /\ DOMAIN t = 1 .. Len(s) + 1
      /\ \A i \in 1 .. Len(s) : t[i] = s[i]
      /\ t[Len(s) + 1] = e
  <2> HIDE DEF S
  <2>1. QED
    BY <1>1, AppendFacts
<1>3. IsList(t) /\ ToSet(t) \subseteq S
  <2> HIDE DEF S, t
  <2>1. QED
    BY <1>2, ListOfSeq
<1>4. ToSet(s) \subseteq ToSet(t) /\ e \in ToSet(t)
  <2> HIDE DEF S, t
  <2>1. QED
    BY <1>2 DEF ToSet
<1>5. QED
  BY <1>3, <1>4

(* Two lists in a row. *)
LEMMA ListConcat ==
  ASSUME NEW s, NEW t, IsList(s), IsList(t)
  PROVE  IsList(s \o t) /\ ToSet(s \o t) = ToSet(s) \cup ToSet(t)
<1> DEFINE S == ToSet(s) \cup ToSet(t)
           u == s \o t
<1>1. s \in Seq(S) /\ t \in Seq(S)
  BY ListOfWider
<1>2. /\ u \in Seq(S) /\ Len(s) \in Nat /\ Len(t) \in Nat /\ DOMAIN s = 1 .. Len(s)
      /\ DOMAIN t = 1 .. Len(t) /\ DOMAIN u = 1 .. Len(s) + Len(t)
      /\ \A i \in 1 .. Len(s) : u[i] = s[i]
      /\ \A i \in 1 .. Len(t) : u[Len(s) + i] = t[i]
  <2> HIDE DEF S
  <2>1. QED
    BY <1>1
<1>3. IsList(u) /\ ToSet(u) \subseteq S
  <2> HIDE DEF S, u
  <2>1. QED
    BY <1>2, ListOfSeq
<1> HIDE DEF S, u
<1>4. ToSet(s) \subseteq ToSet(u)
  BY <1>2 DEF ToSet
<1>5. ToSet(t) \subseteq ToSet(u)
  <2>1. \A i \in 1 .. Len(t) : Len(s) + i \in 1 .. Len(s) + Len(t)
    BY <1>2
  <2>2. QED
    BY <1>2, <2>1 DEF ToSet
<1>6. QED
  BY <1>3, <1>4, <1>5 DEF S, u

(* The same, for lists that have no item twice. *)
LEMMA InjectiveAppend ==
  ASSUME NEW s, IsList(s), IsInjective(s), NEW e, e \notin ToSet(s)
  PROVE  IsInjective(Append(s, e))
<1> DEFINE S == ToSet(s) \cup {e}
           t == Append(s, e)
<1>1. s \in Seq(S) /\ e \in S
  BY ListOfWider
<1>2. /\ Len(s) \in Nat /\ DOMAIN s = 1 .. Len(s) /\ DOMAIN t = 1 .. Len(s) + 1
      /\ \A i \in 1 .. Len(s) : t[i] = s[i]
      /\ t[Len(s) + 1] = e
  <2> HIDE DEF S
  <2>1. QED
    BY <1>1, AppendFacts
<1>3. \A i \in 1 .. Len(s) : s[i] /= e
  BY <1>2 DEF ToSet
<1>4. \A i \in 1 .. Len(s) + 1 : i = Len(s) + 1 \/ i \in 1 .. Len(s)
  BY <1>2
<1> HIDE DEF t, S
<1>5. QED
  BY <1>2, <1>3, <1>4 DEF IsInjective, t

(* Two lists without an item in common. *)
LEMMA InjectiveConcat ==
  ASSUME NEW s, NEW t, IsList(s), IsList(t), IsInjective(s), IsInjective(t),
         ToSet(s) \cap ToSet(t) = {}
  PROVE  IsInjective(s \o t)
<1> DEFINE S == ToSet(s) \cup ToSet(t)
           u == s \o t
           m == Len(s)
           n == Len(t)
<1>1. s \in Seq(S) /\ t \in Seq(S)
  BY ListOfWider
<1>2. /\ m \in Nat /\ n \in Nat /\ DOMAIN s = 1 .. m /\ DOMAIN t = 1 .. n
      /\ DOMAIN u = 1 .. m + n
      /\ \A i \in 1 .. m : u[i] = s[i]
      /\ \A i \in 1 .. n : u[m + i] = t[i]
  <2> HIDE DEF S
  <2>1. QED
    BY <1>1
<1>3. \A i \in 1 .. m, j \in 1 .. n : s[i] /= t[j]
  BY <1>2 DEF ToSet
<1> HIDE DEF u, S, m, n
<1>4. \A i \in 1 .. m + n : i \in 1 .. m \/ (i - m \in 1 .. n /\ m + (i - m) = i)
  BY <1>2
<1>5. ASSUME NEW i \in 1 .. m + n, NEW j \in 1 .. m + n, u[i] = u[j]
      PROVE  i = j
  <2>1. CASE i \in 1 .. m /\ j \in 1 .. m
    BY <1>2, <1>5, <2>1 DEF IsInjective
  <2>2. CASE i \in 1 .. m /\ j - m \in 1 .. n /\ m + (j - m) = j
    <3>1. u[i] = s[i] /\ u[j] = t[j - m]
      BY <1>2, <2>2
    <3>2. QED
      BY <1>3, <1>5, <2>2, <3>1
  <2>3. CASE j \in 1 .. m /\ i - m \in 1 .. n /\ m + (i - m) = i
    <3>1. u[j] = s[j] /\ u[i] = t[i - m]
      BY <1>2, <2>3
    <3>2. QED
      BY <1>3, <1>5, <2>3, <3>1
  <2>4. CASE /\ i - m \in 1 .. n /\ m + (i - m) = i
             /\ j - m \in 1 .. n /\ m + (j - m) = j
    <3>1. u[i] = t[i - m] /\ u[j] = t[j - m]
      BY <1>2, <2>4
    <3>2. i - m = j - m
      BY <1>2, <1>5, <2>4, <3>1 DEF IsInjective
    <3>3. QED
      BY <2>4, <3>2
  <2>5. QED
    BY <1>4, <1>5, <2>1, <2>2, <2>3, <2>4
<1>6. QED
  BY <1>2, <1>5 DEF IsInjective, u

\* Lists that have no item twice, neither one of them nor two.
Apart(seqs) ==
  /\ \A i \in DOMAIN seqs : IsInjective(seqs[i])
  /\ \A i, j \in DOMAIN seqs : i /= j => ToSet(seqs[i]) \cap ToSet(seqs[j]) = {}

(* A list of lists, flattened: the items of all of them. *)
LEMMA FlattenFacts ==
  ASSUME NEW seqs, IsList(seqs), \A i \in DOMAIN seqs : IsList(seqs[i])
  PROVE  /\ IsList(FlattenSeq(seqs))
         /\ ToSet(FlattenSeq(seqs)) = UNION {ToSet(seqs[i]) : i \in DOMAIN seqs}
         /\ Apart(seqs) => IsInjective(FlattenSeq(seqs))
<1> DEFINE S == UNION {ToSet(seqs[i]) : i \in DOMAIN seqs}
           N == Len(seqs)
           upTo(f, m) == f = [n \in 1 .. m |-> IF n = 1 THEN seqs[n] ELSE f[n - 1] \o seqs[n]]
           Gives(s, n) == /\ IsList(s)
                          /\ ToSet(s) = UNION {ToSet(seqs[i]) : i \in 1 .. n}
                          /\ Apart(seqs) => IsInjective(s)
           Some(m) == \E f : upTo(f, m) /\ \A n \in 1 .. m : Gives(f[n], n)
           T == {m \in Nat : m <= N /\ m > 0 => Some(m)}
<1>1. N \in Nat /\ DOMAIN seqs = 1 .. N
  BY ListOfSeq DEF IsList
<1>2. 0 \in T
  OBVIOUS
<1>3. ASSUME NEW m \in Nat, m \in T PROVE m + 1 \in T
  <2>1. SUFFICES ASSUME m + 1 <= N
                 PROVE  Some(m + 1)
    <3> HIDE DEF Some, N
    <3>1. QED
      OBVIOUS
  <2>2. IsList(seqs[m + 1]) /\ m + 1 \in 1 .. N
    BY <1>1, <2>1
  <2>3. CASE m = 0
    <3> DEFINE g == [n \in 1 .. 1 |-> seqs[1]]
    <3>1. g[1] = seqs[1] /\ DOMAIN g = 1 .. 1
      OBVIOUS
    <3>2. upTo(g, 1)
      BY <3>1
    <3>3. {ToSet(seqs[i]) : i \in 1 .. 1} = {ToSet(seqs[1])}
      OBVIOUS
    <3>4. Gives(g[1], 1)
      <4> HIDE DEF g
      <4>1. QED
        BY <1>1, <2>2, <2>3, <3>1, <3>3 DEF Apart
    <3>5. \A n \in 1 .. 1 : n = 1
      OBVIOUS
    <3> HIDE DEF upTo, Gives, g
    <3>6. QED
      BY <2>3, <3>2, <3>4, <3>5
  <2>4. CASE m > 0
    <3>1. PICK f : upTo(f, m) /\ \A n \in 1 .. m : Gives(f[n], n)
      <4>1. Some(m)
        <5> HIDE DEF Some
        <5>1. QED
          BY <1>1, <1>3, <2>1, <2>4
      <4> HIDE DEF upTo, Gives
      <4>2. QED
        BY <4>1
    <3> DEFINE next == f[m] \o seqs[m + 1]
               g == [n \in 1 .. m + 1 |-> IF n = m + 1 THEN next ELSE f[n]]
    <3>2. g[m + 1] = next /\ \A n \in 1 .. m : g[n] = f[n]
      <4> HIDE DEF next
      <4>1. QED
        OBVIOUS
    <3>3. \A n \in 1 .. m : f[n] = IF n = 1 THEN seqs[n] ELSE f[n - 1] \o seqs[n]
      BY <3>1
    <3>4. g = [n \in 1 .. m + 1 |-> g[n]]
      OBVIOUS
    <3>5. \A n \in 1 .. m + 1 : g[n] = IF n = 1 THEN seqs[n] ELSE g[n - 1] \o seqs[n]
      <4>1. ASSUME NEW n \in 1 .. m + 1
            PROVE  g[n] = IF n = 1 THEN seqs[n] ELSE g[n - 1] \o seqs[n]
        <5>1. CASE n = m + 1
          <6>1. m \in 1 .. m /\ n - 1 = m /\ n /= 1
            BY <2>4, <5>1
          <6> HIDE DEF g
          <6>2. QED
            BY <3>2, <5>1, <6>1
        <5>2. CASE n /= m + 1
          <6>1. n \in 1 .. m /\ (n /= 1 => n - 1 \in 1 .. m)
            BY <5>2
          <6> HIDE DEF g
          <6>2. QED
            BY <3>2, <3>3, <6>1
        <5>3. QED
          BY <5>1, <5>2
      <4>2. QED
        BY <4>1
    <3>6. upTo(g, m + 1)
      <4> HIDE DEF g
      <4>1. QED
        BY <3>4, <3>5
    <3>7. Gives(next, m + 1)
      <4>1. Gives(f[m], m)
        <5>1. m \in 1 .. m
          BY <2>4
        <5> HIDE DEF Gives, upTo
        <5>2. QED
          BY <3>1, <5>1
      <4>2. {ToSet(seqs[i]) : i \in 1 .. m + 1}
              = {ToSet(seqs[i]) : i \in 1 .. m} \cup {ToSet(seqs[m + 1])}
        OBVIOUS
      <4>3. IsList(next) /\ ToSet(next) = UNION {ToSet(seqs[i]) : i \in 1 .. m + 1}
        BY <2>2, <4>1, <4>2, ListConcat
      <4>4. ASSUME Apart(seqs) PROVE IsInjective(next)
        <5>1. \A i \in 1 .. m : i \in 1 .. N /\ i /= m + 1
          BY <1>1, <2>2
        <5>2. \A i \in 1 .. m : ToSet(seqs[i]) \cap ToSet(seqs[m + 1]) = {}
          BY <1>1, <2>2, <4>4, <5>1 DEF Apart
        <5>3. ToSet(f[m]) \cap ToSet(seqs[m + 1]) = {}
          BY <4>1, <5>2
        <5>4. IsInjective(f[m]) /\ IsInjective(seqs[m + 1])
          BY <1>1, <2>2, <4>1, <4>4 DEF Apart
        <5>5. QED
          BY <2>2, <4>1, <5>3, <5>4, InjectiveConcat
      <4>5. QED
        BY <4>3, <4>4
    <3>8. \A n \in 1 .. m + 1 : Gives(g[n], n)
      <4>1. \A n \in 1 .. m + 1 : n = m + 1 \/ n \in 1 .. m
        OBVIOUS
      <4> HIDE DEF g, Gives, upTo, next
      <4>2. QED
        BY <3>1, <3>2, <3>7, <4>1
    <3> HIDE DEF g, upTo, Gives
    <3>9. QED
      BY <3>6, <3>8
  <2>5. QED
    <3>1. m = 0 \/ m > 0
      OBVIOUS
    <3> HIDE DEF Some
    <3>2. QED
      BY <2>3, <2>4, <3>1
<1>4. Nat \subseteq T
  <2> HIDE DEF T
  <2>1. QED
    BY <1>2, <1>3, NatInd
<1>5. CASE N = 0
  <2>1. seqs = <<>> /\ FlattenSeq(seqs) = seqs /\ DOMAIN seqs = {}
    BY <1>1, <1>5 DEF FlattenSeq, IsList
  <2>2. QED
    BY <2>1, EmptyList DEF IsInjective
<1>6. CASE N > 0
  <2> DEFINE flatten == CHOOSE f : upTo(f, N)
  <2>1. PICK f : upTo(f, N) /\ \A n \in 1 .. N : Gives(f[n], n)
    <3>1. Some(N)
      <4>1. N \in T
        BY <1>1, <1>4
      <4> HIDE DEF Some, N
      <4>2. QED
        BY <1>1, <1>6, <4>1
    <3> HIDE DEF upTo, Gives
    <3>2. QED
      BY <3>1
  <2>2. upTo(flatten, N)
    BY <2>1
  <2>3. FlattenSeq(seqs) = flatten[N]
    BY <1>6 DEF FlattenSeq
  <2> HIDE DEF flatten
  <2>4. \A n \in 1 .. N : flatten[n] = f[n]
    <3> DEFINE U == {n \in Nat : n >= 1 /\ n <= N => flatten[n] = f[n]}
    <3>1. \A n \in 1 .. N :
            /\ f[n] = IF n = 1 THEN seqs[n] ELSE f[n - 1] \o seqs[n]
            /\ flatten[n] = IF n = 1 THEN seqs[n] ELSE flatten[n - 1] \o seqs[n]
      BY <2>1, <2>2
    <3>2. 0 \in U
      OBVIOUS
    <3>3. ASSUME NEW n \in Nat, n \in U PROVE n + 1 \in U
      <4>1. SUFFICES ASSUME n + 1 <= N PROVE flatten[n + 1] = f[n + 1]
        OBVIOUS
      <4>2. n + 1 \in 1 .. N /\ n + 1 - 1 = n
        BY <1>1, <4>1
      <4>3. n + 1 = 1 \/ flatten[n] = f[n]
        BY <3>3, <4>1
      <4>4. QED
        BY <3>1, <4>2, <4>3
    <3>4. Nat \subseteq U
      <4> HIDE DEF U
      <4>1. QED
        BY <3>2, <3>3, NatInd
    <3>5. QED
      BY <1>1, <3>4
  <2>5. Gives(FlattenSeq(seqs), N)
    <3>1. N \in 1 .. N
      BY <1>1, <1>6
    <3> HIDE DEF Gives, N
    <3>2. QED
      BY <2>1, <2>3, <2>4, <3>1
  <2>6. QED
    BY <1>1, <2>5
<1>7. QED
  BY <1>1, <1>5, <1>6

(* A finite list has finitely many items.                                      *)
LEMMA ListFinite ==
  ASSUME NEW s, IsList(s)
  PROVE  IsFiniteSet(ToSet(s))
<1>1. Len(s) \in Nat /\ DOMAIN s = 1 .. Len(s)
  BY ListOfSeq DEF IsList
<1>2. IsFiniteSet(DOMAIN s)
  BY <1>1, FS_Interval
<1> DEFINE at == [i \in DOMAIN s |-> s[i]]
<1>3. at \in Surjection(DOMAIN s, ToSet(s))
  BY DEF Surjection, ToSet
<1>4. QED
  BY <1>2, <1>3, FS_Surjection

(* A first part of a list.                                                     *)
LEMMA ListPrefix ==
  ASSUME NEW s, IsList(s), NEW k \in 0 .. Len(s)
  PROVE  /\ IsList(SubSeq(s, 1, k)) /\ ToSet(SubSeq(s, 1, k)) \subseteq ToSet(s)
         /\ IsInjective(s) => IsInjective(SubSeq(s, 1, k))
<1> DEFINE S == ToSet(s)
           t == SubSeq(s, 1, k)
<1>1. s \in Seq(S) /\ Len(s) \in Nat
  BY DEF IsList
<1>2. t \in Seq(S) /\ DOMAIN t = 1 .. k /\ \A i \in 1 .. k : t[i] = s[i]
  <2> HIDE DEF S
  <2>1. QED
    BY <1>1
<1>3. DOMAIN s = 1 .. Len(s) /\ \A i \in 1 .. k : i \in 1 .. Len(s)
  BY <1>1
<1> HIDE DEF S, t
<1>4. IsInjective(s) => IsInjective(t)
  BY <1>2, <1>3 DEF IsInjective
<1>5. QED
  BY <1>2, <1>4, ListOfSeq DEF S, t
=============================================================================
