---------------------------- MODULE KernelProofs ----------------------------
(***************************************************************************)
(* Proofs about Kernel: what holds of the log and of the live state, for      *)
(* every set of requests and every combination of faults.                     *)
(***************************************************************************)
EXTENDS Kernel, SequenceTheorems, TLAPS

-----------------------------------------------------------------------------
(* Sequences of lines *)

LogLine == Record \cup {Unreadable}

LogFile == [lines : Seq(LogLine), terminated : BOOLEAN]

(* The parts of a readable sequence of lines are readable. *)
LEMMA PartsOfConcat ==
  ASSUME NEW s \in Seq(LogLine), NEW t \in Seq(LogLine),
         \A i \in DOMAIN (s \o t) : (s \o t)[i] /= Unreadable
  PROVE  /\ \A i \in DOMAIN s : s[i] /= Unreadable
         /\ \A i \in DOMAIN t : t[i] /= Unreadable
<1>1. \A i \in 1 .. Len(s) + Len(t) :
        (s \o t)[i] = IF i <= Len(s) THEN s[i] ELSE t[i - Len(s)]
  BY ConcatProperties
<1>2. \A i \in 1 .. Len(s) + Len(t) : (s \o t)[i] /= Unreadable
  OBVIOUS
<1>3. Len(s) \in Nat /\ Len(t) \in Nat /\ DOMAIN s = 1 .. Len(s) /\ DOMAIN t = 1 .. Len(t)
  OBVIOUS
<1>4. \A i \in DOMAIN s : s[i] /= Unreadable
  BY <1>1, <1>2, <1>3
<1>5. ASSUME NEW i \in DOMAIN t PROVE t[i] /= Unreadable
  <2>1. /\ Len(s) + i \in 1 .. Len(s) + Len(t)
        /\ ~(Len(s) + i <= Len(s))
        /\ Len(s) + i - Len(s) = i
    BY <1>3
  <2>2. QED
    BY <1>1, <1>2, <2>1
<1>6. QED
  BY <1>4, <1>5

(* Sequences with the same lines are the same. *)
LEMMA SameLines ==
  ASSUME NEW s \in Seq(LogLine), NEW t \in Seq(LogLine),
         Len(s) = Len(t), \A i \in 1 .. Len(s) : s[i] = t[i]
  PROVE  s = t
BY SeqEqual

(* A sequence is its head and its tail. *)
LEMMA ConcatHeadTail ==
  ASSUME NEW s \in Seq(LogLine), NEW t \in Seq(LogLine), t /= <<>>
  PROVE  Append(s, Head(t)) \o Tail(t) = s \o t
<1>1. /\ Head(t) \in LogLine /\ Tail(t) \in Seq(LogLine) /\ Head(t) = t[1]
      /\ Len(Tail(t)) = Len(t) - 1 /\ \A i \in 1 .. Len(t) - 1 : Tail(t)[i] = t[i + 1]
      /\ Len(t) \in Nat \ {0} /\ Len(s) \in Nat
  BY HeadTailProperties
<1> DEFINE a == Append(s, Head(t))
<1>2. /\ a \in Seq(LogLine) /\ Len(a) = Len(s) + 1
      /\ \A i \in 1 .. Len(s) : a[i] = s[i]
      /\ a[Len(s) + 1] = t[1]
  BY <1>1, AppendProperties
<1> HIDE DEF a
<1>3. /\ a \o Tail(t) \in Seq(LogLine) /\ Len(a \o Tail(t)) = Len(s) + Len(t)
      /\ \A i \in 1 .. Len(s) + Len(t) :
           (a \o Tail(t))[i] = IF i <= Len(s) + 1 THEN a[i] ELSE Tail(t)[i - (Len(s) + 1)]
  <2>1. /\ a \o Tail(t) \in Seq(LogLine) /\ Len(a \o Tail(t)) = Len(a) + Len(Tail(t))
        /\ \A i \in 1 .. Len(a) + Len(Tail(t)) :
             (a \o Tail(t))[i] = IF i <= Len(a) THEN a[i] ELSE Tail(t)[i - Len(a)]
    BY <1>1, <1>2, ConcatProperties
  <2>2. Len(a) + Len(Tail(t)) = Len(s) + Len(t)
    BY <1>1, <1>2
  <2>3. QED
    BY <1>2, <2>1, <2>2
<1>4. /\ s \o t \in Seq(LogLine) /\ Len(s \o t) = Len(s) + Len(t)
      /\ \A i \in 1 .. Len(s) + Len(t) :
           (s \o t)[i] = IF i <= Len(s) THEN s[i] ELSE t[i - Len(s)]
  BY ConcatProperties
<1>5. ASSUME NEW i \in 1 .. Len(s) + Len(t) PROVE (a \o Tail(t))[i] = (s \o t)[i]
  <2>1. CASE i <= Len(s)
    BY <1>1, <1>2, <1>3, <1>4, <2>1
  <2>2. CASE i = Len(s) + 1
    BY <1>1, <1>2, <1>3, <1>4, <2>2
  <2>3. CASE i > Len(s) + 1
    <3>1. /\ i - (Len(s) + 1) \in 1 .. Len(t) - 1
          /\ i - (Len(s) + 1) + 1 = i - Len(s)
      BY <1>1, <2>3
    <3>2. QED
      BY <1>1, <1>3, <1>4, <2>3, <3>1
  <2>4. i <= Len(s) \/ i = Len(s) + 1 \/ i > Len(s) + 1
    BY <1>1
  <2>5. QED
    BY <2>1, <2>2, <2>3, <2>4
<1>6. QED
  BY <1>3, <1>4, <1>5, SeqEqual DEF a

-----------------------------------------------------------------------------
(* Writing to the file *)

(* The records of a batch are records, one for each event. *)
LEMMA RecordsShape ==
  ASSUME NEW start \in Nat, NEW events \in Seq(Entity)
  PROVE  /\ Records(start, events) \in Seq(Record)
         /\ Len(Records(start, events)) = Len(events)
         /\ \A i \in 1 .. Len(events) :
              Records(start, events)[i] = [seq |-> start + i - 1, event |-> events[i]]
<1>1. \A i \in 1 .. Len(events) :
        [seq |-> start + i - 1, event |-> events[i]] \in Record
  <2>1. \A i \in 1 .. Len(events) : start + i - 1 \in Nat /\ events[i] \in Entity
    OBVIOUS
  <2>2. QED
    BY <2>1 DEF Record
<1>2. DOMAIN events = 1 .. Len(events) /\ Len(events) \in Nat
  OBVIOUS
<1>3. Records(start, events)
        = [i \in 1 .. Len(events) |-> [seq |-> start + i - 1, event |-> events[i]]]
  BY <1>2 DEF Records
<1>4. Records(start, events) \in [1 .. Len(events) -> Record]
  BY <1>1, <1>3
<1>5. Records(start, events) \in Seq(Record)
  BY <1>2, <1>4, SeqDef
<1>6. Len(Records(start, events)) = Len(events)
  BY <1>2, <1>3, <1>5, LenProperties
<1>7. QED
  BY <1>3, <1>5, <1>6

(* A line is the record, or cannot be read. *)
LEMMA LineShape ==
  ASSUME NEW rec \in Record
  PROVE  Line(rec) \in LogLine /\ (Line(rec) /= Unreadable => Line(rec) = rec)
BY DEF Line, LogLine

(* So are the lines of a batch, one for one. *)
LEMMA LinesShape ==
  ASSUME NEW batch \in Seq(Record)
  PROVE  /\ Lines(batch) \in Seq(LogLine)
         /\ Len(Lines(batch)) = Len(batch)
         /\ \A i \in 1 .. Len(batch) :
              Lines(batch)[i] /= Unreadable => Lines(batch)[i] = batch[i]
BY LineShape DEF Lines

(* Text written to a file leaves it readable only if it starts a line of its   *)
(* own and can be read itself.                                                 *)
LEMMA WriteTextShape ==
  ASSUME NEW f \in LogFile, f.lines = <<>> => f.terminated,
         NEW line \in LogLine
  PROVE  /\ WriteText(f, line) \in LogFile
         /\ WriteText(f, line).lines /= <<>>
         /\ ~WriteText(f, line).terminated
         /\ Readable(WriteText(f, line)) =>
              /\ f.terminated
              /\ Readable(f)
              /\ line /= Unreadable
              /\ WriteText(f, line).lines = Append(f.lines, line)
<1> DEFINE g == WriteText(f, line)
<1>1. f.lines \in Seq(LogLine) /\ f.terminated \in BOOLEAN
  BY DEF LogFile
<1>2. CASE f.terminated
  <2>1. g.lines = Append(f.lines, line) /\ g.terminated = FALSE
    BY <1>2 DEF WriteText
  <2>2. g \in LogFile
    BY <1>1, <1>2 DEF WriteText, LogFile
  <2>3. Readable(g) => Readable(f) /\ line /= Unreadable
    BY <1>1, <2>1 DEF Readable
  <2>4. QED
    BY <1>1, <1>2, <2>1, <2>2, <2>3
<1>3. CASE ~f.terminated
  <2>1. /\ g.lines = [f.lines EXCEPT ![Len(f.lines)] = Unreadable]
        /\ g.terminated = FALSE
    BY <1>3 DEF WriteText
  <2>2. Len(f.lines) \in DOMAIN f.lines
    BY <1>1, <1>3
  <2>3. g.lines[Len(f.lines)] = Unreadable /\ Len(f.lines) \in DOMAIN g.lines
    BY <2>1, <2>2
  <2>4. ~Readable(g)
    BY <2>3 DEF Readable
  <2>5. g \in LogFile
    <3>1. [f.lines EXCEPT ![Len(f.lines)] = Unreadable] \in Seq(LogLine)
      BY <1>1, <2>2 DEF LogLine
    <3>2. QED
      BY <1>3, <3>1 DEF WriteText, LogFile
  <2>6. QED
    BY <2>1, <2>3, <2>4, <2>5, <1>1
<1>4. QED
  BY <1>1, <1>2, <1>3

(* The first m records of the batch have joined the file, each readable.       *)
Extended(f, g, batch, m) ==
  /\ f.terminated
  /\ Readable(f)
  /\ g.lines = f.lines \o SubSeq(batch, 1, m)

(* A file that can be read after a write either did not change or gained the   *)
(* records written, on lines of their own.                                     *)
LEMMA WriteAllShape ==
  ASSUME NEW f \in LogFile, f.lines = <<>> => f.terminated, NEW batch \in Seq(Record)
  PROVE  /\ WriteAll(f, batch) \in LogFile
         /\ WriteAll(f, batch).lines = <<>> => WriteAll(f, batch).terminated
         /\ batch = <<>> => WriteAll(f, batch) = f
         /\ batch /= <<>> => WriteAll(f, batch).terminated
         /\ batch /= <<>> /\ Readable(WriteAll(f, batch)) =>
              Extended(f, WriteAll(f, batch), batch, Len(batch))
<1> DEFINE g == WriteAll(f, batch)
<1>1. CASE batch = <<>>
  BY <1>1 DEF WriteAll
<1>2. CASE batch /= <<>>
  <2> DEFINE h == WriteText(f, Line(Head(batch)))
             rest == Lines(Tail(batch))
  <2>1. Head(batch) \in Record /\ Tail(batch) \in Seq(Record)
        /\ batch[1] = Head(batch) /\ Len(batch) \in Nat \ {0}
        /\ Len(Tail(batch)) = Len(batch) - 1
        /\ \A i \in 1 .. Len(batch) - 1 : Tail(batch)[i] = batch[i + 1]
    BY <1>2
  <2>2. g = [lines |-> h.lines \o rest, terminated |-> TRUE]
    BY <1>2 DEF WriteAll
  <2>3. /\ rest \in Seq(LogLine) /\ Len(rest) = Len(Tail(batch))
        /\ \A i \in 1 .. Len(rest) : rest[i] /= Unreadable => rest[i] = Tail(batch)[i]
    BY <2>1, LinesShape
  <2>4. Line(Head(batch)) \in LogLine
        /\ (Line(Head(batch)) /= Unreadable => Line(Head(batch)) = Head(batch))
    BY <2>1, LineShape
  <2>5. /\ h \in LogFile
        /\ Readable(h) => /\ f.terminated
                          /\ Readable(f)
                          /\ Line(Head(batch)) /= Unreadable
                          /\ h.lines = Append(f.lines, Line(Head(batch)))
    BY <2>4, WriteTextShape
  <2>6. h.lines \in Seq(LogLine) /\ f.lines \in Seq(LogLine)
    BY <2>5 DEF LogFile
  <2>7. g \in LogFile
    BY <2>2, <2>3, <2>6 DEF LogFile
  <2>8. ASSUME Readable(g) PROVE Extended(f, g, batch, Len(batch))
    <3>1. /\ \A i \in DOMAIN h.lines : h.lines[i] /= Unreadable
          /\ \A i \in DOMAIN rest : rest[i] /= Unreadable
      <4>1. \A i \in DOMAIN (h.lines \o rest) : (h.lines \o rest)[i] /= Unreadable
        BY <2>2, <2>8 DEF Readable
      <4> HIDE DEF h, rest
      <4>2. QED
        BY <2>3, <2>6, <4>1, PartsOfConcat
    <3>2. Readable(h)
      BY <2>6, <3>1 DEF Readable
    <3>3. f.terminated /\ Readable(f) /\ h.lines = Append(f.lines, Head(batch))
      BY <2>4, <2>5, <3>2
    <3>4. g.lines = f.lines \o batch
      <4>1. rest = Tail(batch)
        <5> DEFINE tail == Tail(batch)
        <5>1. rest \in Seq(LogLine) /\ tail \in Seq(LogLine) /\ Len(rest) = Len(tail)
          <6>1. Record \subseteq LogLine
            BY DEF LogLine
          <6>2. tail \in Seq(LogLine)
            BY <2>1, <6>1
          <6>3. QED
            BY <2>3, <6>2
        <5>2. \A i \in 1 .. Len(rest) : rest[i] = tail[i]
          <6>1. \A i \in 1 .. Len(rest) : rest[i] /= Unreadable => rest[i] = tail[i]
            BY <2>3
          <6> HIDE DEF rest, tail
          <6>2. DOMAIN rest = 1 .. Len(rest)
            BY <5>1
          <6>3. QED
            BY <3>1, <6>1, <6>2
        <5> HIDE DEF rest, tail
        <5>3. rest = tail
          BY <5>1, <5>2, SameLines
        <5>4. QED
          BY <5>3 DEF tail
      <4>2. batch \in Seq(LogLine)
        BY DEF LogLine
      <4>3. Append(f.lines, Head(batch)) \o Tail(batch) = f.lines \o batch
        BY <1>2, <2>6, <4>2, ConcatHeadTail
      <4>4. g.lines = h.lines \o rest
        BY <2>2
      <4> HIDE DEF g, h, rest
      <4>5. QED
        BY <3>3, <4>1, <4>3, <4>4
    <3>5. SubSeq(batch, 1, Len(batch)) = batch
      BY <2>1
    <3>6. QED
      BY <3>3, <3>4, <3>5 DEF Extended
  <2>9. QED
    BY <1>2, <2>2, <2>7, <2>8
<1>3. QED
  BY <1>1, <1>2

(* One more record of the batch after the first k of it makes the first k + 1. *)
LEMMA OneMoreRecord ==
  ASSUME NEW s \in Seq(LogLine), NEW batch \in Seq(Record), NEW k \in 0 .. Len(batch) - 1
  PROVE  Append(s \o SubSeq(batch, 1, k), batch[k + 1]) = s \o SubSeq(batch, 1, k + 1)
<1>1. /\ Len(batch) \in Nat /\ k \in Nat /\ k + 1 \in 1 .. Len(batch)
      /\ Record \subseteq LogLine
  BY DEF LogLine
<1> DEFINE x == SubSeq(batch, 1, k)
           e == batch[k + 1]
<1>2. batch \in Seq(LogLine) /\ x \in Seq(LogLine) /\ e \in LogLine
  <2>1. x \in Seq(Record) /\ e \in Record
    BY <1>1
  <2>2. QED
    BY <1>1, <2>1
<1>3. SubSeq(batch, 1, k + 1) = x \o <<e>>
  <2>1. k + 1 \in 1 .. Len(batch) /\ 1 \in 1 .. Len(batch) /\ (k + 1) - 1 = k
    BY <1>1
  <2>2. SubSeq(batch, 1, k + 1) = SubSeq(batch, 1, (k + 1) - 1) \o <<batch[k + 1]>>
    BY <1>2, <2>1, SubSeqRecursiveSecond
  <2>3. QED
    BY <2>1, <2>2
<1> HIDE DEF x, e
<1>4. s \o x \in Seq(LogLine) /\ <<e>> \in Seq(LogLine)
  BY <1>2
<1>5. Append(s \o x, e) = (s \o x) \o <<e>>
  BY <1>2, <1>4, AppendIsConcat
<1>6. (s \o x) \o <<e>> = s \o (x \o <<e>>)
  BY <1>2, <1>4, ConcatAssociative
<1>7. QED
  BY <1>3, <1>5, <1>6 DEF x, e

(* An append that stops after k records, or in the middle of the next one.     *)
LEMMA WriteSomeShape ==
  ASSUME NEW f \in LogFile, f.lines = <<>> => f.terminated, NEW batch \in Seq(Record),
         NEW k \in 0 .. Len(batch) - 1, NEW torn \in Torn
  PROVE  LET g == WriteSome(f, batch, k, torn)
         IN  /\ g \in LogFile
             /\ g.lines = <<>> => g.terminated
             /\ Readable(g) =>
                  \/ k = 0 /\ g = f
                  \/ k > 0 /\ Extended(f, g, batch, k)
                  \/ ~g.terminated /\ Extended(f, g, batch, k + 1)
<1> DEFINE x == SubSeq(batch, 1, k)
           w == WriteAll(f, x)
           g == WriteSome(f, batch, k, torn)
<1>1. /\ Len(batch) \in Nat /\ k \in Nat /\ k + 1 \in 1 .. Len(batch)
      /\ x \in Seq(Record) /\ Len(x) = k /\ batch[k + 1] \in Record
      /\ f.lines \in Seq(LogLine)
  BY DEF LogFile
<1>2. /\ w \in LogFile
      /\ w.lines = <<>> => w.terminated
      /\ x = <<>> => w = f
      /\ x /= <<>> => w.terminated
      /\ x /= <<>> /\ Readable(w) => Extended(f, w, x, Len(x))
  BY <1>1, WriteAllShape
<1>3. x = <<>> <=> k = 0
  BY <1>1
<1>4. SubSeq(x, 1, Len(x)) = x
  <2> HIDE DEF x
  <2>1. QED
    BY <1>1
<1>5. Readable(w) => \/ k = 0 /\ w = f
                     \/ k > 0 /\ Extended(f, w, batch, k)
  <2>1. Extended(f, w, x, Len(x)) => Extended(f, w, batch, k)
    BY <1>4 DEF Extended
  <2> HIDE DEF x, w
  <2>2. QED
    BY <1>1, <1>2, <1>3, <2>1
<1>6. CASE torn = "nothing"
  BY <1>2, <1>5, <1>6 DEF WriteSome
<1>7. CASE torn = "fragment"
  <2>1. g = WriteText(w, Unreadable) /\ Unreadable \in LogLine
    BY <1>7 DEF WriteSome, LogLine
  <2>2. g \in LogFile /\ g.lines /= <<>> /\ ~Readable(g)
    BY <1>2, <2>1, WriteTextShape
  <2>3. QED
    BY <2>2
<1>8. CASE torn = "text"
  <2>1. g = WriteText(w, Line(batch[k + 1]))
    BY <1>8 DEF WriteSome
  <2>2. Line(batch[k + 1]) \in LogLine
        /\ (Line(batch[k + 1]) /= Unreadable => Line(batch[k + 1]) = batch[k + 1])
    BY <1>1, LineShape
  <2>3. /\ g \in LogFile /\ g.lines /= <<>> /\ ~g.terminated
        /\ Readable(g) => /\ w.terminated
                          /\ Readable(w)
                          /\ Line(batch[k + 1]) /= Unreadable
                          /\ g.lines = Append(w.lines, Line(batch[k + 1]))
    BY <1>2, <2>1, <2>2, WriteTextShape
  <2>4. ASSUME Readable(g) PROVE Extended(f, g, batch, k + 1)
    <3>1. w.terminated /\ Readable(w) /\ g.lines = Append(w.lines, batch[k + 1])
      BY <2>2, <2>3, <2>4
    <3>2. f.terminated /\ Readable(f) /\ w.lines = f.lines \o x
      <4>1. CASE k = 0
        <5>1. x = <<>> /\ w = f
          BY <1>2, <1>3, <4>1
        <5>2. f.lines \o <<>> = f.lines
          BY <1>1
        <5> HIDE DEF x, w
        <5>3. QED
          BY <3>1, <5>1, <5>2
      <4>2. CASE k > 0
        <5>1. Extended(f, w, batch, k)
          BY <1>5, <3>1, <4>2
        <5>2. QED
          BY <5>1 DEF Extended
      <4>3. k = 0 \/ k > 0
        BY <1>1
      <4>4. QED
        BY <4>1, <4>2, <4>3
    <3>3. Append(f.lines \o x, batch[k + 1]) = f.lines \o SubSeq(batch, 1, k + 1)
      BY <1>1, OneMoreRecord
    <3>4. QED
      BY <3>1, <3>2, <3>3 DEF Extended
  <2>5. QED
    BY <2>3, <2>4
<1>9. QED
  BY <1>6, <1>7, <1>8 DEF Torn

-----------------------------------------------------------------------------
(* A batch and its fold *)

(* The events of a batch are its entity and its companions. *)
LEMMA EventsShape ==
  ASSUME NEW r \in Request
  PROVE  /\ Events(r) \in Seq(Entity)
         /\ Events(r) /= <<>>
         /\ Range(Events(r)) = Range(r.evidence) \cup Range(r.decision) \cup {r.entity}
                                 \cup Range(r.pins) \cup Range(r.links)
<1>1. /\ r.evidence \in Seq(Entity) /\ r.decision \in Seq(Entity)
      /\ r.pins \in Seq(Entity) /\ r.links \in Seq(Entity) /\ r.entity \in Entity
  <2>1. \A kind : OfKind(kind) \subseteq Entity
    BY DEF OfKind
  <2>2. /\ r.evidence \in Seq(OfKind("evidence")) /\ r.decision \in Seq(OfKind("decision"))
        /\ r.pins \in Seq(OfKind("pin")) /\ r.links \in Seq(OfKind("link"))
        /\ r.entity \in Entity
    BY DEF Request
  <2>3. QED
    BY <2>1, <2>2, SeqMonotonic
<1> DEFINE a == r.evidence \o r.decision
           one == <<r.entity>>
           b == a \o one
           c == b \o r.pins
<1>2. a \in Seq(Entity) /\ Range(a) = Range(r.evidence) \cup Range(r.decision)
  BY <1>1, RangeConcatenation
<1>3. one \in Seq(Entity) /\ Range(one) = {r.entity}
  <2>1. <<r.entity>> \in Seq(Entity) /\ DOMAIN <<r.entity>> = {1}
        /\ <<r.entity>>[1] = r.entity
    BY <1>1
  <2>2. QED
    BY <2>1 DEF Range
<1> HIDE DEF a, one
<1>4. b \in Seq(Entity) /\ Range(b) = Range(a) \cup {r.entity}
  BY <1>2, <1>3, RangeConcatenation
<1> HIDE DEF b
<1>5. c \in Seq(Entity) /\ Range(c) = Range(b) \cup Range(r.pins)
  BY <1>1, <1>4, RangeConcatenation
<1> HIDE DEF c
<1>6. c \o r.links \in Seq(Entity) /\ Range(c \o r.links) = Range(c) \cup Range(r.links)
  BY <1>1, <1>5, RangeConcatenation
<1>7. Events(r) = c \o r.links
  BY DEF Events, a, one, b, c
<1>8. Range(Events(r)) = Range(r.evidence) \cup Range(r.decision) \cup {r.entity}
                           \cup Range(r.pins) \cup Range(r.links)
  BY <1>2, <1>4, <1>5, <1>6, <1>7
<1>9. Events(r) /= <<>>
  <2>1. r.entity \in Range(Events(r))
    BY <1>8
  <2>2. \E i \in DOMAIN Events(r) : TRUE
    BY <2>1 DEF Range
  <2> HIDE DEF c
  <2>3. Events(r) \in Seq(Entity)
    BY <1>6, <1>7
  <2>4. QED
    BY <2>2, <2>3
<1>10. QED
  BY <1>6, <1>7, <1>8, <1>9

\* The events of a batch that are of the kind.
Arrivals(r, kind) == {e \in Range(Events(r)) : e.kind = kind}

\* Two versions of an entity: they differ at most in being waived.
Same(e, f) == e.kind = f.kind /\ e.id = f.id /\ e.names = f.names

(* A list with one more entity. *)
LEMMA AppendShape ==
  ASSUME NEW list \in Seq(Entity), NEW e \in Entity
  PROVE  /\ Append(list, e) \in Seq(Entity)
         /\ Append(list, e) /= <<>>
         /\ \A i \in DOMAIN Append(list, e) :
              Append(list, e)[i] = e \/ \E j \in DOMAIN list : Same(Append(list, e)[i], list[j])
         /\ \A j \in DOMAIN list :
              \E i \in DOMAIN Append(list, e) : Same(Append(list, e)[i], list[j])
<1>1. /\ Append(list, e) \in Seq(Entity) /\ Append(list, e) /= <<>>
      /\ DOMAIN Append(list, e) = 1 .. Len(list) + 1
      /\ DOMAIN list = 1 .. Len(list) /\ Len(list) \in Nat
      /\ \A i \in 1 .. Len(list) : Append(list, e)[i] = list[i]
      /\ Append(list, e)[Len(list) + 1] = e
  OBVIOUS
<1>2. \A i \in DOMAIN Append(list, e) : i \in DOMAIN list \/ i = Len(list) + 1
  BY <1>1
<1>3. QED
  BY <1>1, <1>2 DEF Same

(* Violations after a waiver: the same, but for which are waived. *)
LEMMA WaiveShape ==
  ASSUME NEW list \in Seq(Entity), NEW e \in Entity
  PROVE  /\ Waive(list, e) \in Seq(Entity)
         /\ DOMAIN Waive(list, e) = DOMAIN list
         /\ \A i \in DOMAIN list : Same(Waive(list, e)[i], list[i])
<1> DEFINE w(i) == [list[i] EXCEPT !.waived = @ \/ FirstNamed(i, list, e)]
<1>1. Len(list) \in Nat /\ DOMAIN list = 1 .. Len(list) /\ \A i \in DOMAIN list : list[i] \in Entity
  OBVIOUS
<1>2. ASSUME NEW i \in DOMAIN list PROVE w(i) \in Entity /\ Same(w(i), list[i])
  <2>1. list[i] \in Entity
    BY <1>1
  <2>2. PICK b \in BOOLEAN : b = (list[i].waived \/ FirstNamed(i, list, e))
    <3>1. list[i].waived \in BOOLEAN
      BY <2>1 DEF Entity
    <3>2. (list[i].waived \/ FirstNamed(i, list, e)) \in BOOLEAN
      BY <3>1
    <3>3. QED
      BY <3>2
  <2>3. w(i) = [list[i] EXCEPT !.waived = b]
    BY <2>2
  <2>4. QED
    BY <2>1, <2>2, <2>3 DEF Entity, Same
<1>3. Waive(list, e) = [i \in 1 .. Len(list) |-> w(i)]
  BY <1>1 DEF Waive
<1> HIDE DEF w
<1>4. Waive(list, e) \in [1 .. Len(list) -> Entity]
  BY <1>1, <1>2, <1>3
<1>5. QED
  BY <1>1, <1>2, <1>3, <1>4, SeqDef

(* What an event adds to the list of its kind, and leaves of every other.       *)
LEMMA ApplyShape ==
  ASSUME NEW state \in [StateKinds -> Seq(Entity)], NEW e \in Entity,
         NEW kind \in StateKinds
  PROVE  /\ Apply(state, e)[kind] \in Seq(Entity)
         /\ \A i \in DOMAIN Apply(state, e)[kind] :
              \/ Apply(state, e)[kind][i] = e /\ e.kind = kind
              \/ \E j \in DOMAIN state[kind] : Same(Apply(state, e)[kind][i], state[kind][j])
         /\ kind \in ListKinds =>
              \A j \in DOMAIN state[kind] :
                \E i \in DOMAIN Apply(state, e)[kind] : Same(Apply(state, e)[kind][i], state[kind][j])
         /\ kind = e.kind => Apply(state, e)[kind] /= <<>>
         /\ kind /= e.kind /\ kind /= "violation" => Apply(state, e)[kind] = state[kind]
<1>1. e.kind \in Kinds /\ DOMAIN state = StateKinds /\ state[kind] \in Seq(Entity)
  BY DEF Entity
<1>2. CASE e.kind = "audit"
  <2>1. Apply(state, e) = state /\ kind /= e.kind
    BY <1>2 DEF Apply, StateKinds, SingleKinds, ListKinds
  <2>2. QED
    BY <1>1, <2>1 DEF Same
<1>3. CASE e.kind \in SingleKinds
  <2>1. Apply(state, e) = [state EXCEPT ![e.kind] = <<e>>]
    BY <1>3 DEF Apply, SingleKinds
  <2>2. CASE kind = e.kind
    <3>1. Apply(state, e)[kind] = <<e>> /\ kind \notin ListKinds
      BY <1>1, <1>3, <2>1, <2>2 DEF SingleKinds, ListKinds
    <3>2. QED
      BY <2>2, <3>1
  <2>3. CASE kind /= e.kind
    <3>1. Apply(state, e)[kind] = state[kind]
      BY <1>1, <2>1, <2>3
    <3>2. QED
      BY <1>1, <2>3, <3>1 DEF Same
  <2>4. QED
    BY <2>2, <2>3
<1>4. CASE e.kind = "waiver"
  <2>1. Apply(state, e) = [state EXCEPT !["violation"] = Waive(@, e),
                                        !["waiver"] = Append(@, e)]
    BY <1>4 DEF Apply, SingleKinds
  <2>2. CASE kind = "violation"
    <3>1. Apply(state, e)[kind] = Waive(state[kind], e)
      BY <1>1, <2>1, <2>2 DEF StateKinds, ListKinds
    <3>2. QED
      BY <1>1, <1>4, <2>2, <3>1, WaiveShape
  <2>3. CASE kind = "waiver"
    <3>1. Apply(state, e)[kind] = Append(state[kind], e)
      BY <1>1, <2>1, <2>3 DEF StateKinds, ListKinds
    <3>2. QED
      BY <1>1, <1>4, <2>3, <3>1, AppendShape
  <2>4. CASE kind \notin {"violation", "waiver"}
    <3>1. Apply(state, e)[kind] = state[kind]
      BY <1>1, <2>1, <2>4
    <3>2. QED
      BY <1>1, <1>4, <2>4, <3>1 DEF Same
  <2>5. QED
    BY <2>2, <2>3, <2>4
<1>5. CASE e.kind \notin SingleKinds \cup {"audit", "waiver"}
  <2>1. Apply(state, e) = [state EXCEPT ![e.kind] = Append(@, e)]
    BY <1>5 DEF Apply
  <2>2. CASE kind = e.kind
    <3>1. Apply(state, e)[kind] = Append(state[kind], e)
      BY <1>1, <2>1, <2>2
    <3>2. QED
      BY <1>1, <2>2, <3>1, AppendShape
  <2>3. CASE kind /= e.kind
    <3>1. Apply(state, e)[kind] = state[kind]
      BY <1>1, <2>1, <2>3
    <3>2. QED
      BY <1>1, <2>3, <3>1 DEF Same
  <2>4. QED
    BY <2>2, <2>3
<1>6. QED
  BY <1>2, <1>3, <1>4, <1>5

(* What a list that gains companions holds.                                    *)
LEMMA ConcatShape ==
  ASSUME NEW list \in Seq(Entity), NEW more \in Seq(Entity)
  PROVE  /\ list \o more \in Seq(Entity)
         /\ \A i \in DOMAIN (list \o more) :
              \/ (list \o more)[i] \in Range(more)
              \/ \E j \in DOMAIN list : Same((list \o more)[i], list[j])
         /\ \A j \in DOMAIN list : \E i \in DOMAIN (list \o more) : Same((list \o more)[i], list[j])
<1>1. list \o more \in Seq(Entity) /\ Range(list \o more) = Range(list) \cup Range(more)
  BY RangeConcatenation
<1>2. \A i \in DOMAIN (list \o more) : (list \o more)[i] \in Range(list) \cup Range(more)
  BY <1>1 DEF Range
<1>3. \A j \in DOMAIN list : list[j] \in Range(list \o more)
  BY <1>1 DEF Range
<1>4. QED
  BY <1>1, <1>2, <1>3 DEF Range, Same

(* What folding a batch does to each list.                                     *)
LEMMA FoldShape ==
  ASSUME NEW state \in [StateKinds -> Seq(Entity)],
         NEW r \in Request, r.entity.kind \notin Companions,
         NEW kind \in StateKinds
  PROVE  /\ Fold(state, r) \in [StateKinds -> Seq(Entity)]
         /\ \A i \in DOMAIN Fold(state, r)[kind] :
              \/ Fold(state, r)[kind][i] \in Arrivals(r, kind)
              \/ \E j \in DOMAIN state[kind] : Same(Fold(state, r)[kind][i], state[kind][j])
         /\ kind \in ListKinds =>
              \A j \in DOMAIN state[kind] :
                \E i \in DOMAIN Fold(state, r)[kind] : Same(Fold(state, r)[kind][i], state[kind][j])
         /\ state["board"] /= <<>> => Fold(state, r)["board"] /= <<>>
<1>1. /\ \A s \in Seq(OfKind("evidence")) : s \in Seq(Entity) /\ \A e \in Range(s) : e.kind = "evidence"
      /\ \A s \in Seq(OfKind("decision")) : s \in Seq(Entity) /\ \A e \in Range(s) : e.kind = "decision"
      /\ \A s \in Seq(OfKind("pin")) : s \in Seq(Entity) /\ \A e \in Range(s) : e.kind = "pin"
      /\ \A s \in Seq(OfKind("link")) : s \in Seq(Entity) /\ \A e \in Range(s) : e.kind = "link"
  <2>1. ASSUME NEW k, NEW s \in Seq(OfKind(k))
        PROVE  s \in Seq(Entity) /\ \A e \in Range(s) : e.kind = k
    <3>1. OfKind(k) \subseteq Entity /\ \A e \in OfKind(k) : e.kind = k
      BY DEF OfKind
    <3>2. Range(s) \subseteq OfKind(k)
      BY RangeOfSeq
    <3>3. QED
      BY <3>1, <3>2, SeqMonotonic
  <2>2. QED
    BY <2>1
<1>2. /\ r.evidence \in Seq(OfKind("evidence")) /\ r.decision \in Seq(OfKind("decision"))
      /\ r.pins \in Seq(OfKind("pin")) /\ r.links \in Seq(OfKind("link"))
      /\ r.entity \in Entity
  BY DEF Request
<1>3. /\ r.evidence \in Seq(Entity) /\ \A e \in Range(r.evidence) : e.kind = "evidence"
      /\ r.decision \in Seq(Entity) /\ \A e \in Range(r.decision) : e.kind = "decision"
      /\ r.pins \in Seq(Entity) /\ \A e \in Range(r.pins) : e.kind = "pin"
      /\ r.links \in Seq(Entity) /\ \A e \in Range(r.links) : e.kind = "link"
  BY <1>1, <1>2
<1>4. Range(Events(r)) = Range(r.evidence) \cup Range(r.decision) \cup {r.entity}
                           \cup Range(r.pins) \cup Range(r.links)
  BY EventsShape
<1>5. ASSUME NEW k \in StateKinds
      PROVE  /\ k = "evidence" => Fold(state, r)[k] = state[k] \o r.evidence
             /\ k = "decision" => Fold(state, r)[k] = state[k] \o r.decision
             /\ k = "pin" => Fold(state, r)[k] = state[k] \o r.pins
             /\ k = "link" => Fold(state, r)[k] = state[k] \o r.links
             /\ k \notin Companions => Fold(state, r)[k] = Apply(state, r.entity)[k]
  BY DEF Fold, Companions
<1>6. ASSUME NEW k \in StateKinds, NEW more \in Seq(Entity),
             k \in ListKinds, Fold(state, r)[k] = state[k] \o more,
             Range(more) \subseteq Arrivals(r, k)
      PROVE  /\ Fold(state, r)[k] \in Seq(Entity)
             /\ \A i \in DOMAIN Fold(state, r)[k] :
                  \/ Fold(state, r)[k][i] \in Arrivals(r, k)
                  \/ \E j \in DOMAIN state[k] : Same(Fold(state, r)[k][i], state[k][j])
             /\ \A j \in DOMAIN state[k] :
                  \E i \in DOMAIN Fold(state, r)[k] : Same(Fold(state, r)[k][i], state[k][j])
  <2>1. state[k] \in Seq(Entity)
    OBVIOUS
  <2>2. QED
    BY <1>6, <2>1, ConcatShape
<1>7. ASSUME NEW k \in StateKinds
      PROVE  /\ Fold(state, r)[k] \in Seq(Entity)
             /\ \A i \in DOMAIN Fold(state, r)[k] :
                  \/ Fold(state, r)[k][i] \in Arrivals(r, k)
                  \/ \E j \in DOMAIN state[k] : Same(Fold(state, r)[k][i], state[k][j])
             /\ k \in ListKinds =>
                  \A j \in DOMAIN state[k] :
                    \E i \in DOMAIN Fold(state, r)[k] : Same(Fold(state, r)[k][i], state[k][j])
  <2>1. CASE k = "evidence"
    <3>1. Range(r.evidence) \subseteq Arrivals(r, k)
      BY <1>3, <1>4, <2>1 DEF Arrivals
    <3>2. k \in ListKinds /\ Fold(state, r)[k] = state[k] \o r.evidence
      BY <1>5, <2>1 DEF ListKinds
    <3>3. QED
      BY <1>3, <1>6, <3>1, <3>2
  <2>2. CASE k = "decision"
    <3>1. Range(r.decision) \subseteq Arrivals(r, k)
      BY <1>3, <1>4, <2>2 DEF Arrivals
    <3>2. k \in ListKinds /\ Fold(state, r)[k] = state[k] \o r.decision
      BY <1>5, <2>2 DEF ListKinds
    <3>3. QED
      BY <1>3, <1>6, <3>1, <3>2
  <2>3. CASE k = "pin"
    <3>1. Range(r.pins) \subseteq Arrivals(r, k)
      BY <1>3, <1>4, <2>3 DEF Arrivals
    <3>2. k \in ListKinds /\ Fold(state, r)[k] = state[k] \o r.pins
      BY <1>5, <2>3 DEF ListKinds
    <3>3. QED
      BY <1>3, <1>6, <3>1, <3>2
  <2>4. CASE k = "link"
    <3>1. Range(r.links) \subseteq Arrivals(r, k)
      BY <1>3, <1>4, <2>4 DEF Arrivals
    <3>2. k \in ListKinds /\ Fold(state, r)[k] = state[k] \o r.links
      BY <1>5, <2>4 DEF ListKinds
    <3>3. QED
      BY <1>3, <1>6, <3>1, <3>2
  <2>5. CASE k \notin Companions
    <3>1. Fold(state, r)[k] = Apply(state, r.entity)[k]
      BY <1>5, <2>5
    <3>2. r.entity.kind = k => r.entity \in Arrivals(r, k)
      BY <1>4 DEF Arrivals
    <3>3. QED
      BY <1>2, <3>1, <3>2, ApplyShape
  <2>6. QED
    BY <2>1, <2>2, <2>3, <2>4, <2>5 DEF Companions
<1>8. Fold(state, r) \in [StateKinds -> Seq(Entity)]
  BY <1>7 DEF Fold
<1>9. state["board"] /= <<>> => Fold(state, r)["board"] /= <<>>
  <2>1. "board" \in StateKinds /\ "board" \notin Companions
    BY DEF StateKinds, SingleKinds, Companions
  <2>2. Fold(state, r)["board"] = Apply(state, r.entity)["board"]
    BY <1>5, <2>1
  <2>3. QED
    BY <1>2, <2>1, <2>2, ApplyShape
<1>10. QED
  BY <1>7, <1>8, <1>9

-----------------------------------------------------------------------------
(* The invariant *)

\* Every reference that the seam checks is to an earlier record, and the seqs
\* are consecutive from 0.
Sound(recs) ==
  \A i \in DOMAIN recs :
    /\ recs[i].seq = i - 1
    /\ \A n \in CheckedNames(recs[i].event) : \E j \in 1 .. i - 1 : NameOf(recs[j].event) = n
    /\ NeedsBoard(recs[i].event) => \E j \in 1 .. i - 1 : recs[j].event.kind = "board"

\* While the process runs, a log that can be read is the cache, but for at most
\* one record without its newline.
Mirrors ==
  \/ file.lines = records
  \/ ~file.terminated /\ Len(file.lines) = Len(records) + 1
     /\ SubSeq(file.lines, 1, Len(records)) = records

LogInv ==
  /\ file \in LogFile
  /\ file.lines = <<>> => file.terminated
  /\ Readable(file) => Sound(file.lines) /\ (status /= "down" => Mirrors)
  /\ records \in Seq(Record)
  /\ Sound(records)

\* A state that a kernel with these records may have: every entity is among the
\* records, and whatever the seam looks up is in the state.
WellKept(state, recs) ==
  /\ state \in [StateKinds -> Seq(Entity)]
  /\ \A kind \in StateKinds : \A i \in DOMAIN state[kind] :
       /\ state[kind][i].kind = kind
       /\ \E j \in DOMAIN recs : NameOf(recs[j].event) = NameOf(state[kind][i])
       /\ \A n \in CheckedNames(state[kind][i]) : Holds(state, n)
       /\ NeedsBoard(state[kind][i]) => state["board"] /= <<>>

LiveInv ==
  /\ WellKept(live, records)
  /\ status = "down" => live = EmptyState

KernelInv == TypeOK /\ LogInv /\ LiveInv

\* What the events need is among the records.
CoveredBy(recs, events) ==
  \A e \in Range(events) :
    /\ \A n \in CheckedNames(e) : \E j \in DOMAIN recs : NameOf(recs[j].event) = n
    /\ NeedsBoard(e) => \E j \in DOMAIN recs : recs[j].event.kind = "board"

\* What the events need is in the state.
Grounded(state, events) ==
  \A e \in Range(events) :
    /\ \A n \in CheckedNames(e) : Holds(state, n)
    /\ NeedsBoard(e) => state["board"] /= <<>>

(* Sound records stay sound when events that they cover are appended.          *)
LEMMA SoundExtended ==
  ASSUME NEW recs \in Seq(Record), Sound(recs),
         NEW events \in Seq(Entity), CoveredBy(recs, events),
         NEW m \in 0 .. Len(events)
  PROVE  LET more == SubSeq(Records(Len(recs), events), 1, m)
         IN  recs \o more \in Seq(Record) /\ Sound(recs \o more)
<1> DEFINE batch == Records(Len(recs), events)
           more == SubSeq(batch, 1, m)
           all == recs \o more
<1>1. /\ Len(recs) \in Nat /\ DOMAIN recs = 1 .. Len(recs) /\ m \in Nat
      /\ Len(events) \in Nat /\ m <= Len(events)
  OBVIOUS
<1>2. /\ batch \in Seq(Record) /\ Len(batch) = Len(events)
      /\ \A i \in 1 .. Len(events) : batch[i] = [seq |-> Len(recs) + i - 1, event |-> events[i]]
  BY <1>1, RecordsShape
<1> HIDE DEF batch
<1>3. /\ more \in Seq(Record) /\ Len(more) = m
      /\ \A i \in 1 .. m : more[i] = batch[i]
  BY <1>1, <1>2
<1> HIDE DEF more
<1>4. /\ all \in Seq(Record) /\ Len(all) = Len(recs) + m
      /\ \A i \in 1 .. Len(recs) + m :
           all[i] = IF i <= Len(recs) THEN recs[i] ELSE more[i - Len(recs)]
  BY <1>3, ConcatProperties
<1> HIDE DEF all
<1>5. DOMAIN all = 1 .. Len(recs) + m
  BY <1>1, <1>4
<1>6. \A j \in 1 .. Len(recs) : all[j] = recs[j]
  BY <1>1, <1>4
<1>7. ASSUME NEW i \in 1 .. Len(recs) + m
      PROVE  /\ all[i].seq = i - 1
             /\ \A n \in CheckedNames(all[i].event) : \E j \in 1 .. i - 1 : NameOf(all[j].event) = n
             /\ NeedsBoard(all[i].event) => \E j \in 1 .. i - 1 : all[j].event.kind = "board"
  <2>1. CASE i <= Len(recs)
    <3>1. i \in 1 .. Len(recs) /\ 1 .. i - 1 \subseteq 1 .. Len(recs)
      BY <1>1, <2>1
    <3>2. /\ recs[i].seq = i - 1
          /\ \A n \in CheckedNames(recs[i].event) : \E j \in 1 .. i - 1 : NameOf(recs[j].event) = n
          /\ NeedsBoard(recs[i].event) => \E j \in 1 .. i - 1 : recs[j].event.kind = "board"
      BY <1>1, <3>1 DEF Sound
    <3>3. QED
      BY <1>6, <3>1, <3>2
  <2>2. CASE i > Len(recs)
    <3>1. i - Len(recs) \in 1 .. m /\ i - Len(recs) \in 1 .. Len(events)
          /\ 1 .. Len(recs) \subseteq 1 .. i - 1
      BY <1>1, <2>2
    <3> DEFINE k == i - Len(recs)
    <3>k. /\ k \in 1 .. m /\ k \in 1 .. Len(events)
          /\ i = Len(recs) + k
      BY <1>1, <3>1
    <3>a. all[i] = more[k]
      <4>1. ~(i <= Len(recs))
        BY <1>1, <2>2
      <4>2. QED
        BY <1>4, <4>1
    <3> HIDE DEF k
    <3>b. more[k] = batch[k]
      BY <1>3, <3>k
    <3>2. all[i] = batch[k] /\ k \in 1 .. Len(events) /\ i = Len(recs) + k
      BY <3>k, <3>a, <3>b
    <3>3. /\ all[i].seq = Len(recs) + k - 1
          /\ all[i].event = events[k]
      <4>1. batch[k] = [seq |-> Len(recs) + k - 1, event |-> events[k]]
        BY <1>2, <3>2
      <4>2. QED
        BY <3>2, <4>1
    <3>4. all[i].event \in Range(events)
      BY <3>2, <3>3 DEF Range
    <3>5. /\ \A n \in CheckedNames(all[i].event) :
               \E j \in 1 .. Len(recs) : NameOf(recs[j].event) = n
          /\ NeedsBoard(all[i].event) => \E j \in 1 .. Len(recs) : recs[j].event.kind = "board"
      BY <1>1, <3>4 DEF CoveredBy
    <3>6. all[i].seq = i - 1
      BY <1>1, <3>2, <3>3
    <3>7. QED
      BY <1>6, <3>1, <3>5, <3>6
  <2>3. QED
    BY <1>1, <2>1, <2>2
<1>8. QED
  BY <1>4, <1>5, <1>7 DEF Sound, all, more, batch

(* What is grounded in the live state is covered by the cache.                 *)
LEMMA GroundedCovered ==
  ASSUME NEW state, NEW recs, WellKept(state, recs),
         NEW events \in Seq(Entity), Grounded(state, events)
  PROVE  CoveredBy(recs, events)
<1>1. ASSUME NEW n \in Name, Holds(state, n)
      PROVE  \E j \in DOMAIN recs : NameOf(recs[j].event) = n
  <2>1. n[1] \in StateKinds /\ n = <<n[1], n[2]>>
    BY DEF Name
  <2>2. PICK i \in DOMAIN state[n[1]] : state[n[1]][i].id = n[2]
    BY <1>1 DEF Holds
  <2>3. NameOf(state[n[1]][i]) = n
    BY <2>1, <2>2 DEF WellKept, NameOf
  <2>4. QED
    BY <2>1, <2>2, <2>3 DEF WellKept
<1>2. ASSUME state["board"] /= <<>>
      PROVE  \E j \in DOMAIN recs : recs[j].event.kind = "board"
  <2>1. "board" \in StateKinds
    BY DEF StateKinds, SingleKinds
  <2>2. 1 \in DOMAIN state["board"]
    BY <1>2, <2>1 DEF WellKept
  <2>3. PICK j \in DOMAIN recs : NameOf(recs[j].event) = NameOf(state["board"][1])
    BY <2>1, <2>2 DEF WellKept
  <2>4. state["board"][1].kind = "board"
    BY <2>1, <2>2 DEF WellKept
  <2>5. QED
    BY <2>3, <2>4 DEF NameOf
<1>3. \A e \in Range(events) : e \in Entity /\ CheckedNames(e) \subseteq Name
  <2>1. Range(events) \subseteq Entity
    BY RangeOfSeq
  <2>2. QED
    BY <2>1 DEF Entity, CheckedNames
<1>4. QED
  BY <1>1, <1>2, <1>3 DEF Grounded, CoveredBy

-----------------------------------------------------------------------------
(* Appends preserve the invariant of the log *)

(* A file that a covered batch has extended is sound. *)
LEMMA ExtendedSound ==
  ASSUME LogInv, status /= "down",
         NEW events \in Seq(Entity), CoveredBy(records, events),
         NEW m \in 0 .. Len(events), NEW g,
         Extended(file, g, Records(Len(records), events), m)
  PROVE  /\ g.lines = records \o SubSeq(Records(Len(records), events), 1, m)
         /\ Sound(g.lines)
<1>1. records \in Seq(Record) /\ Sound(records)
  BY DEF LogInv
<1>2. file.lines = records
  BY DEF LogInv, Extended, Mirrors
<1>3. g.lines = records \o SubSeq(Records(Len(records), events), 1, m)
  BY <1>2 DEF Extended
<1>4. QED
  BY <1>1, <1>3, SoundExtended

(* An append that succeeds.                                                    *)
LEMMA WholeAppend ==
  ASSUME LogInv, status /= "down",
         NEW events \in Seq(Entity), events /= <<>>, CoveredBy(records, events)
  PROVE  LET batch == Records(Len(records), events)
             g == WriteAll(file, batch)
         IN  /\ g \in LogFile
             /\ g.lines = <<>> => g.terminated
             /\ Readable(g) => Sound(g.lines) /\ g.lines = records \o batch
             /\ records \o batch \in Seq(Record)
             /\ Sound(records \o batch)
<1> DEFINE batch == Records(Len(records), events)
           g == WriteAll(file, batch)
<1>1. records \in Seq(Record) /\ Sound(records) /\ Len(records) \in Nat
      /\ file \in LogFile /\ (file.lines = <<>> => file.terminated)
  BY DEF LogInv
<1>2. batch \in Seq(Record) /\ Len(batch) = Len(events)
  BY <1>1, RecordsShape
<1>3. Len(events) \in 0 .. Len(events) /\ batch /= <<>>
  <2>1. Len(events) \in Nat /\ Len(events) /= 0
    OBVIOUS
  <2>2. QED
    BY <1>2, <2>1
<1>4. SubSeq(batch, 1, Len(events)) = batch
  <2> HIDE DEF batch
  <2>1. QED
    BY <1>2
<1>5. g \in LogFile /\ (g.lines = <<>> => g.terminated)
      /\ (Readable(g) => Extended(file, g, batch, Len(events)))
  BY <1>1, <1>2, <1>3, WriteAllShape
<1>6. Readable(g) => Sound(g.lines) /\ g.lines = records \o batch
  <2>1. SUFFICES ASSUME Readable(g) PROVE Sound(g.lines) /\ g.lines = records \o batch
    OBVIOUS
  <2>2. Extended(file, g, Records(Len(records), events), Len(events))
    BY <1>5, <2>1
  <2> HIDE DEF g
  <2>3. QED
    BY <1>3, <1>4, <2>2, ExtendedSound
<1>7. records \o batch \in Seq(Record) /\ Sound(records \o batch)
  BY <1>1, <1>3, <1>4, SoundExtended
<1>8. QED
  BY <1>5, <1>6, <1>7

(* An append that fails or is cut short after k records. *)
LEMMA PartialAppend ==
  ASSUME LogInv, status /= "down",
         NEW events \in Seq(Entity), CoveredBy(records, events),
         NEW k \in 0 .. Len(events) - 1, NEW torn \in Torn
  PROVE  LET batch == Records(Len(records), events)
             g == WriteSome(file, batch, k, torn)
             more == records \o SubSeq(batch, 1, k)
         IN  /\ g \in LogFile
             /\ g.lines = <<>> => g.terminated
             /\ Readable(g) =>
                  /\ Sound(g.lines)
                  /\ \/ g.lines = more
                     \/ ~g.terminated /\ Len(g.lines) = Len(more) + 1
                        /\ SubSeq(g.lines, 1, Len(more)) = more
             /\ more \in Seq(Record)
             /\ Sound(more)
<1> DEFINE batch == Records(Len(records), events)
           g == WriteSome(file, batch, k, torn)
           more == records \o SubSeq(batch, 1, k)
<1>1. records \in Seq(Record) /\ Sound(records) /\ Len(records) \in Nat
      /\ file \in LogFile /\ (file.lines = <<>> => file.terminated)
  BY DEF LogInv
<1>2. batch \in Seq(Record) /\ Len(batch) = Len(events)
  BY <1>1, RecordsShape
<1>3. k \in 0 .. Len(batch) - 1 /\ k \in 0 .. Len(events) /\ k + 1 \in 0 .. Len(events)
  <2>1. Len(events) \in Nat /\ k \in Nat /\ k <= Len(events) - 1
    OBVIOUS
  <2>2. QED
    BY <1>2, <2>1
<1>4. /\ g \in LogFile
      /\ g.lines = <<>> => g.terminated
      /\ Readable(g) =>
           \/ k = 0 /\ g = file
           \/ k > 0 /\ Extended(file, g, batch, k)
           \/ ~g.terminated /\ Extended(file, g, batch, k + 1)
  BY <1>1, <1>2, <1>3, WriteSomeShape
<1>5. more \in Seq(Record) /\ Sound(more)
  BY <1>1, <1>3, SoundExtended
<1>6. ASSUME k = 0, g = file, Readable(g)
      PROVE  /\ Sound(g.lines)
             /\ \/ g.lines = more
                \/ ~g.terminated /\ Len(g.lines) = Len(more) + 1
                   /\ SubSeq(g.lines, 1, Len(more)) = more
  <2>1. more = records
    <3> HIDE DEF batch
    <3>1. SubSeq(batch, 1, 0) = <<>>
      BY <1>2
    <3>2. QED
      BY <1>1, <1>6, <3>1
  <2> HIDE DEF more, g
  <2>2. QED
    BY <1>6, <2>1 DEF LogInv, Mirrors
<1>7. ASSUME k > 0, Extended(file, g, batch, k)
      PROVE  Sound(g.lines) /\ g.lines = more
  <2> HIDE DEF g
  <2>1. QED
    BY <1>3, <1>7, ExtendedSound
<1>8. ASSUME ~g.terminated, Extended(file, g, batch, k + 1)
      PROVE  /\ Sound(g.lines) /\ Len(g.lines) = Len(more) + 1
             /\ SubSeq(g.lines, 1, Len(more)) = more
  <2> HIDE DEF g
  <2>1. Sound(g.lines) /\ g.lines = records \o SubSeq(batch, 1, k + 1)
    BY <1>3, <1>8, ExtendedSound
  <2>2. records \in Seq(LogLine)
    BY <1>1 DEF LogLine
  <2>3. g.lines = Append(more, batch[k + 1])
    BY <1>2, <1>3, <2>1, <2>2, OneMoreRecord
  <2>4. batch[k + 1] \in Record
    <3> HIDE DEF batch
    <3>1. k + 1 \in 1 .. Len(batch)
      BY <1>2, <1>3
    <3>2. QED
      BY <1>2, <3>1
  <2> HIDE DEF more, batch
  <2>5. QED
    BY <1>5, <2>1, <2>3, <2>4
<1>9. QED
  BY <1>4, <1>5, <1>6, <1>7, <1>8

-----------------------------------------------------------------------------
(* Folds preserve the invariant of the live state *)

(* More records do not take anything from the live state. *)
LEMMA KeptByMore ==
  ASSUME NEW state, NEW recs \in Seq(Record), WellKept(state, recs),
         NEW more \in Seq(Record)
  PROVE  WellKept(state, recs \o more)
<1>1. \A j \in DOMAIN recs : j \in DOMAIN (recs \o more) /\ (recs \o more)[j] = recs[j]
  BY ConcatProperties
<1>2. QED
  BY <1>1 DEF WellKept

(* A state that keeps its entities and gains events grounded in it, recorded. *)
LEMMA KeptByEvents ==
  ASSUME NEW state, NEW recs \in Seq(Record), WellKept(state, recs),
         NEW events \in Seq(Entity), Grounded(state, events),
         NEW new \in [StateKinds -> Seq(Entity)],
         \A kind \in StateKinds : \A i \in DOMAIN new[kind] :
           \/ new[kind][i] \in Range(events) /\ new[kind][i].kind = kind
           \/ \E j \in DOMAIN state[kind] : Same(new[kind][i], state[kind][j]),
         \A kind \in ListKinds : \A j \in DOMAIN state[kind] :
           \E i \in DOMAIN new[kind] : Same(new[kind][i], state[kind][j]),
         state["board"] /= <<>> => new["board"] /= <<>>
  PROVE  WellKept(new, recs \o Records(Len(recs), events))
<1> DEFINE batch == Records(Len(recs), events)
           all == recs \o batch
<1>1. batch \in Seq(Record) /\ Len(batch) = Len(events)
      /\ \A i \in 1 .. Len(events) : batch[i] = [seq |-> Len(recs) + i - 1, event |-> events[i]]
  <2>1. Len(recs) \in Nat
    OBVIOUS
  <2>2. QED
    BY <2>1, RecordsShape
<1> HIDE DEF batch
<1>2. \A j \in DOMAIN recs : j \in DOMAIN all /\ all[j] = recs[j]
  BY <1>1, ConcatProperties
<1>3. Range(all) = Range(recs) \cup Range(batch)
  BY <1>1, RangeConcatenation
<1> HIDE DEF all
<1>4. ASSUME NEW e \in Range(events) PROVE \E j \in DOMAIN all : all[j].event = e
  <2>1. PICK i \in 1 .. Len(events) : e = events[i]
    BY DEF Range
  <2>2. batch[i] \in Range(batch) /\ batch[i].event = e
    <3>1. i \in DOMAIN batch /\ batch[i] = [seq |-> Len(recs) + i - 1, event |-> events[i]]
      BY <1>1
    <3>2. QED
      BY <2>1, <3>1 DEF Range
  <2>3. PICK j \in DOMAIN all : all[j] = batch[i]
    BY <1>3, <2>2 DEF Range
  <2>4. QED
    BY <2>2, <2>3
<1>5. ASSUME NEW n \in Name, n[1] \in ListKinds, Holds(state, n) PROVE Holds(new, n)
  <2>1. PICK j \in DOMAIN state[n[1]] : state[n[1]][j].id = n[2]
    BY <1>5 DEF Holds
  <2>2. PICK i \in DOMAIN new[n[1]] : Same(new[n[1]][i], state[n[1]][j])
    BY <1>5, <2>1
  <2>3. QED
    BY <2>1, <2>2 DEF Holds, Same
<1>6. ASSUME NEW e \in Entity
      PROVE  \A n \in CheckedNames(e) : n \in Name /\ n[1] \in ListKinds
  <2>1. CheckedKinds(e) \subseteq ListKinds
    BY DEF CheckedKinds, ListKinds
  <2>2. QED
    BY <2>1 DEF CheckedNames, Entity
<1>7. ASSUME NEW e, NEW f, Same(e, f)
      PROVE  /\ NameOf(e) = NameOf(f) /\ CheckedNames(e) = CheckedNames(f)
             /\ (NeedsBoard(e) <=> NeedsBoard(f))
  <2>1. CheckedKinds(e) = CheckedKinds(f)
    BY <1>7 DEF Same, CheckedKinds
  <2>2. QED
    BY <1>7, <2>1 DEF Same, NameOf, CheckedNames, NeedsBoard
<1>8. ASSUME NEW kind \in StateKinds, NEW i \in DOMAIN new[kind]
      PROVE  /\ new[kind][i].kind = kind
             /\ \E j \in DOMAIN all : NameOf(all[j].event) = NameOf(new[kind][i])
             /\ \A n \in CheckedNames(new[kind][i]) : Holds(new, n)
             /\ NeedsBoard(new[kind][i]) => new["board"] /= <<>>
  <2> DEFINE e == new[kind][i]
  <2>1. e \in Entity
    OBVIOUS
  <2>2. \/ e \in Range(events) /\ e.kind = kind
        \/ \E j \in DOMAIN state[kind] : Same(e, state[kind][j])
    OBVIOUS
  <2> HIDE DEF e
  <2>3. CASE e \in Range(events) /\ e.kind = kind
    <3>1. /\ \A n \in CheckedNames(e) : Holds(state, n)
          /\ NeedsBoard(e) => state["board"] /= <<>>
      BY <2>3 DEF Grounded
    <3>2. \A n \in CheckedNames(e) : Holds(new, n)
      BY <1>5, <1>6, <2>1, <3>1
    <3>3. \E j \in DOMAIN all : NameOf(all[j].event) = NameOf(e)
      BY <1>4, <2>3
    <3>4. QED
      BY <2>3, <3>1, <3>2, <3>3 DEF e
  <2>4. CASE \E j \in DOMAIN state[kind] : Same(e, state[kind][j])
    <3>1. PICK j \in DOMAIN state[kind] : Same(e, state[kind][j])
      BY <2>4
    <3> DEFINE f == state[kind][j]
    <3>2. /\ f.kind = kind
          /\ \E m \in DOMAIN recs : NameOf(recs[m].event) = NameOf(f)
          /\ \A n \in CheckedNames(f) : Holds(state, n)
          /\ NeedsBoard(f) => state["board"] /= <<>>
      BY DEF WellKept
    <3>3. Same(e, f)
      BY <3>1
    <3> HIDE DEF f
    <3>4. e.kind = kind /\ NameOf(e) = NameOf(f) /\ CheckedNames(e) = CheckedNames(f)
          /\ (NeedsBoard(e) <=> NeedsBoard(f))
      BY <1>7, <3>2, <3>3 DEF Same
    <3>5. \A n \in CheckedNames(e) : Holds(new, n)
      BY <1>5, <1>6, <2>1, <3>2, <3>4
    <3>6. PICK m \in DOMAIN recs : NameOf(recs[m].event) = NameOf(f)
      BY <3>2
    <3>7. m \in DOMAIN all /\ NameOf(all[m].event) = NameOf(e)
      BY <1>2, <3>4, <3>6
    <3>8. NeedsBoard(e) => new["board"] /= <<>>
      BY <3>2, <3>4
    <3>9. QED
      BY <3>4, <3>5, <3>7, <3>8 DEF e
  <2>5. QED
    BY <2>2, <2>3, <2>4
<1>9. QED
  BY <1>8 DEF WellKept, all, batch

-----------------------------------------------------------------------------
(* What the handlers check *)

(* The companions of a request need nothing; its entity needs what its handler *)
(* looks up.                                                                   *)
LEMMA BatchGrounded ==
  ASSUME NEW r \in Request, NEW state,
         \A n \in CheckedNames(r.entity) : Holds(state, n),
         NeedsBoard(r.entity) => state["board"] /= <<>>
  PROVE  Grounded(state, Events(r))
<1>1. ASSUME NEW kind \in Companions, NEW s \in Seq(OfKind(kind)), NEW e \in Range(s)
      PROVE  CheckedNames(e) = {} /\ ~NeedsBoard(e)
  <2>1. e.kind = kind
    <3>1. Range(s) \subseteq OfKind(kind)
      BY RangeOfSeq
    <3>2. QED
      BY <3>1 DEF OfKind
  <2>2. CheckedKinds(e) = {} /\ ~NeedsBoard(e)
    BY <2>1 DEF Companions, CheckedKinds, NeedsBoard
  <2>3. QED
    BY <2>2 DEF CheckedNames
<1>2. /\ r.evidence \in Seq(OfKind("evidence")) /\ r.decision \in Seq(OfKind("decision"))
      /\ r.pins \in Seq(OfKind("pin")) /\ r.links \in Seq(OfKind("link"))
      /\ {"evidence", "decision", "pin", "link"} \subseteq Companions
  BY DEF Request, Companions
<1>3. \A e \in Range(r.evidence) \cup Range(r.decision) \cup Range(r.pins) \cup Range(r.links) :
        CheckedNames(e) = {} /\ ~NeedsBoard(e)
  BY <1>1, <1>2
<1>4. QED
  BY <1>3, EventsShape DEF Grounded

(* A request that a handler takes is submitted, and grounded in the live state. *)
LEMMA HandlesGrounded ==
  ASSUME NEW r \in Requests, Handles(r)
  PROVE  /\ status = "running"
         /\ Submit(r)
         /\ Grounded(live, Events(r))
<1> DEFINE needs == /\ \A n \in CheckedNames(r.entity) : Holds(live, n)
                    /\ NeedsBoard(r.entity) => live["board"] /= <<>>
<1>1. r \in Request
  BY KernelAssumption
<1>2. ASSUME NEW kind, r.entity.kind = kind,
             kind \in {"requirement", "violation", "part", "board", "audit"}
      PROVE  needs
  <2>1. CheckedKinds(r.entity) = {} /\ ~NeedsBoard(r.entity)
    BY <1>2 DEF CheckedKinds, NeedsBoard
  <2>2. QED
    BY <2>1 DEF CheckedNames
<1>3. ASSUME NEW kind, Resolves(r.entity, kind), CheckedKinds(r.entity) = {kind}
      PROVE  \A n \in CheckedNames(r.entity) : Holds(live, n)
  BY <1>3 DEF CheckedNames, Resolves, NamesOfKind
<1>4. CASE CreateRequirement(r)
  BY <1>1, <1>2, <1>4, BatchGrounded DEF CreateRequirement, Requested
<1>5. CASE CreateConstraint(r)
  <2>1. CheckedKinds(r.entity) = {"requirement"} /\ ~NeedsBoard(r.entity)
    BY <1>5 DEF CreateConstraint, Requested, CheckedKinds, NeedsBoard
  <2>2. QED
    BY <1>1, <1>3, <1>5, <2>1, BatchGrounded DEF CreateConstraint, Requested
<1>6. CASE RaiseViolation(r)
  BY <1>1, <1>2, <1>6, BatchGrounded DEF RaiseViolation, Requested
<1>7. CASE GrantWaiver(r)
  <2>1. CheckedKinds(r.entity) = {"violation"} /\ ~NeedsBoard(r.entity)
    BY <1>7 DEF GrantWaiver, Requested, CheckedKinds, NeedsBoard
  <2>2. QED
    BY <1>1, <1>3, <1>7, <2>1, BatchGrounded DEF GrantWaiver, Requested
<1>8. CASE CreateFunctionalBlock(r)
  <2>1. CheckedKinds(r.entity) = {"requirement"} /\ ~NeedsBoard(r.entity)
    BY <1>8 DEF CreateFunctionalBlock, Requested, CheckedKinds, NeedsBoard
  <2>2. QED
    BY <1>1, <1>3, <1>8, <2>1, BatchGrounded DEF CreateFunctionalBlock, Requested
<1>9. CASE RealizeComponent(r)
  <2>1. CheckedKinds(r.entity) = {"block"} /\ ~NeedsBoard(r.entity)
    BY <1>9 DEF RealizeComponent, Requested, CheckedKinds, NeedsBoard
  <2>2. QED
    BY <1>1, <1>3, <1>9, <2>1, BatchGrounded DEF RealizeComponent, Requested
<1>10. CASE CreateNet(r)
  <2>1. CheckedKinds(r.entity) = {"pin"} /\ ~NeedsBoard(r.entity)
    BY <1>10 DEF CreateNet, Requested, CheckedKinds, NeedsBoard
  <2>2. QED
    BY <1>1, <1>3, <1>10, <2>1, BatchGrounded DEF CreateNet, Requested
<1>11. CASE CreatePart(r)
  BY <1>1, <1>2, <1>11, BatchGrounded DEF CreatePart, Requested
<1>12. CASE CreateBomLineItem(r)
  <2>1. CheckedKinds(r.entity) = {"part", "component"} /\ ~NeedsBoard(r.entity)
    BY <1>12 DEF CreateBomLineItem, Requested, CheckedKinds, NeedsBoard
  <2>2. \A n \in CheckedNames(r.entity) : Holds(live, n)
    BY <1>12, <2>1 DEF CreateBomLineItem, Resolves, NamesOfKind, CheckedNames
  <2>3. QED
    BY <1>1, <1>12, <2>1, <2>2, BatchGrounded DEF CreateBomLineItem, Requested
<1>13. CASE CreateBoard(r)
  BY <1>1, <1>2, <1>13, BatchGrounded DEF CreateBoard, Requested
<1>14. CASE PlaceComponent(r)
  <2>1. CheckedKinds(r.entity) = {"component"}
    BY <1>14 DEF PlaceComponent, Requested, CheckedKinds
  <2>2. QED
    BY <1>1, <1>3, <1>14, <2>1, BatchGrounded DEF PlaceComponent, Requested
<1>15. CASE RouteNet(r)
  <2>1. CheckedKinds(r.entity) = {"net"}
    BY <1>15 DEF RouteNet, Requested, CheckedKinds
  <2>2. QED
    BY <1>1, <1>3, <1>15, <2>1, BatchGrounded DEF RouteNet, Requested
<1>16. CASE Emit(r)
  BY <1>1, <1>2, <1>16, BatchGrounded DEF Emit, Requested
<1>17. QED
  BY <1>4, <1>5, <1>6, <1>7, <1>8, <1>9, <1>10, <1>11, <1>12, <1>13, <1>14, <1>15, <1>16
     DEF Handles

-----------------------------------------------------------------------------
(* Every step preserves the invariant *)

(* The empty state and the empty log. *)
LEMMA Empty ==
  /\ EmptyFile \in LogFile /\ EmptyFile.lines = <<>> /\ EmptyFile.terminated
  /\ <<>> \in Seq(Record) /\ Sound(<<>>)
  /\ \A recs : WellKept(EmptyState, recs)
<1>1. EmptyFile \in LogFile /\ EmptyFile.lines = <<>> /\ EmptyFile.terminated
  BY DEF EmptyFile, LogFile
<1>2. <<>> \in Seq(Record) /\ Sound(<<>>)
  BY DEF Sound
<1>3. EmptyState \in [StateKinds -> Seq(Entity)]
  BY DEF EmptyState
<1>4. \A kind \in StateKinds : DOMAIN EmptyState[kind] = {}
  BY DEF EmptyState
<1>5. \A recs : WellKept(EmptyState, recs)
  BY <1>3, <1>4 DEF WellKept
<1>6. QED
  BY <1>1, <1>2, <1>5

(* The names of a batch are names. *)
LEMMA NamesType ==
  ASSUME NEW events \in Seq(Entity)
  PROVE  NamesOf(events) \subseteq Kinds \X Id
<1>1. ASSUME NEW i \in DOMAIN events PROVE NameOf(events[i]) \in Kinds \X Id
  <2>1. events[i] \in Entity
    OBVIOUS
  <2>2. events[i].kind \in Kinds /\ events[i].id \in Id
    BY <2>1 DEF Entity
  <2>3. QED
    BY <2>2 DEF NameOf
<1>2. QED
  BY <1>1 DEF NamesOf

(* The process starts on an empty log. *)
LEMMA KernelInvInit == Init => KernelInv
<1> SUFFICES ASSUME Init PROVE KernelInv
  OBVIOUS
<1>1. /\ file = EmptyFile /\ records = <<>> /\ live = EmptyState /\ issued = {}
      /\ status = "down" /\ boots = 0
  BY DEF Init
<1>2. LogInv
  BY <1>1, Empty DEF LogInv
<1>3. LiveInv
  BY <1>1, Empty DEF LiveInv
<1>4. TypeOK
  BY <1>1, <1>2, <1>3 DEF TypeOK, LogInv, LiveInv, WellKept, LogFile, LogLine
<1>5. QED
  BY <1>2, <1>3, <1>4 DEF KernelInv

(* The process dies and leaves a file that is sound or cannot be read. *)
LEMMA DiesStep ==
  ASSUME KernelInv, Dies, boots' = boots, file' \in LogFile,
         file'.lines = <<>> => file'.terminated,
         Readable(file)' => Sound(file.lines)'
  PROVE  KernelInv'
<1>1. status' = "down" /\ live' = EmptyState /\ records' = <<>> /\ issued' = {}
  BY DEF Dies
<1>2. LogInv'
  BY <1>1, Empty DEF LogInv
<1>3. LiveInv'
  BY <1>1, Empty DEF LiveInv
<1>4. TypeOK'
  BY <1>1, <1>2, <1>3 DEF KernelInv, TypeOK, LogInv, LiveInv, WellKept, LogFile, LogLine
<1>5. QED
  BY <1>2, <1>3, <1>4 DEF KernelInv

(* The process dies in an append. *)
LEMMA DiesInAppendStep ==
  ASSUME KernelInv, status /= "down", boots' = boots,
         NEW events \in Seq(Entity), events /= <<>>, Grounded(live, events),
         DiesInAppend(events)
  PROVE  KernelInv'
<1> DEFINE batch == Records(Len(records), events)
<1>1. LogInv /\ CoveredBy(records, events)
  BY GroundedCovered DEF KernelInv, LiveInv
<1>2. Dies
  BY DEF DiesInAppend
<1>3. Len(batch) = Len(events)
  <2>1. Len(records) \in Nat
    BY <1>1 DEF LogInv
  <2>2. QED
    BY <2>1, RecordsShape
<1>4. CASE file' = WriteAll(file, batch)
  <2> DEFINE g == WriteAll(file, batch)
  <2>1. g \in LogFile /\ (g.lines = <<>> => g.terminated) /\ (Readable(g) => Sound(g.lines))
    BY <1>1, WholeAppend
  <2>2. file' = g
    BY <1>4
  <2> HIDE DEF g
  <2>3. QED
    BY <1>2, <2>1, <2>2, DiesStep
<1>5. CASE \E k \in 0 .. Len(batch) - 1, torn \in Torn : file' = WriteSome(file, batch, k, torn)
  <2>1. PICK k \in 0 .. Len(events) - 1, torn \in Torn : file' = WriteSome(file, batch, k, torn)
    BY <1>3, <1>5
  <2> DEFINE g == WriteSome(file, batch, k, torn)
  <2>2. g \in LogFile /\ (g.lines = <<>> => g.terminated) /\ (Readable(g) => Sound(g.lines))
    BY <1>1, PartialAppend
  <2>3. file' = g
    BY <2>1
  <2> HIDE DEF g
  <2>4. QED
    BY <1>2, <2>2, <2>3, DiesStep
<1>6. QED
  BY <1>4, <1>5 DEF DiesInAppend

(* An append fails, and the live state stays. *)
LEMMA FailsToAppendStep ==
  ASSUME KernelInv, status = "running", status' = status, live' = live, boots' = boots,
         NEW events \in Seq(Entity), events /= <<>>, Grounded(live, events),
         FailsToAppend(events), Mints(events)
  PROVE  KernelInv'
<1> DEFINE batch == Records(Len(records), events)
<1>1. LogInv /\ CoveredBy(records, events) /\ records \in Seq(Record)
  BY GroundedCovered DEF KernelInv, LiveInv, LogInv
<1>2. Len(batch) = Len(events) /\ batch \in Seq(Record)
  <2>1. Len(records) \in Nat
    BY <1>1
  <2>2. QED
    BY <2>1, RecordsShape
<1>3. PICK k \in 0 .. Len(events) - 1, torn \in Torn :
        /\ file' = WriteSome(file, batch, k, torn)
        /\ records' = records \o SubSeq(batch, 1, k)
  BY <1>2 DEF FailsToAppend
<1> DEFINE g == WriteSome(file, batch, k, torn)
           more == records \o SubSeq(batch, 1, k)
<1>4. /\ g \in LogFile
      /\ g.lines = <<>> => g.terminated
      /\ Readable(g) =>
           /\ Sound(g.lines)
           /\ \/ g.lines = more
              \/ ~g.terminated /\ Len(g.lines) = Len(more) + 1
                 /\ SubSeq(g.lines, 1, Len(more)) = more
      /\ more \in Seq(Record)
      /\ Sound(more)
  BY <1>1, PartialAppend
<1>5. WellKept(live, more)
  <2>1. SubSeq(batch, 1, k) \in Seq(Record)
    <3> HIDE DEF batch
    <3>1. k \in Nat /\ k <= Len(batch)
      <4>1. Len(events) \in Nat
        OBVIOUS
      <4>2. QED
        BY <1>2, <4>1
    <3>2. QED
      BY <1>2, <3>1
  <2>2. QED
    BY <1>1, <2>1, KeptByMore DEF KernelInv, LiveInv
<1>6. file' = g /\ records' = more
  BY <1>3
<1> HIDE DEF g, more
<1>7. LogInv'
  BY <1>4, <1>6 DEF LogInv, Mirrors
<1>8. LiveInv'
  BY <1>5, <1>6 DEF LiveInv
<1>9. TypeOK'
  BY <1>7, <1>8, NamesType
     DEF KernelInv, TypeOK, LogInv, LiveInv, WellKept, LogFile, LogLine, Mints
<1>10. QED
  BY <1>7, <1>8, <1>9 DEF KernelInv

(* An append succeeds, and the live state gains the events. *)
LEMMA AppendsStep ==
  ASSUME KernelInv, status /= "down", status' = "running", boots' = boots,
         NEW events \in Seq(Entity), events /= <<>>, Grounded(live, events),
         Appends(events), Mints(events),
         live' \in [StateKinds -> Seq(Entity)],
         \A kind \in StateKinds : \A i \in DOMAIN live'[kind] :
           \/ live'[kind][i] \in Range(events) /\ live'[kind][i].kind = kind
           \/ \E j \in DOMAIN live[kind] : Same(live'[kind][i], live[kind][j]),
         \A kind \in ListKinds : \A j \in DOMAIN live[kind] :
           \E i \in DOMAIN live'[kind] : Same(live'[kind][i], live[kind][j]),
         live["board"] /= <<>> => live'["board"] /= <<>>
  PROVE  KernelInv'
<1> DEFINE batch == Records(Len(records), events)
           g == WriteAll(file, batch)
           more == records \o batch
<1>1. LogInv /\ CoveredBy(records, events) /\ records \in Seq(Record)
  BY GroundedCovered DEF KernelInv, LiveInv, LogInv
<1>2. /\ g \in LogFile
      /\ g.lines = <<>> => g.terminated
      /\ Readable(g) => Sound(g.lines) /\ g.lines = more
      /\ more \in Seq(Record)
      /\ Sound(more)
  BY <1>1, WholeAppend
<1>3. WellKept(live', more)
  <2>1. WellKept(live, records)
    BY DEF KernelInv, LiveInv
  <2>2. PICK new : new = live'
    OBVIOUS
  <2>3. WellKept(new, more)
    BY <1>1, <2>1, <2>2, KeptByEvents
  <2>4. QED
    BY <2>2, <2>3
<1>4. file' = g /\ records' = more
  BY DEF Appends
<1> HIDE DEF g, more
<1>5. LogInv'
  BY <1>2, <1>4 DEF LogInv, Mirrors
<1>6. LiveInv'
  BY <1>3, <1>4 DEF LiveInv
<1>7. TypeOK'
  BY <1>5, <1>6, NamesType
     DEF KernelInv, TypeOK, LogInv, LiveInv, WellKept, LogFile, LogLine, Mints
<1>8. QED
  BY <1>5, <1>6, <1>7 DEF KernelInv

(* A submitted request. *)
LEMMA SubmitStep ==
  ASSUME KernelInv, NEW r \in Requests, Submit(r),
         status = "running", Grounded(live, Events(r))
  PROVE  KernelInv'
<1>1. r \in Request /\ r.entity.kind \notin Companions
  BY KernelAssumption
<1>2. Events(r) \in Seq(Entity) /\ Events(r) /= <<>>
  BY <1>1, EventsShape
<1>3. boots' = boots
  BY DEF Submit
<1>4. CASE Appends(Events(r)) /\ live' = Fold(live, r) /\ Mints(Events(r)) /\ status' = status
  <2>1. live \in [StateKinds -> Seq(Entity)]
    BY DEF KernelInv, TypeOK
  <2>2. PICK new : new = Fold(live, r)
    OBVIOUS
  <2>3. \A kind \in StateKinds :
          /\ new \in [StateKinds -> Seq(Entity)]
          /\ \A i \in DOMAIN new[kind] :
               \/ new[kind][i] \in Arrivals(r, kind)
               \/ \E j \in DOMAIN live[kind] : Same(new[kind][i], live[kind][j])
          /\ kind \in ListKinds =>
               \A j \in DOMAIN live[kind] : \E i \in DOMAIN new[kind] : Same(new[kind][i], live[kind][j])
          /\ live["board"] /= <<>> => new["board"] /= <<>>
    BY <1>1, <2>1, <2>2, FoldShape
  <2>4. "board" \in StateKinds /\ ListKinds \subseteq StateKinds
    BY DEF StateKinds, SingleKinds
  <2>5. live' = new
    BY <1>4, <2>2
  <2>6. /\ live' \in [StateKinds -> Seq(Entity)]
        /\ \A kind \in StateKinds : \A i \in DOMAIN live'[kind] :
             \/ live'[kind][i] \in Range(Events(r)) /\ live'[kind][i].kind = kind
             \/ \E j \in DOMAIN live[kind] : Same(live'[kind][i], live[kind][j])
        /\ \A kind \in ListKinds : \A j \in DOMAIN live[kind] :
             \E i \in DOMAIN live'[kind] : Same(live'[kind][i], live[kind][j])
        /\ live["board"] /= <<>> => live'["board"] /= <<>>
    BY <2>3, <2>4, <2>5 DEF Arrivals
  <2>7. QED
    BY <1>2, <1>3, <1>4, <2>6, AppendsStep
<1>5. CASE FailsToAppend(Events(r)) /\ Mints(Events(r)) /\ live' = live /\ status' = status
  BY <1>2, <1>3, <1>5, FailsToAppendStep
<1>6. CASE DiesInAppend(Events(r))
  BY <1>2, <1>3, <1>6, DiesInAppendStep
<1>7. QED
  BY <1>4, <1>5, <1>6 DEF Submit

(* A run starts on a fresh log, or on one that could not be removed. *)
LEMMA BootStep ==
  ASSUME KernelInv, Boot
  PROVE  KernelInv'
<1>1. status = "down" /\ boots \in Nat /\ boots' = boots + 1 /\ status' = "starting"
      /\ live' = live /\ issued' = issued
  BY DEF KernelInv, TypeOK, Boot
<1>2. live = EmptyState
  BY <1>1 DEF KernelInv, LiveInv
<1>3. LogInv'
  <2>1. CASE file' = EmptyFile /\ records' = <<>>
    BY <1>1, <2>1, Empty DEF LogInv, Mirrors
  <2>2. CASE Readable(file) /\ records' = file.lines /\ file' = file
    <3>1. file \in LogFile /\ (file.lines = <<>> => file.terminated) /\ Sound(file.lines)
      BY <2>2 DEF KernelInv, LogInv
    <3>2. file.lines \in Seq(Record)
      <4>1. file.lines \in Seq(LogLine)
        BY <3>1 DEF LogFile
      <4>2. \A i \in 1 .. Len(file.lines) : file.lines[i] \in Record
        BY <2>2, <4>1 DEF Readable, LogLine
      <4>3. QED
        BY <4>1, <4>2, SeqDef
    <3>3. QED
      BY <1>1, <2>2, <3>1, <3>2 DEF LogInv, Mirrors
  <2>3. QED
    BY <2>1, <2>2 DEF Boot
<1>4. LiveInv'
  BY <1>1, <1>2, Empty DEF LiveInv
<1>5. TypeOK'
  BY <1>1, <1>3, <1>4 DEF KernelInv, TypeOK, LogInv, LiveInv, WellKept, LogFile, LogLine
<1>6. QED
  BY <1>3, <1>4, <1>5 DEF KernelInv

(* The intent is captured: it needs nothing. *)
LEMMA CaptureIntentStep ==
  ASSUME KernelInv, NEW intent \in Intents, CaptureIntent(intent)
  PROVE  KernelInv'
<1> DEFINE events == <<intent>>
<1>1. intent \in Entity /\ intent.kind = "intent"
  BY KernelAssumption DEF OfKind
<1>2. events \in Seq(Entity) /\ events /= <<>> /\ Range(events) = {intent}
      /\ Len(events) = 1
  <2>1. events \in Seq(Entity) /\ DOMAIN events = {1} /\ events[1] = intent /\ Len(events) = 1
    BY <1>1
  <2>2. QED
    BY <2>1 DEF Range
<1>3. Grounded(live, events)
  <2>1. CheckedNames(intent) = {} /\ ~NeedsBoard(intent)
    BY <1>1 DEF CheckedNames, CheckedKinds, NeedsBoard
  <2> HIDE DEF events
  <2>2. QED
    BY <1>2, <2>1 DEF Grounded
<1>4. status = "starting" /\ boots' = boots
  BY DEF CaptureIntent
<1>5. CASE Appends(events) /\ live' = Apply(live, intent) /\ Mints(events) /\ status' = "running"
  <2>1. live \in [StateKinds -> Seq(Entity)]
    BY DEF KernelInv, TypeOK
  <2>2. Apply(live, intent) = [live EXCEPT !["intent"] = <<intent>>]
    BY <1>1 DEF Apply, SingleKinds
  <2>3. "intent" \in StateKinds /\ "board" \in StateKinds /\ ListKinds \subseteq StateKinds
        /\ "intent" \notin ListKinds
    BY DEF StateKinds, SingleKinds, ListKinds
  <2>4. /\ live' \in [StateKinds -> Seq(Entity)]
        /\ \A kind \in StateKinds : kind /= "intent" => live'[kind] = live[kind]
        /\ DOMAIN live'["intent"] = {1} /\ live'["intent"][1] = intent
    BY <1>1, <1>5, <2>1, <2>2, <2>3
  <2>5. /\ \A kind \in StateKinds : \A i \in DOMAIN live'[kind] :
             \/ live'[kind][i] \in Range(events) /\ live'[kind][i].kind = kind
             \/ \E j \in DOMAIN live[kind] : Same(live'[kind][i], live[kind][j])
        /\ \A kind \in ListKinds : \A j \in DOMAIN live[kind] :
             \E i \in DOMAIN live'[kind] : Same(live'[kind][i], live[kind][j])
        /\ live["board"] /= <<>> => live'["board"] /= <<>>
    <3> HIDE DEF events
    <3>1. QED
      BY <1>1, <1>2, <2>3, <2>4 DEF Same
  <2> HIDE DEF events
  <2>6. QED
    BY <1>2, <1>3, <1>4, <1>5, <2>4, <2>5, AppendsStep
<1>6. CASE /\ \E torn \in Torn :
                file' = WriteSome(file, Records(Len(records), events), 0, torn)
           /\ Dies
  <2>1. PICK torn \in Torn : file' = WriteSome(file, Records(Len(records), events), 0, torn)
    BY <1>6
  <2> DEFINE g == WriteSome(file, Records(Len(records), events), 0, torn)
  <2>2. LogInv /\ CoveredBy(records, events)
    <3> HIDE DEF events
    <3>1. QED
      BY <1>2, <1>3, GroundedCovered DEF KernelInv, LiveInv
  <2>3. 0 \in 0 .. Len(events) - 1
    <3> HIDE DEF events
    <3>1. QED
      BY <1>2
  <2>4. g \in LogFile /\ (g.lines = <<>> => g.terminated) /\ (Readable(g) => Sound(g.lines))
    <3> HIDE DEF events
    <3>1. QED
      BY <1>2, <1>4, <2>2, <2>3, PartialAppend
  <2>5. file' = g
    BY <2>1
  <2> HIDE DEF g
  <2>6. QED
    BY <1>4, <1>6, <2>4, <2>5, DiesStep
<1>7. CASE DiesInAppend(events)
  <2> HIDE DEF events
  <2>1. QED
    BY <1>2, <1>3, <1>4, <1>7, DiesInAppendStep
<1>8. QED
  BY <1>5, <1>6, <1>7 DEF CaptureIntent

(* A step that changes nothing. *)
LEMMA StutterStep ==
  ASSUME KernelInv, UNCHANGED vars
  PROVE  KernelInv'
<1>1. /\ file' = file /\ records' = records /\ live' = live /\ issued' = issued
      /\ status' = status /\ boots' = boots
  BY DEF vars
<1>2. TypeOK'
  BY <1>1 DEF KernelInv, TypeOK
<1>3. LogInv'
  BY <1>1 DEF KernelInv, LogInv, Mirrors
<1>4. LiveInv'
  BY <1>1 DEF KernelInv, LiveInv
<1>5. QED
  BY <1>2, <1>3, <1>4 DEF KernelInv

(* Every step preserves the invariant. *)
LEMMA KernelInvNext == KernelInv /\ [Next]_vars => KernelInv'
<1> SUFFICES ASSUME KernelInv, [Next]_vars PROVE KernelInv'
  OBVIOUS
<1>1. CASE Boot
  BY <1>1, BootStep
<1>2. ASSUME NEW intent \in Intents, CaptureIntent(intent) PROVE KernelInv'
  BY <1>2, CaptureIntentStep
<1>3. ASSUME NEW r \in Requests, Handles(r) PROVE KernelInv'
  BY <1>3, HandlesGrounded, SubmitStep
<1>4. CASE Exit
  <2>1. Dies /\ file' = file /\ boots' = boots
    BY <1>4 DEF Exit
  <2>2. file \in LogFile /\ (file.lines = <<>> => file.terminated)
        /\ (Readable(file) => Sound(file.lines))
    BY DEF KernelInv, LogInv
  <2>3. QED
    BY <2>1, <2>2, DiesStep
<1>5. CASE UNCHANGED vars
  BY <1>5, StutterStep
<1>6. QED
  BY <1>1, <1>2, <1>3, <1>4, <1>5 DEF Next

(* The invariant holds of every reachable state. *)
LEMMA KernelInvariant == Spec => []KernelInv
<1>1. QED
  BY KernelInvInit, KernelInvNext, PTL DEF Spec

-----------------------------------------------------------------------------
(* The theorems *)

(* The kernel's variables have their types, whatever is requested and whatever *)
(* fails.                                                                      *)
THEOREM KernelTypeCorrect == Spec => []TypeOK
<1>1. KernelInv => TypeOK
  BY DEF KernelInv
<1>2. QED
  BY <1>1, KernelInvariant, PTL

(* A log that can be read is the cache of the running process, but for at most *)
(* one unterminated record, and its seqs are consecutive: append of eak-store.   *)
THEOREM CacheMirrorsFile == Spec => []CacheIsFile
<1>1. KernelInv => CacheIsFile
  BY DEF KernelInv, LogInv, CacheIsFile, Mirrors, Sound
<1>2. QED
  BY <1>1, KernelInvariant, PTL

(* Nothing in the live state refers to an entity that is not there: the checks *)
(* at the seam of runtime_core.rs, whichever appends fail.                       *)
THEOREM LiveIsClosed == Spec => []LiveReferences
<1>1. KernelInv => LiveReferences
  BY DEF KernelInv, LiveInv, WellKept, LiveReferences
<1>2. QED
  BY <1>1, KernelInvariant, PTL

(* What is live is in the log's cache: commit persists before it folds.          *)
THEOREM PersistsFirst == Spec => []PersistedBeforeObserved
<1>1. KernelInv => PersistedBeforeObserved
  BY DEF KernelInv, LiveInv, WellKept, PersistedBeforeObserved
<1>2. QED
  BY <1>1, KernelInvariant, PTL

(* Every log that can be read, torn and crashed ones too, refers only backwards, *)
(* so that a replay of any prefix of it refers to nothing that is not there.     *)
THEOREM ReplayIsClosed == Spec => []ReplayReferences
<1>1. ASSUME KernelInv, Readable(file) PROVE ReplayReferences
  <2>1. Sound(file.lines) /\ file \in LogFile
    BY <1>1 DEF KernelInv, LogInv
  <2>2. file.lines \in Seq(LogLine)
    BY <2>1 DEF LogFile
  <2>3. /\ DOMAIN History = DOMAIN file.lines
        /\ \A i \in DOMAIN file.lines : History[i] = file.lines[i].event
    BY DEF History, EventsOf
  <2>4. \A i \in DOMAIN file.lines : 1 .. i - 1 \subseteq DOMAIN file.lines
    BY <2>2
  <2> HIDE DEF History
  <2>5. ASSUME NEW i \in DOMAIN History
        PROVE  /\ \A n \in CheckedNames(History[i]) : \E j \in 1 .. i - 1 : NameOf(History[j]) = n
               /\ NeedsBoard(History[i]) => \E j \in 1 .. i - 1 : History[j].kind = "board"
    <3>1. i \in DOMAIN file.lines /\ History[i] = file.lines[i].event
      BY <2>3
    <3>2. \A j \in 1 .. i - 1 : History[j] = file.lines[j].event
      BY <2>3, <2>4, <3>1
    <3>3. /\ \A n \in CheckedNames(file.lines[i].event) :
               \E j \in 1 .. i - 1 : NameOf(file.lines[j].event) = n
          /\ NeedsBoard(file.lines[i].event) =>
               \E j \in 1 .. i - 1 : file.lines[j].event.kind = "board"
      BY <2>1, <3>1 DEF Sound
    <3>4. QED
      BY <3>1, <3>2, <3>3
  <2>6. QED
    BY <2>5 DEF ReplayReferences
<1>2. ASSUME KernelInv, ~Readable(file) PROVE ReplayReferences
  BY <1>2 DEF ReplayReferences
<1>3. KernelInv => ReplayReferences
  BY <1>1, <1>2
<1>4. QED
  BY <1>3, KernelInvariant, PTL
=============================================================================
