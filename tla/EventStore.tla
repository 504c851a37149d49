----------------------------- MODULE EventStore -----------------------------
(***************************************************************************)
(* FileEventLog: an append-only file of one JSON line per event, and the      *)
(* in-memory cache of its records (eak-store/src/lib.rs).                     *)
(*                                                                         *)
(* The file is the sequence of its lines, and whether the last one ends in a  *)
(* newline.  A line is the record that parses from it, or Unreadable.  Writing *)
(* a record is two writes, the text and the newline, and either may fail or    *)
(* never happen: what is written next then continues the same line.           *)
(***************************************************************************)
EXTENDS Naturals, Sequences

CONSTANTS Unreadable   \* a line that does not parse

EmptyFile == [lines |-> <<>>, terminated |-> TRUE]

\* Mutant: numbered from one before the length.
MutantRecords(start, events) ==
  [i \in DOMAIN events |-> [seq |-> start + i - 2, event |-> events[i]]]

\* Mutant: numbered from one after the length.
MutantLateRecords(start, events) ==
  [i \in DOMAIN events |-> [seq |-> start + i, event |-> events[i]]]

\* The records append makes of a batch, numbered from the length of the cache.
Records(start, events) ==
  [i \in DOMAIN events |-> [seq |-> start + i - 1, event |-> events[i]]]

\* What a record reads back as.  JSON has no non-finite numbers: they are
\* written as null, which no field of type f64 accepts.
Line(record) == IF record.event.finite THEN record ELSE Unreadable

Lines(records) == [i \in DOMAIN records |-> Line(records[i])]

\* The text of a line lands on a line of its own, or on the end of an
\* unterminated one.
WriteText(file, line) ==
  [lines |-> IF file.terminated
             THEN Append(file.lines, line)
             ELSE [file.lines EXCEPT ![Len(file.lines)] = Unreadable],
   terminated |-> FALSE]

\* All the records are written, each with its newline.
WriteAll(file, records) ==
  IF records = <<>> THEN file
  ELSE [lines |-> WriteText(file, Line(Head(records))).lines \o Lines(Tail(records)),
        terminated |-> TRUE]

\* How much of the record that failed reached the file.
Torn == {"nothing", "fragment", "text"}

\* The first k records are written, and the next one is cut short.
WriteSome(file, records, k, torn) ==
  LET written == WriteAll(file, SubSeq(records, 1, k))
  IN  CASE torn = "nothing"  -> written
        [] torn = "fragment" -> WriteText(written, Unreadable)
        [] torn = "text"     -> WriteText(written, Line(records[k + 1]))

\* open reads the file only if every line of it parses.
Readable(file) == \A i \in DOMAIN file.lines : file.lines[i] /= Unreadable

\* The events of the records of a log.
EventsOf(records) == [i \in DOMAIN records |-> records[i].event]
=============================================================================
