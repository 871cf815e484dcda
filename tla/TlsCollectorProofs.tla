------------------------- MODULE TlsCollectorProofs -------------------------
(* Proofs about TlsCollector, for any number of collectors and lines.      *)
EXTENDS TlsCollector, FiniteSetTheorems, TLAPS

(***************************************************************************)
(* The inductive invariant.                                                *)
(***************************************************************************)
\* No line of the file has a byte that is no UTF-8.
AllGood == \A n \in 1..Len(file) : file[n].bad = 0

\* The log: its lines have been written, in the order of their numbers and one behind the
\* other, and until it is rotated it has them all.
LogInv ==
    /\ file \in Seq(Line) /\ partial \in Line \cup {NoLine} /\ cut \in BOOLEAN
    /\ lines \in SUBSET Line /\ IsFiniteSet(lines)
    /\ \A l \in lines : l.id <= Cardinality(lines)
    /\ \A l, m \in lines : l.id = m.id => l = m
    /\ \A n \in 1..Len(file) : file[n] \in lines
    /\ \A m, n \in 1..Len(file) : m < n => EndOf(file[m]) <= file[n].at /\ file[m].id < file[n].id
    /\ \A n \in 1..Len(file) : file[n].clean <=> \A m \in 1..Len(file) : m < n => file[m].bad = 0
    /\ partial # NoLine => /\ partial.at = End /\ partial.id = Cardinality(lines) + 1
                           /\ partial.clean <=> AllGood
    /\ ~cut => \A l \in lines : \E n \in 1..Len(file) : file[n] = l

\* The rows, and what is about to become one, come from lines.
Comes(s) == \E l \in lines :
    /\ l.id = s.id /\ l.usable
    /\ l.at <= s.log_offset /\ (l.clean => l.at = s.log_offset)
RowInv ==
    /\ sessions \in SUBSET Session
    /\ \A s \in sessions : Comes(s)
    /\ \A s, t \in sessions : s.log_offset = t.log_offset => s = t
    /\ logOffset \in Nat
    /\ reader \in [Collectors -> Reader]
    /\ \A c \in Collectors : \A s \in reader[c].batch : Comes(s)

\* No offset has passed a clean line that has no row; a collector that inserts has the rest.
RowOf(l) == [log_offset |-> l.at, id |-> l.id]
Reached(offset, rows) ==
    /\ AllGood => offset <= End
    /\ \A l \in lines : l.usable /\ l.clean /\ l.at < offset => RowOf(l) \in rows
CleanRow(s) == \E l \in lines : l.id = s.id /\ l.clean
ReaderReached(r) ==
    /\ Reached(r.stored, sessions)
    /\ r.pc \in {"read", "store"} => Reached(r.offset, sessions)
    /\ r.pc = "insert" => /\ Reached(r.offset, sessions \cup r.batch)
                          /\ \A s \in r.batch : CleanRow(s) => s.log_offset < r.offset
CopyInv == ~cut => Reached(logOffset, sessions) /\ \A c \in Collectors : ReaderReached(reader[c])

CollectorInv == LogInv /\ RowInv /\ CopyInv

(***************************************************************************)
(* The log.                                                                *)
(***************************************************************************)
LEMMA LineTypes ==
    /\ \A l \in Line : /\ l.id \in Nat /\ l.id > 0 /\ l.at \in Nat /\ l.len \in Nat /\ l.len > 1
                       /\ l.bad \in Nat /\ l.clean \in BOOLEAN
    /\ NoLine \notin Line
<1>1. \A l \in Line : /\ l.id \in Nat /\ l.id > 0 /\ l.at \in Nat /\ l.len \in Nat /\ l.len > 1
                     /\ l.bad \in Nat /\ l.clean \in BOOLEAN
  <2> SUFFICES ASSUME NEW l \in Line
               PROVE  /\ l.id \in Nat /\ l.id > 0 /\ l.at \in Nat /\ l.len \in Nat /\ l.len > 1
                      /\ l.bad \in Nat /\ l.clean \in BOOLEAN
    OBVIOUS
  <2>1. /\ l.id \in 1..MaxLines /\ l.at \in Nat /\ l.len \in Lengths
        /\ l.bad \in Nat /\ l.clean \in BOOLEAN
    BY DEF Line, LineIds
  <2>2. l.len \in Nat /\ l.len # 0 /\ l.len # 1
    BY <2>1, LogAssumption
  <2> QED
    BY <2>1, <2>2, LogAssumption
<1> QED
  BY <1>1 DEF NoLine

LEMMA EndIsLast ==
    ASSUME LogInv
    PROVE  End \in Nat /\ \A n \in 1..Len(file) : EndOf(file[n]) <= End
<1>1. \A n \in 1..Len(file) : file[n].at \in Nat /\ file[n].len \in Nat
  BY LineTypes DEF LogInv
<1>2. CASE file = <<>>
  BY <1>2 DEF End
<1>3. CASE file # <<>>
  <2>1. Len(file) \in 1..Len(file) /\ End = EndOf(file[Len(file)])
    BY <1>3 DEF End, LogInv
  <2>2. End \in Nat
    BY <1>1, <2>1 DEF EndOf
  <2>3. ASSUME NEW n \in 1..Len(file) PROVE EndOf(file[n]) <= End
    <3>1. CASE n = Len(file)
      BY <2>1, <2>2, <3>1
    <3>2. CASE n # Len(file)
      <4>1. Len(file) \in Nat /\ n < Len(file)
        BY <3>2 DEF LogInv
      <4>2. EndOf(file[n]) <= file[Len(file)].at
        BY <2>1, <4>1 DEF LogInv
      <4> QED
        BY <1>1, <2>1, <4>2 DEF EndOf
    <3> QED
      BY <3>1, <3>2
  <2> QED
    BY <2>2, <2>3
<1> QED
  BY <1>2, <1>3

\* Before the log is rotated its lines differ in where they begin, in the order of their numbers.
LEMMA LinesInOrder ==
    ASSUME LogInv, ~cut, NEW l \in lines, NEW m \in lines
    PROVE  /\ l.at = m.at => l = m
           /\ l.at <= m.at => l.id <= m.id
           /\ EndOf(l) <= End
           /\ l.clean /\ ~m.clean => l.at < m.at
<1>1. PICK i \in 1..Len(file), j \in 1..Len(file) : file[i] = l /\ file[j] = m
  BY DEF LogInv
<1>2. /\ l.id \in Nat /\ l.at \in Nat /\ l.len \in Nat /\ l.len > 1
      /\ m.id \in Nat /\ m.at \in Nat /\ m.len \in Nat /\ m.len > 1
  BY LineTypes DEF LogInv
<1>3. i < j => EndOf(l) <= m.at /\ l.id < m.id
  BY <1>1 DEF LogInv
<1>4. j < i => EndOf(m) <= l.at /\ m.id < l.id
  BY <1>1 DEF LogInv
<1>5. i = j => l = m
  BY <1>1
<1>6. EndOf(l) <= End
  BY <1>1, EndIsLast
<1>7. l.clean /\ ~m.clean => i < j
  <2>1. ASSUME l.clean, ~m.clean PROVE i < j
    <3>1. PICK k \in 1..Len(file) : k < j /\ file[k].bad # 0
      BY <1>1, <2>1 DEF LogInv
    <3>2. ~(k < i)
      BY <1>1, <2>1, <3>1 DEF LogInv
    <3> QED
      BY <3>1, <3>2
  <2> QED
    BY <2>1
<1> QED
  BY <1>1, <1>2, <1>3, <1>4, <1>5, <1>6, <1>7 DEF EndOf

\* Before a clean line nothing grows.
LEMMA CleanKeys ==
    ASSUME LogInv, NEW offset \in Nat
    PROVE  /\ \A to \in Nat : Grown(offset, to) \in Nat
           /\ \A n \in 1..Len(file) : file[n].clean => Grown(offset, file[n].at) = 0
           /\ AllGood => Grown(offset, End) = 0
<1>1. DOMAIN file = 1..Len(file) /\ Len(file) \in Nat
  BY DEF LogInv
<1>2. \A n \in 1..Len(file) : file[n].at \in Nat /\ file[n].len \in Nat /\ file[n].bad \in Nat
  BY LineTypes DEF LogInv
<1>3. Cardinality({}) = 0
  BY FS_EmptySet
<1>4. ASSUME NEW to \in Nat PROVE Grown(offset, to) \in Nat
  <2>1. IsFiniteSet(1..Len(file)) /\ Bad(offset, to) \subseteq 1..Len(file)
    BY <1>1, FS_Interval DEF Bad
  <2>2. Cardinality(Bad(offset, to)) \in Nat
    BY <2>1, FS_Subset, FS_CardinalityType
  <2> QED
    BY <2>2 DEF Grown
<1>5. ASSUME NEW n \in 1..Len(file), file[n].clean PROVE Grown(offset, file[n].at) = 0
  <2>1. ASSUME NEW k \in Bad(offset, file[n].at) PROVE FALSE
    <3>1. k \in 1..Len(file) /\ file[k].bad > 0 /\ file[k].at + file[k].bad < file[n].at
      BY <1>1, <2>1 DEF Bad
    <3>2. ~(k < n)
      BY <1>2, <1>5, <3>1 DEF LogInv
    <3>3. k # n
      BY <1>2, <3>1
    <3>4. EndOf(file[n]) <= file[k].at
      BY <1>1, <3>1, <3>2, <3>3 DEF LogInv
    <3> QED
      BY <1>2, <3>1, <3>4 DEF EndOf
  <2>2. Bad(offset, file[n].at) = {}
    BY <2>1
  <2> QED
    BY <1>3, <2>2 DEF Grown
<1>6. ASSUME AllGood PROVE Grown(offset, End) = 0
  <2>1. Bad(offset, End) = {}
    BY <1>1, <1>2, <1>6 DEF AllGood, Bad
  <2> QED
    BY <1>3, <2>1 DEF Grown
<1> QED
  BY <1>4, <1>5, <1>6

LEMMA LineWritten ==
    ASSUME LogInv, NEW line \in Line, line.at = End, line.id = Cardinality(lines) + 1,
           line.clean <=> AllGood, file' = Append(file, line), lines' = lines \cup {line},
           partial' = NoLine, UNCHANGED cut
    PROVE  LogInv' /\ End' = EndOf(line)
<1>1. /\ file \in Seq(Line) /\ lines \in SUBSET Line /\ IsFiniteSet(lines)
      /\ Cardinality(lines) \in Nat
  BY FS_CardinalityType DEF LogInv
<1>2. line \notin lines
  BY <1>1 DEF LogInv
<1>3. IsFiniteSet(lines') /\ Cardinality(lines') = Cardinality(lines) + 1
  BY <1>1, <1>2, FS_AddElement
<1>4. /\ file' \in Seq(Line) /\ Len(file') = Len(file) + 1 /\ Len(file) \in Nat
      /\ \A n \in 1..Len(file) : file'[n] = file[n]
      /\ file'[Len(file')] = line
  BY <1>1
<1>5. \A n \in 1..Len(file) : EndOf(file[n]) <= line.at /\ file[n].id < line.id
  <2>1. ASSUME NEW n \in 1..Len(file) PROVE EndOf(file[n]) <= line.at /\ file[n].id < line.id
    <3>1. file[n] \in lines /\ file[n].id \in Nat
      BY LineTypes DEF LogInv
    <3>2. file[n].id <= Cardinality(lines)
      BY <3>1 DEF LogInv
    <3> QED
      BY <1>1, <3>1, <3>2, EndIsLast
  <2> QED
    BY <2>1
<1>6. \A l \in lines' : l.id <= Cardinality(lines')
  <2>1. \A l \in lines : l.id \in Nat /\ l.id <= Cardinality(lines)
    BY LineTypes DEF LogInv
  <2> QED
    BY <1>1, <1>3, <2>1
<1>7. \A l, m \in lines' : l.id = m.id => l = m
  <2>1. \A l \in lines : l.id \in Nat /\ l.id <= Cardinality(lines)
    BY LineTypes DEF LogInv
  <2> QED
    BY <1>1, <2>1 DEF LogInv
<1>8. \A n \in 1..Len(file') : file'[n] \in lines'
  <2>1. ASSUME NEW n \in 1..Len(file') PROVE file'[n] \in lines'
    <3>1. n \in 1..Len(file) \/ n = Len(file')
      BY <1>4
    <3> QED
      BY <1>4, <3>1 DEF LogInv
  <2> QED
    BY <2>1
<1>9. \A m, n \in 1..Len(file') :
          m < n => EndOf(file'[m]) <= file'[n].at /\ file'[m].id < file'[n].id
  <2>1. ASSUME NEW m \in 1..Len(file'), NEW n \in 1..Len(file'), m < n
        PROVE  EndOf(file'[m]) <= file'[n].at /\ file'[m].id < file'[n].id
    <3>1. m \in 1..Len(file) /\ (n \in 1..Len(file) \/ n = Len(file'))
      BY <1>4, <2>1
    <3> QED
      BY <1>4, <1>5, <2>1, <3>1 DEF LogInv
  <2> QED
    BY <2>1
<1>10. ~cut' => \A l \in lines' : \E n \in 1..Len(file') : file'[n] = l
  <2>1. ASSUME ~cut', NEW l \in lines' PROVE \E n \in 1..Len(file') : file'[n] = l
    <3>1. CASE l = line
      BY <1>4, <3>1
    <3>2. CASE l \in lines
      <4>1. PICK n \in 1..Len(file) : file[n] = l
        BY <2>1, <3>2 DEF LogInv
      <4>2. n \in 1..Len(file') /\ file'[n] = l
        BY <1>4, <4>1
      <4> QED
        BY <4>2
    <3> QED
      BY <3>1, <3>2
  <2> QED
    BY <2>1
<1>11. End' = EndOf(line)
  BY <1>4 DEF End, EndOf
<1>12. EndOf(line) = line.at + line.len /\ cut' \in BOOLEAN /\ lines' \in SUBSET Line
  BY <1>1 DEF EndOf, LogInv
<1>13. \A n \in 1..Len(file') :
          file'[n].clean <=> \A m \in 1..Len(file') : m < n => file'[m].bad = 0
  <2>1. ASSUME NEW n \in 1..Len(file)
        PROVE  file'[n].clean <=> \A m \in 1..Len(file') : m < n => file'[m].bad = 0
    <3>1. \A m \in 1..Len(file') : m < n => m \in 1..Len(file)
      BY <1>4
    <3> QED
      BY <1>4, <3>1 DEF LogInv
  <2>2. file'[Len(file')].clean <=>
          \A m \in 1..Len(file') : m < Len(file') => file'[m].bad = 0
    <3>1. \A m \in 1..Len(file') : m < Len(file') <=> m \in 1..Len(file)
      BY <1>4
    <3> QED
      BY <1>4, <3>1 DEF AllGood
  <2>3. \A n \in 1..Len(file') : n \in 1..Len(file) \/ n = Len(file')
    BY <1>4
  <2> QED
    BY <2>1, <2>2, <2>3
<1> QED
  BY <1>3, <1>4, <1>6, <1>7, <1>8, <1>9, <1>10, <1>11, <1>12, <1>13 DEF LogInv, EndOf

LEMMA LogAppended ==
    ASSUME LogInv, WriteLine \/ FinishLine, file' # file
    PROVE  \E line \in Line :
              /\ line.at = End /\ line.id = Cardinality(lines) + 1
              /\ line.clean <=> AllGood
              /\ file' = Append(file, line) /\ lines' = lines \cup {line}
              /\ partial' = NoLine /\ UNCHANGED cut
<1>0. Cardinality(lines) \in Nat /\ End \in Nat
  BY FS_CardinalityType, EndIsLast DEF LogInv
<1>1. CASE WriteLine
  <2>1. PICK len \in Lengths, usable \in BOOLEAN, bad \in Nat :
          LET line == [id |-> Cardinality(lines) + 1, at |-> End, len |-> len, usable |-> usable,
                       bad |-> bad, clean |-> \A n \in DOMAIN file : file[n].bad = 0]
          IN \/ /\ file' = Append(file, line) /\ lines' = lines \cup {line}
                /\ UNCHANGED partial
             \/ /\ partial' = line
                /\ UNCHANGED <<file, lines>>
    <3>1. \A len \in Lengths : \A bad \in 0..len - 2 : bad \in Nat
      OBVIOUS
    <3> QED
      BY <1>1, <3>1 DEF WriteLine
  <2> DEFINE line == [id |-> Cardinality(lines) + 1, at |-> End, len |-> len, usable |-> usable,
                    bad |-> bad, clean |-> \A n \in DOMAIN file : file[n].bad = 0]
  <2>2. line \in Line /\ (line.clean <=> AllGood)
    BY <1>0, <1>1, LogAssumption DEF WriteLine, Line, LineIds, AllGood
  <2>3. file' = Append(file, line) /\ lines' = lines \cup {line} /\ UNCHANGED partial
    BY <2>1
  <2> QED
    BY <1>1, <2>2, <2>3 DEF WriteLine
<1>2. CASE FinishLine
  BY <1>2 DEF FinishLine, LogInv
<1> QED
  BY <1>1, <1>2

\* A line whose first byte is written is no line yet.
LEMMA LineBegun ==
    ASSUME LogInv, WriteLine, file' = file
    PROVE  LogInv' /\ UNCHANGED <<file, lines, cut>> /\ End' = End
<1>0. /\ Cardinality(lines) \in Nat /\ End \in Nat /\ file \in Seq(Line)
  BY FS_CardinalityType, EndIsLast DEF LogInv
<1>1. PICK len \in Lengths, usable \in BOOLEAN, bad \in Nat :
        LET line == [id |-> Cardinality(lines) + 1, at |-> End, len |-> len, usable |-> usable,
                       bad |-> bad, clean |-> \A n \in DOMAIN file : file[n].bad = 0]
        IN \/ /\ file' = Append(file, line) /\ lines' = lines \cup {line}
              /\ UNCHANGED partial
           \/ /\ partial' = line
              /\ UNCHANGED <<file, lines>>
  BY DEF WriteLine
<1> DEFINE line == [id |-> Cardinality(lines) + 1, at |-> End, len |-> len, usable |-> usable,
                    bad |-> bad, clean |-> \A n \in DOMAIN file : file[n].bad = 0]
<1>2. line \in Line /\ line.at = End /\ line.id = Cardinality(lines) + 1 /\ (line.clean <=> AllGood)
  <2>1. Cardinality(lines) + 1 \in LineIds
    BY <1>0, LogAssumption DEF WriteLine, LineIds
  <2>2. (\A n \in DOMAIN file : file[n].bad = 0) <=> AllGood
    BY <1>0 DEF AllGood
  <2> QED
    BY <1>0, <2>1, <2>2 DEF Line
<1> HIDE DEF line
<1>3. file' # Append(file, line)
  <2>1. Len(Append(file, line)) # Len(file)
    BY <1>0, <1>2
  <2> QED
    BY <2>1
<1>4. partial' = line /\ UNCHANGED <<file, lines, cut>>
  BY <1>1, <1>3 DEF line, WriteLine
<1>5. End' = End
  BY <1>4 DEF End, EndOf
<1> QED
  BY <1>2, <1>4, <1>5 DEF LogInv, EndOf, AllGood

LEMMA LogRotated ==
    ASSUME LogInv, Rotate
    PROVE  LogInv'
<1>1. file' = <<>> /\ partial' = NoLine /\ cut' = TRUE /\ UNCHANGED lines
  BY DEF Rotate
<1>2. Len(file') = 0 /\ file' \in Seq(Line)
  BY <1>1
<1> QED
  BY <1>1, <1>2 DEF LogInv

LEMMA LogUntouched ==
    ASSUME LogInv, UNCHANGED <<file, partial, lines, cut>>
    PROVE  LogInv' /\ End' = End /\ (AllGood <=> AllGood')
  BY DEF LogInv, End, EndOf, AllGood

(***************************************************************************)
(* What the collectors do.                                                 *)
(***************************************************************************)
LEMMA RowsStand ==
    ASSUME CollectorInv, lines \subseteq lines', UNCHANGED <<sessions, logOffset, reader>>
    PROVE  RowInv'
<1>1. \A s : Comes(s) => Comes(s)'
  BY DEF Comes
<1> QED
  BY <1>1 DEF CollectorInv, RowInv

\* The log grows behind everything that has been read.
LEMMA LogGrows ==
    ASSUME CollectorInv, LogInv', End' \in Nat, End <= End', UNCHANGED <<sessions, logOffset, reader, cut>>,
           lines \subseteq lines', \A l \in lines' \ lines : l.at >= End /\ (l.clean => AllGood),
           AllGood' => AllGood
    PROVE  CollectorInv'
<1>1. RowInv'
  BY RowsStand
<1>2. End \in Nat /\ End' \in Nat
  BY EndIsLast DEF CollectorInv
<1>3. ASSUME NEW o \in Nat, NEW rows, Reached(o, rows) PROVE Reached(o, rows)'
  <2>1. AllGood' => o <= End'
    BY <1>2, <1>3 DEF Reached
  <2>2. \A l \in lines' \ lines : l.clean => ~(l.at < o)
    <3>1. \A l \in lines' : l.at \in Nat
      BY LineTypes DEF LogInv
    <3> QED
      BY <1>2, <1>3, <3>1 DEF Reached
  <2> QED
    BY <1>3, <2>1, <2>2 DEF Reached
<1>4. CopyInv'
  <2> SUFFICES ASSUME ~cut
               PROVE  Reached(logOffset, sessions)'
                      /\ \A c \in Collectors : ReaderReached(reader[c])'
    BY DEF CopyInv
  <2>1. CopyInv /\ RowInv /\ LogInv
    BY DEF CollectorInv
  <2>2. ASSUME NEW c \in Collectors PROVE ReaderReached(reader[c])'
    <3>1. reader[c] \in Reader /\ ReaderReached(reader[c]) /\ reader'[c] = reader[c]
      BY <2>1 DEF CopyInv, RowInv
    <3>2. ASSUME NEW s \in reader[c].batch, CleanRow(s)' PROVE CleanRow(s)
      <4>1. PICK l \in lines : l.id = s.id
        BY <2>1 DEF RowInv, Comes
      <4> QED
        BY <3>2, <4>1 DEF CleanRow, LogInv
    <3> QED
      BY <1>3, <3>1, <3>2 DEF ReaderReached, Reader
  <2> QED
    BY <1>3, <2>1, <2>2 DEF CopyInv, RowInv
<1> QED
  BY <1>1, <1>4 DEF CollectorInv

LEMMA WriterStep ==
    ASSUME CollectorInv, WriteLine \/ FinishLine
    PROVE  CollectorInv'
<1>1. LogInv /\ UNCHANGED <<sessions, logOffset, reader, cut>> /\ End \in Nat
  BY EndIsLast DEF CollectorInv, WriteLine, FinishLine
<1>2. CASE file' # file
  <2>1. PICK line \in Line :
          /\ line.at = End /\ line.id = Cardinality(lines) + 1 /\ (line.clean <=> AllGood)
          /\ file' = Append(file, line) /\ lines' = lines \cup {line}
          /\ partial' = NoLine
    BY <1>1, <1>2, LogAppended
  <2>2. LogInv' /\ End' = line.at + line.len
    BY <1>1, <2>1, LineWritten DEF EndOf
  <2>3. line.len \in Nat /\ line.at \in Nat
    BY LineTypes
  <2>4. End' \in Nat /\ End <= End'
    BY <1>1, <2>1, <2>2, <2>3
  <2>5. lines \subseteq lines' /\ \A l \in lines' \ lines : l.at >= End /\ (l.clean => AllGood)
    BY <1>1, <2>1
  <2>6. AllGood' => AllGood
    <3>1. Len(file') = Len(file) + 1 /\ \A n \in 1..Len(file) : file'[n] = file[n]
      BY <1>1, <2>1 DEF LogInv
    <3> QED
      BY <1>1, <3>1 DEF AllGood, LogInv
  <2> QED
    BY <1>1, <2>2, <2>4, <2>5, <2>6, LogGrows
<1>3. CASE file' = file
  <2>1. WriteLine
    <3>1. ASSUME FinishLine PROVE FALSE
      <4>1. file \in Seq(Line) /\ partial \in Line /\ file' = Append(file, partial)
        BY <1>1, <3>1 DEF FinishLine, LogInv
      <4>2. Len(file') # Len(file)
        BY <4>1
      <4> QED
        BY <1>3, <4>2
    <3> QED
      BY <3>1
  <2>2. LogInv' /\ UNCHANGED <<file, lines>> /\ End' = End
    BY <1>1, <1>3, <2>1, LineBegun
  <2>3. AllGood' => AllGood
    BY <1>3 DEF AllGood
  <2> QED
    BY <1>1, <2>2, <2>3, LogGrows
<1> QED
  BY <1>2, <1>3

LEMMA RotateStep ==
    ASSUME CollectorInv, Rotate
    PROVE  CollectorInv'
<1>1. LogInv' /\ cut' = TRUE /\ UNCHANGED <<sessions, logOffset, reader, lines>>
  BY LogRotated DEF CollectorInv, Rotate
<1>2. RowInv'
  BY <1>1, RowsStand
<1> QED
  BY <1>1, <1>2 DEF CollectorInv, CopyInv

\* A step of a collector that leaves the rows alone and advances within what is reached.
LEMMA ReaderStep ==
    ASSUME CollectorInv, UNCHANGED <<file, partial, sessions, lines, cut>>,
           NEW c \in Collectors, NEW r \in Reader, reader' = [reader EXCEPT ![c] = r],
           \A s \in r.batch : Comes(s), logOffset' \in Nat,
           ~cut => ReaderReached(r) /\ Reached(logOffset', sessions)
    PROVE  CollectorInv'
<1>1. LogInv' /\ End' = End /\ (AllGood' <=> AllGood)
  BY LogUntouched DEF CollectorInv
<1>2. \A s : (Comes(s)' <=> Comes(s)) /\ (CleanRow(s)' <=> CleanRow(s))
  BY DEF Comes, CleanRow
<1>3. RowInv'
  BY <1>2 DEF CollectorInv, RowInv
<1>4. \A o, rows : Reached(o, rows)' <=> Reached(o, rows)
  BY <1>1 DEF Reached
<1>5. ASSUME ~cut', NEW d \in Collectors PROVE ReaderReached(reader[d])'
  <2>1. ReaderReached(reader'[d])
    BY <1>5 DEF CollectorInv, CopyInv, RowInv
  <2> QED
    BY <1>2, <1>4, <2>1 DEF ReaderReached
<1>6. CopyInv'
  BY <1>4, <1>5 DEF CopyInv
<1> QED
  BY <1>1, <1>3, <1>6 DEF CollectorInv

LEMMA IdleIsReached ==
    ASSUME LogInv
    PROVE  /\ IdleReader \in Reader /\ IdleReader.batch = {}
           /\ ReaderReached(IdleReader) /\ Reached(0, sessions)
<1>1. Reached(0, sessions)
  <2>1. \A l \in lines : l.at \in Nat
    BY LineTypes DEF LogInv
  <2> QED
    BY <2>1, EndIsLast DEF Reached
<1> QED
  BY <1>1 DEF IdleReader, Reader, ReaderReached

\* Without lines, the cycle ends or the offset it has gone back to is stored.
LEMMA NothingStep ==
    ASSUME CollectorInv, UNCHANGED <<file, partial, sessions, logOffset, lines, cut>>,
           NEW c \in Collectors, NEW offset \in Nat, Nothing(c, offset),
           ~cut => Reached(offset, sessions)
    PROVE  CollectorInv'
<1>1. reader[c] \in Reader /\ logOffset \in Nat /\ LogInv
      /\ (~cut => ReaderReached(reader[c]) /\ Reached(logOffset, sessions))
      /\ \A s \in reader[c].batch : Comes(s)
  BY DEF CollectorInv, RowInv, CopyInv
<1>2. CASE offset = reader[c].stored
  <2>1. reader' = [reader EXCEPT ![c] = IdleReader]
    BY <1>2 DEF Nothing
  <2> QED
    BY <1>1, <2>1, IdleIsReached, ReaderStep
<1>3. CASE offset # reader[c].stored
  <2> DEFINE r == [reader[c] EXCEPT !.pc = "store", !.offset = offset]
  <2>1. reader' = [reader EXCEPT ![c] = r]
    BY <1>3 DEF Nothing
  <2>2. r \in Reader /\ r.batch = reader[c].batch /\ r.pc = "store" /\ r.offset = offset
        /\ r.stored = reader[c].stored
    BY <1>1 DEF Reader
  <2> HIDE DEF r
  <2>3. ~cut => ReaderReached(r)
    BY <1>1, <2>2 DEF ReaderReached
  <2> QED
    BY <1>1, <2>1, <2>2, <2>3, ReaderStep
<1> QED
  BY <1>2, <1>3

LEMMA ReadOffsetStep ==
    ASSUME CollectorInv, NEW c \in Collectors, ReadOffset(c)
    PROVE  CollectorInv'
<1> DEFINE r == [IdleReader EXCEPT !.pc = "stat", !.stored = logOffset]
<1>1. logOffset \in Nat /\ (~cut => Reached(logOffset, sessions))
  BY DEF CollectorInv, RowInv, CopyInv
<1>2. r \in Reader /\ r.batch = {} /\ r.pc = "stat" /\ r.stored = logOffset
  BY <1>1 DEF IdleReader, Reader
<1>3. reader' = [reader EXCEPT ![c] = r] /\ UNCHANGED <<file, partial, sessions, logOffset, lines, cut>>
  BY DEF ReadOffset
<1> HIDE DEF r
<1>4. ~cut => ReaderReached(r)
  BY <1>1, <1>2 DEF ReaderReached
<1> QED
  BY <1>1, <1>2, <1>3, <1>4, ReaderStep

LEMMA StatStep ==
    ASSUME CollectorInv, NEW c \in Collectors, Stat(c)
    PROVE  CollectorInv'
<1> DEFINE offset == IF Size < reader[c].stored THEN 0 ELSE reader[c].stored
           r == [reader[c] EXCEPT !.pc = "read", !.offset = offset]
<1>1. /\ reader[c] \in Reader /\ LogInv /\ logOffset \in Nat
      /\ \A s \in reader[c].batch : Comes(s)
      /\ ~cut => ReaderReached(reader[c]) /\ Reached(logOffset, sessions)
  BY DEF CollectorInv, RowInv, CopyInv
<1>2. offset \in Nat /\ (~cut => Reached(offset, sessions))
  <2>1. reader[c].stored \in Nat
    BY <1>1 DEF Reader
  <2> QED
    BY <1>1, <2>1, IdleIsReached DEF ReaderReached
<1>3. UNCHANGED <<file, partial, sessions, logOffset, lines, cut>>
  BY DEF Stat
<1>4. IF Size = offset THEN Nothing(c, offset) ELSE reader' = [reader EXCEPT ![c] = r]
  BY DEF Stat
<1> HIDE DEF offset
<1>5. CASE Size = offset
  BY <1>2, <1>3, <1>4, <1>5, NothingStep
<1>6. CASE Size # offset
  <2>1. r \in Reader /\ r.batch = reader[c].batch /\ r.pc = "read" /\ r.offset = offset
        /\ r.stored = reader[c].stored
    BY <1>1, <1>2 DEF Reader
  <2>2. reader' = [reader EXCEPT ![c] = r]
    BY <1>4, <1>6
  <2> HIDE DEF r
  <2>3. ~cut => ReaderReached(r)
    BY <1>1, <1>2, <2>1 DEF ReaderReached
  <2> QED
    BY <1>1, <1>3, <2>1, <2>2, <2>3, ReaderStep
<1> QED
  BY <1>5, <1>6

LEMMA ParsedRows ==
    ASSUME LogInv, NEW offset \in Nat
    PROVE  /\ Parsed(offset) \subseteq Session
           /\ \A s \in Parsed(offset) : Comes(s)
           /\ \A s \in Parsed(offset) : CleanRow(s) => s.log_offset < End
           /\ ~cut => \A l \in lines : l.usable /\ l.clean /\ l.at >= offset
                                            => RowOf(l) \in Parsed(offset)
<1>1. DOMAIN file = 1..Len(file) /\ \A n \in 1..Len(file) : file[n] \in lines /\ file[n] \in Line
  BY DEF LogInv
<1>2. ASSUME NEW s \in Parsed(offset)
      PROVE  s \in Session /\ Comes(s) /\ (CleanRow(s) => s.log_offset < End)
  <2>1. PICK n \in 1..Len(file) :
          /\ s = [log_offset |-> file[n].at + Grown(offset, file[n].at), id |-> file[n].id]
          /\ file[n].usable
    BY <1>1, <1>2 DEF Parsed, Key
  <2>2. /\ file[n].at \in Nat /\ file[n].len \in Nat /\ file[n].len > 1
        /\ Grown(offset, file[n].at) \in Nat
        /\ file[n].clean => Grown(offset, file[n].at) = 0
    BY <1>1, LineTypes, CleanKeys
  <2> DEFINE key == file[n].at + Grown(offset, file[n].at)
  <2>3. key \in Nat /\ file[n].at <= key /\ (file[n].clean => file[n].at = key)
    BY <2>2
  <2>4. s \in Session
    BY <1>1, <2>1, <2>3 DEF Session, Line
  <2>5. Comes(s)
    BY <1>1, <2>1, <2>3 DEF Comes
  <2>6. ASSUME CleanRow(s) PROVE s.log_offset < End
    <3>1. file[n].clean
      BY <1>1, <2>1, <2>6 DEF CleanRow, LogInv
    <3>2. EndOf(file[n]) <= End /\ End \in Nat
      BY EndIsLast
    <3> QED
      BY <2>1, <2>2, <2>3, <3>1, <3>2 DEF EndOf
  <2> QED
    BY <2>4, <2>5, <2>6
<1>3. ASSUME ~cut, NEW l \in lines, l.usable, l.clean, l.at >= offset
      PROVE  RowOf(l) \in Parsed(offset)
  <2>1. PICK n \in 1..Len(file) : file[n] = l
    BY <1>3 DEF LogInv
  <2>2. l.at \in Nat /\ Grown(offset, l.at) = 0
    BY <1>1, <1>3, <2>1, CleanKeys, LineTypes
  <2>3. Key(l, offset) = l.at
    BY <2>2 DEF Key
  <2> QED
    BY <1>1, <1>3, <2>1, <2>3 DEF Parsed, RowOf
<1> QED
  BY <1>2, <1>3

LEMMA ReadStep ==
    ASSUME CollectorInv, NEW c \in Collectors, Read(c)
    PROVE  CollectorInv'
<1> DEFINE offset == reader[c].offset
           r == [reader[c] EXCEPT !.pc = "insert", !.offset = ReadUpTo(offset),
                                  !.batch = Parsed(offset)]
<1>1. /\ reader[c] \in Reader /\ LogInv /\ logOffset \in Nat /\ End \in Nat
      /\ ~cut => ReaderReached(reader[c]) /\ Reached(logOffset, sessions)
  BY EndIsLast DEF CollectorInv, RowInv, CopyInv
<1>2. /\ offset \in Nat /\ reader[c].pc = "read"
      /\ UNCHANGED <<file, partial, sessions, logOffset, lines, cut>>
      /\ IF ReadUpTo(offset) = offset THEN Nothing(c, offset)
         ELSE reader' = [reader EXCEPT ![c] = r]
  BY <1>1 DEF Read, Reader
<1>3. ~cut => Reached(offset, sessions)
  BY <1>1, <1>2 DEF ReaderReached
<1>4. CASE ReadUpTo(offset) = offset
  <2> HIDE DEF offset
  <2> QED
    BY <1>2, <1>3, <1>4, NothingStep
<1>5. CASE ReadUpTo(offset) # offset
  <2>1. /\ ReadUpTo(offset) \in Nat /\ End <= ReadUpTo(offset) /\ offset < End
        /\ AllGood => ReadUpTo(offset) = End
    <3>1. Grown(offset, End) \in Nat /\ (AllGood => Grown(offset, End) = 0)
      BY <1>1, <1>2, CleanKeys
    <3>2. ReadUpTo(offset) = End + Grown(offset, End) /\ offset < End
      BY <1>1, <1>2, <1>5 DEF ReadUpTo
    <3> QED
      BY <1>1, <3>1, <3>2
  <2>2. /\ Parsed(offset) \subseteq Session
        /\ \A s \in Parsed(offset) : Comes(s)
        /\ \A s \in Parsed(offset) : CleanRow(s) => s.log_offset < End
        /\ ~cut => \A l \in lines : l.usable /\ l.clean /\ l.at >= offset
                                         => RowOf(l) \in Parsed(offset)
    BY <1>1, <1>2, ParsedRows
  <2>3. r \in Reader /\ r.batch = Parsed(offset) /\ r.pc = "insert"
        /\ r.offset = ReadUpTo(offset)
        /\ r.stored = reader[c].stored
    BY <1>1, <2>1, <2>2 DEF Reader
  <2>4. reader' = [reader EXCEPT ![c] = r]
    BY <1>2, <1>5
  <2> HIDE DEF r
  <2>5. ASSUME ~cut PROVE Reached(ReadUpTo(offset), sessions \cup Parsed(offset))
    <3>1. \A l \in lines : l.at \in Nat
      BY <1>1, LineTypes DEF LogInv
    <3> QED
      BY <1>1, <1>2, <1>3, <2>1, <2>2, <2>5, <3>1 DEF Reached
  <2>6. \A s \in Parsed(offset) : CleanRow(s) => s.log_offset < ReadUpTo(offset)
    BY <1>1, <2>1, <2>2 DEF Session
  <2>7. ~cut => ReaderReached(r)
    BY <1>1, <2>3, <2>5, <2>6 DEF ReaderReached
  <2> QED
    BY <1>1, <1>2, <2>2, <2>3, <2>4, <2>7, ReaderStep
<1> QED
  BY <1>4, <1>5

LEMMA StoreOffsetStep ==
    ASSUME CollectorInv, NEW c \in Collectors, StoreOffset(c)
    PROVE  CollectorInv'
<1>1. /\ reader[c] \in Reader /\ LogInv
      /\ ~cut => ReaderReached(reader[c])
  BY DEF CollectorInv, RowInv, CopyInv
<1>2. /\ reader[c].pc = "store" \/ (reader[c].pc = "insert" /\ reader[c].batch = {})
      /\ logOffset' = reader[c].offset /\ reader' = [reader EXCEPT ![c] = IdleReader]
      /\ UNCHANGED <<file, partial, sessions, lines, cut>>
  BY DEF StoreOffset
<1>3. logOffset' \in Nat
  BY <1>1, <1>2 DEF Reader
<1>4. ~cut => Reached(logOffset', sessions)
  <2>1. CASE reader[c].pc = "store"
    BY <1>1, <1>2, <2>1 DEF ReaderReached
  <2>2. CASE reader[c].pc = "insert" /\ reader[c].batch = {}
    <3>1. sessions \cup reader[c].batch = sessions
      BY <2>2
    <3> QED
      BY <1>1, <1>2, <2>2, <3>1 DEF ReaderReached
  <2> QED
    BY <1>2, <2>1, <2>2
<1> QED
  BY <1>1, <1>2, <1>3, <1>4, IdleIsReached, ReaderStep

LEMMA StartOverStep ==
    ASSUME CollectorInv, NEW c \in Collectors, StartOver(c)
    PROVE  CollectorInv'
<1>1. LogInv /\ logOffset \in Nat /\ (~cut => Reached(logOffset, sessions))
  BY DEF CollectorInv, RowInv, CopyInv
<1> QED
  BY <1>1, IdleIsReached, ReaderStep DEF StartOver

(***************************************************************************)
(* A row is inserted.                                                      *)
(***************************************************************************)
\* Until the log is rotated a row under the offset of a clean line is the same row.
LEMMA SameOffset ==
    ASSUME LogInv, ~cut, NEW s, NEW t, s \in Session, t \in Session, Comes(s), Comes(t),
           CleanRow(t), s.log_offset = t.log_offset
    PROVE  s = t
<1>1. PICK l \in lines : l.id = s.id /\ l.at <= s.log_offset /\ (l.clean => l.at = s.log_offset)
  BY DEF Comes
<1>2. PICK m \in lines : m.id = t.id /\ m.clean /\ m.at = t.log_offset
  BY DEF Comes, CleanRow, LogInv
<1>3. l.at \in Nat /\ m.at \in Nat
  BY LineTypes DEF LogInv
<1>4. l.clean
  <2> SUFFICES ASSUME ~l.clean PROVE FALSE
    OBVIOUS
  <2>1. m.at < l.at
    BY <1>1, <1>2, LinesInOrder
  <2> QED
    BY <1>1, <1>2, <1>3, <2>1
<1>5. l = m
  BY <1>1, <1>2, <1>4, LinesInOrder
<1> QED
  BY <1>1, <1>2, <1>5 DEF Session

LEMMA InsertStep ==
    ASSUME CollectorInv, NEW c \in Collectors, Insert(c)
    PROVE  CollectorInv'
<1>1. PICK row \in reader[c].batch : InsertRow(c, row) /\ reader[c].pc = "insert"
  BY DEF Insert, First
<1> DEFINE r == [reader[c] EXCEPT !.batch = reader[c].batch \ {row}]
           known == \E s \in sessions : s.log_offset = row.log_offset
<1>2. /\ LogInv /\ RowInv /\ reader[c] \in Reader /\ row \in Session /\ Comes(row)
      /\ ~cut => CopyInv /\ ReaderReached(reader[c]) /\ Reached(logOffset, sessions)
  BY <1>1 DEF CollectorInv, RowInv, CopyInv, Reader
<1>3. /\ sessions' = IF known THEN sessions ELSE sessions \cup {row}
      /\ reader' = [reader EXCEPT ![c] = r]
      /\ UNCHANGED <<file, partial, logOffset, lines, cut>>
  BY <1>1 DEF InsertRow
<1>4. /\ r \in Reader /\ r.pc = "insert" /\ r.stored = reader[c].stored
      /\ r.offset = reader[c].offset /\ r.batch = reader[c].batch \ {row}
  BY <1>1, <1>2 DEF Reader
<1> HIDE DEF r
<1>5. LogInv' /\ End' = End /\ (AllGood' <=> AllGood)
  BY <1>2, <1>3, LogUntouched
<1>6. \A s : (Comes(s)' <=> Comes(s)) /\ (CleanRow(s)' <=> CleanRow(s))
  BY <1>3 DEF Comes, CleanRow
<1>7. RowInv'
  <2>1. sessions' \in SUBSET Session /\ \A s \in sessions' : Comes(s)'
    BY <1>2, <1>3, <1>6 DEF RowInv
  <2>2. \A s, t \in sessions' : s.log_offset = t.log_offset => s = t
    BY <1>2, <1>3 DEF RowInv
  <2>3. reader' \in [Collectors -> Reader]
        /\ \A d \in Collectors : \A s \in reader'[d].batch : Comes(s)'
    BY <1>2, <1>3, <1>4, <1>6 DEF RowInv
  <2> QED
    BY <1>2, <1>3, <2>1, <2>2, <2>3 DEF RowInv
<1>8. sessions \subseteq sessions' /\ (~cut /\ CleanRow(row) => row \in sessions')
  <2>1. ASSUME ~cut, CleanRow(row), known PROVE row \in sessions
    <3>1. PICK s \in sessions : s.log_offset = row.log_offset
      BY <2>1
    <3>2. s \in Session /\ Comes(s)
      BY <1>2 DEF RowInv
    <3>3. s = row
      BY <1>2, <2>1, <3>1, <3>2, SameOffset
    <3> QED
      BY <3>3
  <2> QED
    BY <1>3, <2>1
<1>9. ASSUME NEW o, NEW rows, NEW more, Reached(o, rows), \A s \in rows : CleanRow(s) => s \in more
      PROVE  Reached(o, more)'
  <2>1. \A l \in lines : l.clean => CleanRow(RowOf(l))
    BY DEF CleanRow, RowOf
  <2> QED
    BY <1>3, <1>5, <1>9, <2>1 DEF Reached
<1>10. CopyInv'
  <2> SUFFICES ASSUME ~cut
               PROVE  Reached(logOffset, sessions)'
                      /\ \A d \in Collectors : ReaderReached(reader[d])'
    BY <1>3 DEF CopyInv
  <2>1. Reached(logOffset, sessions)'
    BY <1>2, <1>3, <1>8, <1>9
  <2>2. ASSUME NEW d \in Collectors, d # c PROVE ReaderReached(reader[d])'
    <3>1. ReaderReached(reader[d]) /\ reader'[d] = reader[d]
      BY <1>2, <1>3, <2>2 DEF CopyInv
    <3>2. sessions \cup reader[d].batch \subseteq sessions' \cup reader'[d].batch
      BY <1>8, <3>1
    <3> QED
      BY <1>6, <1>8, <1>9, <3>1, <3>2 DEF ReaderReached
  <2>3. ReaderReached(reader[c])'
    <3>1. reader'[c] = r /\ ReaderReached(reader[c])
      BY <1>2, <1>3 DEF RowInv
    <3>2. \A s \in sessions \cup reader[c].batch : CleanRow(s) => s \in sessions' \cup r.batch
      BY <1>4, <1>8
    <3>3. /\ Reached(reader[c].stored, sessions)
          /\ Reached(reader[c].offset, sessions \cup reader[c].batch)
          /\ \A s \in reader[c].batch : CleanRow(s) => s.log_offset < reader[c].offset
      BY <1>1, <3>1 DEF ReaderReached
    <3>4. Reached(reader[c].stored, sessions)'
      BY <1>4, <1>8, <1>9, <3>1, <3>3
    <3>5. Reached(reader[c].offset, sessions \cup reader[c].batch)'
      BY <1>4, <1>9, <3>1, <3>2, <3>3
    <3>6. \A s \in reader'[c].batch : CleanRow(s)' => s.log_offset < reader'[c].offset
      BY <1>4, <1>6, <3>1, <3>3
    <3> QED
      BY <1>4, <3>1, <3>4, <3>5, <3>6 DEF ReaderReached
  <2> QED
    BY <2>1, <2>2, <2>3
<1> QED
  BY <1>5, <1>7, <1>10 DEF CollectorInv

LEMMA CollectorInvInit ==
    ASSUME CollectorInit
    PROVE  CollectorInv
<1>1. LogInv
  <2>1. /\ file = <<>> /\ partial = NoLine /\ lines = {} /\ cut = FALSE
        /\ IsFiniteSet(lines) /\ file \in Seq(Line) /\ 1..Len(file) = {}
    BY FS_EmptySet DEF CollectorInit
  <2>2. \A m, n \in 1..Len(file) : m < n => EndOf(file[m]) <= file[n].at /\ file[m].id < file[n].id
    BY <2>1
  <2>3. /\ \A n \in 1..Len(file) : file[n] \in lines
        /\ \A l \in lines : l.id <= Cardinality(lines)
        /\ \A l, m \in lines : l.id = m.id => l = m
        /\ \A l \in lines : \E n \in 1..Len(file) : file[n] = l
        /\ \A n \in 1..Len(file) : file[n].clean <=> \A m \in 1..Len(file) : m < n => file[m].bad = 0
    BY <2>1
  <2> QED
    BY <2>1, <2>2, <2>3 DEF LogInv
<1>2. RowInv
  BY <1>1, IdleIsReached DEF CollectorInit, RowInv
<1>3. CopyInv
  BY <1>1, IdleIsReached DEF CollectorInit, CopyInv
<1> QED
  BY <1>1, <1>2, <1>3 DEF CollectorInv

LEMMA CollectorStep ==
    ASSUME CollectorInv, [CollectorNext]_collectorVars
    PROVE  CollectorInv'
<1>1. CASE UNCHANGED collectorVars
  <2>1. LogInv' /\ End' = End /\ (AllGood' <=> AllGood)
    BY <1>1, LogUntouched DEF collectorVars, CollectorInv
  <2> QED
    BY <1>1, <2>1
    DEF collectorVars, CollectorInv, RowInv, Comes, CopyInv, Reached, ReaderReached, CleanRow
<1>2. CASE WriteLine
  BY <1>2, WriterStep
<1>3. CASE FinishLine
  BY <1>3, WriterStep
<1>4. CASE Rotate
  BY <1>4, RotateStep
<1>5. CASE \E c \in Collectors : Cycle(c)
  BY <1>5, ReadOffsetStep, StatStep, ReadStep, InsertStep, StoreOffsetStep DEF Cycle
<1>6. CASE \E c \in Collectors : StartOver(c)
  BY <1>6, StartOverStep
<1> QED
  BY <1>1, <1>2, <1>3, <1>4, <1>5, <1>6 DEF CollectorNext

THEOREM CollectorInvariant == CollectorSteps => []CollectorInv
<1>1. CollectorInit => CollectorInv
  BY CollectorInvInit
<1>2. CollectorInv /\ [CollectorNext]_collectorVars => CollectorInv'
  BY CollectorStep
<1> QED
  BY <1>1, <1>2, PTL DEF CollectorSteps

(***************************************************************************)
(* "any record can be traced back to its source" (collector.py:11): to the *)
(* very offset, unless a byte before the line was no UTF-8.                *)
(***************************************************************************)
THEOREM RowsTraceable == CollectorSteps => []Traceable
<1>1. CollectorInv => Traceable
  BY DEF CollectorInv, RowInv, Comes, Traceable
<1> QED
  BY <1>1, CollectorInvariant, PTL

(***************************************************************************)
(* No failure, crash or second collector loses a line of a log that is not *)
(* rotated (collector.py:314-316), as long as no byte before it is no      *)
(* UTF-8.                                                                  *)
(***************************************************************************)
THEOREM NoLineSkipped == CollectorSteps => []NothingSkipped
<1>1. CollectorInv => NothingSkipped
  BY DEF CollectorInv, CopyInv, Reached, RowOf, NothingSkipped
<1> QED
  BY <1>1, CollectorInvariant, PTL

(***************************************************************************)
(* The collector implements LogCopy for the lines of a clean log.          *)
(***************************************************************************)
copied == [i \in LineIds |-> Cardinality({s \in sessions : s.id = i /\ i \in Clean})]
HasRow(i) == \E s \in sessions : s.id = i

\* The rows of a clean line have its offset.
LEMMA OneOffset ==
    ASSUME CollectorInv, NEW s, NEW t, Comes(s), Comes(t), s.id = t.id, s.id \in Clean
    PROVE  s.log_offset = t.log_offset
<1>1. PICK l \in lines : l.id = s.id /\ l.clean
  BY DEF Clean
<1>2. \A m \in lines : m.id = l.id => m = l
  BY DEF CollectorInv, LogInv
<1> QED
  BY <1>1, <1>2 DEF Comes

\* A clean line has one row or none.
LEMMA RowsCounted ==
    ASSUME CollectorInv, NEW i \in LineIds
    PROVE  copied[i] = IF i \in Clean /\ HasRow(i) THEN 1 ELSE 0
<1> DEFINE rows == {s \in sessions : s.id = i /\ i \in Clean}
<1>1. CASE i \in Clean /\ HasRow(i)
  <2>1. PICK s \in sessions : s.id = i
    BY <1>1 DEF HasRow
  <2>2. ASSUME NEW t \in sessions, t.id = i PROVE t = s
    <3>1. s.log_offset = t.log_offset
      BY <1>1, <2>1, <2>2, OneOffset DEF CollectorInv, RowInv
    <3> QED
      BY <3>1, <2>2 DEF CollectorInv, RowInv
  <2>3. rows = {s}
    BY <1>1, <2>1, <2>2
  <2>4. Cardinality({s}) = 1
    BY FS_Singleton
  <2> QED
    BY <1>1, <2>3, <2>4 DEF copied
<1>2. CASE ~(i \in Clean /\ HasRow(i))
  <2>1. rows = {}
    BY <1>2 DEF HasRow
  <2>2. Cardinality({}) = 0
    BY FS_EmptySet
  <2> QED
    BY <1>2, <2>1, <2>2 DEF copied
<1> QED
  BY <1>1, <1>2

LEMMA CopyInitially ==
    ASSUME CollectorInit
    PROVE  Log!CopyInit
<1>1. Clean = {}
  BY DEF CollectorInit, Clean
<1>2. copied = [i \in LineIds |-> 0]
  BY CollectorInvInit, RowsCounted DEF CollectorInit, HasRow, copied
<1> QED
  BY <1>1, <1>2 DEF Log!CopyInit, CollectorInit, copied

\* What is not copied yet has been written later, until the log is rotated.
LEMMA InsertCopies ==
    ASSUME CollectorInv, NEW c \in Collectors, Insert(c)
    PROVE  UNCHANGED <<Clean, copied, cut>> \/ \E i \in LineIds : Log!Copy(i)
<1>1. PICK row \in First(reader[c].batch) : InsertRow(c, row) /\ reader[c].pc = "insert"
  BY DEF Insert
<1>2. /\ row \in reader[c].batch /\ row \in Session /\ Comes(row)
      /\ \A other \in reader[c].batch : row.log_offset <= other.log_offset
  BY <1>1 DEF First, CollectorInv, RowInv, Reader
<1>3. UNCHANGED <<Clean, cut>>
  BY <1>1 DEF InsertRow, Clean
<1>4. CASE \E s \in sessions : s.log_offset = row.log_offset
  BY <1>1, <1>3, <1>4 DEF InsertRow, copied
<1>5. CASE row.id \notin Clean
  <2>1. sessions' = sessions \/ sessions' = sessions \cup {row}
    BY <1>1 DEF InsertRow
  <2>2. \A j \in LineIds : {s \in sessions' : s.id = j /\ j \in Clean'}
                            = {s \in sessions : s.id = j /\ j \in Clean}
    BY <1>3, <1>5, <2>1
  <2>3. copied' = copied
    BY <2>2 DEF copied
  <2> QED
    BY <1>3, <2>3
<1>6. CASE row.id \in Clean /\ ~\E s \in sessions : s.log_offset = row.log_offset
  <2> DEFINE i == row.id
  <2>1. i \in LineIds /\ sessions' = sessions \cup {row}
    BY <1>1, <1>2, <1>6 DEF InsertRow, Session
  <2>2. PICK l \in lines : l.id = i /\ l.at = row.log_offset /\ l.usable /\ l.clean
    BY <1>2, <1>6 DEF Comes, Clean, CollectorInv, LogInv
  <2>3. ~HasRow(i)
    <3> SUFFICES ASSUME NEW s \in sessions, s.id = i PROVE FALSE
      BY DEF HasRow
    <3>1. s.log_offset = row.log_offset
      BY <1>2, <1>6, OneOffset DEF CollectorInv, RowInv
    <3> QED
      BY <1>6, <3>1
  <2>4. copied' = [copied EXCEPT ![i] = 1]
    <3>1. ASSUME NEW j \in LineIds
          PROVE  Cardinality({s \in sessions' : s.id = j /\ j \in Clean'})
                    = [copied EXCEPT ![i] = 1][j]
      <4>1. CASE j = i
        <5>1. {s \in sessions' : s.id = j /\ j \in Clean'} = {row}
          BY <1>3, <1>6, <2>1, <2>3, <4>1 DEF HasRow
        <5>2. Cardinality({row}) = 1
          BY FS_Singleton
        <5> QED
          BY <2>1, <4>1, <5>1, <5>2 DEF copied
      <4>2. CASE j # i
        <5>1. {s \in sessions' : s.id = j /\ j \in Clean'}
                = {s \in sessions : s.id = j /\ j \in Clean}
          BY <1>3, <2>1, <4>2
        <5> QED
          BY <3>1, <4>2, <5>1 DEF copied
      <4> QED
        BY <4>1, <4>2
    <3> QED
      BY <3>1 DEF copied
  <2>5. i \in Clean /\ copied[i] = 0
    BY <1>6, <2>1, <2>3, RowsCounted
  <2>6. ASSUME ~cut, NEW j \in Clean, copied[j] = 0 PROVE i <= j
    <3>1. PICK m \in lines : m.id = j /\ m.usable /\ m.clean
      BY <2>6 DEF Clean
    <3>2. j \in LineIds /\ ~HasRow(j) /\ m \in Line
      <4>1. m \in Line /\ m.id \in LineIds
        BY <3>1 DEF CollectorInv, LogInv, Line
      <4> QED
        BY <2>6, <3>1, <4>1, RowsCounted
    <3>3. row.log_offset <= m.at
      <4>1. /\ Reached(reader[c].offset, sessions \cup reader[c].batch)
            /\ row.log_offset < reader[c].offset
        BY <1>1, <1>2, <2>2, <2>6 DEF CollectorInv, CopyInv, ReaderReached, CleanRow
      <4>2. CASE m.at < reader[c].offset
        <5>1. RowOf(m) \in sessions \cup reader[c].batch
          BY <3>1, <4>1, <4>2 DEF Reached
        <5>2. RowOf(m) \notin sessions
          BY <3>1, <3>2 DEF RowOf, HasRow
        <5> QED
          BY <1>2, <5>1, <5>2 DEF RowOf
      <4>3. CASE ~(m.at < reader[c].offset)
        <5>1. m.at \in Nat /\ row.log_offset \in Nat /\ reader[c].offset \in Nat
          BY <1>2, <3>2, LineTypes DEF Session, CollectorInv, RowInv, Reader
        <5> QED
          BY <4>1, <4>3, <5>1
      <4> QED
        BY <4>2, <4>3
    <3> QED
      BY <2>2, <2>6, <3>1, <3>3, LinesInOrder DEF CollectorInv
  <2>7. Log!Copy(i)
    BY <1>3, <2>4, <2>5, <2>6 DEF Log!Copy, Log!Uncopied, copied
  <2> QED
    BY <2>1, <2>7
<1> QED
  BY <1>4, <1>5, <1>6

\* A complete line is a new one, with the highest number yet.
LEMMA LineCopies ==
    ASSUME CollectorInv, NEW line \in Line, line.id = Cardinality(lines) + 1,
           lines' = lines \cup {line}, UNCHANGED <<sessions, cut>>
    PROVE  UNCHANGED <<Clean, copied, cut>> \/ \E i \in LineIds : Log!Write(i)
<1>1. copied' = copied /\ cut' = cut
  <2>1. \A l \in lines : l.id \in Nat /\ l.id <= Cardinality(lines)
    BY LineTypes DEF CollectorInv, LogInv
  <2>2. \A s \in sessions : s.id # line.id
    <3>1. \A s \in sessions : \E l \in lines : l.id = s.id
      BY DEF CollectorInv, RowInv, Comes
    <3>2. Cardinality(lines) \in Nat
      BY FS_CardinalityType DEF CollectorInv, LogInv
    <3> QED
      BY <2>1, <3>1, <3>2
  <2>3. \A s \in sessions : s.id \in Clean' <=> s.id \in Clean
    BY <2>2 DEF Clean
  <2>4. \A j \in LineIds : {s \in sessions' : s.id = j /\ j \in Clean'}
                            = {s \in sessions : s.id = j /\ j \in Clean}
    BY <2>3
  <2> QED
    BY <2>4 DEF copied
<1>2. CASE ~(line.usable /\ line.clean)
  <2>1. Clean' = Clean
    BY <1>2 DEF Clean
  <2> QED
    BY <1>1, <2>1
<1>3. CASE line.usable /\ line.clean
  <2>1. line.id \in LineIds /\ Clean' = Clean \cup {line.id}
    BY <1>3 DEF Clean, Line
  <2>2. \A j \in Clean : j < line.id
    <3>1. \A l \in lines : l \in Line /\ l.id <= Cardinality(lines)
      BY DEF CollectorInv, LogInv
    <3>2. Cardinality(lines) \in Nat
      BY FS_CardinalityType DEF CollectorInv, LogInv
    <3> QED
      BY <3>1, <3>2, LineTypes DEF Clean
  <2>3. Log!Write(line.id)
    BY <1>1, <2>1, <2>2 DEF Log!Write, copied
  <2> QED
    BY <2>1, <2>3
<1> QED
  BY <1>2, <1>3

LEMMA CopyStep ==
    ASSUME CollectorInv, [CollectorNext]_collectorVars
    PROVE  [Log!CopyNext]_Log!copyVars
<1> SUFFICES \/ UNCHANGED <<Clean, copied, cut>>
             \/ Log!Rotated
             \/ \E i \in LineIds : Log!Write(i) \/ Log!Copy(i)
  BY DEF Log!CopyNext, Log!copyVars, copied
<1>1. CASE UNCHANGED <<lines, sessions, cut>>
  BY <1>1 DEF Clean, copied
<1>2. CASE WriteLine \/ FinishLine
  <2>1. LogInv /\ UNCHANGED <<sessions, cut>>
    BY <1>2 DEF WriteLine, FinishLine, CollectorInv
  <2>2. CASE file' # file
    <3>1. PICK line \in Line : /\ line.id = Cardinality(lines) + 1
                              /\ lines' = lines \cup {line}
      BY <1>2, <2>1, <2>2, LogAppended
    <3> QED
      BY <2>1, <3>1, LineCopies
  <2>3. CASE UNCHANGED lines
    BY <1>1, <2>1, <2>3
  <2>4. CASE FinishLine
    BY <2>1, <2>4, LineCopies DEF FinishLine, LogInv
  <2>5. CASE WriteLine /\ file' = file
    BY <2>1, <2>3, <2>5, LineBegun
  <2> QED
    BY <1>2, <2>2, <2>4, <2>5
<1>3. CASE Rotate
  <2>1. UNCHANGED <<lines, sessions>> /\ cut' = TRUE
    BY <1>3 DEF Rotate
  <2> QED
    BY <2>1 DEF Log!Rotated, Clean, copied
<1>4. ASSUME NEW c \in Collectors, Insert(c)
      PROVE  \/ UNCHANGED <<Clean, copied, cut>>
             \/ \E i \in LineIds : Log!Copy(i)
  BY <1>4, InsertCopies
<1>5. ASSUME NEW c \in Collectors,
             ReadOffset(c) \/ Stat(c) \/ Read(c) \/ StoreOffset(c) \/ StartOver(c)
      PROVE  UNCHANGED <<lines, sessions, cut>>
  BY <1>5 DEF ReadOffset, Stat, Read, StoreOffset, StartOver
<1>6. CASE UNCHANGED collectorVars
  BY <1>1, <1>6 DEF collectorVars
<1> QED
  BY <1>1, <1>2, <1>3, <1>4, <1>5, <1>6 DEF CollectorNext, Cycle

\* Whatever the collectors do, fail in or start over, each step copies the log up to its
\* first byte that is no UTF-8 as LogCopy allows, or leaves the copy alone: a line is never
\* copied twice, and until the log is rotated never before an earlier one.
THEOREM CollectorCopies == CollectorSteps => Log!CopyInit /\ [][Log!CopyNext]_Log!copyVars
<1>1. CollectorInit => Log!CopyInit
  BY CopyInitially
<1>2. CollectorInv /\ [CollectorNext]_collectorVars => [Log!CopyNext]_Log!copyVars
  BY CopyStep
<1> QED
  BY <1>1, <1>2, CollectorInvariant, PTL DEF CollectorSteps
=============================================================================
