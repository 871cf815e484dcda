---------------------------- MODULE TlsCollector ----------------------------
(***************************************************************************)
(* protocols/tls/collector.py: the access log that NGINX writes is read    *)
(* from a stored byte offset and copied into tls_sessions, whose key is    *)
(* the file and the offset of the line.  Several processes may run the     *)
(* loop on one log; each may be overtaken between two statements, fail in  *)
(* any of them and start over.  A line is its number, where it begins, its *)
(* length in bytes and whether parse_log_line accepts it.  NGINX leaves    *)
(* bytes from 0x80 on as they are, so that a line need not be UTF-8: a     *)
(* byte that is not is decoded to a character that encodes to three.       *)
(***************************************************************************)
EXTENDS Naturals, Sequences, FiniteSets

CONSTANTS
    Collectors,     \* processes that run collect_loop on the log
    Lengths,        \* the lengths of lines, the newline included
    MaxLines        \* bound: lines written

ASSUME LogAssumption ==
    /\ Lengths \subseteq Nat \ {0, 1} /\ Lengths # {}
    /\ MaxLines \in Nat

VARIABLES
    file,       \* the complete lines of the log
    partial,    \* the line whose first byte has been written, if any
    sessions,   \* tls_sessions
    logOffset,  \* tls_collector_state
    reader,     \* how far each collector's cycle is
    lines,      \* history: every complete line there has been
    cut         \* history: the log has been rotated

collectorVars == <<file, partial, sessions, logOffset, reader, lines, cut>>

LineIds == 1..MaxLines
\* bad: where in the line the byte that is no UTF-8 is, 0 if there is none (bound: one in a
\* line); clean: history: there was none in the file before the line.
Line == [id: LineIds, at: Nat, len: Lengths, usable: BOOLEAN, bad: Nat, clean: BOOLEAN]
NoLine == [id |-> 0, at |-> 0, len |-> 0, usable |-> FALSE, bad |-> 0, clean |-> TRUE]
Session == [log_offset: Nat, id: LineIds]

Reader == [pc: {"idle", "stat", "read", "insert", "store"},
           stored: Nat,             \* the offset read from the table
           offset: Nat,             \* the offset read from, then the one to store
           batch: SUBSET Session]   \* parsed lines not inserted yet
IdleReader == [pc |-> "idle", stored |-> 0, offset |-> 0, batch |-> {}]

\* Two rows never share a key.
CollectorTypeOK ==
    /\ file \in Seq(Line)
    /\ partial \in Line \cup {NoLine}
    /\ sessions \subseteq Session
    /\ \A s, t \in sessions : s.log_offset = t.log_offset => s = t
    /\ logOffset \in Nat
    /\ reader \in [Collectors -> Reader]
    /\ lines \subseteq Line
    /\ cut \in BOOLEAN

CollectorInit ==
    /\ file = <<>> /\ partial = NoLine
    /\ sessions = {}
    /\ logOffset = 0
    /\ reader = [c \in Collectors |-> IdleReader]
    /\ lines = {}
    /\ cut = FALSE

-----------------------------------------------------------------------------
(* NGINX and logrotate.                                                    *)

EndOf(line) == line.at + line.len
End == IF file = <<>> THEN 0 ELSE EndOf(file[Len(file)])
Size == IF partial = NoLine THEN End ELSE End + 1

WriteLine ==
    /\ partial = NoLine /\ Cardinality(lines) < MaxLines
    /\ \E len \in Lengths, usable \in BOOLEAN : \E bad \in 0..len - 2 :
          LET line == [id |-> Cardinality(lines) + 1, at |-> End, len |-> len, usable |-> usable,
                       bad |-> bad, clean |-> \A n \in DOMAIN file : file[n].bad = 0]
          IN \/ /\ file' = Append(file, line) /\ lines' = lines \cup {line}
                /\ UNCHANGED partial
             \/ /\ partial' = line
                /\ UNCHANGED <<file, lines>>
    /\ UNCHANGED <<sessions, logOffset, reader, cut>>

FinishLine ==
    /\ partial # NoLine
    /\ file' = Append(file, partial) /\ lines' = lines \cup {partial}
    /\ partial' = NoLine
    /\ UNCHANGED <<sessions, logOffset, reader, cut>>

\* Bound: one rotation.  What was in the file, or is half-written, is no longer read.
Rotate ==
    /\ ~cut
    /\ cut' = TRUE
    /\ file' = <<>> /\ partial' = NoLine
    /\ UNCHANGED <<sessions, logOffset, reader, lines>>

-----------------------------------------------------------------------------
(* One cycle, collect_once, from statement to statement.                   *)

\* No lines: the offset is stored only if a shrunken file has set it back.
Nothing(c, offset) ==
    reader' = [reader EXCEPT ![c] =
        IF offset = @.stored THEN IdleReader
        ELSE [@ EXCEPT !.pc = "store", !.offset = offset]]

ReadOffset(c) ==
    /\ reader[c].pc = "idle"
    /\ reader' = [reader EXCEPT ![c] = [IdleReader EXCEPT !.pc = "stat", !.stored = logOffset]]
    /\ UNCHANGED <<file, partial, sessions, logOffset, lines, cut>>

\* read_from looks at the size first: a file that shrank has been rotated.
Stat(c) ==
    /\ reader[c].pc = "stat"
    /\ LET offset == IF Size < reader[c].stored THEN 0 ELSE reader[c].stored
       IN IF Size = offset THEN Nothing(c, offset)
          ELSE reader' = [reader EXCEPT ![c].pc = "read", ![c].offset = offset]
    /\ UNCHANGED <<file, partial, sessions, logOffset, lines, cut>>

\* By how much the text between two offsets has grown when it is encoded again.
Bad(from, to) == {n \in DOMAIN file : /\ file[n].bad > 0
                                      /\ from <= file[n].at + file[n].bad
                                      /\ file[n].at + file[n].bad < to}
Grown(from, to) == 2 * Cardinality(Bad(from, to))

\* Seeded fault: positions are counted from where the reading began.
KeyFromSeek(line, offset) == line.at - offset + Grown(offset, line.at)
Key(line, offset) == line.at + Grown(offset, line.at)

\* What is parsed of the bytes from offset on: the rest of a line that the offset cuts
\* in two is no JSON.
Parsed(offset) ==
    {[log_offset |-> Key(file[n], offset), id |-> file[n].id] :
        n \in {k \in DOMAIN file : file[k].usable /\ file[k].at >= offset}}

\* Seeded fault: a partial line counts as read.
ReadUpToSize(offset) == IF Size > offset THEN Size ELSE offset
ReadUpTo(offset) == IF End > offset THEN End + Grown(offset, End) ELSE offset

\* The file may have been rotated since its size was looked at.
Read(c) ==
    /\ reader[c].pc = "read"
    /\ LET offset == reader[c].offset
       IN IF ReadUpTo(offset) = offset THEN Nothing(c, offset)
          ELSE reader' = [reader EXCEPT ![c] =
                 [@ EXCEPT !.pc = "insert", !.offset = ReadUpTo(offset), !.batch = Parsed(offset)]]
    /\ UNCHANGED <<file, partial, sessions, logOffset, lines, cut>>

InsertRow(c, row) ==
    /\ sessions' = IF \E s \in sessions : s.log_offset = row.log_offset
                   THEN sessions ELSE sessions \cup {row}
    /\ reader' = [reader EXCEPT ![c].batch = @ \ {row}]
    /\ UNCHANGED <<file, partial, logOffset, lines, cut>>

\* Seeded fault: in no order.
InsertAny(c) ==
    /\ reader[c].pc = "insert"
    /\ \E row \in reader[c].batch : InsertRow(c, row)

First(batch) == {row \in batch : \A other \in batch : row.log_offset <= other.log_offset}

\* Seeded fault: no ON CONFLICT and no unique key.
InsertAlways(c) ==
    /\ reader[c].pc = "insert"
    /\ \E row \in First(reader[c].batch) :
          /\ sessions' = sessions \cup {row}
          /\ reader' = [reader EXCEPT ![c].batch = @ \ {row}]
    /\ UNCHANGED <<file, partial, logOffset, lines, cut>>

\* INSERT ... ON CONFLICT (log_source, log_offset) DO NOTHING, in the order of the log.
Insert(c) ==
    /\ reader[c].pc = "insert"
    /\ \E row \in First(reader[c].batch) : InsertRow(c, row)

StoreOffset(c) ==
    /\ \/ reader[c].pc = "store"
       \/ reader[c].pc = "insert" /\ reader[c].batch = {}
    /\ logOffset' = reader[c].offset
    /\ reader' = [reader EXCEPT ![c] = IdleReader]
    /\ UNCHANGED <<file, partial, sessions, lines, cut>>

\* A statement or the read fails, and collect_loop starts over; or the process dies.
StartOver(c) ==
    /\ reader[c].pc # "idle"
    /\ reader' = [reader EXCEPT ![c] = IdleReader]
    /\ UNCHANGED <<file, partial, sessions, logOffset, lines, cut>>

Cycle(c) ==
    \/ ReadOffset(c)
    \/ Stat(c)
    \/ Read(c)
    \/ Insert(c)
    \/ StoreOffset(c)

CollectorNext ==
    \/ WriteLine
    \/ FinishLine
    \/ Rotate
    \/ \E c \in Collectors : Cycle(c) \/ StartOver(c)

\* The loop goes on whatever fails, and after some time nothing does (no step is a
\* failure only): in particular, there is no row that the table refuses each time, which
\* would stop the copy there.
CollectorFairness(c) ==
    /\ WF_collectorVars(Cycle(c))
    /\ <>[][StartOver(c) => Cycle(c)]_collectorVars

CollectorSteps == CollectorInit /\ [][CollectorNext]_collectorVars
CollectorSpec ==
    /\ CollectorSteps
    /\ \E c \in Collectors : CollectorFairness(c)

-----------------------------------------------------------------------------
(* Properties.                                                             *)

\* "any record can be traced back to its source" (collector.py:11): the key of a row is
\* where its line began in the log of its time, whatever has been rotated, read in halves
\* or read twice; or lies behind it, if there was a byte before the line that is no UTF-8 (which is
\* not "the byte offset it came from", collector.py:9-10: README, section 4).
Traceable ==
    \A s \in sessions : \E l \in lines :
        /\ l.id = s.id /\ l.usable
        /\ l.at <= s.log_offset /\ (l.clean => l.at = s.log_offset)

\* No offset passes a line that is not in the table: no failure, crash or second collector
\* loses a line of a log that is not rotated (collector.py:314-316), as long as no byte
\* before the line is no UTF-8; after one, lines may be skipped (README, section 4).
NothingSkipped ==
    ~cut => \A l \in lines : l.usable /\ l.clean /\ l.at < logOffset
                => [log_offset |-> l.at, id |-> l.id] \in sessions

\* The collector is a copy of the log up to the first byte that is no UTF-8: each usable line
\* once and in order, and, until the log is rotated, all of them in the end.
Clean == {l.id : l \in {k \in lines : k.usable /\ k.clean}}
Log == INSTANCE LogCopy WITH
    Ids <- LineIds,
    written <- Clean,
    copied <- [i \in LineIds |-> Cardinality({s \in sessions : s.id = i /\ i \in Clean})],
    rotated <- cut
CopiesTheLog == Log!CopySpec
=============================================================================
