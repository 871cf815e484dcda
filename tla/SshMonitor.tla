---------------------------- MODULE SshMonitor -----------------------------
(***************************************************************************)
(* protocols/ssh/collector.py: the TCP sessions that ss lists are copied   *)
(* into ssh_connections, each with the key exchange that the journal of    *)
(* sshd shows for its peer.  The journal is one log for all connections:   *)
(* a "kex: algorithm" line names no peer and is given to the connection    *)
(* whose line came last.  sshd and the clients go on while a cycle looks   *)
(* at the journal, then at ss, and writes row after row.                   *)
(***************************************************************************)
EXTENDS Naturals, Sequences, SequencesExt

CONSTANTS
    Sessions,       \* TCP connections to or from an sshd, each from a port of its own
    Hybrid,         \* those that negotiate an ML-KEM or NTRU Prime key exchange
    MaxJournal      \* bound: lines of the last ten minutes

ASSUME JournalAssumption == MaxJournal \in Nat

VARIABLES
    tcp,        \* what has become of each connection
    journal,    \* the last ten minutes of it
    conn,       \* ssh_connections
    scan,       \* how far the cycle is
    monitor,    \* the worker process
    crossed     \* history: the journal gave the connection another one's key exchange

sshVars == <<tcp, journal, conn, scan, monitor, crossed>>

Algorithms == {"pqc", "classical"}
kex == [s \in Sessions |-> IF s \in Hybrid THEN "pqc" ELSE "classical"]
Entry == [kind: {"connection", "kex"}, of: Sessions]
Connection == [state: {"none", "ACTIVE", "CLOSED"}, kex: Algorithms \cup {"unknown"}]
NoConnection == [state |-> "none", kex |-> "unknown"]

Scan == [pc: {"idle", "list", "rows"},
         found: [Sessions -> Algorithms \cup {"unknown"}],      \* kex_map
         todo: SUBSET Sessions,                                 \* not upserted yet
         seen: SUBSET Sessions]
NoScan == [pc |-> "idle", found |-> [s \in Sessions |-> "unknown"], todo |-> {}, seen |-> {}]

\* Only what has been a session has a row.
MonitorTypeOK ==
    /\ tcp \in [Sessions -> {"none", "open", "ended"}]
    /\ journal \in Seq(Entry) /\ Len(journal) <= MaxJournal
    /\ conn \in [Sessions -> Connection]
    /\ \A s \in Sessions : conn[s].state # "none" => tcp[s] # "none"
    /\ scan \in Scan /\ scan.todo \subseteq scan.seen
    /\ monitor \in BOOLEAN
    /\ crossed \in [Sessions -> BOOLEAN]

MonitorInit ==
    /\ tcp = [s \in Sessions |-> "none"]
    /\ journal = <<>>
    /\ conn = [s \in Sessions |-> NoConnection]
    /\ scan = NoScan
    /\ monitor = FALSE
    /\ crossed = [s \in Sessions |-> FALSE]

-----------------------------------------------------------------------------
(* sshd, its clients and journald.                                         *)

\* cur_peer: whose connection line is the last one before the end of the log
Announced(log) == {s \in Sessions :
    \E k \in DOMAIN log :
        /\ log[k] = [kind |-> "connection", of |-> s]
        /\ \A l \in k + 1..Len(log) : log[l].kind = "kex"}

Journal(kind, s) ==
    /\ Len(journal) < MaxJournal
    /\ journal' = Append(journal, [kind |-> kind, of |-> s])

Connect(s) ==
    /\ tcp[s] = "none"
    /\ Journal("connection", s)
    /\ tcp' = [tcp EXCEPT ![s] = "open"]
    /\ UNCHANGED <<conn, scan, monitor, crossed>>

\* At the start, and again whenever the session is rekeyed.
Negotiate(s) ==
    /\ tcp[s] = "open"
    /\ Journal("kex", s)
    /\ crossed' = [p \in Sessions |-> crossed[p] \/ (p \in Announced(journal) /\ kex[p] # kex[s])]
    /\ UNCHANGED <<tcp, conn, scan, monitor>>

Disconnect(s) ==
    /\ tcp[s] = "open"
    /\ tcp' = [tcp EXCEPT ![s] = "ended"]
    /\ UNCHANGED <<journal, conn, scan, monitor, crossed>>

\* The first line of the journal is older than ten minutes now.
Expire10min ==
    /\ journal # <<>>
    /\ journal' = Tail(journal)
    /\ UNCHANGED <<tcp, conn, scan, monitor, crossed>>

-----------------------------------------------------------------------------
(* collect_once.                                                           *)

\* Seeded fault: a session without a line of its own gets the last one there is.
LiveKexLast(s) ==
    LET all == {k \in DOMAIN journal : journal[k].kind = "kex"}
    IN IF all = {} THEN "unknown"
       ELSE kex[journal[CHOOSE k \in all : \A l \in all : l <= k].of]

\* _live_kex_by_peer
LiveKex(s) ==
    LET given == {k \in DOMAIN journal :
                    journal[k].kind = "kex" /\ s \in Announced(SubSeq(journal, 1, k - 1))}
    IN IF given = {} THEN "unknown"
       ELSE kex[journal[CHOOSE k \in given : \A l \in given : l <= k].of]

\* journalctl may fail: the map is empty then.
ReadJournal ==
    /\ monitor /\ scan.pc = "idle"
    /\ \E found \in {[s \in Sessions |-> LiveKex(s)], NoScan.found} :
          scan' = [NoScan EXCEPT !.pc = "list", !.found = found]
    /\ UNCHANGED <<tcp, journal, conn, monitor, crossed>>

\* _active_sessions.  A failure of ss is an empty list, too.
ListSessions(listed) ==
    /\ monitor /\ scan.pc = "list"
    /\ scan' = [scan EXCEPT !.pc = "rows", !.todo = listed, !.seen = listed]
    /\ UNCHANGED <<tcp, journal, conn, monitor, crossed>>
ListActive == ListSessions({s \in Sessions : tcp[s] = "open"})
ListNone == ListSessions({})

\* INSERT ... ON CONFLICT (session_key) DO UPDATE
Upsert(s) ==
    /\ monitor /\ scan.pc = "rows" /\ s \in scan.todo
    /\ conn' = [conn EXCEPT ![s] = [state |-> "ACTIVE", kex |-> scan.found[s]]]
    /\ scan' = [scan EXCEPT !.todo = @ \ {s}]
    /\ UNCHANGED <<tcp, journal, monitor, crossed>>

\* Seeded fault: with nothing listed, nothing is closed.
CloseSome ==
    /\ monitor /\ scan.pc = "rows" /\ scan.todo = {}
    /\ conn' = [s \in Sessions |->
          IF conn[s].state = "ACTIVE" /\ s \notin scan.seen /\ scan.seen # {}
          THEN [conn[s] EXCEPT !.state = "CLOSED"] ELSE conn[s]]
    /\ scan' = NoScan
    /\ UNCHANGED <<tcp, journal, monitor, crossed>>

\* UPDATE ssh_connections SET state='CLOSED'
Close ==
    /\ monitor /\ scan.pc = "rows" /\ scan.todo = {}
    /\ conn' = [s \in Sessions |->
          IF conn[s].state = "ACTIVE" /\ s \notin scan.seen
          THEN [conn[s] EXCEPT !.state = "CLOSED"] ELSE conn[s]]
    /\ scan' = NoScan
    /\ UNCHANGED <<tcp, journal, monitor, crossed>>

\* A statement fails: the cycle ends where it is.
ScanFails ==
    /\ scan.pc # "idle"
    /\ scan' = NoScan
    /\ UNCHANGED <<tcp, journal, conn, monitor, crossed>>

\* require_host_ssh_telemetry finds sshd listening and its logs readable.
StartMonitor ==
    /\ ~monitor
    /\ monitor' = TRUE
    /\ UNCHANGED <<tcp, journal, conn, scan, crossed>>

\* It does not, at the start or 15 seconds after the last time; or the worker is killed.
StopMonitor ==
    /\ monitor
    /\ monitor' = FALSE
    /\ scan' = NoScan
    /\ UNCHANGED <<tcp, journal, conn, crossed>>

Collect ==
    \/ StartMonitor
    \/ ReadJournal
    \/ ListActive
    \/ \E s \in Sessions : Upsert(s)
    \/ Close

MonitorFault ==
    \/ ListNone
    \/ ScanFails
    \/ StopMonitor

MonitorNext ==
    \/ \E s \in Sessions : Connect(s) \/ Negotiate(s) \/ Disconnect(s)
    \/ Expire10min
    \/ Collect
    \/ MonitorFault

\* The container is started again, the loop goes on, and after some time nothing fails: in
\* particular, there is an sshd to watch.
MonitorFairness ==
    /\ WF_sshVars(Collect)
    /\ <>[][MonitorFault => Collect]_sshVars

MonitorSteps == MonitorInit /\ [][MonitorNext]_sshVars
MonitorSpec == MonitorSteps /\ MonitorFairness

-----------------------------------------------------------------------------
(* Properties.                                                             *)

\* "Never report a port-to-policy guess as negotiated evidence" (collector.py:191): a row
\* says what its own session negotiated or "unknown", unless the handshakes or rekeyings
\* of two sessions overlapped in the journal.
EvidenceIsOwn ==
    \A s \in Sessions : conn[s].kex \in {"unknown", kex[s]} \/ crossed[s]

\* A session that stays open is ACTIVE time and again, and one that has ended does not stay
\* ACTIVE, whatever failed in between (collector.py:217-224).
RowsFollowSessions ==
    \A s \in Sessions :
        /\ <>[](tcp[s] = "open") => []<>(conn[s].state = "ACTIVE")
        /\ <>[](tcp[s] = "ended") => <>[](conn[s].state # "ACTIVE")
=============================================================================
