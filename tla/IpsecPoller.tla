---------------------------- MODULE IpsecPoller ----------------------------
(***************************************************************************)
(* protocols/ipsec/collector.py: polls that copy what VICI lists into      *)
(* ipsec_tunnels and mark as DOWN what has not been listed for 30 seconds. *)
(* The worker polls in a loop, and every POST /api/ipsec/refresh polls in  *)
(* its handler: polls overlap.  An action is what a poll does between two  *)
(* awaits; listing blocks the event loop and is one step.                  *)
(***************************************************************************)
EXTENDS IpsecWorker

CONSTANTS
    Refreshes,      \* handlers of /refresh at work at once
    StaleAfter      \* the 30 seconds, in ticks

ASSUME StaleAssumption == StaleAfter \in Nat \ {0}

VARIABLES
    row,        \* ipsec_tunnels
    poll,       \* how far each poll is
    downs,      \* history: DOWN events stored for a row since it was last seen
    raced       \* history: seen, or selected, while another poll was marking it DOWN

pollVars == <<row, poll, downs, raced>>

Loop == "worker"
Pollers == {Loop} \cup Refreshes

\* up: any state but DOWN
TunnelRow == [state: {"none", "up", "DOWN"}, proposal: Proposals \cup {NoSa}, age: 0..StaleAfter]
NoTunnel == [state |-> "none", proposal |-> NoSa, age |-> 0]

Poll == [pc: {"idle", "upsert", "select", "mark"},
         listed: [Names -> Proposals \cup {NoSa}],
         stale: SUBSET Names,                   \* selected and not marked yet
         marked: SUBSET Names]                  \* marked, the event not stored yet
IdlePoll == [pc |-> "idle", listed |-> [n \in Names |-> NoSa], stale |-> {}, marked |-> {}]

\* A row is DOWN only after it has been up, and a poll that marks nothing has selected nothing.
PollTypeOK ==
    /\ WorkerTypeOK
    /\ row \in [Names -> TunnelRow]
    /\ poll \in [Pollers -> Poll]
    /\ \A p \in Pollers : \A n \in poll[p].stale \cup poll[p].marked :
          poll[p].pc = "mark" /\ row[n].state # "none"
    /\ downs \in [Names -> 0..2]
    /\ raced \in [Names -> BOOLEAN]

PollInit ==
    /\ row = [n \in Names |-> NoTunnel]
    /\ poll = [p \in Pollers |-> IdlePoll]
    /\ downs = [n \in Names |-> 0]
    /\ raced = [n \in Names |-> FALSE]

\* POST /tunnels: a row ahead of its tunnel, CONNECTING and as if just seen.  Names are
\* unique from the first migration on (003_ipsec.sql:6).
CreateTunnel(n, proposal) ==
    /\ row[n].state = "none"
    /\ row' = [row EXCEPT ![n] = [state |-> "up", proposal |-> proposal, age |-> 0]]
    /\ UNCHANGED <<poll, downs, raced>>

-----------------------------------------------------------------------------
(* collect_once.                                                           *)

Working(p) == p = Loop => worker = "running"
Marking(p) == poll[p].stale \cup poll[p].marked
MarkedByOthers(p) == UNION {Marking(q) : q \in Pollers \ {p}}
At(p, step) == Working(p) /\ poll[p].pc = step

\* A daemon that cannot be reached is nothing to poll: the cycle ends before it began.
\* An error of list_sas is an empty list.
List(p, listed) ==
    /\ At(p, "idle") /\ charon
    /\ poll' = [poll EXCEPT ![p] = [IdlePoll EXCEPT !.pc = "upsert", !.listed = listed]]
    /\ UNCHANGED <<row, downs, raced>>
Lists(p) == List(p, sa)
ListFails(p) == List(p, [n \in Names |-> NoSa])

\* Seeded fault: last_seen is set for every row.
UpsertTouchesAll(p) ==
    /\ At(p, "upsert")
    /\ LET seen == {n \in Names : poll[p].listed[n] # NoSa}
       IN /\ row' = [n \in Names |->
                IF n \in seen THEN [state |-> "up", proposal |-> poll[p].listed[n], age |-> 0]
                ELSE [row[n] EXCEPT !.age = 0]]
          /\ downs' = [n \in Names |-> IF n \in seen THEN 0 ELSE downs[n]]
          /\ raced' = [n \in Names |-> IF n \in seen THEN n \in MarkedByOthers(p)
                                        ELSE raced[n]]
    /\ poll' = [poll EXCEPT ![p].pc = "select"]

\* upsert_tunnels, in one transaction
UpsertTunnels(p) ==
    /\ At(p, "upsert")
    /\ LET seen == {n \in Names : poll[p].listed[n] # NoSa}
       IN /\ row' = [n \in Names |->
                IF n \in seen THEN [state |-> "up", proposal |-> poll[p].listed[n], age |-> 0]
                ELSE row[n]]
          /\ downs' = [n \in Names |-> IF n \in seen THEN 0 ELSE downs[n]]
          /\ raced' = [n \in Names |-> IF n \in seen THEN n \in MarkedByOthers(p)
                                        ELSE raced[n]]
    /\ poll' = [poll EXCEPT ![p].pc = "select"]

\* Seeded fault: whatever the poll did not list.
StaleAtOnce(n) == row[n].state = "up"

\* Seeded fault: rows that are DOWN already are selected again.
StaleAgain(n) == row[n].state # "none" /\ row[n].age >= StaleAfter

Stale(n) == row[n].state = "up" /\ row[n].age >= StaleAfter

\* mark_stale_tunnels_down: the SELECT
Select(p) ==
    /\ At(p, "select")
    /\ LET stale == {n \in Names : Stale(n) /\ poll[p].listed[n] = NoSa}
       IN poll' = [poll EXCEPT ![p] = IF stale = {} THEN IdlePoll
                                      ELSE [IdlePoll EXCEPT !.pc = "mark", !.stale = stale]]
          /\ raced' = [n \in Names |-> raced[n] \/ n \in stale \cap MarkedByOthers(p)]
    /\ UNCHANGED <<row, downs>>

\* UPDATE ipsec_tunnels SET state = 'DOWN': nothing is asked about the row again.
Mark(p, n) ==
    /\ At(p, "mark") /\ n \in poll[p].stale /\ poll[p].marked = {}
    /\ row' = [row EXCEPT ![n].state = "DOWN"]
    /\ poll' = [poll EXCEPT ![p].stale = @ \ {n}, ![p].marked = {n}]
    /\ UNCHANGED <<downs, raced>>

\* INSERT INTO ipsec_events, which IpsecEvents keeps (StoreDown); the summary that is
\* published afterwards changes nothing here.
Report(p, n) ==
    /\ At(p, "mark") /\ n \in poll[p].marked
    /\ downs' = [downs EXCEPT ![n] = IF @ = 2 THEN 2 ELSE @ + 1]
    /\ poll' = [poll EXCEPT ![p] = IF @.stale = {} THEN IdlePoll ELSE [@ EXCEPT !.marked = {}]]
    /\ UNCHANGED <<row, raced>>

\* An exception is logged and ends the cycle.
PollFails(p) ==
    /\ poll[p].pc # "idle"
    /\ poll' = [poll EXCEPT ![p] = IdlePoll]
    /\ UNCHANGED <<row, downs, raced>>

\* What a poll does to the tunnels' rows, and all it does.
PollRows(p) ==
    \/ Lists(p)
    \/ UpsertTunnels(p)
    \/ Select(p)
    \/ \E n \in Names : Mark(p, n)
PollStep(p) == PollRows(p) \/ \E n \in Names : Report(p, n)

\* The worker's tasks are cancelled; a transaction under way is rolled back.
LoopEnds ==
    /\ poll' = [poll EXCEPT ![Loop] = IdlePoll]
    /\ UNCHANGED <<row, downs, raced>>

Tick ==
    /\ row' = [n \in Names |-> [row[n] EXCEPT
                  !.age = IF row[n].state # "none" /\ @ < StaleAfter THEN @ + 1 ELSE @]]
    /\ UNCHANGED <<poll, downs, raced>>

-----------------------------------------------------------------------------
(* Properties.                                                             *)

\* A tunnel that some poll has seen in the last 30 seconds is not DOWN, unless that poll
\* came between the SELECT and the UPDATE of another one.
DownOnlyUnseen == \A n \in Names : row[n].state = "DOWN" => row[n].age >= StaleAfter \/ raced[n]

\* Of the polls one reports an outage, once, unless polls overlapped in reporting it.  (The
\* listener stores the daemon's own event of it besides, events.py:49.)
DownReportedOnce == \A n \in Names : downs[n] <= 1 \/ raced[n]

\* The rows follow the daemon, as long as it can be asked and the worker does not hang: what
\* stays up is shown as it is time and again, and what is gone for good is DOWN for good
\* (collector.py:1-4, 110-111).
RowsFollowSas ==
    \A n \in Names, k \in Proposals \cup {NoSa} :
        <>[](charon /\ sa[n] = k /\ worker # "stopping") =>
            IF k = NoSa THEN <>[](row[n].state # "up")
            ELSE []<>(row[n].state = "up" /\ row[n].proposal = k)
=============================================================================
