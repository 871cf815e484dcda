--------------------------- MODULE MonitorsProofs ---------------------------
(* Proofs about the loops that watch IPsec and SSH, for any number of      *)
(* tunnels, polls, sessions and authentication attempts; the last part     *)
(* puts the components together.                                           *)
EXTENDS Monitors, FiniteSetTheorems, WellFoundedInduction, TLAPS

(***************************************************************************)
(* The polls.  What some poll is about to mark, or has marked, has not     *)
(* been seen for long, unless polls overlapped; and unless they did, one   *)
(* poll at most is at it, and nothing has been reported before.            *)
(***************************************************************************)
Unseen(n) == row[n].age >= StaleAfter \/ raced[n]
MarkedUnseen == \A n \in Names :
    row[n].state = "DOWN" \/ (\E p \in Pollers : n \in Marking(p)) => Unseen(n)
ReportedOnce(n) ==
    /\ downs[n] <= 1 /\ (downs[n] = 1 => row[n].state = "DOWN")
    /\ \A p \in Pollers : /\ n \in Marking(p) => downs[n] = 0
                          /\ n \in poll[p].marked => row[n].state = "DOWN"
    /\ \A p, q \in Pollers : n \in Marking(p) /\ n \in Marking(q) => p = q
MarkedOnce == \A p \in Pollers : poll[p].stale \cap poll[p].marked = {}
PollInv ==
    /\ PollTypeOK /\ MarkedUnseen /\ MarkedOnce
    /\ \A n \in Names : ~raced[n] => ReportedOnce(n)

(***************************************************************************)
(* The events.  The last event of a tunnel, on the queue or else stored,   *)
(* says what is so, unless it was lost.                                    *)
(***************************************************************************)
LastOf(n, k) == queue[k].name = n /\ \A l \in k + 1..Len(queue) : queue[l].name # n
UpToDate(n) ==
    /\ n \notin Queued(queue) => (timeline[n] = "up" <=> sa[n] # NoSa)
    /\ \A k \in DOMAIN queue : LastOf(n, k) => (queue[k].type = "up" <=> sa[n] # NoSa)
EventsInv == EventsTypeOK /\ \A n \in Names : ~lost[n] => UpToDate(n)

(***************************************************************************)
(* The journal.  A key exchange that follows the line of a session, with   *)
(* nothing but key exchanges between, is like that session's own, unless   *)
(* two sessions crossed there.                                             *)
(***************************************************************************)
Like(s, k) == k \in {"unknown", kex[s]} \/ crossed[s]
Follows(log, s, j, k) ==
    /\ j < k /\ log[j] = [kind |-> "connection", of |-> s]
    /\ \A l \in j + 1..k : log[l].kind = "kex"
MonitorInv ==
    /\ MonitorTypeOK
    /\ \A s \in scan.todo : tcp[s] # "none"
    /\ \A s \in Sessions : Like(s, conn[s].kex) /\ Like(s, scan.found[s])
    /\ \A s \in Sessions : \A j, k \in DOMAIN journal :
          Follows(journal, s, j, k) => Like(s, kex[journal[k].of])

(***************************************************************************)
(* The authentication log.  An attempt has one line of each sort.          *)
(***************************************************************************)
Pending == UNION {insert[k] : k \in DOMAIN insert}
RowOK(r) ==
    /\ r \in AuditRow
    /\ IF r.kind = "invalid" THEN r.place > 0 /\ r.reason = r.of
       ELSE r.place = 0 /\ (r.kind = "accepted" <=> r.reason = "ok")
    /\ r.reason \in {r.of, "ok", "denied"} \/ jumbled[r.reason]
Disturbed(a) == torn[a] \/ jumbled[a]
OfLine(r) == \E k \in DOMAIN authlog : PublicKey(authlog[k]) /\ r \in Rows(k)
OfPlace(r) == /\ r.place \in DOMAIN authlog
              /\ authlog[r.place] = [kind |-> "invalid", of |-> r.of]
Origin(r) == IF r.kind = "invalid" THEN OfPlace(r) /\ Disturbed(r.of) ELSE OfLine(r)
LinesOnce ==
    \A k, l \in DOMAIN authlog :
        /\ authlog[k] # Other
        /\ authlog[k].of = authlog[l].of /\ (PublicKey(authlog[k]) <=> PublicKey(authlog[l]))
        => k = l
LinesOfAttempts ==
    \A k \in DOMAIN authlog : authlog[k] # Other =>
        LET a == authlog[k].of
        IN /\ attempt[a] # "none" /\ (PublicKey(authlog[k]) => attempt[a] = "over")
           /\ ~PublicKey(authlog[k]) =>
                 IF k < Len(authlog) THEN \/ authlog[k + 1].of = a \/ jumbled[a]
                                          \/ authlog[k + 1] = Other /\ torn[a]
                                     ELSE attempt[a] = "invalid"
ZtInv ==
    /\ ZtTypeOK /\ LinesOnce /\ LinesOfAttempts
    /\ \A r \in audit \cup Pending : RowOK(r) /\ (moved \/ Origin(r))
LEMMA PollTypes ==
    ASSUME PollInv
    PROVE  /\ row \in [Names -> TunnelRow] /\ poll \in [Pollers -> Poll]
           /\ \A n \in Names : row[n].age \in 0..StaleAfter /\ row[n].state \in {"none", "up", "DOWN"}
           /\ \A p \in Pollers : poll[p].stale \subseteq Names /\ poll[p].marked \subseteq Names
           /\ downs \in [Names -> 0..2] /\ raced \in [Names -> BOOLEAN]
           /\ StaleAfter \in Nat \ {0}
           /\ sa \in [Names -> Proposals \cup {NoSa}]
  BY StaleAssumption DEF PollInv, PollTypeOK, WorkerTypeOK, TunnelRow, Poll

LEMMA IdleMarksNothing ==
    /\ IdlePoll \in Poll
    /\ IdlePoll.pc = "idle" /\ IdlePoll.stale = {} /\ IdlePoll.marked = {}
  BY DEF IdlePoll, Poll

\* The daemon and the worker, and a poll that ends or has only listed.
LEMMA PollRests ==
    ASSUME PollInv, WorkerTypeOK', UNCHANGED <<row, downs, raced>>,
           poll' \in [Pollers -> Poll],
           \A p \in Pollers : \/ poll'[p] = poll[p]
                              \/ poll'[p].stale = {} /\ poll'[p].marked = {}
    PROVE  PollInv'
<1>1. \A p \in Pollers : Marking(p)' \subseteq Marking(p)
  BY DEF Marking
<1>2. PollTypeOK'
  <2>1. ASSUME NEW p \in Pollers, NEW n \in Marking(p)'
        PROVE  poll'[p].pc = "mark" /\ row[n].state # "none"
    <3>1. poll'[p] = poll[p]
      BY <2>1 DEF Marking
    <3>2. QED
      BY <2>1, <3>1 DEF Marking, PollInv, PollTypeOK
  <2>2. QED
    BY <2>1 DEF Marking, PollInv, PollTypeOK
<1>3. MarkedUnseen' /\ MarkedOnce'
  BY <1>1 DEF PollInv, MarkedUnseen, MarkedOnce, Unseen
<1>4. \A n \in Names : ~raced[n] => ReportedOnce(n)'
  BY <1>1 DEF PollInv, ReportedOnce, Marking
<1>5. QED
  BY <1>2, <1>3, <1>4 DEF PollInv

LEMMA UpsertStep ==
    ASSUME PollInv, NEW p \in Pollers, UpsertTunnels(p), UNCHANGED workerVars
    PROVE  PollInv'
<1> DEFINE seen == {n \in Names : poll[p].listed[n] # NoSa}
<1>0. /\ row \in [Names -> TunnelRow] /\ poll \in [Pollers -> Poll] /\ raced \in [Names -> BOOLEAN]
      /\ downs \in [Names -> 0..2] /\ StaleAfter \in Nat
      /\ poll[p].listed \in [Names -> Proposals \cup {NoSa}]
  BY PollTypes DEF Poll
<1>1. /\ poll[p].pc = "upsert"
      /\ row' = [n \in Names |->
            IF n \in seen THEN [state |-> "up", proposal |-> poll[p].listed[n], age |-> 0]
            ELSE row[n]]
      /\ downs' = [n \in Names |-> IF n \in seen THEN 0 ELSE downs[n]]
      /\ raced' = [n \in Names |-> IF n \in seen THEN n \in MarkedByOthers(p) ELSE raced[n]]
      /\ poll' = [poll EXCEPT ![p].pc = "select"]
  BY DEF UpsertTunnels, At
<1> HIDE DEF seen
<1>2. Marking(p) = {}
  BY <1>1 DEF Marking, PollInv, PollTypeOK
<1>3. /\ poll' \in [Pollers -> Poll] /\ poll'[p] = [poll[p] EXCEPT !.pc = "select"]
      /\ \A q \in Pollers \ {p} : poll'[q] = poll[q]
  <2>1. poll[p] \in Poll
    BY <1>0
  <2>2. [poll[p] EXCEPT !.pc = "select"] \in Poll
    BY <2>1 DEF Poll
  <2>3. QED
    BY <1>0, <1>1, <2>2
<1>4. \A q \in Pollers : /\ poll'[q].stale = poll[q].stale /\ poll'[q].marked = poll[q].marked
                         /\ Marking(q)' = Marking(q)
  BY <1>0, <1>3 DEF Poll, Marking
<1>5. \A n \in Names : IF n \in seen THEN /\ row'[n].state = "up" /\ row'[n] \in TunnelRow
                                          /\ downs'[n] = 0
                                          /\ raced'[n] <=> n \in MarkedByOthers(p)
                       ELSE row'[n] = row[n] /\ downs'[n] = downs[n] /\ raced'[n] = raced[n]
  <2>1. ASSUME NEW n \in seen
        PROVE  [state |-> "up", proposal |-> poll[p].listed[n], age |-> 0] \in TunnelRow
    <3>1. poll[p].listed[n] \in Proposals \cup {NoSa} /\ 0 \in 0..StaleAfter
      BY <1>0, <2>1 DEF seen
    <3>2. QED
      BY <3>1 DEF TunnelRow
  <2>2. QED
    BY <1>1, <2>1
<1>6. PollTypeOK'
  <2>1. /\ row' \in [Names -> TunnelRow] /\ downs' \in [Names -> 0..2]
        /\ raced' \in [Names -> BOOLEAN]
    <3>1. 0 \in 0..2 /\ \A n \in Names : (n \in MarkedByOthers(p)) \in BOOLEAN
      OBVIOUS
    <3>2. QED
      BY <1>0, <1>1, <1>5, <3>1
  <2>2. ASSUME NEW q \in Pollers, NEW n \in Marking(q)
        PROVE  poll'[q].pc = "mark" /\ row'[n].state # "none"
    <3>1. q # p /\ n \in Names
      BY <1>2, <2>2, PollTypes DEF Marking
    <3>2. poll[q].pc = "mark" /\ row[n].state # "none"
      BY <2>2 DEF Marking, PollInv, PollTypeOK
    <3>3. QED
      BY <1>3, <1>5, <3>1, <3>2
  <2>3. WorkerTypeOK'
    BY DEF PollInv, PollTypeOK, WorkerTypeOK, workerVars
  <2>4. QED
    BY <1>3, <1>4, <2>1, <2>2, <2>3 DEF PollTypeOK, Marking
<1>7. MarkedUnseen'
  <2> SUFFICES ASSUME NEW n \in Names,
                      row'[n].state = "DOWN" \/ (\E q \in Pollers : n \in Marking(q))
               PROVE  Unseen(n)'
    BY <1>4 DEF MarkedUnseen
  <2>1. CASE n \in seen
    <3>1. PICK q \in Pollers : n \in Marking(q)
      BY <1>5, <2>1
    <3>2. n \in MarkedByOthers(p)
      BY <1>2, <3>1 DEF MarkedByOthers
    <3>3. QED
      BY <1>5, <2>1, <3>2 DEF Unseen
  <2>2. CASE n \notin seen
    BY <1>5, <2>2 DEF Unseen, PollInv, MarkedUnseen
  <2>3. QED
    BY <2>1, <2>2
<1>8. MarkedOnce'
  BY <1>4 DEF PollInv, MarkedOnce
<1>9. ASSUME NEW n \in Names, ~raced'[n] PROVE ReportedOnce(n)'
  <2>1. CASE n \in seen
    <3>1. \A q \in Pollers : n \notin Marking(q)
      BY <1>2, <1>5, <1>9, <2>1 DEF MarkedByOthers
    <3>2. downs'[n] = 0
      BY <1>5, <2>1
    <3>3. QED
      BY <1>4, <3>1, <3>2 DEF ReportedOnce, Marking
  <2>2. CASE n \notin seen
    BY <1>4, <1>5, <1>9, <2>2 DEF PollInv, ReportedOnce
  <2>3. QED
    BY <2>1, <2>2
<1>10. QED
  BY <1>6, <1>7, <1>8, <1>9 DEF PollInv

LEMMA SelectStep ==
    ASSUME PollInv, NEW p \in Pollers, Select(p), UNCHANGED workerVars
    PROVE  PollInv'
<1> DEFINE stale == {n \in Names : Stale(n) /\ poll[p].listed[n] = NoSa}
<1>0. /\ poll \in [Pollers -> Poll] /\ raced \in [Names -> BOOLEAN]
      /\ \A n \in Names : row[n].age \in 0..StaleAfter /\ StaleAfter \in Nat
  BY PollTypes
<1>1. /\ poll[p].pc = "select"
      /\ poll' = [poll EXCEPT ![p] = IF stale = {} THEN IdlePoll
                                     ELSE [IdlePoll EXCEPT !.pc = "mark", !.stale = stale]]
      /\ raced' = [n \in Names |-> raced[n] \/ n \in stale \cap MarkedByOthers(p)]
      /\ UNCHANGED <<row, downs>>
  BY DEF Select, At
<1>2. stale \subseteq Names /\ \A n \in stale : row[n].state = "up" /\ row[n].age >= StaleAfter
  BY DEF Stale
<1> HIDE DEF stale
<1>3. Marking(p) = {}
  BY <1>1 DEF Marking, PollInv, PollTypeOK
<1>4. /\ poll'[p] \in Poll /\ poll'[p].stale = stale /\ poll'[p].marked = {}
      /\ stale # {} => poll'[p].pc = "mark"
      /\ \A q \in Pollers \ {p} : poll'[q] = poll[q]
  <2>1. CASE stale = {}
    BY <1>0, <1>1, <2>1, IdleMarksNothing
  <2>2. CASE stale # {}
    <3>1. [IdlePoll EXCEPT !.pc = "mark", !.stale = stale] \in Poll
      BY <1>2, IdleMarksNothing DEF Poll
    <3>2. QED
      BY <1>0, <1>1, <2>2, <3>1 DEF IdlePoll
  <2>3. QED
    BY <2>1, <2>2
<1>5. /\ Marking(p)' = stale
      /\ \A q \in Pollers \ {p} : Marking(q)' = Marking(q)
  BY <1>4 DEF Marking
<1>6. \A n \in Names : raced'[n] <=> raced[n] \/ n \in stale \cap MarkedByOthers(p)
  BY <1>1
<1>7. PollTypeOK'
  <2>1. poll' \in [Pollers -> Poll]
    BY <1>0, <1>1, <1>4
  <2>2. raced' \in [Names -> BOOLEAN]
    <3>1. \A n \in Names : (raced[n] \/ n \in stale \cap MarkedByOthers(p)) \in BOOLEAN
      OBVIOUS
    <3>2. QED
      BY <1>1, <3>1
  <2>3. ASSUME NEW q \in Pollers, NEW n \in Marking(q)'
        PROVE  poll'[q].pc = "mark" /\ row[n].state # "none"
    <3>1. CASE q = p
      BY <1>2, <1>4, <1>5, <2>3, <3>1
    <3>2. CASE q # p
      BY <1>4, <1>5, <2>3, <3>2 DEF Marking, PollInv, PollTypeOK
    <3>3. QED
      BY <3>1, <3>2
  <2>4. WorkerTypeOK'
    BY DEF PollInv, PollTypeOK, WorkerTypeOK, workerVars
  <2>5. QED
    BY <1>1, <2>1, <2>2, <2>3, <2>4 DEF PollInv, PollTypeOK, Marking
<1>8. MarkedUnseen'
  <2> SUFFICES ASSUME NEW n \in Names,
                      row[n].state = "DOWN" \/ (\E q \in Pollers : n \in Marking(q)')
               PROVE  Unseen(n)'
    BY <1>1 DEF MarkedUnseen
  <2>1. CASE n \in stale
    BY <1>1, <1>2, <2>1 DEF Unseen
  <2>2. CASE n \notin stale
    <3>1. row[n].state = "DOWN" \/ (\E q \in Pollers : n \in Marking(q))
      BY <1>5, <2>2
    <3>2. Unseen(n)
      BY <3>1 DEF PollInv, MarkedUnseen
    <3>3. QED
      BY <1>1, <1>6, <3>2 DEF Unseen
  <2>3. QED
    BY <2>1, <2>2
<1>9. MarkedOnce'
  BY <1>4 DEF PollInv, MarkedOnce
<1>10. ASSUME NEW n \in Names, ~raced'[n] PROVE ReportedOnce(n)'
  <2>1. ReportedOnce(n) /\ ~(n \in stale /\ n \in MarkedByOthers(p))
    BY <1>6, <1>10 DEF PollInv
  <2>2. CASE n \in stale
    <3>1. downs[n] = 0
      <4>1. downs[n] # 1
        BY <1>2, <2>1, <2>2 DEF ReportedOnce
      <4>2. downs[n] \in 0..2 /\ downs[n] <= 1
        BY <2>1, PollTypes DEF ReportedOnce
      <4>3. QED
        BY <4>1, <4>2
    <3>2. \A q \in Pollers \ {p} : n \notin Marking(q)'
      BY <1>5, <2>1, <2>2 DEF MarkedByOthers
    <3>3. \A q \in Pollers : n \notin poll'[q].marked
      BY <1>4, <3>2 DEF Marking
    <3>4. QED
      BY <1>1, <3>1, <3>2, <3>3 DEF ReportedOnce
  <2>3. CASE n \notin stale
    <3>1. \A q \in Pollers : n \in Marking(q)' => n \in Marking(q)
      BY <1>5, <2>3
    <3>2. \A q \in Pollers : n \in poll'[q].marked => n \in poll[q].marked
      BY <1>4
    <3>3. QED
      BY <1>1, <2>1, <3>1, <3>2 DEF ReportedOnce
  <2>4. QED
    BY <2>2, <2>3
<1>11. QED
  BY <1>7, <1>8, <1>9, <1>10 DEF PollInv

LEMMA MarkStep ==
    ASSUME PollInv, NEW p \in Pollers, NEW n \in Names, Mark(p, n), UNCHANGED workerVars
    PROVE  PollInv'
<1>0. /\ poll \in [Pollers -> Poll] /\ row \in [Names -> TunnelRow] /\ poll[p] \in Poll
  BY PollTypes
<1>1. /\ poll[p].pc = "mark" /\ n \in poll[p].stale /\ poll[p].marked = {}
      /\ row' = [row EXCEPT ![n].state = "DOWN"]
      /\ poll' = [poll EXCEPT ![p].stale = @ \ {n}, ![p].marked = {n}]
      /\ UNCHANGED <<downs, raced>>
  BY DEF Mark, At
<1>2. /\ poll'[p] \in Poll /\ poll'[p].pc = "mark"
      /\ poll'[p].stale = poll[p].stale \ {n} /\ poll'[p].marked = {n}
      /\ \A q \in Pollers \ {p} : poll'[q] = poll[q]
      /\ poll' \in [Pollers -> Poll]
  BY <1>0, <1>1 DEF Poll
<1>3. \A q \in Pollers : Marking(q)' = Marking(q)
  BY <1>1, <1>2 DEF Marking
<1>4. /\ row' \in [Names -> TunnelRow] /\ row'[n].state = "DOWN" /\ row'[n].age = row[n].age
      /\ \A m \in Names \ {n} : row'[m] = row[m]
  BY <1>0, <1>1 DEF TunnelRow
<1>5. n \in Marking(p)
  BY <1>1 DEF Marking
<1>6. PollTypeOK'
  <2>1. ASSUME NEW q \in Pollers, NEW m \in Marking(q)
        PROVE  poll'[q].pc = "mark" /\ row'[m].state # "none"
    <3>1. poll[q].pc = "mark" /\ row[m].state # "none" /\ m \in Names
      BY PollTypes DEF Marking, PollInv, PollTypeOK
    <3>2. QED
      BY <1>2, <1>4, <3>1
  <2>2. WorkerTypeOK'
    BY DEF PollInv, PollTypeOK, WorkerTypeOK, workerVars
  <2>3. QED
    BY <1>1, <1>2, <1>3, <1>4, <2>1, <2>2 DEF PollInv, PollTypeOK, Marking
<1>7. MarkedUnseen'
  <2>1. Unseen(n)
    BY <1>5 DEF PollInv, MarkedUnseen
  <2>2. QED
    BY <1>1, <1>3, <1>4, <2>1 DEF PollInv, MarkedUnseen, Unseen
<1>8. MarkedOnce'
  BY <1>2 DEF PollInv, MarkedOnce
<1>9. ASSUME NEW m \in Names, ~raced[m] PROVE ReportedOnce(m)'
  <2>1. ReportedOnce(m)
    BY <1>9 DEF PollInv
  <2>2. CASE m = n
    BY <1>1, <1>3, <1>4, <2>1, <2>2 DEF ReportedOnce
  <2>3. CASE m # n
    <3>1. \A q \in Pollers : m \in poll'[q].marked => m \in poll[q].marked
      BY <1>2, <2>3
    <3>2. row'[m] = row[m] /\ downs'[m] = downs[m]
      BY <1>1, <1>4, <2>3
    <3>3. QED
      BY <1>3, <2>1, <3>1, <3>2 DEF ReportedOnce
  <2>4. QED
    BY <2>2, <2>3
<1>10. QED
  BY <1>1, <1>6, <1>7, <1>8, <1>9 DEF PollInv

LEMMA ReportStep ==
    ASSUME PollInv, NEW p \in Pollers, NEW n \in Names, Report(p, n), UNCHANGED workerVars
    PROVE  PollInv'
<1>0. /\ poll \in [Pollers -> Poll] /\ poll[p] \in Poll /\ downs \in [Names -> 0..2]
  BY PollTypes
<1>1. /\ poll[p].pc = "mark" /\ n \in poll[p].marked
      /\ downs' = [downs EXCEPT ![n] = IF @ = 2 THEN 2 ELSE @ + 1]
      /\ poll' = [poll EXCEPT ![p] = IF @.stale = {} THEN IdlePoll ELSE [@ EXCEPT !.marked = {}]]
      /\ UNCHANGED <<row, raced>>
  BY DEF Report, At
<1>2. /\ poll'[p] \in Poll
      /\ poll'[p].stale = poll[p].stale /\ poll'[p].marked = {}
      /\ poll[p].stale # {} => poll'[p].pc = "mark"
      /\ \A q \in Pollers \ {p} : poll'[q] = poll[q]
  <2>1. CASE poll[p].stale = {}
    BY <1>0, <1>1, <2>1, IdleMarksNothing
  <2>2. CASE poll[p].stale # {}
    BY <1>0, <1>1, <2>2 DEF Poll
  <2>3. QED
    BY <2>1, <2>2
<1>3. /\ \A q \in Pollers : Marking(q)' \subseteq Marking(q)
      /\ n \in Marking(p) /\ n \notin Marking(p)'
  BY <1>1, <1>2 DEF Marking, PollInv, MarkedOnce
<1>4. /\ downs'[n] = IF downs[n] = 2 THEN 2 ELSE downs[n] + 1
      /\ \A m \in Names \ {n} : downs'[m] = downs[m]
      /\ downs' \in [Names -> 0..2]
  BY <1>0, <1>1
<1>5. PollTypeOK'
  <2>1. ASSUME NEW q \in Pollers, NEW m \in Marking(q)'
        PROVE  poll'[q].pc = "mark" /\ row[m].state # "none"
    <3>1. poll[q].pc = "mark" /\ row[m].state # "none"
      BY <1>3, <2>1 DEF Marking, PollInv, PollTypeOK
    <3>2. poll'[q].pc = "mark"
      BY <1>2, <2>1, <3>1 DEF Marking
    <3>3. QED
      BY <3>1, <3>2
  <2>2. WorkerTypeOK'
    BY DEF PollInv, PollTypeOK, WorkerTypeOK, workerVars
  <2>3. poll' \in [Pollers -> Poll]
    BY <1>0, <1>1, <1>2
  <2>4. QED
    BY <1>1, <1>4, <2>1, <2>2, <2>3 DEF PollInv, PollTypeOK, Marking
<1>6. MarkedUnseen'
  BY <1>1, <1>3 DEF PollInv, MarkedUnseen, Unseen
<1>7. MarkedOnce'
  BY <1>2 DEF PollInv, MarkedOnce
<1>8. ASSUME NEW m \in Names, ~raced[m] PROVE ReportedOnce(m)'
  <2>1. ReportedOnce(m)
    BY <1>8 DEF PollInv
  <2>2. CASE m = n
    <3>1. downs[n] = 0 /\ \A q \in Pollers \ {p} : n \notin Marking(q)
      BY <1>3, <2>1, <2>2 DEF ReportedOnce
    <3>2. downs'[n] = 1
      BY <1>4, <3>1
    <3>3. row[n].state = "DOWN"
      BY <1>1, <2>1, <2>2 DEF ReportedOnce
    <3>4. \A q \in Pollers : n \notin Marking(q)'
      BY <1>3, <3>1
    <3>5. QED
      BY <1>1, <2>2, <3>2, <3>3, <3>4 DEF ReportedOnce, Marking
  <2>3. CASE m # n
    <3>1. \A q \in Pollers : poll'[q].marked \subseteq poll[q].marked
      BY <1>2
    <3>2. row'[m] = row[m] /\ downs'[m] = downs[m]
      BY <1>1, <1>4, <2>3
    <3>3. QED
      BY <1>3, <2>1, <3>1, <3>2 DEF ReportedOnce
  <2>4. QED
    BY <2>2, <2>3
<1>9. QED
  BY <1>1, <1>5, <1>6, <1>7, <1>8 DEF PollInv

LEMMA TimeStep ==
    ASSUME PollInv, Tick, UNCHANGED workerVars
    PROVE  PollInv'
<1>0. /\ row \in [Names -> TunnelRow] /\ StaleAfter \in Nat
      /\ \A n \in Names : row[n].age \in 0..StaleAfter
  BY PollTypes
<1>1. /\ row' = [n \in Names |-> [row[n] EXCEPT
                  !.age = IF row[n].state # "none" /\ @ < StaleAfter THEN @ + 1 ELSE @]]
      /\ UNCHANGED <<poll, downs, raced>>
  BY DEF Tick
<1>2. ASSUME NEW n \in Names
      PROVE  /\ row'[n] \in TunnelRow /\ row'[n].state = row[n].state
             /\ row[n].age >= StaleAfter => row'[n].age >= StaleAfter
  <2> DEFINE age == IF row[n].state # "none" /\ row[n].age < StaleAfter THEN row[n].age + 1
                    ELSE row[n].age
  <2>1. age \in 0..StaleAfter /\ (row[n].age >= StaleAfter => age >= StaleAfter)
    BY <1>0
  <2>2. row'[n] = [row[n] EXCEPT !.age = age]
    BY <1>1
  <2> HIDE DEF age
  <2>3. QED
    BY <1>0, <2>1, <2>2 DEF TunnelRow
<1>3. PollTypeOK'
  <2>1. row' \in [Names -> TunnelRow]
    BY <1>1, <1>2
  <2>2. WorkerTypeOK'
    BY DEF PollInv, PollTypeOK, WorkerTypeOK, workerVars
  <2>3. \A p \in Pollers : \A n \in poll[p].stale \cup poll[p].marked :
           poll[p].pc = "mark" /\ row'[n].state # "none"
    BY <1>2, PollTypes DEF PollInv, PollTypeOK
  <2>4. QED
    BY <1>1, <2>1, <2>2, <2>3 DEF PollInv, PollTypeOK
<1>4. MarkedUnseen' /\ MarkedOnce' /\ \A n \in Names : ~raced'[n] => ReportedOnce(n)'
  BY <1>1, <1>2 DEF PollInv, MarkedUnseen, MarkedOnce, Unseen, ReportedOnce, Marking
<1>5. QED
  BY <1>3, <1>4 DEF PollInv

\* A row that appears ahead of its tunnel is marked by nobody.
LEMMA CreateStep ==
    ASSUME PollInv, NEW n \in Names, NEW proposal \in Proposals, CreateTunnel(n, proposal),
           UNCHANGED workerVars
    PROVE  PollInv'
<1>0. /\ row \in [Names -> TunnelRow] /\ StaleAfter \in Nat
      /\ downs \in [Names -> 0..2]
  BY PollTypes
<1>1. /\ row[n].state = "none"
      /\ row' = [row EXCEPT ![n] = [state |-> "up", proposal |-> proposal, age |-> 0]]
      /\ UNCHANGED <<poll, downs, raced>>
  BY DEF CreateTunnel
<1>2. /\ row'[n].state = "up" /\ row' \in [Names -> TunnelRow]
      /\ \A m \in Names \ {n} : row'[m] = row[m]
  BY <1>0, <1>1 DEF TunnelRow
<1>3. \A p \in Pollers : n \notin Marking(p)
  BY <1>1 DEF Marking, PollInv, PollTypeOK
<1>4. \A p \in Pollers : Marking(p)' = Marking(p)
  BY <1>1 DEF Marking
<1>5. PollTypeOK'
  <2>1. WorkerTypeOK'
    BY DEF PollInv, PollTypeOK, WorkerTypeOK, workerVars
  <2>2. ASSUME NEW p \in Pollers, NEW m \in Marking(p)
        PROVE  poll[p].pc = "mark" /\ row'[m].state # "none"
    <3>1. m \in Names \ {n}
      BY <1>3, PollTypes DEF Marking
    <3>2. QED
      BY <1>2, <3>1 DEF Marking, PollInv, PollTypeOK
  <2>3. QED
    BY <1>1, <1>2, <2>1, <2>2 DEF PollInv, PollTypeOK, Marking
<1>6. MarkedUnseen' /\ MarkedOnce'
  BY <1>1, <1>2, <1>3, <1>4 DEF PollInv, MarkedUnseen, MarkedOnce, Unseen
<1>7. ASSUME NEW m \in Names, ~raced[m] PROVE ReportedOnce(m)'
  <2>1. ReportedOnce(m)
    BY <1>7 DEF PollInv
  <2>2. CASE m = n
    BY <1>1, <1>3, <1>4, <2>1, <2>2 DEF ReportedOnce, Marking
  <2>3. CASE m # n
    BY <1>1, <1>2, <1>4, <2>1, <2>3 DEF ReportedOnce
  <2>4. QED
    BY <2>2, <2>3
<1>8. QED
  BY <1>1, <1>5, <1>6, <1>7 DEF PollInv

LEMMA PollKeeps ==
    ASSUME PollInv, NEW p \in Pollers, PollStep(p) \/ PollFault(p), UNCHANGED workerVars
    PROVE  PollInv'
<1>0. poll \in [Pollers -> Poll] /\ WorkerTypeOK'
  BY PollTypes DEF PollInv, PollTypeOK, WorkerTypeOK, workerVars
<1>1. ASSUME NEW listed \in [Names -> Proposals \cup {NoSa}], List(p, listed)
      PROVE  PollInv'
  <2>1. /\ poll' = [poll EXCEPT ![p] = [IdlePoll EXCEPT !.pc = "upsert", !.listed = listed]]
        /\ UNCHANGED <<row, downs, raced>>
    BY <1>1 DEF List
  <2>2. [IdlePoll EXCEPT !.pc = "upsert", !.listed = listed] \in Poll
    BY <1>1 DEF IdlePoll, Poll
  <2>3. /\ poll'[p].stale = {} /\ poll'[p].marked = {}
        /\ \A q \in Pollers \ {p} : poll'[q] = poll[q]
        /\ poll' \in [Pollers -> Poll]
    BY <1>0, <2>1, <2>2 DEF IdlePoll
  <2>4. QED
    BY <1>0, <2>1, <2>3, PollRests
<1>2. CASE Lists(p) \/ ListFails(p)
  <2>1. /\ sa \in [Names -> Proposals \cup {NoSa}]
        /\ [n \in Names |-> NoSa] \in [Names -> Proposals \cup {NoSa}]
    BY PollTypes
  <2>2. QED
    BY <1>1, <1>2, <2>1 DEF Lists, ListFails
<1>3. CASE PollFails(p)
  <2>1. poll' = [poll EXCEPT ![p] = IdlePoll] /\ UNCHANGED <<row, downs, raced>>
    BY <1>3 DEF PollFails
  <2>2. QED
    BY <1>0, <2>1, IdleMarksNothing, PollRests
<1>4. CASE UpsertTunnels(p)
  BY <1>4, UpsertStep
<1>5. CASE Select(p)
  BY <1>5, SelectStep
<1>6. CASE \E n \in Names : Mark(p, n)
  BY <1>6, MarkStep
<1>7. CASE \E n \in Names : Report(p, n)
  BY <1>7, ReportStep
<1>8. QED
  BY <1>2, <1>3, <1>4, <1>5, <1>6, <1>7 DEF PollStep, PollRows, PollFault

(***************************************************************************)
(* The worker and the daemon.                                              *)
(***************************************************************************)
LEMMA WorkerTypes ==
    ASSUME WorkerTypeOK,
           \/ \E n \in Names, proposal \in Proposals : Establish(n, proposal)
           \/ \E n \in Names : Terminate(n)
           \/ CharonStops \/ CharonStarts \/ StartWorker \/ Listen \/ Watchdog \/ KillWorker
           \/ UNCHANGED workerVars
    PROVE  WorkerTypeOK'
<1>1. CASE \E n \in Names, proposal \in Proposals : Establish(n, proposal)
  BY <1>1 DEF WorkerTypeOK, Establish
<1>2. CASE \E n \in Names : Terminate(n)
  BY <1>2 DEF WorkerTypeOK, Terminate
<1>3. CASE CharonStops \/ CharonStarts
  BY <1>3 DEF WorkerTypeOK, CharonStops, CharonStarts
<1>4. CASE StartWorker \/ Listen \/ Watchdog \/ KillWorker
  BY <1>4 DEF WorkerTypeOK, StartWorker, Listen, Watchdog, KillWorker
<1>5. CASE UNCHANGED workerVars
  BY <1>5 DEF WorkerTypeOK, workerVars
<1>6. QED
  BY <1>1, <1>2, <1>3, <1>4, <1>5

LEMMA EventTypes ==
    ASSUME EventsInv
    PROVE  /\ queue \in Seq(Event) /\ Len(queue) \in Nat /\ DOMAIN queue = 1..Len(queue)
           /\ \A k \in DOMAIN queue : queue[k] \in Event /\ queue[k].name \in Names
           /\ timeline \in [Names -> {"none", "up", "down"}]
           /\ lost \in [Names -> BOOLEAN]
           /\ sa \in [Names -> Proposals \cup {NoSa}]
<1>1. queue \in Seq(Event)
  BY DEF EventsInv, EventsTypeOK
<1>2. \A k \in DOMAIN queue : queue[k] \in Event
  BY <1>1
<1>3. QED
  BY <1>1, <1>2 DEF EventsInv, EventsTypeOK, WorkerTypeOK, Event

\* A step about which the listener hears nothing.
LEMMA Quiet ==
    ASSUME EventsInv, WorkerTypeOK', UNCHANGED eventVars, queue # <<>> => worker' = "running",
           \A n \in Names : (sa'[n] # NoSa <=> sa[n] # NoSa) \/ lost[n]
    PROVE  EventsInv'
<1>1. EventsTypeOK'
  BY DEF EventsInv, EventsTypeOK, eventVars
<1>2. ASSUME NEW n \in Names, ~lost[n] PROVE UpToDate(n)'
  BY <1>2 DEF EventsInv, UpToDate, LastOf, eventVars
<1>3. QED
  BY <1>1, <1>2 DEF EventsInv, eventVars

\* An event that the daemon sends: of the tunnel it is about it tells what is so, unless it
\* is told wrongly or not heard.
LEMMA HearStep ==
    ASSUME EventsInv, WorkerTypeOK', UNCHANGED worker, Len(queue) < MaxQueue,
           NEW n \in Names, NEW type \in {"up", "down"}, NEW told \in BOOLEAN,
           Hear(n, type, told),
           told => (type = "up" <=> sa'[n] # NoSa),
           \A m \in Names \ {n} : sa'[m] = sa[m]
    PROVE  EventsInv'
<1> DEFINE event == [name |-> n, type |-> type]
<1>0. /\ queue \in Seq(Event) /\ Len(queue) \in Nat /\ DOMAIN queue = 1..Len(queue)
      /\ \A k \in DOMAIN queue : queue[k].name \in Names
      /\ timeline \in [Names -> {"none", "up", "down"}]
      /\ lost \in [Names -> BOOLEAN] /\ event \in Event
      /\ \A k \in DOMAIN queue : queue[k] \in Event
  BY EventTypes DEF Event
<1>1. /\ queue' = IF Hears THEN Append(queue, event) ELSE queue
      /\ lost' = [lost EXCEPT ![n] = ~(Hears /\ told)]
      /\ timeline' = timeline
  BY DEF Hear
<1>2. /\ lost' \in [Names -> BOOLEAN] /\ (lost'[n] <=> ~(Hears /\ told))
      /\ \A m \in Names \ {n} : lost'[m] = lost[m]
  <2>1. (~(Hears /\ told)) \in BOOLEAN
    OBVIOUS
  <2> HIDE DEF Hears
  <2>2. QED
    BY <1>0, <1>1, <2>1
<1>3. CASE ~Hears
  <2>1. queue' = queue
    BY <1>1, <1>3
  <2>2. EventsTypeOK'
    BY <1>0, <1>1, <1>2, <2>1 DEF EventsInv, EventsTypeOK
  <2>3. ASSUME NEW m \in Names, ~lost'[m] PROVE UpToDate(m)'
    <3>1. m # n /\ ~lost[m]
      BY <1>2, <1>3, <2>3
    <3>2. QED
      BY <1>1, <2>1, <3>1 DEF EventsInv, UpToDate, LastOf
  <2>4. QED
    BY <2>2, <2>3 DEF EventsInv
<1>4. CASE Hears
  <2>1. /\ queue' \in Seq(Event) /\ Len(queue') = Len(queue) + 1
        /\ DOMAIN queue' = 1..Len(queue) + 1
        /\ queue'[Len(queue) + 1] = event
        /\ \A k \in 1..Len(queue) : queue'[k] = queue[k]
    BY <1>0, <1>1, <1>4
  <2>2. EventsTypeOK'
    <3>1. worker' = "running"
      BY <1>4 DEF Hears
    <3>2. Len(queue') <= MaxQueue
      BY <1>0, <2>1, QueueAssumption
    <3>3. QED
      BY <1>0, <1>1, <1>2, <2>1, <3>1, <3>2 DEF EventsTypeOK
  <2>3. ASSUME NEW m \in Names, ~lost'[m] PROVE UpToDate(m)'
    <3>1. CASE m = n
      <4>1. type = "up" <=> sa'[n] # NoSa
        BY <1>2, <2>3, <3>1
      <4>2. n \in Queued(queue')
        BY <2>1 DEF Queued
      <4>3. ASSUME NEW k \in DOMAIN queue', LastOf(n, k)' PROVE k = Len(queue) + 1
        <5>1. queue'[Len(queue) + 1].name = n
          BY <2>1
        <5>2. ~(k + 1 <= Len(queue) + 1)
          BY <1>0, <2>1, <4>3, <5>1 DEF LastOf
        <5>3. QED
          BY <1>0, <2>1, <5>2
      <4>4. QED
        BY <2>1, <3>1, <4>1, <4>2, <4>3 DEF UpToDate
    <3>2. CASE m # n
      <4>1. UpToDate(m) /\ sa'[m] = sa[m]
        BY <1>2, <2>3, <3>2 DEF EventsInv
      <4>2. m \in Queued(queue) => m \in Queued(queue')
        BY <1>0, <2>1 DEF Queued
      <4>3. ASSUME NEW k \in DOMAIN queue', LastOf(m, k)'
            PROVE  k \in DOMAIN queue /\ LastOf(m, k) /\ queue'[k] = queue[k]
        <5>1. k # Len(queue) + 1
          BY <2>1, <3>2, <4>3 DEF LastOf
        <5>2. k \in 1..Len(queue)
          BY <1>0, <2>1, <5>1
        <5>3. \A l \in k + 1..Len(queue) : l \in k + 1..Len(queue') /\ queue'[l] = queue[l]
          BY <1>0, <2>1, <5>2
        <5>4. QED
          BY <1>0, <2>1, <4>3, <5>2, <5>3 DEF LastOf
      <4>4. QED
        BY <1>1, <4>1, <4>2, <4>3 DEF UpToDate
    <3>3. QED
      BY <3>1, <3>2
  <2>4. QED
    BY <2>2, <2>3 DEF EventsInv
<1>5. QED
  BY <1>3, <1>4

\* What the first event and the rest of the queue have to do with each other.
LEMMA QueueTail ==
    ASSUME EventsInv, queue # <<>>, queue' = Tail(queue)
    PROVE  /\ queue' \in Seq(Event) /\ Len(queue') = Len(queue) - 1 /\ Len(queue) >= 1
           /\ Head(queue) = queue[1] /\ Head(queue) \in Event /\ 1 \in DOMAIN queue
           /\ \A n \in Names : n \in Queued(queue) <=> n = queue[1].name \/ n \in Queued(queue')
           /\ \A n \in Names : n \notin Queued(queue') /\ n = queue[1].name => LastOf(n, 1)
           /\ \A n \in Names : \A k \in DOMAIN queue' : LastOf(n, k)' =>
                 k + 1 \in DOMAIN queue /\ LastOf(n, k + 1) /\ queue'[k] = queue[k + 1]
<1>0. queue \in Seq(Event) /\ Len(queue) \in Nat /\ DOMAIN queue = 1..Len(queue)
  BY EventTypes
<1>1. /\ queue' \in Seq(Event) /\ Len(queue') = Len(queue) - 1 /\ Len(queue) >= 1
      /\ DOMAIN queue' = 1..Len(queue) - 1
      /\ \A k \in 1..Len(queue) - 1 : queue'[k] = queue[k + 1]
  BY <1>0
<1>2. Head(queue) = queue[1] /\ 1 \in DOMAIN queue /\ queue[1] \in Event
  BY <1>0, <1>1
<1>3. ASSUME NEW n \in Names
      PROVE  n \in Queued(queue) <=> n = queue[1].name \/ n \in Queued(queue')
  <2>1. ASSUME NEW k \in DOMAIN queue, queue[k].name = n
        PROVE  n = queue[1].name \/ n \in Queued(queue')
    <3>1. CASE k = 1
      BY <2>1, <3>1
    <3>2. CASE k # 1
      <4>1. k - 1 \in DOMAIN queue' /\ queue'[k - 1] = queue[k]
        BY <1>0, <1>1, <3>2
      <4>2. QED
        BY <2>1, <4>1 DEF Queued
    <3>3. QED
      BY <3>1, <3>2
  <2>2. ASSUME NEW k \in DOMAIN queue', queue'[k].name = n PROVE n \in Queued(queue)
    <3>1. k + 1 \in DOMAIN queue /\ queue'[k] = queue[k + 1]
      BY <1>0, <1>1
    <3>2. QED
      BY <2>2, <3>1 DEF Queued
  <2>3. QED
    BY <1>2, <2>1, <2>2 DEF Queued
<1>4. ASSUME NEW n \in Names, n \notin Queued(queue'), n = queue[1].name PROVE LastOf(n, 1)
  <2>1. ASSUME NEW l \in 2..Len(queue) PROVE queue[l].name # n
    <3>1. l - 1 \in DOMAIN queue' /\ queue'[l - 1] = queue[l]
      BY <1>0, <1>1
    <3>2. QED
      BY <1>4, <3>1 DEF Queued
  <2>2. 1 + 1 = 2
    OBVIOUS
  <2>3. QED
    BY <1>4, <2>1, <2>2 DEF LastOf
<1>5. ASSUME NEW n \in Names, NEW k \in DOMAIN queue', LastOf(n, k)'
      PROVE  k + 1 \in DOMAIN queue /\ LastOf(n, k + 1) /\ queue'[k] = queue[k + 1]
  <2>1. k + 1 \in DOMAIN queue /\ queue'[k] = queue[k + 1]
    BY <1>0, <1>1
  <2>2. ASSUME NEW l \in k + 2..Len(queue) PROVE queue[l].name # n
    <3>1. l - 1 \in k + 1..Len(queue') /\ l - 1 \in 1..Len(queue) - 1 /\ (l - 1) + 1 = l
      BY <1>0, <1>1
    <3>2. queue'[l - 1] = queue[l]
      BY <1>1, <3>1
    <3>3. QED
      BY <1>5, <3>1, <3>2 DEF LastOf
  <2>3. (k + 1) + 1 = k + 2
    BY <1>0, <1>1
  <2>4. QED
    BY <1>5, <2>1, <2>2, <2>3 DEF LastOf
<1>6. QED
  BY <1>1, <1>2, <1>3, <1>4, <1>5

LEMMA StoreStep ==
    ASSUME EventsInv, Store \/ StoreFails, UNCHANGED workerVars
    PROVE  EventsInv'
<1> DEFINE first == queue[1]
<1>0. /\ timeline \in [Names -> {"none", "up", "down"}] /\ lost \in [Names -> BOOLEAN]
      /\ Len(queue) \in Nat /\ worker = "running" /\ queue # <<>> /\ queue' = Tail(queue)
  BY EventTypes DEF Store, StoreFails
<1>1. /\ queue' \in Seq(Event) /\ Len(queue') = Len(queue) - 1 /\ Len(queue) >= 1
      /\ Head(queue) = first /\ first \in Event /\ 1 \in DOMAIN queue
      /\ \A n \in Names : n \in Queued(queue) <=> n = first.name \/ n \in Queued(queue')
      /\ \A n \in Names : n \notin Queued(queue') /\ n = first.name => LastOf(n, 1)
      /\ \A n \in Names : \A k \in DOMAIN queue' : LastOf(n, k)' =>
            k + 1 \in DOMAIN queue /\ LastOf(n, k + 1) /\ queue'[k] = queue[k + 1]
  BY <1>0, QueueTail
<1>2. first.name \in Names /\ first.type \in {"up", "down"}
  BY <1>1 DEF Event
<1> HIDE DEF first
<1>3. /\ timeline' \in [Names -> {"none", "up", "down"}] /\ lost' \in [Names -> BOOLEAN]
      /\ \A n \in Names : lost[n] => lost'[n]
      /\ \A n \in Names \ {first.name} : timeline'[n] = timeline[n]
      /\ ~lost'[first.name] /\ first.name \notin Queued(queue')
            => timeline'[first.name] = first.type
  <2>1. CASE Store
    BY <1>0, <1>1, <1>2, <2>1 DEF Store
  <2>2. CASE StoreFails
    <3>1. lost' = [lost EXCEPT ![first.name] = @ \/ first.name \notin Queued(queue')]
          /\ timeline' = timeline
      BY <1>0, <1>1, <2>2 DEF StoreFails
    <3>2. (lost[first.name] \/ first.name \notin Queued(queue')) \in BOOLEAN
      OBVIOUS
    <3>3. QED
      BY <1>0, <1>2, <3>1, <3>2
  <2>3. QED
    BY <2>1, <2>2
<1>4. EventsTypeOK'
  <2>1. WorkerTypeOK' /\ worker' = "running"
    BY <1>0, WorkerTypes DEF EventsInv, EventsTypeOK, workerVars
  <2>2. Len(queue') <= MaxQueue
    BY <1>0, <1>1, QueueAssumption DEF EventsInv, EventsTypeOK
  <2>3. QED
    BY <1>1, <1>3, <2>1, <2>2 DEF EventsTypeOK
<1>5. ASSUME NEW n \in Names, ~lost'[n] PROVE UpToDate(n)'
  <2>1. UpToDate(n) /\ sa' = sa
    BY <1>3, <1>5 DEF EventsInv, workerVars
  <2>2. n \notin Queued(queue') => (timeline'[n] = "up" <=> sa[n] # NoSa)
    <3> SUFFICES ASSUME n \notin Queued(queue') PROVE timeline'[n] = "up" <=> sa[n] # NoSa
      OBVIOUS
    <3>1. CASE n = first.name
      <4>1. first.type = "up" <=> sa[n] # NoSa
        BY <1>1, <2>1, <3>1 DEF UpToDate, first
      <4>2. QED
        BY <1>3, <1>5, <3>1, <4>1
    <3>2. CASE n # first.name
      BY <1>1, <1>3, <2>1, <3>2 DEF UpToDate
    <3>3. QED
      BY <3>1, <3>2
  <2>3. \A k \in DOMAIN queue' : LastOf(n, k)' => (queue'[k].type = "up" <=> sa[n] # NoSa)
    BY <1>1, <2>1 DEF UpToDate
  <2>4. QED
    BY <2>1, <2>2, <2>3 DEF UpToDate
<1>6. QED
  BY <1>4, <1>5 DEF EventsInv

\* A poll's DOWN is the last word only if nothing of the tunnel is queued, and then it is so
\* or marked as wrong.
LEMMA StoreDownStep ==
    ASSUME EventsInv, NEW n \in Names, StoreDown(n), UNCHANGED workerVars
    PROVE  EventsInv'
<1>0. /\ timeline \in [Names -> {"none", "up", "down"}] /\ lost \in [Names -> BOOLEAN]
      /\ queue' = queue /\ sa' = sa
      /\ timeline' = [timeline EXCEPT ![n] = "down"]
      /\ lost' = [lost EXCEPT ![n] = IF n \in Queued(queue) THEN @ ELSE sa[n] # NoSa]
  BY EventTypes DEF StoreDown, workerVars
<1>1. lost' \in [Names -> BOOLEAN]
  <2>1. (IF n \in Queued(queue) THEN lost[n] ELSE sa[n] # NoSa) \in BOOLEAN
    BY <1>0
  <2>2. QED
    BY <1>0, <2>1
<1>2. EventsTypeOK'
  BY <1>0, <1>1, WorkerTypes DEF EventsInv, EventsTypeOK, workerVars
<1>3. ASSUME NEW m \in Names, ~lost'[m] PROVE UpToDate(m)'
  <2>1. CASE m # n
    <3>1. UpToDate(m) /\ timeline'[m] = timeline[m]
      BY <1>0, <1>3, <2>1 DEF EventsInv
    <3>2. QED
      BY <1>0, <3>1 DEF UpToDate, LastOf
  <2>2. CASE m = n /\ n \in Queued(queue)
    <3>1. UpToDate(n)
      BY <1>0, <1>3, <2>2 DEF EventsInv
    <3>2. QED
      BY <1>0, <2>2, <3>1 DEF UpToDate, LastOf
  <2>3. CASE m = n /\ n \notin Queued(queue)
    <3>1. sa[n] = NoSa /\ timeline'[n] = "down"
      BY <1>0, <1>3, <2>3
    <3>2. \A k \in DOMAIN queue : ~LastOf(n, k)
      BY <2>3 DEF LastOf, Queued
    <3>3. QED
      BY <1>0, <2>3, <3>1, <3>2 DEF UpToDate, LastOf
  <2>4. QED
    BY <2>1, <2>2, <2>3
<1>4. QED
  BY <1>2, <1>3 DEF EventsInv

\* A change of one tunnel that no event tells.
LEMMA UnsaidStep ==
    ASSUME EventsInv, NEW n \in Names, Unsaid(n), WorkerTypeOK', UNCHANGED worker,
           \A m \in Names \ {n} : sa'[m] = sa[m]
    PROVE  EventsInv'
<1>0. /\ lost \in [Names -> BOOLEAN] /\ UNCHANGED <<queue, timeline>>
      /\ lost' = [lost EXCEPT ![n] = TRUE]
  BY EventTypes DEF Unsaid
<1>1. EventsTypeOK'
  BY <1>0 DEF EventsInv, EventsTypeOK
<1>2. ASSUME NEW m \in Names, ~lost'[m] PROVE UpToDate(m)'
  <2>1. m # n /\ UpToDate(m)
    BY <1>0, <1>2 DEF EventsInv
  <2>2. QED
    BY <1>0, <2>1 DEF UpToDate, LastOf
<1>3. QED
  BY <1>1, <1>2 DEF EventsInv

LEMMA DropStep ==
    ASSUME EventsInv, DropQueue, WorkerTypeOK', UNCHANGED sa
    PROVE  EventsInv'
<1>0. /\ timeline \in [Names -> {"none", "up", "down"}] /\ lost \in [Names -> BOOLEAN]
      /\ queue' = <<>> /\ timeline' = timeline
      /\ lost' = [n \in Names |-> lost[n] \/ n \in Queued(queue)]
  BY EventTypes DEF DropQueue
<1>1. lost' \in [Names -> BOOLEAN]
  <2>1. \A n \in Names : (lost[n] \/ n \in Queued(queue)) \in BOOLEAN
    OBVIOUS
  <2>2. QED
    BY <1>0, <2>1
<1>2. EventsTypeOK'
  <2>1. <<>> \in Seq(Event) /\ Len(<<>>) <= MaxQueue
    BY QueueAssumption
  <2>2. QED
    BY <1>0, <1>1, <2>1 DEF EventsTypeOK
<1>3. ASSUME NEW n \in Names, ~lost'[n] PROVE UpToDate(n)'
  <2>1. ~lost[n] /\ n \notin Queued(queue)
    BY <1>0, <1>3
  <2>2. DOMAIN queue' = {}
    BY <1>0
  <2>3. QED
    BY <1>0, <2>1, <2>2 DEF EventsInv, UpToDate
<1>4. QED
  BY <1>2, <1>3 DEF EventsInv

(***************************************************************************)
(* Worker, polls and listener together.                                    *)
(***************************************************************************)
IpsecInv == PollInv /\ EventsInv

\* A step that the polls do not see.
LEMMA PollsStand ==
    ASSUME PollInv, WorkerTypeOK', UNCHANGED pollVars
    PROVE  PollInv'
  BY PollTypes, PollRests DEF pollVars

LEMMA DaemonStep ==
    ASSUME IpsecInv, Daemon, UNCHANGED pollVars
    PROVE  IpsecInv'
<1>0. /\ PollInv /\ EventsInv /\ WorkerTypeOK
      /\ sa \in [Names -> Proposals \cup {NoSa}] /\ NoSa \notin Proposals
      /\ queue # <<>> => worker = "running"
  BY PollTypes DEF IpsecInv, EventsInv, EventsTypeOK, NoSa, Proposals
<1>1. CASE \E n \in Names, proposal \in Proposals : Establish(n, proposal) /\ Updown(n, "up")
  <2>1. PICK n \in Names, proposal \in Proposals : Establish(n, proposal) /\ Updown(n, "up")
    BY <1>1
  <2>2. WorkerTypeOK' /\ UNCHANGED worker
    BY <1>0, <2>1, WorkerTypes DEF Establish
  <2>3. sa'[n] # NoSa /\ \A m \in Names \ {n} : sa'[m] = sa[m]
    BY <1>0, <2>1 DEF Establish
  <2>4. EventsInv'
    BY <1>0, <2>1, <2>2, <2>3, HearStep DEF Updown
  <2>5. QED
    BY <1>0, <2>2, <2>4, PollsStand DEF IpsecInv
<1>2. CASE \E n \in Names : Terminate(n) /\ Updown(n, "down")
  <2>1. PICK n \in Names : Terminate(n) /\ Updown(n, "down")
    BY <1>2
  <2>2. WorkerTypeOK' /\ UNCHANGED worker
    BY <1>0, <2>1, WorkerTypes DEF Terminate
  <2>3. sa'[n] = NoSa /\ \A m \in Names \ {n} : sa'[m] = sa[m]
    BY <1>0, <2>1 DEF Terminate
  <2>4. EventsInv'
    BY <1>0, <2>1, <2>2, <2>3, HearStep DEF Updown
  <2>5. QED
    BY <1>0, <2>2, <2>4, PollsStand DEF IpsecInv
<1>3. CASE \E n \in Names : Rekey(n)
  <2>1. PICK n \in Names : Rekey(n)
    BY <1>3
  <2>2. WorkerTypeOK' /\ UNCHANGED <<worker, sa>>
    BY <1>0, <2>1, WorkerTypes DEF Rekey, workerVars
  <2>3. EventsInv'
    BY <1>0, <2>1, <2>2, HearStep DEF Rekey
  <2>4. QED
    BY <1>0, <2>2, <2>3, PollsStand DEF IpsecInv
<1>4. CASE CharonStops /\ Silence
  <2>1. WorkerTypeOK' /\ sa' = [n \in Names |-> NoSa] /\ (worker = "running" => worker' = "running")
    BY <1>0, <1>4, WorkerTypes DEF CharonStops
  <2>2. /\ UNCHANGED <<queue, timeline>>
        /\ lost' = [n \in Names |-> lost[n] \/ sa[n] # NoSa]
    BY <1>4 DEF Silence
  <2>3. lost' \in [Names -> BOOLEAN] /\ \A n \in Names : ~lost'[n] => ~lost[n] /\ sa[n] = NoSa
    <3>1. \A n \in Names : (lost[n] \/ sa[n] # NoSa) \in BOOLEAN
      OBVIOUS
    <3>2. QED
      BY <2>2, <3>1
  <2>4. EventsTypeOK'
    BY <1>0, <2>1, <2>2, <2>3 DEF EventsInv, EventsTypeOK
  <2>5. ASSUME NEW n \in Names, ~lost'[n] PROVE UpToDate(n)'
    BY <1>0, <2>1, <2>2, <2>3, <2>5 DEF EventsInv, UpToDate, LastOf
  <2>6. QED
    BY <1>0, <2>1, <2>4, <2>5, PollsStand DEF IpsecInv, EventsInv
<1>5. CASE CharonStarts /\ UNCHANGED eventVars
  <2>1. WorkerTypeOK' /\ UNCHANGED <<sa, worker>>
    BY <1>0, <1>5, WorkerTypes DEF CharonStarts
  <2>2. QED
    BY <1>0, <1>5, <2>1, PollsStand, Quiet DEF IpsecInv
<1>6. ASSUME NEW n \in Names, Unsaid(n),
             (\E proposal \in Proposals : Establish(n, proposal)) \/ Terminate(n)
      PROVE  IpsecInv'
  <2>1. WorkerTypeOK' /\ UNCHANGED worker
    BY <1>0, <1>6, WorkerTypes DEF Establish, Terminate
  <2>2. \A m \in Names \ {n} : sa'[m] = sa[m]
    BY <1>0, <1>6 DEF Establish, Terminate
  <2>3. EventsInv'
    BY <1>0, <1>6, <2>1, <2>2, UnsaidStep
  <2>4. QED
    BY <1>0, <2>1, <2>3, PollsStand DEF IpsecInv
<1>7. CASE \E n \in Names, proposal \in Proposals : Establish(n, proposal) /\ Unsaid(n)
  <2>1. PICK n \in Names, proposal \in Proposals : Establish(n, proposal) /\ Unsaid(n)
    BY <1>7
  <2>2. QED
    BY <1>6, <2>1
<1>8. CASE \E n \in Names : Terminate(n) /\ Unsaid(n)
  BY <1>6, <1>8
<1>9. QED
  BY <1>1, <1>2, <1>3, <1>4, <1>5, <1>7, <1>8 DEF Daemon

LEMMA IpsecStep ==
    ASSUME IpsecInv, [IpsecNext]_ipsecVars
    PROVE  IpsecInv'
<1>0. PollInv /\ EventsInv /\ WorkerTypeOK /\ (queue # <<>> => worker = "running")
  BY DEF IpsecInv, EventsInv, EventsTypeOK
<1>1. CASE Daemon /\ UNCHANGED pollVars
  BY <1>1, DaemonStep
<1>2. CASE (StartWorker \/ Listen) /\ UNCHANGED <<pollVars, eventVars>>
  <2>1. WorkerTypeOK' /\ UNCHANGED sa /\ worker' = "running"
    BY <1>0, <1>2, WorkerTypes DEF StartWorker, Listen
  <2>2. QED
    BY <1>0, <1>2, <2>1, PollsStand, Quiet DEF IpsecInv
<1>3. CASE WorkerEnds
  <2>1. WorkerTypeOK' /\ UNCHANGED sa /\ DropQueue /\ LoopEnds
    BY <1>0, <1>3, WorkerTypes DEF WorkerEnds, Watchdog, KillWorker
  <2>2. poll' = [poll EXCEPT ![Loop] = IdlePoll] /\ UNCHANGED <<row, downs, raced>>
    BY <2>1 DEF LoopEnds
  <2>3. PollInv'
    BY <1>0, <2>1, <2>2, PollTypes, IdleMarksNothing, PollRests
  <2>4. QED
    BY <1>0, <2>1, <2>3, DropStep DEF IpsecInv
<1>4. CASE \E p \in Pollers : Polling(p)
  <2>1. PICK p \in Pollers : Polling(p)
    BY <1>4
  <2>2. WorkerTypeOK' /\ UNCHANGED <<sa, worker>> /\ UNCHANGED workerVars
    BY <1>0, <2>1, WorkerTypes DEF Polling, workerVars
  <2>3. PollInv'
    BY <1>0, <2>1, <2>2, PollKeeps DEF Polling, PollStep
  <2>4. CASE UNCHANGED eventVars
    BY <1>0, <2>2, <2>3, <2>4, Quiet DEF IpsecInv
  <2>5. CASE \E n \in Names : Report(p, n) /\ StoreDown(n)
    BY <1>0, <2>2, <2>3, <2>5, StoreDownStep DEF IpsecInv
  <2>6. QED
    BY <2>1, <2>4, <2>5 DEF Polling
<1>5. CASE (Store \/ StoreFails) /\ UNCHANGED <<workerVars, pollVars>>
  <2>1. WorkerTypeOK'
    BY <1>0, <1>5, WorkerTypes
  <2>2. QED
    BY <1>0, <1>5, <2>1, PollsStand, StoreStep DEF IpsecInv
<1>6. CASE \E n \in Names, proposal \in Proposals : CreateTunnel(n, proposal)
                                                    /\ UNCHANGED <<workerVars, eventVars>>
  <2>1. WorkerTypeOK' /\ UNCHANGED <<sa, worker>> /\ UNCHANGED eventVars
    BY <1>0, <1>6, WorkerTypes DEF workerVars
  <2>2. QED
    BY <1>0, <1>6, <2>1, CreateStep, Quiet DEF IpsecInv
<1>7. CASE Tick /\ UNCHANGED <<workerVars, eventVars>>
  <2>1. WorkerTypeOK' /\ UNCHANGED <<sa, worker>>
    BY <1>0, <1>7, WorkerTypes DEF workerVars
  <2>2. QED
    BY <1>0, <1>7, <2>1, TimeStep, Quiet DEF IpsecInv
<1>8. CASE UNCHANGED ipsecVars
  <2>1. WorkerTypeOK' /\ UNCHANGED <<sa, worker>> /\ UNCHANGED pollVars /\ UNCHANGED eventVars
    BY <1>0, <1>8, WorkerTypes DEF ipsecVars, workerVars
  <2>2. QED
    BY <1>0, <2>1, PollsStand, Quiet DEF IpsecInv
<1>9. QED
  BY <1>1, <1>2, <1>3, <1>4, <1>5, <1>6, <1>7, <1>8 DEF IpsecNext

LEMMA IpsecInitially ==
    ASSUME IpsecInit
    PROVE  IpsecInv
<1>0. WorkerTypeOK
  BY DEF IpsecInit, WorkerInit, WorkerTypeOK
<1>1. PollTypeOK
  BY <1>0, IdleMarksNothing, StaleAssumption
  DEF IpsecInit, PollInit, PollTypeOK, NoTunnel, TunnelRow
<1>2. \A p \in Pollers : Marking(p) = {} /\ poll[p].marked = {}
  BY IdleMarksNothing DEF IpsecInit, PollInit, Marking
<1>3. PollInv
  BY <1>1, <1>2
  DEF IpsecInit, PollInit, PollInv, MarkedUnseen, MarkedOnce, ReportedOnce, NoTunnel
<1>4. EventsTypeOK
  BY <1>0, QueueAssumption DEF IpsecInit, EventsInit, EventsTypeOK
<1>5. \A n \in Names : UpToDate(n)
  <2>1. queue = <<>> /\ DOMAIN queue = {}
    BY DEF IpsecInit, EventsInit
  <2>2. SUFFICES ASSUME NEW n \in Names
                 PROVE  UpToDate(n)
    OBVIOUS
  <2>3. timeline[n] = "none" /\ sa[n] = NoSa
    BY DEF IpsecInit, WorkerInit, EventsInit
  <2>4. ~(timeline[n] = "up") /\ ~(sa[n] # NoSa)
    BY <2>3
  <2>5. QED
    BY <2>1, <2>4 DEF UpToDate
<1>6. QED
  BY <1>3, <1>4, <1>5 DEF IpsecInv, EventsInv

THEOREM IpsecInvariant == IpsecSteps => []IpsecInv
<1>1. IpsecInit => IpsecInv
  BY IpsecInitially
<1>2. IpsecInv /\ [IpsecNext]_ipsecVars => IpsecInv'
  BY IpsecStep
<1>3. QED
  BY <1>1, <1>2, PTL DEF IpsecSteps

(***************************************************************************)
(* A tunnel that some poll has seen in the last 30 seconds is not DOWN,    *)
(* unless that poll came between the SELECT and the UPDATE of another one  *)
(* (collector.py:110-126): however many /refresh overlap with the loop and *)
(* with one another.                                                       *)
(***************************************************************************)
THEOREM DownUnseen == IpsecSteps => []DownOnlyUnseen
<1>1. IpsecInv => DownOnlyUnseen
  BY DEF IpsecInv, PollInv, MarkedUnseen, Unseen, DownOnlyUnseen
<1>2. QED
  BY <1>1, IpsecInvariant, PTL

(***************************************************************************)
(* An outage is reported once, unless polls overlapped in reporting it.    *)
(***************************************************************************)
THEOREM DownOnce == IpsecSteps => []DownReportedOnce
<1>1. IpsecInv => DownReportedOnce
  BY DEF IpsecInv, PollInv, ReportedOnce, DownReportedOnce
<1>2. QED
  BY <1>1, IpsecInvariant, PTL

(***************************************************************************)
(* Once all that was heard of a tunnel is stored, its last event says      *)
(* whether it is up, unless that event was lost or was a rekeying          *)
(* (events.py:46-49, 81).                                                  *)
(***************************************************************************)
THEOREM TimelineTrue == IpsecSteps => []TimelineCurrent
<1>1. IpsecInv => TimelineCurrent
  BY DEF IpsecInv, EventsInv, UpToDate, TimelineCurrent
<1>2. QED
  BY <1>1, IpsecInvariant, PTL

(***************************************************************************)
(* The journal of sshd.                                                    *)
(***************************************************************************)
MonitorTypes ==
    /\ tcp \in [Sessions -> {"none", "open", "ended"}]
    /\ journal \in Seq(Entry) /\ Len(journal) \in Nat /\ DOMAIN journal = 1..Len(journal)
    /\ \A k \in DOMAIN journal : journal[k] \in Entry /\ journal[k].of \in Sessions
    /\ conn \in [Sessions -> Connection]
    /\ scan \in Scan
    /\ crossed \in [Sessions -> BOOLEAN]

LEMMA MonitorTyped == MonitorInv => MonitorTypes
<1> SUFFICES ASSUME MonitorInv PROVE MonitorTypes
  OBVIOUS
<1>1. journal \in Seq(Entry)
  BY DEF MonitorInv, MonitorTypeOK
<1>2. \A k \in DOMAIN journal : journal[k] \in Entry
  BY <1>1
<1>3. QED
  BY <1>1, <1>2 DEF MonitorInv, MonitorTypeOK, MonitorTypes, Entry

LEMMA KexTypes ==
    \A s \in Sessions : kex[s] \in Algorithms /\ kex[s] # "unknown"
  BY DEF kex, Algorithms

\* A set of numbers that has a bound has a greatest element.
Below == OpToRel(<, Nat)

LEMMA BelowIsWellFounded == IsWellFoundedOn(Below, Nat)
  BY NatLessThanWellFounded, Zenon DEF Below

LEMMA BelowIsLess == \A a \in Nat, b \in Nat : a < b => <<a, b>> \in Below
  BY Zenon DEF Below, OpToRel

LEMMA GreatestExists ==
    ASSUME NEW S \in SUBSET Nat, S # {}, NEW bound \in Nat, \A n \in S : n <= bound
    PROVE  \E m \in S : \A n \in S : n <= m
<1> DEFINE Bounds == {b \in Nat : \A n \in S : n <= b}
<1>1. Bounds \subseteq Nat /\ Bounds # {}
  OBVIOUS
<1>2. PICK least \in Bounds : \A b \in Bounds : <<b, least>> \notin Below
  BY <1>1, BelowIsWellFounded, WFMin, Zenon
<1>3. \A b \in Bounds : least <= b
  <2> SUFFICES ASSUME NEW b \in Bounds PROVE least <= b
    OBVIOUS
  <2>1. b \in Nat /\ least \in Nat
    BY <1>1
  <2>2. <<b, least>> \notin Below
    BY <1>2, Zenon
  <2>3. ~ (b < least)
    BY <2>1, <2>2, BelowIsLess, Zenon
  <2>4. QED
    BY <2>1, <2>3
<1>4. least \in S
  <2>1. SUFFICES ASSUME least \notin S PROVE FALSE
    OBVIOUS
  <2>2. \A n \in S : n < least
    BY <1>1, <2>1
  <2>3. PICK some \in S : TRUE
    OBVIOUS
  <2>4. some \in Nat /\ some < least /\ least \in Nat
    BY <2>2
  <2>5. least - 1 \in Nat /\ \A n \in S : n <= least - 1
    BY <2>2, <2>4
  <2>6. least <= least - 1
    BY <1>3, <2>5
  <2>7. QED
    BY <2>4, <2>6
<1>5. QED
  BY <1>1, <1>4

\* What _live_kex_by_peer finds for a session is like its own.
LEMMA LiveKexIsLike ==
    ASSUME MonitorInv, NEW s \in Sessions
    PROVE  LiveKex(s) \in Algorithms \cup {"unknown"} /\ Like(s, LiveKex(s))
<1> DEFINE given == {k \in DOMAIN journal :
                        journal[k].kind = "kex" /\ s \in Announced(SubSeq(journal, 1, k - 1))}
           last == CHOOSE k \in given : \A l \in given : l <= k
<1>0. MonitorTypes
  BY MonitorTyped
<1>1. LiveKex(s) = IF given = {} THEN "unknown" ELSE kex[journal[last].of]
  BY DEF LiveKex
<1>2. CASE given = {}
  BY <1>1, <1>2 DEF Like
<1>3. CASE given # {}
  <2>1. given \subseteq Nat /\ \A k \in given : k <= Len(journal)
    BY <1>0 DEF MonitorTypes
  <2>2. \E m \in given : \A l \in given : l <= m
    <3> HIDE DEF given
    <3>1. Len(journal) \in Nat
      BY <1>0 DEF MonitorTypes
    <3>2. QED
      BY <1>3, <2>1, <3>1, GreatestExists
  <2>3. last \in given
    BY <2>2
  <2> HIDE DEF last
  <2>4. /\ last \in DOMAIN journal /\ journal[last].kind = "kex"
        /\ s \in Announced(SubSeq(journal, 1, last - 1))
    BY <2>3
  <2>5. /\ Len(SubSeq(journal, 1, last - 1)) = last - 1
        /\ \A k \in 1..last - 1 : SubSeq(journal, 1, last - 1)[k] = journal[k]
        /\ DOMAIN SubSeq(journal, 1, last - 1) = 1..last - 1
        /\ last \in Nat
    BY <1>0, <2>4 DEF MonitorTypes
  <2>6. PICK j \in 1..last - 1 :
            /\ SubSeq(journal, 1, last - 1)[j] = [kind |-> "connection", of |-> s]
            /\ \A l \in j + 1..last - 1 : SubSeq(journal, 1, last - 1)[l].kind = "kex"
    BY <2>4, <2>5 DEF Announced
  <2>7. Follows(journal, s, j, last)
    <3>1. ASSUME NEW l \in j + 1..last PROVE journal[l].kind = "kex"
      <4>1. CASE l = last
        BY <2>4, <4>1
      <4>2. CASE l # last
        <5>1. l \in 1..last - 1 /\ l \in j + 1..last - 1
          BY <2>5, <4>2
        <5>2. QED
          BY <2>5, <2>6, <5>1
      <4>3. QED
        BY <4>1, <4>2
    <3>2. j < last /\ journal[j] = [kind |-> "connection", of |-> s]
      BY <2>5, <2>6
    <3>3. QED
      BY <3>1, <3>2 DEF Follows
  <2>8. j \in DOMAIN journal /\ journal[last].of \in Sessions
    BY <1>0, <2>4, <2>5 DEF MonitorTypes
  <2>9. Like(s, kex[journal[last].of]) /\ kex[journal[last].of] \in Algorithms
    BY <2>4, <2>7, <2>8, KexTypes DEF MonitorInv
  <2>10. QED
    BY <1>1, <1>3, <2>9
<1>4. QED
  BY <1>2, <1>3

\* A step of the monitor: it may look at the journal and does not change it.
LEMMA ScanStep ==
    ASSUME MonitorInv, UNCHANGED <<tcp, journal, crossed>>,
           conn' \in [Sessions -> Connection], scan' \in Scan, monitor' \in BOOLEAN,
           scan'.todo \subseteq scan'.seen,
           \A s \in scan'.todo : tcp[s] # "none",
           \A s \in Sessions : /\ conn'[s].state # "none" => tcp[s] # "none"
                               /\ Like(s, conn'[s].kex) /\ Like(s, scan'.found[s])
    PROVE  MonitorInv'
<1>1. MonitorTypeOK'
  BY DEF MonitorInv, MonitorTypeOK
<1>2. QED
  BY <1>1 DEF MonitorInv, Like, Follows

LEMMA NoScanFinds ==
    /\ NoScan \in Scan /\ NoScan.todo = {} /\ NoScan.seen = {}
    /\ \A s \in Sessions : NoScan.found[s] = "unknown" /\ Like(s, NoScan.found[s])
<1>1. NoScan \in Scan /\ NoScan.todo = {} /\ NoScan.seen = {}
  BY DEF NoScan, Scan
<1>2. \A s \in Sessions : NoScan.found[s] = "unknown"
  BY DEF NoScan
<1>3. \A s \in Sessions : Like(s, "unknown")
  BY DEF Like
<1>4. \A s \in Sessions : Like(s, NoScan.found[s])
  BY <1>2, <1>3
<1>5. QED
  BY <1>1, <1>2, <1>4

LEMMA CollectStep ==
    ASSUME MonitorInv, Collect \/ MonitorFault
    PROVE  MonitorInv'
<1>0. /\ MonitorTypes /\ scan \in Scan /\ monitor \in BOOLEAN /\ conn \in [Sessions -> Connection]
      /\ scan.todo \subseteq scan.seen /\ scan.seen \subseteq Sessions
      /\ scan.found \in [Sessions -> Algorithms \cup {"unknown"}]
      /\ \A s \in scan.todo : tcp[s] # "none"
      /\ \A s \in Sessions : /\ conn[s].state # "none" => tcp[s] # "none"
                             /\ Like(s, conn[s].kex) /\ Like(s, scan.found[s])
  BY MonitorTyped DEF MonitorInv, MonitorTypeOK, MonitorTypes, Scan
<1>1. CASE StartMonitor
  BY <1>0, <1>1, ScanStep DEF StartMonitor
<1>2. CASE StopMonitor \/ ScanFails
  <2>1. /\ scan' = NoScan /\ monitor' \in BOOLEAN /\ UNCHANGED <<tcp, journal, conn, crossed>>
    BY <1>0, <1>2 DEF StopMonitor, ScanFails
  <2>2. QED
    BY <1>0, <2>1, NoScanFinds, ScanStep
<1>3. CASE ReadJournal
  <2>1. PICK found \in {[s \in Sessions |-> LiveKex(s)], NoScan.found} :
            scan' = [NoScan EXCEPT !.pc = "list", !.found = found]
    BY <1>3 DEF ReadJournal
  <2>2. UNCHANGED <<tcp, journal, conn, monitor, crossed>>
    BY <1>3 DEF ReadJournal
  <2>3. /\ found \in [Sessions -> Algorithms \cup {"unknown"}]
        /\ \A s \in Sessions : Like(s, found[s])
    <3>1. CASE found = [s \in Sessions |-> LiveKex(s)]
      BY <3>1, LiveKexIsLike
    <3>2. CASE found = NoScan.found
      BY <3>2, NoScanFinds DEF Scan
    <3>3. QED
      BY <2>1, <3>1, <3>2
  <2>4. scan' \in Scan /\ scan'.todo = {} /\ scan'.found = found
    BY <2>1, <2>3 DEF NoScan, Scan
  <2>5. QED
    BY <1>0, <2>2, <2>3, <2>4, ScanStep
<1>4. ASSUME NEW listed \in SUBSET Sessions, \A s \in listed : tcp[s] # "none",
             ListSessions(listed)
      PROVE  MonitorInv'
  <2>1. /\ scan' = [scan EXCEPT !.pc = "rows", !.todo = listed, !.seen = listed]
        /\ UNCHANGED <<tcp, journal, conn, monitor, crossed>>
    BY <1>4 DEF ListSessions
  <2>2. /\ scan' \in Scan /\ scan'.todo = listed /\ scan'.seen = listed
        /\ scan'.found = scan.found
    BY <1>0, <2>1 DEF Scan
  <2>3. QED
    BY <1>0, <1>4, <2>1, <2>2, ScanStep
<1>5. CASE ListActive \/ ListNone
  BY <1>4, <1>5 DEF ListActive, ListNone
<1>6. ASSUME NEW s \in Sessions, Upsert(s) PROVE MonitorInv'
  <2>1. /\ s \in scan.todo
        /\ conn' = [conn EXCEPT ![s] = [state |-> "ACTIVE", kex |-> scan.found[s]]]
        /\ scan' = [scan EXCEPT !.todo = @ \ {s}]
        /\ UNCHANGED <<tcp, journal, monitor, crossed>>
    BY <1>6 DEF Upsert
  <2>2. /\ scan' \in Scan /\ scan'.todo = scan.todo \ {s} /\ scan'.seen = scan.seen
        /\ scan'.found = scan.found
    BY <1>0, <2>1 DEF Scan
  <2>3. /\ [state |-> "ACTIVE", kex |-> scan.found[s]] \in Connection
        /\ conn' \in [Sessions -> Connection]
    BY <1>0, <2>1 DEF Connection
  <2>4. \A t \in Sessions : \/ conn'[t] = conn[t]
                            \/ t = s /\ conn'[t].kex = scan.found[s] /\ tcp[t] # "none"
    BY <1>0, <2>1
  <2>5. QED
    BY <1>0, <2>1, <2>2, <2>3, <2>4, ScanStep
<1>7. CASE Close
  <2>1. /\ conn' = [s \in Sessions |->
              IF conn[s].state = "ACTIVE" /\ s \notin scan.seen
              THEN [conn[s] EXCEPT !.state = "CLOSED"] ELSE conn[s]]
        /\ scan' = NoScan /\ UNCHANGED <<tcp, journal, monitor, crossed>>
    BY <1>7 DEF Close
  <2>2. \A s \in Sessions : /\ conn'[s] \in Connection /\ conn'[s].kex = conn[s].kex
                            /\ conn'[s].state # "none" => conn[s].state # "none"
    BY <1>0, <2>1 DEF Connection
  <2>3. conn' \in [Sessions -> Connection]
    BY <2>1, <2>2
  <2>4. QED
    BY <1>0, <2>1, <2>2, <2>3, NoScanFinds, ScanStep
<1>8. QED
  BY <1>1, <1>2, <1>3, <1>5, <1>6, <1>7 DEF Collect, MonitorFault

\* A line that sshd writes.
LEMMA JournalStep ==
    ASSUME MonitorInv, NEW s \in Sessions, NEW kind \in {"connection", "kex"}, Journal(kind, s),
           tcp' \in [Sessions -> {"none", "open", "ended"}],
           \A t \in Sessions : tcp[t] # "none" => tcp'[t] # "none",
           UNCHANGED <<conn, scan, monitor>>,
           crossed' \in [Sessions -> BOOLEAN],
           \A t \in Sessions : crossed[t] => crossed'[t],
           kind = "kex" => \A t \in Announced(journal) : kex[t] = kex[s] \/ crossed'[t]
    PROVE  MonitorInv'
<1> DEFINE line == [kind |-> kind, of |-> s]
           end == Len(journal) + 1
<1>0. /\ MonitorTypes /\ Len(journal) \in Nat /\ DOMAIN journal = 1..Len(journal)
      /\ line \in Entry
  BY MonitorTyped DEF MonitorTypes, Entry
<1>1. /\ journal' = Append(journal, line) /\ journal' \in Seq(Entry) /\ Len(journal') = end
      /\ Len(journal') <= MaxJournal
      /\ DOMAIN journal' = 1..end /\ journal'[end] = line
      /\ \A k \in 1..Len(journal) : journal'[k] = journal[k]
  BY <1>0, JournalAssumption DEF Journal, MonitorTypes
<1>2. MonitorTypeOK'
  BY <1>1 DEF MonitorInv, MonitorTypeOK
<1>3. \A t \in Sessions : \A k : Like(t, k) => k \in {"unknown", kex[t]} \/ crossed'[t]
  BY DEF Like
<1>4. ASSUME NEW t \in Sessions, NEW j \in DOMAIN journal', NEW k \in DOMAIN journal',
             Follows(journal', t, j, k)
      PROVE  kex[journal'[k].of] \in {"unknown", kex[t]} \/ crossed'[t]
  <2>1. j \in 1..Len(journal) /\ j < k
    BY <1>0, <1>1, <1>4 DEF Follows
  <2>2. CASE k \in 1..Len(journal)
    <3>1. \A l \in j + 1..k : journal'[l] = journal[l]
      BY <1>0, <1>1, <2>1, <2>2
    <3>2. Follows(journal, t, j, k)
      BY <1>1, <1>4, <2>1, <3>1 DEF Follows
    <3>3. QED
      BY <1>0, <1>1, <1>3, <2>1, <2>2, <3>2 DEF MonitorInv
  <2>3. CASE k = end
    <3>1. kind = "kex"
      <4>1. k \in j + 1..k
        BY <1>0, <2>1, <2>3
      <4>2. QED
        BY <1>1, <1>4, <2>3, <4>1 DEF Follows
    <3>2. t \in Announced(journal)
      <4>1. \A l \in j + 1..Len(journal) : l \in j + 1..k /\ journal'[l] = journal[l]
        BY <1>0, <1>1, <2>1, <2>3
      <4>2. QED
        BY <1>0, <1>1, <1>4, <2>1, <4>1 DEF Announced, Follows
    <3>3. journal'[k].of = s
      BY <1>1, <2>3
    <3>4. kex[t] = kex[s] \/ crossed'[t]
      BY <3>1, <3>2
    <3>5. QED
      BY <3>3, <3>4
  <2>4. QED
    BY <1>0, <1>1, <2>2, <2>3
<1>5. /\ \A t \in scan'.todo : tcp'[t] # "none"
      /\ \A t \in Sessions : /\ conn'[t].kex \in {"unknown", kex[t]} \/ crossed'[t]
                             /\ scan'.found[t] \in {"unknown", kex[t]} \/ crossed'[t]
  <2>1. \A t \in scan.todo : t \in Sessions
    BY <1>0 DEF MonitorTypes, Scan
  <2>2. QED
    BY <1>3, <2>1 DEF MonitorInv
<1>6. QED
  BY <1>2, <1>4, <1>5 DEF MonitorInv, Like

LEMMA MonitorStep ==
    ASSUME MonitorInv, [MonitorNext]_sshVars
    PROVE  MonitorInv'
<1>0. MonitorTypes
  BY MonitorTyped
<1>1. ASSUME NEW s \in Sessions, Connect(s) PROVE MonitorInv'
  <2>1. /\ Journal("connection", s) /\ tcp' = [tcp EXCEPT ![s] = "open"]
        /\ UNCHANGED <<conn, scan, monitor, crossed>>
    BY <1>1 DEF Connect
  <2>2. /\ tcp' \in [Sessions -> {"none", "open", "ended"}]
        /\ \A t \in Sessions : tcp[t] # "none" => tcp'[t] # "none"
    BY <1>0, <2>1 DEF MonitorTypes
  <2>3. QED
    BY <1>0, <2>1, <2>2, JournalStep DEF MonitorTypes
<1>2. ASSUME NEW s \in Sessions, Negotiate(s) PROVE MonitorInv'
  <2>1. /\ Journal("kex", s) /\ UNCHANGED <<tcp, conn, scan, monitor>>
        /\ crossed' = [p \in Sessions |->
              crossed[p] \/ (p \in Announced(journal) /\ kex[p] # kex[s])]
    BY <1>2 DEF Negotiate
  <2>2. /\ crossed' \in [Sessions -> BOOLEAN]
        /\ \A t \in Sessions : crossed[t] => crossed'[t]
        /\ \A t \in Announced(journal) : kex[t] = kex[s] \/ crossed'[t]
    <3>1. \A p \in Sessions :
              (crossed[p] \/ (p \in Announced(journal) /\ kex[p] # kex[s])) \in BOOLEAN
      OBVIOUS
    <3>2. Announced(journal) \subseteq Sessions
      BY DEF Announced
    <3> HIDE DEF Announced
    <3>3. QED
      BY <2>1, <3>1, <3>2
  <2>3. QED
    BY <1>0, <2>1, <2>2, JournalStep DEF MonitorTypes
<1>3. ASSUME NEW s \in Sessions, Disconnect(s) PROVE MonitorInv'
  <2>1. /\ tcp' = [tcp EXCEPT ![s] = "ended"] /\ tcp[s] # "none"
        /\ UNCHANGED <<journal, conn, scan, monitor, crossed>>
    BY <1>3 DEF Disconnect
  <2>2. /\ tcp' \in [Sessions -> {"none", "open", "ended"}]
        /\ \A t \in Sessions : tcp[t] # "none" => tcp'[t] # "none"
    BY <1>0, <2>1 DEF MonitorTypes
  <2>3. \A t \in scan.todo : t \in Sessions
    BY <1>0 DEF MonitorTypes, Scan
  <2>4. QED
    BY <2>1, <2>2, <2>3 DEF MonitorInv, MonitorTypeOK, Like, Follows
<1>4. CASE Expire10min
  <2>1. /\ journal # <<>> /\ journal' = Tail(journal)
        /\ UNCHANGED <<tcp, conn, scan, monitor, crossed>>
    BY <1>4 DEF Expire10min
  <2>2. /\ Len(journal) \in Nat /\ Len(journal) >= 1 /\ journal' \in Seq(Entry)
        /\ Len(journal') = Len(journal) - 1 /\ DOMAIN journal' = 1..Len(journal) - 1
        /\ \A k \in 1..Len(journal) - 1 : journal'[k] = journal[k + 1]
        /\ Len(journal') <= MaxJournal
    BY <1>0, <2>1, JournalAssumption DEF MonitorTypes, MonitorInv, MonitorTypeOK
  <2>3. ASSUME NEW t \in Sessions, NEW j \in DOMAIN journal', NEW k \in DOMAIN journal',
               Follows(journal', t, j, k)
        PROVE  Like(t, kex[journal'[k].of])
    <3>1. /\ j + 1 \in DOMAIN journal /\ k + 1 \in DOMAIN journal /\ j \in Nat /\ k \in Nat
          /\ journal'[j] = journal[j + 1] /\ journal'[k] = journal[k + 1]
      BY <1>0, <2>2 DEF MonitorTypes
    <3>2. ASSUME NEW l \in (j + 1) + 1..k + 1 PROVE journal[l].kind = "kex"
      <4>1. l - 1 \in j + 1..k /\ l - 1 \in 1..Len(journal) - 1 /\ (l - 1) + 1 = l
        BY <1>0, <2>2, <3>1 DEF MonitorTypes
      <4>2. QED
        BY <2>2, <2>3, <4>1 DEF Follows
    <3>3. Follows(journal, t, j + 1, k + 1)
      BY <2>3, <3>1, <3>2 DEF Follows
    <3>4. QED
      BY <3>1, <3>3 DEF MonitorInv
  <2>4. MonitorTypeOK'
    BY <2>1, <2>2 DEF MonitorInv, MonitorTypeOK
  <2>5. QED
    BY <2>1, <2>3, <2>4 DEF MonitorInv, Like
<1>5. CASE Collect \/ MonitorFault
  BY <1>5, CollectStep
<1>6. CASE UNCHANGED sshVars
  BY <1>6 DEF sshVars, MonitorInv, MonitorTypeOK, Like, Follows
<1>7. QED
  BY <1>1, <1>2, <1>3, <1>4, <1>5, <1>6 DEF MonitorNext

LEMMA MonitorInitially ==
    ASSUME MonitorInit
    PROVE  MonitorInv
<1>1. journal = <<>> /\ journal \in Seq(Entry) /\ Len(journal) = 0
  BY DEF MonitorInit
<1>2. conn \in [Sessions -> Connection] /\ \A s \in Sessions : conn[s] = NoConnection
  BY DEF MonitorInit, NoConnection, Connection
<1>3. scan \in Scan /\ scan.todo = {} /\ \A s \in Sessions : Like(s, scan.found[s])
  BY NoScanFinds DEF MonitorInit
<1>4. MonitorTypeOK
  <2>1. Len(journal) <= MaxJournal
    BY <1>1, JournalAssumption
  <2>2. scan.todo \subseteq scan.seen
    BY <1>3
  <2>3. \A s \in Sessions : conn[s].state = "none"
    BY <1>2 DEF NoConnection
  <2>4. QED
    BY <1>1, <1>2, <1>3, <2>1, <2>2, <2>3 DEF MonitorInit, MonitorTypeOK
<1>5. \A s \in Sessions : Like(s, conn[s].kex)
  BY <1>2 DEF NoConnection, Like
<1>6. QED
  BY <1>1, <1>3, <1>4, <1>5 DEF MonitorInv

THEOREM MonitorInvariant == MonitorSteps => []MonitorInv
<1>1. MonitorInit => MonitorInv
  BY MonitorInitially
<1>2. MonitorInv /\ [MonitorNext]_sshVars => MonitorInv'
  BY MonitorStep
<1>3. QED
  BY <1>1, <1>2, PTL DEF MonitorSteps

(***************************************************************************)
(* "Never report a port-to-policy guess as negotiated evidence"            *)
(* (collector.py:191): the row of a session says what it negotiated itself *)
(* or "unknown", unless two sessions crossed in the journal, whatever part *)
(* of the journal a cycle still finds.                                     *)
(***************************************************************************)
THEOREM EvidenceOwn == MonitorSteps => []EvidenceIsOwn
<1>1. MonitorInv => EvidenceIsOwn
  BY DEF MonitorInv, Like, EvidenceIsOwn
<1>2. QED
  BY <1>1, MonitorInvariant, PTL

(***************************************************************************)
(* The authentication log.                                                 *)
(***************************************************************************)
ZtTypes ==
    /\ authlog \in Seq(LogLine) /\ Len(authlog) \in Nat /\ Len(authlog) <= MaxLog
    /\ DOMAIN authlog = 1..Len(authlog)
    /\ \A k \in DOMAIN authlog : authlog[k] \in LogLine
    /\ attempt \in [Attempts -> {"none", "invalid", "over"}]
    /\ moved \in BOOLEAN
    /\ torn \in [Attempts -> BOOLEAN]
    /\ jumbled \in [Attempts -> BOOLEAN]

LEMMA ZtTyped == ZtInv => ZtTypes
<1> SUFFICES ASSUME ZtInv PROVE ZtTypes
  OBVIOUS
<1>1. authlog \in Seq(LogLine) /\ Len(authlog) \in Nat /\ DOMAIN authlog = 1..Len(authlog)
  BY DEF ZtInv, ZtTypeOK
<1>2. \A k \in DOMAIN authlog : authlog[k] \in LogLine
  BY <1>1
<1>3. QED
  BY <1>1, <1>2 DEF ZtInv, ZtTypeOK, ZtTypes

\* A line is another program's, or an attempt's, with a publickey or without.
LEMMA LineKinds ==
    ASSUME NEW line \in LogLine
    PROVE  /\ line = Other => ~PublicKey(line) /\ line.of = "nobody" /\ line.kind = "other"
           /\ line # Other => /\ line.of \in Attempts /\ line.kind \in Kinds
                              /\ line = [kind |-> line.kind, of |-> line.of]
                              /\ line.of # "nobody"
                              /\ ~PublicKey(line) <=> line.kind = "invalid"
  BY AttemptsAssumption DEF LogLine, Other, PublicKey, Kinds

\* The rows a cycle makes of the log.
LEMMA RowsKnown ==
    ASSUME ZtInv, NEW k \in DOMAIN authlog, NEW r \in Rows(k)
    PROVE  /\ r.of = authlog[k].of /\ RowOK(r)
           /\ IF PublicKey(authlog[k]) THEN r.kind # "invalid" /\ OfLine(r)
              ELSE /\ r.kind = "invalid" /\ OfPlace(r)
                   /\ \/ Disturbed(r.of)
                      \/ /\ attempt[r.of] = "invalid"
                         /\ Last(authlog) = [kind |-> "invalid", of |-> r.of]
<1> DEFINE line == authlog[k]
<1>0. /\ ZtTypes /\ k \in Nat /\ k >= 1 /\ k <= Len(authlog) /\ Len(authlog) \in Nat
      /\ line \in LogLine /\ line # Other
      /\ line.of \in Attempts /\ line.kind \in Kinds
      /\ line = [kind |-> line.kind, of |-> line.of]
  <2>1. ZtTypes /\ line \in LogLine
    BY ZtTyped DEF ZtTypes
  <2>2. line # Other
    BY <2>1, LineKinds DEF Rows
  <2>3. QED
    BY <2>1, <2>2, LineKinds DEF ZtTypes
<1>1. CASE PublicKey(line)
  <2>1. r = [of |-> line.of, kind |-> line.kind, reason |-> Reason(k), place |-> 0]
    BY <1>1 DEF Rows
  <2>2. line.kind \in {"failed", "accepted"}
    BY <1>1 DEF PublicKey
  <2>3. CASE line.kind = "accepted"
    <3>1. Reason(k) = "ok"
      BY <2>3 DEF Reason
    <3>2. RowOK(r)
      BY <1>0, <2>1, <2>2, <2>3, <3>1 DEF RowOK, AuditRow, Kinds
    <3>3. QED
      BY <1>1, <2>1, <2>2, <3>2 DEF OfLine
  <2>4. CASE line.kind # "accepted" /\ k > 1 /\ authlog[k - 1].kind = "invalid"
    <3> DEFINE b == authlog[k - 1].of
    <3>1. Reason(k) = b
      BY <2>4 DEF Reason
    <3>2. /\ k - 1 \in DOMAIN authlog /\ k - 1 < Len(authlog) /\ (k - 1) + 1 = k
          /\ authlog[k - 1] \in LogLine
      BY <1>0, <2>4 DEF ZtTypes
    <3>3. authlog[k - 1] # Other /\ ~PublicKey(authlog[k - 1]) /\ b \in Attempts
      BY <2>4, <3>2, LineKinds DEF PublicKey
    <3>4. b # "ok" /\ b # "denied"
      BY <3>3, AttemptsAssumption
    <3>5. line.of = b \/ jumbled[b]
      BY <1>0, <2>4, <3>2, <3>3 DEF ZtInv, LinesOfAttempts
    <3> HIDE DEF b
    <3>6. r \in AuditRow
      BY <1>0, <2>1, <3>1, <3>3 DEF AuditRow
    <3>7. RowOK(r)
      BY <2>1, <2>2, <2>4, <3>1, <3>4, <3>5, <3>6 DEF RowOK
    <3>8. QED
      BY <1>1, <2>1, <2>2, <3>7 DEF OfLine
  <2>5. CASE line.kind # "accepted" /\ ~(k > 1 /\ authlog[k - 1].kind = "invalid")
    <3>1. Reason(k) = "denied"
      BY <2>5 DEF Reason
    <3>2. RowOK(r)
      BY <1>0, <2>1, <2>2, <2>5, <3>1 DEF RowOK, AuditRow
    <3>3. QED
      BY <1>1, <2>1, <2>2, <3>2 DEF OfLine
  <2>6. QED
    BY <2>3, <2>4, <2>5
<1>2. CASE ~PublicKey(line)
  <2>1. /\ r = [of |-> line.of, kind |-> line.kind, reason |-> line.of, place |-> k]
        /\ ~(k < Len(authlog) /\ PublicKey(authlog[k + 1]))
    BY <1>2 DEF Rows
  <2>2. line.kind = "invalid"
    BY <1>0, <1>2, LineKinds
  <2>3. RowOK(r) /\ OfPlace(r) /\ r.kind = "invalid"
    <3>1. k \in Lone
      BY <1>0, AttemptsAssumption DEF Lone, ZtTypes
    <3>2. r \in AuditRow
      BY <1>0, <2>1, <3>1 DEF AuditRow
    <3>3. QED
      BY <1>0, <2>1, <2>2, <3>2 DEF RowOK, OfPlace
  <2>4. CASE k < Len(authlog)
    <3>1. k + 1 \in DOMAIN authlog /\ ~PublicKey(authlog[k + 1]) /\ k # k + 1
      BY <1>0, <2>1, <2>4 DEF ZtTypes
    <3>2. authlog[k + 1].of # line.of
      BY <1>0, <1>2, <3>1 DEF ZtInv, LinesOnce
    <3>3. jumbled[line.of] \/ torn[line.of]
      BY <1>0, <1>2, <2>4, <3>2 DEF ZtInv, LinesOfAttempts
    <3>4. QED
      BY <1>2, <2>1, <2>3, <3>3 DEF Disturbed
  <2>5. CASE ~(k < Len(authlog))
    <3>1. attempt[line.of] = "invalid"
      BY <1>0, <1>2, <2>5 DEF ZtInv, LinesOfAttempts
    <3>2. k = Len(authlog)
      BY <1>0, <2>5
    <3>3. Last(authlog) = [kind |-> "invalid", of |-> line.of]
      BY <1>0, <2>2, <3>2 DEF Last
    <3>4. QED
      BY <1>2, <2>1, <2>3, <3>1, <3>3
  <2>6. QED
    BY <2>4, <2>5
<1>3. QED
  BY <1>1, <1>2

\* What the loop does: the log stays as it is.
LEMMA ReadingStep ==
    ASSUME ZtInv, UNCHANGED <<authlog, attempt, moved, jumbled>>,
           torn' \in [Attempts -> BOOLEAN], \A a \in Attempts : torn[a] => torn'[a],
           insert' \in Seq(SUBSET AuditRow),
           \A r \in (audit \cup Pending)' : r \in audit \cup Pending \/ (RowOK(r) /\ Origin(r)')
    PROVE  ZtInv'
<1>1. ASSUME NEW r \in (audit \cup Pending)'
      PROVE  RowOK(r)' /\ (moved \/ Origin(r))'
  <2>1. RowOK(r)
    BY <1>1 DEF ZtInv
  <2>2. r \in AuditRow /\ r.of \in Attempts
    BY <2>1 DEF RowOK, AuditRow
  <2>3. RowOK(r)'
    BY <2>1 DEF RowOK
  <2>4. Origin(r) => Origin(r)'
    BY <2>2 DEF Origin, OfLine, OfPlace, Disturbed, Rows, Reason
  <2>5. CASE r \in audit \cup Pending
    BY <2>3, <2>4, <2>5 DEF ZtInv
  <2>6. CASE r \notin audit \cup Pending
    BY <1>1, <2>3, <2>6
  <2>7. QED
    BY <2>5, <2>6
<1>2. \A r \in audit' : RowOK(r)'
  BY <1>1
<1>3. ZtTypeOK'
  <2>1. audit' \subseteq AuditRow
    BY <1>2 DEF RowOK
  <2>2. \A r \in audit' : IF r.kind = "invalid" THEN r.place > 0 /\ r.reason = r.of
                          ELSE r.place = 0 /\ (r.kind = "accepted" <=> r.reason = "ok")
    BY <1>2 DEF RowOK
  <2>3. QED
    BY <2>1, <2>2 DEF ZtInv, ZtTypeOK
<1>4. LinesOnce'
  BY DEF ZtInv, LinesOnce
<1>5. LinesOfAttempts'
  <2>1. \A k \in DOMAIN authlog : authlog[k] # Other => authlog[k].of \in Attempts
    BY ZtTyped, LineKinds DEF ZtTypes
  <2>2. QED
    BY <2>1 DEF ZtInv, LinesOfAttempts
<1>6. QED
  BY <1>1, <1>3, <1>4, <1>5 DEF ZtInv

LEMMA CycleStep ==
    ASSUME ZtInv, Fetch \/ InsertEvent \/ CycleEnds
    PROVE  ZtInv'
<1>0. ZtTypes /\ insert \in Seq(SUBSET AuditRow)
  BY ZtTyped DEF ZtInv, ZtTypeOK
<1>1. CASE Fetch
  <2>1. /\ insert' = [k \in DOMAIN authlog |-> Rows(k)]
        /\ torn' = [a \in Attempts |->
              torn[a] \/ (attempt[a] = "invalid" /\ Last(authlog) = [kind |-> "invalid", of |-> a])]
        /\ UNCHANGED <<authlog, audit, attempt, moved, jumbled>>
    BY <1>1 DEF Fetch
  <2>2. \A a \in Attempts :
          (torn[a] \/ (attempt[a] = "invalid" /\ Last(authlog) = [kind |-> "invalid", of |-> a]))
             \in BOOLEAN
    BY <1>0 DEF ZtTypes
  <2>3. torn' \in [Attempts -> BOOLEAN] /\ \A a \in Attempts : torn[a] => torn'[a]
    BY <2>1, <2>2
  <2>4. \A k \in DOMAIN authlog : \A r \in Rows(k) : r.of \in Attempts /\ r \in AuditRow
    BY RowsKnown DEF RowOK, AuditRow
  <2>5. insert' \in Seq(SUBSET AuditRow)
    BY <1>0, <2>1, <2>4 DEF ZtTypes
  <2>6. ASSUME NEW r \in Pending'
        PROVE  RowOK(r) /\ Origin(r)'
    <3>1. PICK k \in DOMAIN authlog : r \in Rows(k)
      BY <2>1, <2>6 DEF Pending
    <3>2. r.of \in Attempts
      BY <2>4, <3>1
    <3>3. CASE PublicKey(authlog[k])
      <4>1. RowOK(r) /\ r.kind # "invalid" /\ OfLine(r)
        BY <3>1, <3>3, RowsKnown
      <4>2. OfLine(r)'
        BY <2>1, <4>1 DEF OfLine, Rows, Reason
      <4>3. QED
        BY <4>1, <4>2 DEF Origin
    <3>4. CASE ~PublicKey(authlog[k])
      <4>1. /\ RowOK(r) /\ r.kind = "invalid" /\ OfPlace(r)
            /\ \/ Disturbed(r.of)
               \/ /\ attempt[r.of] = "invalid"
                  /\ Last(authlog) = [kind |-> "invalid", of |-> r.of]
        BY <3>1, <3>4, RowsKnown
      <4>2. OfPlace(r)' /\ Disturbed(r.of)'
        BY <2>1, <3>2, <4>1 DEF OfPlace, Disturbed
      <4>3. QED
        BY <4>1, <4>2 DEF Origin
    <3>5. QED
      BY <3>3, <3>4
  <2>7. QED
    BY <2>1, <2>3, <2>5, <2>6, ReadingStep
<1>2. CASE InsertEvent
  <2>1. /\ insert # <<>> /\ audit' = audit \cup Head(insert) /\ insert' = Tail(insert)
        /\ UNCHANGED <<authlog, attempt, moved, torn, jumbled>>
    BY <1>2 DEF InsertEvent
  <2>2. /\ Head(insert) = insert[1] /\ 1 \in DOMAIN insert /\ insert' \in Seq(SUBSET AuditRow)
        /\ \A k \in DOMAIN insert' : k + 1 \in DOMAIN insert /\ insert'[k] = insert[k + 1]
    BY <1>0, <2>1
  <2>3. Pending' \subseteq Pending /\ Head(insert) \subseteq Pending
    BY <2>2 DEF Pending
  <2>4. \A r \in (audit \cup Pending)' : r \in audit \cup Pending
    BY <2>1, <2>3
  <2>5. QED
    BY <1>0, <2>1, <2>2, <2>4, ReadingStep DEF ZtTypes
<1>3. CASE CycleEnds
  <2>1. insert' = <<>> /\ UNCHANGED <<authlog, audit, attempt, moved, torn, jumbled>>
    BY <1>3 DEF CycleEnds
  <2>2. insert' \in Seq(SUBSET AuditRow) /\ Pending' = {}
    BY <2>1 DEF Pending
  <2>3. \A r \in (audit \cup Pending)' : r \in audit \cup Pending
    BY <2>1, <2>2
  <2>4. QED
    BY <1>0, <2>1, <2>2, <2>3, ReadingStep DEF ZtTypes
<1>4. QED
  BY <1>1, <1>2, <1>3

\* A line is added: after the first line of a rejection it is that attempt's own, or leaves
\* a trace.
LEMMA AppendStep ==
    ASSUME ZtInv, NEW line \in LogLine, Len(authlog) < MaxLog, authlog' = Append(authlog, line),
           UNCHANGED <<audit, insert, moved>>,
           torn' \in [Attempts -> BOOLEAN], jumbled' \in [Attempts -> BOOLEAN],
           \A b \in Attempts : (torn[b] => torn'[b]) /\ (jumbled[b] => jumbled'[b]),
           \A b \in Attempts : authlog # <<>> /\ Last(authlog) = [kind |-> "invalid", of |-> b]
               => line.of = b \/ jumbled'[b] \/ (line = Other /\ torn'[b]),
           attempt' \in [Attempts -> {"none", "invalid", "over"}],
           \A b \in Attempts : b # line.of => attempt'[b] = attempt[b],
           line # Other =>
               /\ \/ attempt[line.of] = "none"
                  \/ attempt[line.of] = "invalid" /\ line.kind # "invalid"
               /\ attempt'[line.of] = IF line.kind = "invalid" THEN "invalid" ELSE "over"
    PROVE  ZtInv'
<1> DEFINE end == Len(authlog) + 1
<1>0. ZtTypes /\ Len(authlog) \in Nat
  BY ZtTyped DEF ZtTypes
<1>1. /\ authlog' \in Seq(LogLine) /\ Len(authlog') = end /\ Len(authlog') <= MaxLog
      /\ DOMAIN authlog' = 1..end /\ authlog'[end] = line
      /\ \A k \in DOMAIN authlog : k \in DOMAIN authlog' /\ authlog'[k] = authlog[k]
      /\ \A k \in DOMAIN authlog' : k \in DOMAIN authlog \/ k = end
  BY <1>0, AttemptsAssumption DEF ZtTypes
<1>2. \A k \in DOMAIN authlog : line # Other /\ authlog[k] # Other /\ authlog[k].of = line.of
          => ~PublicKey(authlog[k]) /\ line.kind # "invalid"
  BY DEF ZtInv, LinesOfAttempts
<1>3. LinesOnce'
  <2>1. ASSUME NEW k \in DOMAIN authlog', NEW l \in DOMAIN authlog', authlog'[k] # Other,
               authlog'[k].of = authlog'[l].of,
               PublicKey(authlog'[k]) <=> PublicKey(authlog'[l])
        PROVE  k = l
    <3>0. authlog'[l] # Other
      BY <1>1, <2>1, LineKinds
    <3>1. CASE k \in DOMAIN authlog /\ l \in DOMAIN authlog
      BY <1>1, <2>1, <3>1 DEF ZtInv, LinesOnce
    <3>2. CASE k = end /\ l \in DOMAIN authlog
      BY <1>1, <1>2, <2>1, <3>0, <3>2, LineKinds
    <3>3. CASE l = end /\ k \in DOMAIN authlog
      BY <1>1, <1>2, <2>1, <3>0, <3>3, LineKinds
    <3>4. QED
      BY <1>1, <3>1, <3>2, <3>3
  <2>2. QED
    BY <2>1 DEF LinesOnce, PublicKey, Other
<1>4. ASSUME NEW k \in DOMAIN authlog', authlog'[k] # Other
      PROVE  /\ attempt'[authlog'[k].of] # "none"
             /\ PublicKey(authlog'[k]) => attempt'[authlog'[k].of] = "over"
             /\ ~PublicKey(authlog'[k]) =>
                   IF k < Len(authlog')
                   THEN \/ authlog'[k + 1].of = authlog'[k].of \/ jumbled'[authlog'[k].of]
                        \/ authlog'[k + 1] = Other /\ torn'[authlog'[k].of]
                   ELSE attempt'[authlog'[k].of] = "invalid"
  <2>1. CASE k = end
    BY <1>1, <1>4, <2>1, LineKinds
  <2>2. CASE k \in DOMAIN authlog
    <3> DEFINE b == authlog[k].of
    <3>0. authlog[k] \in LogLine /\ authlog[k] # Other
      BY <1>0, <1>1, <1>4, <2>2 DEF ZtTypes
    <3>1. /\ b \in Attempts /\ authlog'[k] = authlog[k] /\ k \in Nat /\ k < Len(authlog')
          /\ attempt[b] # "none"
          /\ PublicKey(authlog[k]) => attempt[b] = "over"
          /\ ~PublicKey(authlog[k]) =>
                IF k < Len(authlog)
                THEN \/ authlog[k + 1].of = b \/ jumbled[b]
                     \/ authlog[k + 1] = Other /\ torn[b]
                ELSE attempt[b] = "invalid"
      BY <1>0, <1>1, <2>2, <3>0, LineKinds DEF ZtTypes, ZtInv, LinesOfAttempts
    <3> HIDE DEF b
    <3>2. attempt'[b] # "none" /\ (PublicKey(authlog[k]) => attempt'[b] = "over")
      <4>1. CASE b = line.of
        <5>1. line # Other
          BY <3>1, <4>1, LineKinds, AttemptsAssumption
        <5>2. ~PublicKey(authlog[k])
          BY <1>2, <2>2, <3>0, <4>1, <5>1 DEF b
        <5>3. QED
          BY <4>1, <5>1, <5>2
      <4>2. CASE b # line.of
        BY <3>1, <4>2
      <4>3. QED
        BY <4>1, <4>2
    <3>3. ASSUME ~PublicKey(authlog[k])
          PROVE  \/ authlog'[k + 1].of = b \/ jumbled'[b]
                 \/ authlog'[k + 1] = Other /\ torn'[b]
      <4>1. CASE k < Len(authlog)
        <5>1. k + 1 \in DOMAIN authlog
          BY <1>0, <3>1, <4>1 DEF ZtTypes
        <5>2. QED
          BY <1>1, <3>1, <3>3, <4>1, <5>1
      <4>2. CASE k = Len(authlog)
        <5>1. authlog[k] = [kind |-> "invalid", of |-> b]
          BY <3>0, <3>3, LineKinds DEF b
        <5>2. Last(authlog) = authlog[k] /\ authlog # <<>>
          BY <1>0, <2>2, <4>2 DEF Last, ZtTypes
        <5>3. line.of = b \/ jumbled'[b] \/ (line = Other /\ torn'[b])
          BY <3>1, <5>1, <5>2
        <5>4. QED
          BY <1>1, <4>2, <5>3
      <4>3. QED
        BY <1>0, <1>1, <3>1, <4>1, <4>2
    <3>4. authlog'[k] = authlog[k] /\ authlog[k].of = b /\ k < Len(authlog')
      BY <3>1 DEF b
    <3>5. QED
      BY <3>2, <3>3, <3>4
  <2>3. QED
    BY <1>1, <2>1, <2>2
<1>5. LinesOfAttempts'
  BY <1>4 DEF LinesOfAttempts, PublicKey, Other
<1>6. ASSUME NEW r \in audit \cup Pending
      PROVE  RowOK(r)' /\ (moved \/ Origin(r))'
  <2>1. RowOK(r) /\ (moved \/ Origin(r))
    BY DEF ZtInv
  <2>2. r.of \in Attempts /\ r.reason \in Attempts \cup {"ok", "denied"}
    BY <2>1 DEF RowOK, AuditRow
  <2>3. RowOK(r)'
    <3>1. r.reason \in Attempts \/ r.reason \in {"ok", "denied"}
      BY <2>2
    <3>2. QED
      BY <2>1, <3>1 DEF RowOK
  <2>4. Disturbed(r.of) => Disturbed(r.of)'
    BY <2>2 DEF Disturbed
  <2>5. ASSUME NEW k \in DOMAIN authlog, PublicKey(authlog[k]), r \in Rows(k)
        PROVE  PublicKey(authlog'[k]) /\ r \in Rows(k)'
    <3>1. r = [of |-> authlog[k].of, kind |-> authlog[k].kind, reason |-> Reason(k), place |-> 0]
      BY <2>5 DEF Rows
    <3>2. Reason(k)' = Reason(k)
      <4>1. k > 1 => k - 1 \in DOMAIN authlog
        BY <1>0 DEF ZtTypes
      <4>2. QED
        BY <1>1, <4>1 DEF Reason
    <3>3. QED
      BY <1>1, <2>5, <3>1, <3>2 DEF Rows, PublicKey
  <2>6. OfLine(r) => OfLine(r)'
    BY <1>1, <2>5 DEF OfLine, PublicKey
  <2>7. OfPlace(r) => OfPlace(r)'
    BY <1>1 DEF OfPlace
  <2>8. QED
    BY <2>1, <2>3, <2>4, <2>6, <2>7 DEF Origin
<1>7. ZtTypeOK'
  BY <1>1 DEF ZtInv, ZtTypeOK
<1>8. QED
  BY <1>3, <1>5, <1>6, <1>7 DEF ZtInv, Pending

\* A line that sshd writes of an attempt.
LEMMA WriteStep ==
    ASSUME ZtInv, NEW a \in Attempts, NEW kind \in Kinds, Write(a, kind),
           attempt[a] = "none" \/ (attempt[a] = "invalid" /\ kind # "invalid"),
           attempt' = [attempt EXCEPT ![a] = IF kind = "invalid" THEN "invalid" ELSE "over"]
    PROVE  ZtInv'
<1> DEFINE line == [kind |-> kind, of |-> a]
<1>0. /\ ZtTypes /\ line \in LogLine /\ line # Other /\ line.of = a /\ line.kind = kind
      /\ authlog' = Append(authlog, line) /\ Len(authlog) < MaxLog
      /\ UNCHANGED <<audit, insert, moved, torn>>
  BY ZtTyped, AttemptsAssumption DEF LogLine, Other, Write
<1>1. /\ jumbled' \in [Attempts -> BOOLEAN]
      /\ \A b \in Attempts : /\ jumbled[b] => jumbled'[b]
                             /\ authlog # <<>> /\ Last(authlog) = [kind |-> "invalid", of |-> b]
                                   => b = a \/ jumbled'[b]
  <2>1. jumbled' = [b \in Attempts |-> jumbled[b] \/
            (b # a /\ authlog # <<>> /\ Last(authlog) = [kind |-> "invalid", of |-> b])]
    BY DEF Write
  <2>2. \A b \in Attempts : (jumbled[b] \/
            (b # a /\ authlog # <<>> /\ Last(authlog) = [kind |-> "invalid", of |-> b])) \in BOOLEAN
    BY <1>0 DEF ZtTypes
  <2>3. QED
    BY <2>1, <2>2
<1>2. /\ attempt' \in [Attempts -> {"none", "invalid", "over"}]
      /\ attempt'[a] = IF kind = "invalid" THEN "invalid" ELSE "over"
      /\ \A b \in Attempts : b # a => attempt'[b] = attempt[b]
  BY <1>0 DEF ZtTypes
<1>3. torn' \in [Attempts -> BOOLEAN] /\ \A b \in Attempts : torn[b] => torn'[b]
  BY <1>0 DEF ZtTypes
<1> HIDE DEF line
<1>4. QED
  BY <1>0, <1>1, <1>2, <1>3, AppendStep

LEMMA WriteOtherStep ==
    ASSUME ZtInv, WriteOther
    PROVE  ZtInv'
<1>0. /\ ZtTypes /\ Other \in LogLine /\ Other.of \notin Attempts
      /\ authlog' = Append(authlog, Other) /\ Len(authlog) < MaxLog
      /\ UNCHANGED <<audit, insert, attempt, moved, jumbled>>
  BY ZtTyped, AttemptsAssumption DEF LogLine, Other, WriteOther
<1>1. /\ torn' \in [Attempts -> BOOLEAN]
      /\ \A b \in Attempts : /\ torn[b] => torn'[b]
                             /\ authlog # <<>> /\ Last(authlog) = [kind |-> "invalid", of |-> b]
                                   => torn'[b]
  <2>1. torn' = [b \in Attempts |-> torn[b] \/
            (authlog # <<>> /\ Last(authlog) = [kind |-> "invalid", of |-> b])]
    BY DEF WriteOther
  <2>2. \A b \in Attempts : (torn[b] \/
            (authlog # <<>> /\ Last(authlog) = [kind |-> "invalid", of |-> b])) \in BOOLEAN
    BY <1>0 DEF ZtTypes
  <2>3. QED
    BY <2>1, <2>2
<1>2. attempt' \in [Attempts -> {"none", "invalid", "over"}] /\ jumbled' \in [Attempts -> BOOLEAN]
  BY <1>0 DEF ZtTypes
<1>3. QED
  BY <1>0, <1>1, <1>2, AppendStep

LEMMA ZtStep ==
    ASSUME ZtInv, [ZtNext]_ztVars
    PROVE  ZtInv'
<1>0. ZtTypes
  BY ZtTyped
<1>1. ASSUME NEW a \in Attempts, Accept(a) \/ Refuse(a) \/ Deny(a) PROVE ZtInv'
  <2>1. CASE Accept(a)
    <3>1. /\ attempt[a] = "none" /\ Write(a, "accepted") /\ "accepted" \in Kinds
          /\ attempt' = [attempt EXCEPT ![a] = IF "accepted" = "invalid" THEN "invalid" ELSE "over"]
      BY <2>1 DEF Accept, Kinds
    <3>2. QED
      BY <3>1, WriteStep
  <2>2. CASE Refuse(a)
    <3>1. /\ attempt[a] = "none" /\ Write(a, "invalid") /\ "invalid" \in Kinds
          /\ attempt' = [attempt EXCEPT ![a] = IF "invalid" = "invalid" THEN "invalid" ELSE "over"]
      BY <2>2 DEF Refuse, Kinds
    <3>2. QED
      BY <3>1, WriteStep
  <2>3. CASE Deny(a)
    <3> DEFINE kind == "failed"
    <3>1. /\ attempt[a] = "none" \/ (attempt[a] = "invalid" /\ kind # "invalid")
          /\ Write(a, kind) /\ kind \in Kinds
          /\ attempt' = [attempt EXCEPT ![a] = IF kind = "invalid" THEN "invalid" ELSE "over"]
      BY <1>0, <2>3 DEF Deny, Kinds, ZtTypes
    <3> HIDE DEF kind
    <3>2. QED
      BY <3>1, WriteStep
  <2>4. QED
    BY <1>1, <2>1, <2>2, <2>3
<1>2. CASE WriteOther
  BY <1>2, WriteOtherStep
<1>3. ASSUME NEW log \in Seq(LogLine), MoveLog(log), Len(log) <= MaxLog,
             LinesOnce', LinesOfAttempts'
      PROVE  ZtInv'
  <2>1. authlog' = log /\ moved' = TRUE /\ UNCHANGED <<audit, insert, attempt, torn, jumbled>>
    BY <1>3 DEF MoveLog
  <2>2. \A r \in (audit \cup Pending)' : RowOK(r)' /\ moved'
    BY <2>1 DEF ZtInv, Pending, RowOK
  <2>3. ZtTypeOK'
    BY <1>3, <2>1 DEF ZtInv, ZtTypeOK
  <2>4. QED
    BY <1>3, <2>2, <2>3 DEF ZtInv
<1>4. CASE RotateLog
  <2>1. MoveLog(<<>>) /\ authlog' = <<>> /\ DOMAIN authlog' = {}
    BY <1>4 DEF RotateLog, MoveLog
  <2>2. <<>> \in Seq(LogLine) /\ Len(<<>>) <= MaxLog
    <3>1. \A n \in Nat : 0 <= n
      OBVIOUS
    <3>2. Len(<<>>) = 0 /\ <<>> \in Seq(LogLine)
      OBVIOUS
    <3>3. QED
      BY <3>1, <3>2, AttemptsAssumption, Zenon
  <2>3. LinesOnce' /\ LinesOfAttempts'
    BY <2>1 DEF LinesOnce, LinesOfAttempts
  <2>4. QED
    BY <1>3, <2>1, <2>2, <2>3
<1>5. CASE TrimLog
  <2>1. /\ MoveLog(Tail(authlog)) /\ authlog' = Tail(authlog) /\ authlog # <<>>
        /\ UNCHANGED <<attempt, jumbled, torn>>
    BY <1>5 DEF TrimLog, MoveLog
  <2>2. /\ Tail(authlog) \in Seq(LogLine) /\ Len(authlog') = Len(authlog) - 1
        /\ Len(Tail(authlog)) <= MaxLog /\ DOMAIN authlog' = 1..Len(authlog) - 1
        /\ \A k \in DOMAIN authlog' : /\ k \in Nat /\ k + 1 \in DOMAIN authlog
                                      /\ authlog'[k] = authlog[k + 1]
    BY <1>0, <2>1, AttemptsAssumption DEF ZtTypes
  <2>3. LinesOnce'
    <3>1. ASSUME NEW k \in DOMAIN authlog', NEW l \in DOMAIN authlog', authlog'[k] # Other,
                 authlog'[k].of = authlog'[l].of,
                 PublicKey(authlog'[k]) <=> PublicKey(authlog'[l])
          PROVE  k = l
      <4>1. k + 1 = l + 1
        BY <2>2, <3>1 DEF ZtInv, LinesOnce
      <4>2. QED
        BY <2>2, <4>1
    <3>2. QED
      BY <3>1 DEF LinesOnce, PublicKey, Other
  <2>4. LinesOfAttempts'
    <3>1. ASSUME NEW k \in DOMAIN authlog', authlog'[k] # Other
          PROVE  /\ attempt[authlog'[k].of] # "none"
                 /\ PublicKey(authlog'[k]) => attempt[authlog'[k].of] = "over"
                 /\ ~PublicKey(authlog'[k]) =>
                       IF k < Len(authlog')
                       THEN \/ authlog'[k + 1].of = authlog'[k].of \/ jumbled[authlog'[k].of]
                            \/ authlog'[k + 1] = Other /\ torn[authlog'[k].of]
                       ELSE attempt[authlog'[k].of] = "invalid"
      <4>1. /\ k + 1 \in DOMAIN authlog /\ authlog'[k] = authlog[k + 1] /\ k \in Nat
            /\ Len(authlog) \in Nat /\ Len(authlog') = Len(authlog) - 1
            /\ k < Len(authlog') <=> k + 1 < Len(authlog)
            /\ k < Len(authlog') => k + 1 \in DOMAIN authlog' /\ (k + 1) + 1 \in DOMAIN authlog
        BY <1>0, <2>2 DEF ZtTypes
      <4>2. k < Len(authlog') => authlog'[k + 1] = authlog[(k + 1) + 1]
        BY <2>2, <4>1
      <4>3. QED
        BY <3>1, <4>1, <4>2 DEF ZtInv, LinesOfAttempts
    <3>2. QED
      BY <2>1, <3>1 DEF LinesOfAttempts, PublicKey, Other
  <2>5. QED
    BY <1>3, <2>1, <2>2, <2>3, <2>4
<1>6. CASE Fetch \/ InsertEvent \/ CycleEnds
  BY <1>6, CycleStep
<1>7. CASE UNCHANGED ztVars
  <2>1. Pending' = Pending /\ UNCHANGED <<authlog, audit, insert, attempt, moved, torn, jumbled>>
    BY <1>7 DEF ztVars, Pending
  <2>2. ZtTypeOK' /\ LinesOnce' /\ LinesOfAttempts'
    BY <2>1 DEF ZtInv, ZtTypeOK, LinesOnce, LinesOfAttempts
  <2>3. \A r : (RowOK(r) => RowOK(r)') /\ (Origin(r) => Origin(r)')
    BY <2>1 DEF RowOK, Origin, OfLine, OfPlace, Rows, Reason, Disturbed
  <2>4. QED
    BY <2>1, <2>2, <2>3 DEF ZtInv
<1>8. QED
  BY <1>1, <1>4, <1>5, <1>6, <1>7, <1>2 DEF ZtNext

THEOREM ZtInvariant == ZtSteps => []ZtInv
<1>1. ZtInit => ZtInv
  <2> SUFFICES ASSUME ZtInit PROVE ZtInv
    OBVIOUS
  <2>1. authlog = <<>> /\ DOMAIN authlog = {} /\ authlog \in Seq(LogLine) /\ Len(authlog) = 0
    BY DEF ZtInit
  <2>2. audit = {} /\ insert \in Seq(SUBSET AuditRow) /\ Pending = {}
    BY DEF ZtInit, Pending
  <2>3. Len(authlog) <= MaxLog /\ audit \subseteq AuditRow
    BY <2>1, <2>2, AttemptsAssumption
  <2>4. ZtTypeOK
    BY <2>1, <2>2, <2>3 DEF ZtInit, ZtTypeOK
  <2>5. LinesOnce /\ LinesOfAttempts
    BY <2>1 DEF LinesOnce, LinesOfAttempts
  <2>6. QED
    BY <2>2, <2>4, <2>5 DEF ZtInv
<1>2. ZtInv /\ [ZtNext]_ztVars => ZtInv'
  BY ZtStep
<1>3. QED
  BY <1>1, <1>2, PTL DEF ZtSteps

(***************************************************************************)
(* A rejection is stored with its own reason or none, unless the line      *)
(* before it was another attempt's (ztaudit.py:153-180): pending_reason is *)
(* that of the line before, which an attempt's lines leave to each other.  *)
(***************************************************************************)
THEOREM OwnReason == ZtSteps => []ReasonIsOwn
<1>1. ZtInv => ReasonIsOwn
  BY DEF ZtInv, RowOK, ReasonIsOwn
<1>2. QED
  BY <1>1, ZtInvariant, PTL

(***************************************************************************)
(* However often the log is read, an attempt is stored once                *)
(* (ztaudit.py:146, 174), or twice if the first line of its rejection was  *)
(* stored by itself, until its lines move: its rows are that of its one    *)
(* publickey line and that of its one other line at its place.             *)
(***************************************************************************)
LEMMA RowsAreOne ==
    ASSUME ZtInv, ~moved, NEW a \in Attempts, NEW r \in RowsOf(a), NEW s \in RowsOf(a),
           r.kind = "invalid" <=> s.kind = "invalid"
    PROVE  r = s
<1>1. Origin(r) /\ Origin(s) /\ RowOK(r) /\ RowOK(s) /\ r.of = a /\ s.of = a
  BY DEF ZtInv, RowsOf
<1>2. CASE r.kind # "invalid"
  <2>1. PICK k \in DOMAIN authlog : PublicKey(authlog[k]) /\ r \in Rows(k)
    BY <1>1, <1>2 DEF Origin, OfLine
  <2>2. PICK l \in DOMAIN authlog : PublicKey(authlog[l]) /\ s \in Rows(l)
    BY <1>1, <1>2 DEF Origin, OfLine
  <2>3. authlog[k].of = a /\ authlog[l].of = a
    BY <1>1, <2>1, <2>2 DEF Rows
  <2>4. k = l
    BY <2>1, <2>2, <2>3 DEF ZtInv, LinesOnce, Other, PublicKey
  <2>5. QED
    BY <2>1, <2>2, <2>4 DEF Rows
<1>3. CASE r.kind = "invalid"
  <2>1. OfPlace(r) /\ OfPlace(s)
    BY <1>1, <1>3 DEF Origin
  <2>2. r.place = s.place
    BY <1>1, <2>1 DEF OfPlace, ZtInv, LinesOnce, Other, PublicKey
  <2>3. r \in AuditRow /\ s \in AuditRow /\ r.reason = s.reason
    BY <1>1, <1>3 DEF RowOK
  <2>4. QED
    BY <1>1, <1>3, <2>2, <2>3 DEF AuditRow
<1>4. QED
  BY <1>2, <1>3

THEOREM OneRow == ZtSteps => []StoredOnce
<1>1. ZtInv => StoredOnce
  <2> SUFFICES ASSUME ZtInv, ~moved, NEW a \in Attempts
               PROVE  Cardinality(RowsOf(a)) <= IF torn[a] \/ jumbled[a] THEN 2 ELSE 1
    BY DEF StoredOnce
  <2> DEFINE lone == {r \in RowsOf(a) : r.kind = "invalid"}
             line == {r \in RowsOf(a) : r.kind # "invalid"}
  <2>1. \A S : (\A r, s \in S : r = s) => IsFiniteSet(S) /\ Cardinality(S) \in {0, 1}
    <3> SUFFICES ASSUME NEW S, \A r, s \in S : r = s
                 PROVE  IsFiniteSet(S) /\ Cardinality(S) \in {0, 1}
      OBVIOUS
    <3>1. CASE S = {}
      BY <3>1, FS_EmptySet
    <3>2. CASE S # {}
      <4>1. PICK r \in S : S = {r}
        BY <3>2
      <4>2. QED
        BY <4>1, FS_Singleton
    <3>3. QED
      BY <3>1, <3>2
  <2>2. \A r, s \in lone : r = s
    BY RowsAreOne
  <2>3. \A r, s \in line : r = s
    BY RowsAreOne
  <2>4. RowsOf(a) = lone \cup line /\ lone \cap line = {}
    OBVIOUS
  <2>5. lone # {} => torn[a] \/ jumbled[a]
    BY DEF ZtInv, Origin, Disturbed, RowsOf
  <2> HIDE DEF lone, line
  <2>6. /\ IsFiniteSet(lone) /\ Cardinality(lone) \in {0, 1}
        /\ IsFiniteSet(line) /\ Cardinality(line) \in {0, 1}
    BY <2>1, <2>2, <2>3
  <2>7. CASE lone = {}
    <3>1. RowsOf(a) = line
      BY <2>4, <2>7
    <3>2. QED
      BY <2>6, <3>1
  <2>8. CASE lone # {}
    <3>1. Cardinality(RowsOf(a)) = Cardinality(lone) + Cardinality(line) - Cardinality({})
      BY <2>4, <2>6, FS_Union
    <3>2. QED
      BY <2>5, <2>6, <2>8, <3>1, FS_EmptySet
  <2>9. QED
    BY <2>7, <2>8
<1>2. QED
  BY <1>1, ZtInvariant, PTL

(***************************************************************************)
(* The alerts.  The type invariant is inductive.                           *)
(***************************************************************************)
LEMMA FoundByRules ==
    ASSUME AlertsTypeOK
    PROVE  /\ \A f \in DowngradedTunnels : f \in Fingerprints /\ f[1] = Prefix["ipsec"]
           /\ \A f \in DowngradedSessions : f \in Fingerprints /\ f[1] = Prefix["ssh"]
           /\ \A f \in RecentRejections : f \in Fingerprints /\ f[1] = Prefix["zt"]
<1>1. ASSUME NEW f \in DowngradedTunnels PROVE f \in Fingerprints /\ f[1] = Prefix["ipsec"]
  BY <1>1 DEF DowngradedTunnels, Fingerprints, IpsecDowngrade, Prefix
<1>2. ASSUME NEW f \in DowngradedSessions PROVE f \in Fingerprints /\ f[1] = Prefix["ssh"]
  <2>1. PICK p \in Peers : ssh[p] \in NotPqc /\ f = SshDowngrade(p, ssh[p])
    BY <1>2 DEF DowngradedSessions
  <2>2. f \in Fingerprints
    BY <2>1 DEF Fingerprints
  <2>3. f[1] = "ssh-downgrade"
    BY <2>1 DEF SshDowngrade
  <2>4. QED
    BY <2>2, <2>3 DEF Prefix
<1>3. ASSUME NEW f \in RecentRejections PROVE f \in Fingerprints /\ f[1] = Prefix["zt"]
  <2>1. PICK k \in DOMAIN rejected : f = ZtReject(rejected[k])
    BY <1>3 DEF RecentRejections, Recent
  <2>2. rejected[k] \in Rejections
    BY <2>1 DEF AlertsTypeOK
  <2>3. f \in Fingerprints
    BY <2>1, <2>2 DEF Fingerprints
  <2>4. f[1] = "zt-reject"
    BY <2>1 DEF ZtReject
  <2>5. QED
    BY <2>3, <2>4 DEF Prefix
<1>4. QED
  BY <1>1, <1>2, <1>3

LEMMA EvaluationStep ==
    ASSUME AlertsTypeOK, UNCHANGED <<tunnels, ssh, rejected>>,
           alerts' \in [Fingerprints -> {"none", "active", "acked"}],
           NEW rule \in Rules \cup {"idle"}, NEW fetched \in BOOLEAN, NEW raise,
           evaluation' = [rule |-> rule, fetched |-> fetched, raise |-> raise],
           \A f \in raise : f \in Fingerprints /\ fetched /\ f[1] = Prefix[rule]
    PROVE  AlertsTypeOK'
<1>1. /\ evaluation' \in [rule: Rules \cup {"idle"}, fetched: BOOLEAN, raise: SUBSET Fingerprints]
      /\ evaluation'.rule = rule /\ evaluation'.fetched = fetched /\ evaluation'.raise = raise
  OBVIOUS
<1>2. \A f \in evaluation'.raise : evaluation'.fetched /\ f[1] = Prefix[evaluation'.rule]
  BY <1>1
<1>3. QED
  BY <1>1, <1>2 DEF AlertsTypeOK

LEMMA AlertsStep ==
    ASSUME AlertsTypeOK, [AlertsNext]_alertVars
    PROVE  AlertsTypeOK'
<1>0. /\ alerts \in [Fingerprints -> {"none", "active", "acked"}]
      /\ evaluation \in [rule: Rules \cup {"idle"}, fetched: BOOLEAN, raise: SUBSET Fingerprints]
      /\ evaluation.rule \in Rules \cup {"idle"} /\ evaluation.fetched \in BOOLEAN
      /\ \A f \in evaluation.raise :
            f \in Fingerprints /\ evaluation.fetched /\ f[1] = Prefix[evaluation.rule]
  BY DEF AlertsTypeOK
<1>1. ASSUME NEW n \in Ike, TunnelWritten(n) PROVE AlertsTypeOK'
  BY <1>1 DEF TunnelWritten, AlertsTypeOK
<1>2. ASSUME NEW p \in Peers, SessionWritten(p) PROVE AlertsTypeOK'
  BY <1>2 DEF SessionWritten, AlertsTypeOK
<1>3. ASSUME NEW r \in Rejections, RejectionStored(r) PROVE AlertsTypeOK'
  BY <1>3 DEF RejectionStored, AlertsTypeOK
<1>4. ASSUME NEW f \in Fingerprints, Ack(f) PROVE AlertsTypeOK'
  BY <1>4 DEF Ack, AlertsTypeOK
<1>5. ASSUME NEW next \in Rules \cup {"idle"}, Enter(next),
             UNCHANGED <<tunnels, ssh, rejected, alerts>>
      PROVE  AlertsTypeOK'
  <2>1. evaluation' = [rule |-> next, fetched |-> FALSE, raise |-> {}]
    BY <1>5 DEF Enter
  <2>2. /\ evaluation' \in [rule: Rules \cup {"idle"}, fetched: BOOLEAN, raise: SUBSET Fingerprints]
        /\ evaluation'.raise = {}
    BY <2>1
  <2>3. QED
    BY <1>5, <2>2 DEF AlertsTypeOK
<1>6. CASE Begin \/ IpsecDone \/ SshDone \/ ZtDone \/ TlsRule \/ EvaluationEnds
  <2>1. \E next \in {"ipsec", "ssh", "tls", "zt", "idle"} :
            Enter(next) /\ UNCHANGED <<tunnels, ssh, rejected, alerts>>
    BY <1>6 DEF Begin, IpsecDone, SshDone, ZtDone, TlsRule, EvaluationEnds, Proceed
  <2>2. QED
    BY <1>5, <2>1 DEF Rules
<1>7. ASSUME NEW rule \in Rules, NEW found, Query(rule, found),
             \A f \in found : f \in Fingerprints /\ f[1] = Prefix[rule]
      PROVE  AlertsTypeOK'
  <2>1. /\ evaluation' = [rule |-> rule, fetched |-> TRUE, raise |-> found]
        /\ UNCHANGED <<tunnels, ssh, rejected, alerts>>
    BY <1>7 DEF Query
  <2>2. /\ \A f \in found : f \in Fingerprints /\ TRUE /\ f[1] = Prefix[rule]
        /\ TRUE \in BOOLEAN /\ rule \in Rules \cup {"idle"}
        /\ alerts' \in [Fingerprints -> {"none", "active", "acked"}]
    BY <1>0, <1>7, <2>1
  <2>3. QED
    BY <2>1, <2>2, EvaluationStep
<1>8. CASE QueryIpsec \/ QuerySsh \/ QueryZt
  <2>1. {"ipsec", "ssh", "zt"} \subseteq Rules
    BY DEF Rules
  <2>2. CASE QueryIpsec
    BY <1>7, <2>1, <2>2, FoundByRules DEF QueryIpsec
  <2>3. CASE QuerySsh
    BY <1>7, <2>1, <2>3, FoundByRules DEF QuerySsh
  <2>4. CASE QueryZt
    BY <1>7, <2>1, <2>4, FoundByRules DEF QueryZt
  <2>5. QED
    BY <1>8, <2>2, <2>3, <2>4
<1>9. ASSUME NEW f \in Fingerprints, Raise(f) PROVE AlertsTypeOK'
  <2>1. /\ alerts' = [alerts EXCEPT ![f] = IF @ = "none" THEN "active" ELSE @]
        /\ evaluation' = [evaluation EXCEPT !.raise = @ \ {f}]
        /\ UNCHANGED <<tunnels, ssh, rejected>>
    BY <1>9 DEF Raise
  <2>2. alerts' \in [Fingerprints -> {"none", "active", "acked"}]
    BY <1>0, <2>1
  <2>3. evaluation' = [rule |-> evaluation.rule, fetched |-> evaluation.fetched,
                       raise |-> evaluation.raise \ {f}]
    BY <1>0, <2>1
  <2>4. \A g \in evaluation.raise \ {f} :
            g \in Fingerprints /\ evaluation.fetched /\ g[1] = Prefix[evaluation.rule]
    BY <1>0
  <2>5. QED
    BY <1>0, <2>1, <2>2, <2>3, <2>4, EvaluationStep
<1>10. CASE UNCHANGED alertVars
  BY <1>10 DEF alertVars, AlertsTypeOK
<1>11. QED
  BY <1>1, <1>2, <1>3, <1>4, <1>6, <1>8, <1>9, <1>10 DEF AlertsNext, Evaluate

THEOREM AlertsInvariant == AlertsSteps => []AlertsTypeOK
<1>1. AlertsInit => AlertsTypeOK
  BY DEF AlertsInit, AlertsTypeOK
<1>2. AlertsTypeOK /\ [AlertsNext]_alertVars => AlertsTypeOK'
  BY AlertsStep
<1>3. QED
  BY <1>1, <1>2, PTL DEF AlertsSteps

(***************************************************************************)
(* The loops and the evaluator side by side.  A step of one leaves the     *)
(* tables of the others alone (monitorsVars), so that what has been proved *)
(* of each holds beside the others.                                        *)
(***************************************************************************)
THEOREM OwnTables ==
    MonitorsSpec => IpsecSteps /\ MonitorSteps /\ ZtSteps /\ AlertsSteps
<1>1. MonitorsInit => IpsecInit /\ MonitorInit /\ ZtInit /\ AlertsInit
  BY DEF MonitorsInit
<1>2. [MonitorsNext]_monitorsVars =>
         /\ [IpsecNext]_ipsecVars /\ [MonitorNext]_sshVars /\ [ZtNext]_ztVars
         /\ [AlertsNext]_alertVars
  BY DEF MonitorsNext, Ipsec, Ssh, Zt, Alerting, monitorsVars
<1>3. QED
  BY <1>1, <1>2, PTL
     DEF MonitorsSpec, IpsecSteps, MonitorSteps, ZtSteps, AlertsSteps

(***************************************************************************)
(* The tables are well formed, whatever the loops do: no poll marks a      *)
(* tunnel that has no row, only what was a session has one, a row of       *)
(* zt_audit has the place of its line if and only if it is a lone          *)
(* rejection, and an evaluation raises what the rule at hand has found.    *)
(***************************************************************************)
THEOREM MonitorsTypes == MonitorsSpec => []MonitorsTypeOK
<1>1. IpsecInv => IpsecTypeOK
  BY DEF IpsecInv, PollInv, EventsInv, IpsecTypeOK
<1>2. MonitorInv => MonitorTypeOK
  BY DEF MonitorInv
<1>3. ZtInv => ZtTypeOK
  BY DEF ZtInv
<1>4. IpsecTypeOK /\ MonitorTypeOK /\ ZtTypeOK /\ AlertsTypeOK
         => MonitorsTypeOK
  BY DEF MonitorsTypeOK
<1>5. QED
  BY <1>1, <1>2, <1>3, <1>4, OwnTables, IpsecInvariant,
     MonitorInvariant, ZtInvariant, AlertsInvariant, PTL
=============================================================================
