-------------------------- MODULE TlsPolicyProofs --------------------------
(* Proofs about TlsPolicy, for any Calls, Settings and bounds.             *)
EXTENDS TlsPolicy, TLAPS

(***************************************************************************)
(* The table and the handlers that work on it.                             *)
(***************************************************************************)
\* What a handler knows of the table: one that is about to take a row back
\* names a row that is there, and one that stores results has some left.
Table ==
    /\ env \in Settings
    /\ rows \in Seq(Row)
    /\ abandoned \subseteq 1..Len(rows)
    /\ call \in [Calls -> Call]
    /\ clock \in Nat
    /\ \A c \in Calls :
          /\ call[c].pc = "withdraw" => call[c].row \in 1..Len(rows)
          /\ call[c].pc = "store" => call[c].results # <<>>

LEMMA IdleIsCall == IdleCall \in Call
  BY DEF IdleCall, Call, Steps

LEMMA InitTable == Init => Table
  BY IdleIsCall DEF Init, Table, IdleCall

\* Rows are only added; a change of the active marks keeps their number.
LEMMA Deactivated ==
    ASSUME Table, NEW c \in Calls, Deactivate(c)
    PROVE  /\ rows' \in Seq(Row) /\ Len(rows') = Len(rows)
           /\ \A i \in 1..Len(rows') : ~rows'[i].active
<1>1. rows \in [1..Len(rows) -> Row] /\ Len(rows) \in Nat
  BY DEF Table
<1>2. rows' = [i \in 1..Len(rows) |-> [rows[i] EXCEPT !.active = FALSE]]
  BY <1>1 DEF Deactivate
<1>3. \A i \in 1..Len(rows) : [rows[i] EXCEPT !.active = FALSE] \in Row
  BY <1>1 DEF Row
<1>4. rows' \in [1..Len(rows) -> Row]
  BY <1>2, <1>3
<1>5. rows' \in Seq(Row) /\ Len(rows') = Len(rows)
  BY <1>1, <1>4
<1>6. \A i \in 1..Len(rows') : ~rows'[i].active
  BY <1>1, <1>2, <1>5 DEF Row
<1>7. QED
  BY <1>5, <1>6

LEMMA Inserted ==
    ASSUME Table, NEW c \in Calls, Insert(c)
    PROVE  /\ rows' \in Seq(Row) /\ Len(rows') = Len(rows) + 1
           /\ \A i \in 1..Len(rows) : rows'[i] = rows[i]
           /\ rows'[Len(rows) + 1].validated = call[c].ok
<1>1. [policy |-> env, validated |-> call[c].ok, active |-> TRUE] \in Row
  BY DEF Table, Row, Call
<1>2. QED
  BY <1>1 DEF Table, Insert

LEMMA Withdrawn ==
    ASSUME Table, NEW c \in Calls, Withdraw(c)
    PROVE  /\ rows' \in Seq(Row) /\ Len(rows') = Len(rows)
           /\ \A i \in 1..Len(rows) : i # call[c].row => rows'[i] = rows[i]
           /\ ~rows'[call[c].row].active
<1>1. rows \in [1..Len(rows) -> Row] /\ Len(rows) \in Nat /\ call[c].row \in 1..Len(rows)
  BY DEF Table, Withdraw
<1>2. [rows[call[c].row] EXCEPT !.active = FALSE] \in Row
  BY <1>1 DEF Row
<1>3. rows' \in [1..Len(rows) -> Row]
  BY <1>1, <1>2 DEF Withdraw
<1>4. rows' \in Seq(Row) /\ Len(rows') = Len(rows)
  BY <1>1, <1>3
<1>5. QED
  BY <1>1, <1>4 DEF Withdraw, Row

-----------------------------------------------------------------------------
(* What a step does to the handlers.                                       *)

\* The steps that leave the table alone, and what they may do to a handler: it
\* gives up nothing it owes the table but by being lost.
Bystander ==
    /\ UNCHANGED <<rows, raced>>
    /\ env' \in Settings /\ clock' \in Nat
    /\ call' \in [Calls -> Call]
    /\ abandoned \subseteq abandoned' /\ abandoned' \subseteq 1..Len(rows)
    /\ \A c \in Calls :
          /\ call'[c].pc \in {"insert", "withdraw"} => call'[c] = call[c]
          /\ call[c].pc = "withdraw" => call'[c] = call[c] \/ call[c].row \in abandoned'
          /\ call'[c].pc = "store" => call'[c].results # <<>>

LEMMA ApplyStep ==
    ASSUME Table, NEW c \in Calls, NEW reload \in BOOLEAN, Apply(c, reload)
    PROVE  Bystander
<1> PICK ok \in BOOLEAN :
      call' = [call EXCEPT ![c] = [IdleCall EXCEPT !.pc = "deactivate", !.ok = ok,
                                                   !.reload = reload]]
  BY DEF Apply
<1>1. [IdleCall EXCEPT !.pc = "deactivate", !.ok = ok, !.reload = reload] \in Call
  BY IdleIsCall DEF Call, Steps, IdleCall
<1>2. call' \in [Calls -> Call]
  BY <1>1 DEF Table
<1>3. call[c].pc = "idle" /\ call'[c].pc = "deactivate"
  BY DEF Apply, Table, IdleCall
<1>4. \A d \in Calls \ {c} : call'[d] = call[d]
  BY DEF Table
<1>5. QED
  BY <1>2, <1>3, <1>4 DEF Apply, Bystander, Table

LEMMA EffectStep ==
    ASSUME Table, NEW c \in Calls, TakeEffect(c)
    PROVE  Bystander
<1>1. call' \in [Calls -> Call]
  BY IdleIsCall DEF TakeEffect, Table
<1>2. QED
  BY <1>1 DEF TakeEffect, Bystander, Table, IdleCall, Reload, NoLoad, Fault

LEMMA HandshakeResults ==
    ASSUME Table, NEW suite \in Suites, NEW flipped \in SUBSET DOMAIN suite
    PROVE  Handshakes(suite, flipped) \in Seq(Result) /\ Handshakes(suite, flipped) # <<>>
<1>1. suite \in Seq(EnforcementProbes) /\ suite # <<>>
  <2>1. CASE suite = <<"negative_x25519">>
    BY <2>1 DEF EnforcementProbes
  <2>2. CASE suite = <<"negative_prime256v1">>
    BY <2>2 DEF EnforcementProbes
  <2>3. CASE suite = <<"negative_x25519", "negative_prime256v1">>
    BY <2>3 DEF EnforcementProbes
  <2>4. QED
    BY <2>1, <2>2, <2>3 DEF Suites
<1>2. ASSUME NEW i \in DOMAIN suite
      PROVE  [probe |-> suite[i], passed |-> (Passes(suite[i]) # (i \in flipped)), run_at |-> clock + 1]
                \in Result
  <2>1. suite[i] \in EnforcementProbes
    BY <1>1
  <2>2. (Passes(suite[i]) # (i \in flipped)) \in BOOLEAN
    OBVIOUS
  <2>3. QED
    BY <2>1, <2>2 DEF Result, Table
<1>3. Handshakes(suite, flipped) \in [1..Len(suite) -> Result] /\ Len(suite) \in Nat \ {0}
  BY <1>1, <1>2 DEF Handshakes
<1>4. QED
  BY <1>3

LEMMA ProbeStep ==
    ASSUME Table, NEW c \in Calls, NEW suite \in Suites, Probe(c, suite)
    PROVE  Bystander
<1>1. PICK flipped \in SUBSET DOMAIN suite :
        call' = [call EXCEPT ![c] = [IdleCall EXCEPT !.pc = "store",
                                                     !.results = Handshakes(suite, flipped)]]
  BY DEF Probe
<1>2. [IdleCall EXCEPT !.pc = "store", !.results = Handshakes(suite, flipped)] \in Call
  BY HandshakeResults, IdleIsCall DEF Call, Steps, IdleCall
<1>3. call' \in [Calls -> Call]
  BY <1>1, <1>2 DEF Table
<1>4. /\ call[c].pc = "idle" /\ call'[c].pc = "store"
      /\ call'[c].results = Handshakes(suite, flipped)
  BY <1>1 DEF Probe, Table, IdleCall
<1>5. \A d \in Calls \ {c} : call'[d] = call[d]
  BY <1>1 DEF Table
<1>6. QED
  BY <1>3, <1>4, <1>5, HandshakeResults DEF Probe, Bystander, Table

LEMMA StoreStep ==
    ASSUME Table, NEW c \in Calls, Store(c)
    PROVE  Bystander
<1>1. call[c] \in Call /\ call[c].results \in Seq(Result) /\ call[c].results # <<>>
  BY DEF Table, Call, Store
<1> DEFINE left == Tail(call[c].results)
<1>2. left \in Seq(Result)
  BY <1>1
<1>3. [call[c] EXCEPT !.results = left] \in Call
  BY <1>1, <1>2 DEF Call
<1>4. call' = [call EXCEPT ![c] = IF left = <<>> THEN IdleCall
                                   ELSE [call[c] EXCEPT !.results = left]]
  BY DEF Store
<1> HIDE DEF left
<1>5. call' \in [Calls -> Call]
  BY <1>3, <1>4, IdleIsCall DEF Table
<1>6. call'[c] = IF left = <<>> THEN IdleCall ELSE [call[c] EXCEPT !.results = left]
  BY <1>4 DEF Table
<1>7. /\ call[c].pc = "store" /\ call'[c].pc \in {"idle", "store"}
      /\ call'[c].pc = "store" => call'[c].results # <<>>
  BY <1>1, <1>6 DEF Store, Call, IdleCall
<1>8. \A d \in Calls \ {c} : call'[d] = call[d]
  BY <1>4 DEF Table
<1>9. QED
  BY <1>5, <1>7, <1>8 DEF Store, Bystander, Table

LEMMA LostStep ==
    ASSUME Table, NEW C \in SUBSET Calls, Lost(C), UNCHANGED <<rows, raced, clock>>, env' \in Settings
    PROVE  Bystander
<1>1. call' \in [Calls -> Call]
  BY IdleIsCall DEF Lost, Table
<1>2. \A c \in Calls : call'[c] = IF c \in C THEN IdleCall ELSE call[c]
  BY DEF Lost
<1>3. abandoned \subseteq abandoned' /\ abandoned' \subseteq 1..Len(rows)
  BY DEF Lost, Table
<1>4. \A c \in C : call[c].pc = "withdraw" => call[c].row \in abandoned'
  BY DEF Lost
<1>5. QED
  BY <1>1, <1>2, <1>3, <1>4 DEF Bystander, IdleCall, Table

-----------------------------------------------------------------------------
(* The active row.                                                         *)

\* Between its UPDATE and its INSERT an apply that does not race another is the
\* only one there, and no row is active.
Exclusive ==
    ~raced => \A c \in Calls : call[c].pc = "insert" =>
        /\ \A i \in 1..Len(rows) : ~rows[i].active
        /\ \A d \in Calls \ {c} : call[d].pc # "insert"

RowInv == Table /\ Exclusive /\ ActiveRow

LEMMA RowDomain == Table => DOMAIN rows = 1..Len(rows) /\ Len(rows) \in Nat
  BY DEF Table

LEMMA DeactivateStep ==
    ASSUME RowInv, NEW c \in Calls, Deactivate(c)
    PROVE  RowInv'
<1>1. Table
  BY DEF RowInv
<1>2. /\ rows' \in Seq(Row) /\ Len(rows') = Len(rows)
      /\ \A i \in 1..Len(rows') : ~rows'[i].active
  BY <1>1, Deactivated
<1>3. /\ call[c] \in Call /\ call[c].pc = "deactivate" /\ call'[c].pc = "insert"
      /\ \A d \in Calls \ {c} : call'[d] = call[d]
      /\ call' \in [Calls -> Call]
  BY <1>1 DEF Deactivate, Table, Call, Steps
<1>4. Table'
  BY <1>1, <1>2, <1>3 DEF Deactivate, Table
<1>5. Exclusive'
  <2>1. ~raced' => \A d \in Calls \ {c} : call[d].pc # "insert"
    BY DEF Deactivate
  <2>2. QED
    BY <1>2, <1>3, <2>1 DEF Exclusive
<1>6. ActiveRow'
  BY <1>2, <1>4 DEF ActiveRow, Table
<1>7. QED
  BY <1>4, <1>5, <1>6 DEF RowInv

LEMMA InsertStep ==
    ASSUME RowInv, NEW c \in Calls, Insert(c)
    PROVE  RowInv'
<1>1. Table /\ Len(rows) \in Nat /\ DOMAIN rows = 1..Len(rows)
  BY RowDomain DEF RowInv
<1>2. /\ rows' \in Seq(Row) /\ Len(rows') = Len(rows) + 1
      /\ \A i \in 1..Len(rows) : rows'[i] = rows[i]
      /\ rows'[Len(rows) + 1].validated = call[c].ok
  BY <1>1, Inserted
<1>3. /\ call[c] \in Call /\ call[c].pc = "insert"
      /\ call'[c].pc = (IF call[c].ok THEN "reload" ELSE "withdraw")
      /\ call'[c].row = Len(rows) + 1
      /\ \A d \in Calls \ {c} : call'[d] = call[d]
      /\ call' \in [Calls -> Call]
  <2> DEFINE next == IF call[c].ok THEN "reload" ELSE "withdraw"
             entry == [call[c] EXCEPT !.pc = next, !.row = Len(rows) + 1]
  <2>1. call \in [Calls -> Call] /\ call[c] \in Call /\ call[c].pc = "insert"
    BY <1>1 DEF Insert, Table
  <2>2. next \in Steps /\ Len(rows) + 1 \in Nat
    BY <1>1 DEF Steps
  <2>3. call' = [call EXCEPT ![c] = entry]
    BY <2>1 DEF Insert
  <2> HIDE DEF next
  <2>4. entry \in Call /\ entry.pc = next /\ entry.row = Len(rows) + 1
    BY <2>1, <2>2 DEF Call
  <2> HIDE DEF entry
  <2>5. /\ call'[c] = entry /\ call' \in [Calls -> Call]
        /\ \A d \in Calls \ {c} : call'[d] = call[d]
    BY <2>1, <2>3, <2>4
  <2>6. QED
    BY <2>1, <2>4, <2>5 DEF next
<1>4. UNCHANGED <<env, clock, raced, abandoned>>
  BY DEF Insert
<1>5. Table'
  BY <1>1, <1>2, <1>3, <1>4 DEF Table
<1>6. Exclusive'
  <2>1. ~raced => \A d \in Calls \ {c} : call[d].pc # "insert"
    BY <1>3 DEF RowInv, Exclusive
  <2>2. QED
    BY <1>3, <1>4, <2>1 DEF Exclusive
<1>7. ActiveRow'
  <2> SUFFICES ASSUME NEW i \in 1..Len(rows'), rows'[i].active
               PROVE  /\ ~raced' => i = Len(rows')
                      /\ ~rows'[i].validated =>
                            i \in abandoned' \/ \E d \in Calls : call'[d].pc = "withdraw"
                                                                 /\ call'[d].row = i
    BY <1>5, RowDomain DEF ActiveRow, Table
  <2>1. CASE i = Len(rows) + 1
    BY <1>2, <1>3, <2>1
  <2>2. CASE i \in 1..Len(rows)
    <3>1. rows[i].active /\ rows'[i] = rows[i]
      BY <1>2, <2>2
    <3>2. raced
      BY <1>3, <3>1, <2>2 DEF RowInv, Exclusive
    <3>3. ~rows[i].validated => i \in abandoned \/ \E d \in Calls : call[d].pc = "withdraw"
                                                                  /\ call[d].row = i
      BY <1>1, <2>2, <3>1 DEF RowInv, ActiveRow
    <3>4. \A d \in Calls : call[d].pc = "withdraw" => call'[d] = call[d]
      BY <1>3
    <3>5. QED
      BY <1>4, <3>1, <3>2, <3>3, <3>4
  <2>3. QED
    BY <1>1, <1>2, <2>1, <2>2
<1>8. QED
  BY <1>5, <1>6, <1>7 DEF RowInv

LEMMA WithdrawStep ==
    ASSUME RowInv, NEW c \in Calls, Withdraw(c)
    PROVE  RowInv'
<1>1. Table /\ Len(rows) \in Nat /\ DOMAIN rows = 1..Len(rows)
  BY RowDomain DEF RowInv
<1>2. /\ rows' \in Seq(Row) /\ Len(rows') = Len(rows)
      /\ \A i \in 1..Len(rows) : i # call[c].row => rows'[i] = rows[i]
      /\ ~rows'[call[c].row].active
  BY <1>1, Withdrawn
<1>3. /\ call[c].pc = "withdraw" /\ call'[c] = IdleCall
      /\ \A d \in Calls \ {c} : call'[d] = call[d]
      /\ call' \in [Calls -> Call]
  BY <1>1, IdleIsCall DEF Withdraw, Table
<1>4. UNCHANGED <<env, clock, raced, abandoned>>
  BY DEF Withdraw
<1>5. Table'
  <2>1. abandoned' \subseteq 1..Len(rows') /\ env' \in Settings /\ clock' \in Nat
    BY <1>1, <1>2, <1>4 DEF Table
  <2>2. call'[c].pc = "idle"
    BY <1>3 DEF IdleCall
  <2>3. \A d \in Calls : /\ call'[d].pc = "withdraw" => call'[d].row \in 1..Len(rows')
                         /\ call'[d].pc = "store" => call'[d].results # <<>>
    BY <1>1, <1>2, <1>3, <2>2 DEF Table
  <2>4. QED
    BY <1>2, <1>3, <2>1, <2>3 DEF Table
<1>6. Exclusive'
  <2>1. \A d \in Calls : call'[d].pc = "insert" => d # c /\ call[d].pc = "insert"
    BY <1>3 DEF IdleCall
  <2>2. (\A i \in 1..Len(rows) : ~rows[i].active) => \A i \in 1..Len(rows') : ~rows'[i].active
    BY <1>2
  <2>3. QED
    BY <1>4, <2>1, <2>2 DEF RowInv, Exclusive
<1>7. ActiveRow'
  <2> SUFFICES ASSUME NEW i \in 1..Len(rows'), rows'[i].active
               PROVE  /\ ~raced' => i = Len(rows')
                      /\ ~rows'[i].validated =>
                            i \in abandoned' \/ \E d \in Calls : call'[d].pc = "withdraw"
                                                                 /\ call'[d].row = i
    BY <1>5, RowDomain DEF ActiveRow, Table
  <2>1. i # call[c].row /\ i \in 1..Len(rows) /\ rows'[i] = rows[i]
    BY <1>2
  <2>2. /\ ~raced => i = Len(rows)
        /\ ~rows[i].validated => i \in abandoned \/ \E d \in Calls : call[d].pc = "withdraw"
                                                                 /\ call[d].row = i
    BY <1>1, <2>1 DEF RowInv, ActiveRow
  <2>3. QED
    BY <1>2, <1>3, <1>4, <2>1, <2>2
<1>8. QED
  BY <1>5, <1>6, <1>7 DEF RowInv

LEMMA BystanderStep ==
    ASSUME RowInv, Bystander
    PROVE  RowInv'
<1>1. Table'
  BY DEF RowInv, Bystander, Table
<1>2. Exclusive'
  BY DEF RowInv, Bystander, Exclusive
<1>3. ActiveRow'
  <2> SUFFICES ASSUME NEW i \in DOMAIN rows, rows[i].active
               PROVE  /\ ~raced => i = Len(rows)
                      /\ ~rows[i].validated =>
                            i \in abandoned' \/ \E d \in Calls : call'[d].pc = "withdraw"
                                                                 /\ call'[d].row = i
    BY DEF ActiveRow, Bystander
  <2>1. /\ ~raced => i = Len(rows)
        /\ ~rows[i].validated => i \in abandoned \/ \E d \in Calls : call[d].pc = "withdraw"
                                                                 /\ call[d].row = i
    BY DEF RowInv, ActiveRow
  <2>2. QED
    BY <2>1 DEF Bystander
<1>4. QED
  BY <1>1, <1>2, <1>3 DEF RowInv

LEMMA RowStep == RowInv /\ [Next]_vars => RowInv'
<1> SUFFICES ASSUME RowInv, [Next]_vars PROVE RowInv'
  OBVIOUS
<1>0. Table
  BY DEF RowInv
<1>1. CASE \E c \in Calls, reload \in BOOLEAN : Apply(c, reload)
  BY <1>0, <1>1, ApplyStep, BystanderStep
<1>2. CASE \E c \in Calls : Deactivate(c)
  BY <1>2, DeactivateStep
<1>3. CASE \E c \in Calls : Insert(c)
  BY <1>3, InsertStep
<1>4. CASE \E c \in Calls : Withdraw(c)
  BY <1>4, WithdrawStep
<1>5. CASE \E c \in Calls : TakeEffect(c)
  BY <1>0, <1>5, EffectStep, BystanderStep
<1>6. CASE \E c \in Calls, suite \in Suites : Probe(c, suite)
  BY <1>0, <1>6, ProbeStep, BystanderStep
<1>7. CASE \E c \in Calls : Store(c)
  BY <1>0, <1>7, StoreStep, BystanderStep
<1>8. CASE \E c \in Calls : CutShort(c)
  <2> PICK c \in Calls : CutShort(c)
    BY <1>8
  <2>1. Lost({c}) /\ UNCHANGED <<rows, raced, clock>> /\ env' \in Settings
    BY <1>0 DEF CutShort, Table
  <2>2. QED
    BY <1>0, <2>1, LostStep, BystanderStep
<1>9. CASE \E s \in Settings : Restart(s)
  <2>1. Lost(Calls) /\ UNCHANGED <<rows, raced, clock>> /\ env' \in Settings
    BY <1>9 DEF Restart
  <2>2. QED
    BY <1>0, <2>1, LostStep, BystanderStep
<1>10. CASE Start \/ Stop \/ ServiceReload \/ NginxDies \/ Observe \/ UNCHANGED vars
  <2>1. UNCHANGED <<rows, raced, call, abandoned, clock, env>>
    BY <1>10 DEF Start, Stop, ServiceReload, NginxDies, Observe, vars
  <2>2. Bystander
    BY <1>0, <2>1 DEF Bystander, Table
  <2>3. QED
    BY <2>2, BystanderStep
<1>11. QED
  BY <1>1, <1>2, <1>3, <1>4, <1>5, <1>6, <1>7, <1>8, <1>9, <1>10 DEF Next

\* However applies interleave, fail or stop half-way: without a race the newest
\* row alone can be active, and a rejected row is active only until its handler
\* takes it back or dies (policy.py:184-294).
THEOREM ActiveRowCorrect == Spec => []ActiveRow
<1>1. Init => RowInv
  BY InitTable DEF Init, RowInv, Exclusive, ActiveRow, IdleCall
<1>2. RowInv => ActiveRow
  BY DEF RowInv
<1>3. QED
  BY <1>1, <1>2, RowStep, PTL DEF Spec
-----------------------------------------------------------------------------
(* Types.                                                                  *)

LEMMA RowInvInit == Init => RowInv
  BY InitTable DEF Init, RowInv, Exclusive, ActiveRow, IdleCall

LEMMA FaultCount ==
    ASSUME faults \in Nat
    PROVE  /\ Fault => faults' \in Nat
           /\ \A conf, ok : Valid(conf, ok) => faults' \in Nat
  BY DEF Fault, Valid

LEMMA ReloadTypes ==
    ASSUME TypeOK, NEW owed \in BOOLEAN, Reload(owed)
    PROVE  /\ faults' \in Nat /\ lagging' \in BOOLEAN /\ live' \in Conf
           /\ running => live' \in Settings
<1>1. Accepted \subseteq Settings
  BY Settings_Assumption
<1>2. faults' \in Nat
  BY DEF TypeOK, Reload, Fault
<1>3. CASE file \in Accepted /\ live' = file /\ lagging' = FALSE
  BY <1>1, <1>2, <1>3 DEF Conf
<1>4. CASE NoLoad(owed)
  BY <1>2, <1>4 DEF TypeOK, NoLoad
<1>5. QED
  BY <1>3, <1>4 DEF Reload

\* What a lost handler leaves is a set of results and of rows.
LEMMA LostTypes ==
    ASSUME TypeOK, NEW C \in SUBSET Calls, Lost(C)
    PROVE  lagging' \in BOOLEAN /\ done' \subseteq Result
  BY DEF TypeOK, Lost

\* The part of TypeOK that Table does not state.
Types ==
    /\ file \in Conf /\ live \in Conf
    /\ running => live \in Settings
    /\ running \in BOOLEAN /\ observed \in BOOLEAN
    /\ probes \in Seq(Result)
    /\ faults \in Nat /\ restarts \in Nat
    /\ lagging \in BOOLEAN /\ raced \in BOOLEAN
    /\ done \subseteq Result

LEMMA TypesAreAll == Table /\ Types <=> TypeOK /\ Table
  BY DEF Table, Types, TypeOK

LEMMA TypesInit == Init => Types
<1> SUFFICES ASSUME Init PROVE Types
  OBVIOUS
<1>1. probes \in Seq(Result) /\ done \subseteq Result
  BY DEF Init
<1>2. QED
  BY <1>1 DEF Init, Types, Conf

LEMMA TypesStep ==
    ASSUME Table, Types, [Next]_vars
    PROVE  Types'
<1>0. TypeOK
  BY TypesAreAll
<1>1. CASE \E c \in Calls, reload \in BOOLEAN : Apply(c, reload)
  <2> PICK c \in Calls, reload \in BOOLEAN : Apply(c, reload)
    BY <1>1
  <2> PICK ok \in BOOLEAN : Valid(env, ok) /\ lagging' = (lagging \/ ~ok)
    BY DEF Apply
  <2>1. faults' \in Nat
    BY FaultCount DEF Types
  <2>2. QED
    BY <2>1 DEF Apply, Types, Table, Conf
<1>2. CASE \E c \in Calls : Deactivate(c)
  BY <1>2 DEF Deactivate, Types
<1>3. CASE \E c \in Calls : Insert(c)
  BY <1>3 DEF Insert, Types
<1>4. CASE \E c \in Calls : Withdraw(c)
  BY <1>4 DEF Withdraw, Types
<1>5. CASE \E c \in Calls : TakeEffect(c)
  <2> PICK c \in Calls : TakeEffect(c)
    BY <1>5
  <2>1. CASE Reload(TRUE)
    BY <1>0, <2>1, ReloadTypes DEF TakeEffect, Types
  <2>2. CASE NoLoad(TRUE) /\ UNCHANGED faults
    BY <2>2 DEF TakeEffect, Types, NoLoad
  <2>3. QED
    BY <2>1, <2>2 DEF TakeEffect
<1>6. CASE Start
  <2> PICK ok \in BOOLEAN :
        /\ Valid(env, ok) /\ running' = ok
        /\ IF ok THEN live' = env /\ lagging' = FALSE ELSE NoLoad(TRUE)
    BY <1>6 DEF Start
  <2>1. faults' \in Nat
    BY FaultCount DEF Types
  <2>2. QED
    BY <1>6, <2>1 DEF Start, Types, Table, NoLoad, Conf
<1>7. CASE ServiceReload
  BY <1>0, <1>7, ReloadTypes DEF ServiceReload, Types
<1>8. CASE Stop \/ NginxDies \/ Observe
  <2>1. faults' \in Nat
    BY <1>8 DEF Stop, NginxDies, Observe, Fault, Types
  <2>2. /\ UNCHANGED <<file, live, probes, restarts, lagging, raced, done>>
        /\ running' \in BOOLEAN /\ (running' => running) /\ observed' \in BOOLEAN
    BY <1>8 DEF Stop, NginxDies, Observe, Types
  <2>3. QED
    BY <2>1, <2>2 DEF Types
<1>9. CASE \E c \in Calls, suite \in Suites : Probe(c, suite)
  <2> PICK c \in Calls, suite \in Suites : Probe(c, suite)
    BY <1>9
  <2> PICK flipped \in SUBSET DOMAIN suite :
        /\ IF flipped # {} THEN Fault ELSE UNCHANGED faults
        /\ done' = done \cup ToSet(Handshakes(suite, flipped))
    BY DEF Probe
  <2>1. Handshakes(suite, flipped) \in Seq(Result)
    BY HandshakeResults
  <2>2. ToSet(Handshakes(suite, flipped)) \subseteq Result
    BY <2>1 DEF ToSet
  <2>3. faults' \in Nat
    BY FaultCount DEF Types
  <2>4. QED
    BY <2>2, <2>3 DEF Probe, Types
<1>10. CASE \E c \in Calls : Store(c)
  <2> PICK c \in Calls : Store(c)
    BY <1>10
  <2>1. call[c].results \in Seq(Result) /\ call[c].results # <<>>
    BY DEF Table, Call, Store
  <2>2. Head(call[c].results) \in Result
    BY <2>1
  <2>3. QED
    BY <2>2 DEF Store, Types
<1>11. CASE \E c \in Calls : CutShort(c)
  <2> PICK c \in Calls : CutShort(c)
    BY <1>11
  <2>1. lagging' \in BOOLEAN /\ done' \subseteq Result
    BY <1>0, LostTypes DEF CutShort
  <2>2. QED
    BY <2>1 DEF CutShort, Types, Fault
<1>12. CASE \E s \in Settings : Restart(s)
  <2>1. lagging' \in BOOLEAN /\ done' \subseteq Result
    BY <1>0, <1>12, LostTypes DEF Restart
  <2>2. QED
    BY <1>12, <2>1 DEF Restart, Types
<1>13. CASE UNCHANGED vars
  BY <1>13 DEF vars, Types
<1>14. QED
  BY <1>1, <1>2, <1>3, <1>4, <1>5, <1>6, <1>7, <1>8, <1>9, <1>10, <1>11, <1>12, <1>13 DEF Next

\* Types hold for any handlers, environments and bounds: a running NGINX was
\* loaded with the file of some environment, and no handler holds a row that the
\* table has not (policy.py:184-294, service.py:150-245).
THEOREM TypeCorrect == Spec => []TypeOK
<1>1. Init => RowInv /\ Types
  BY RowInvInit, TypesInit
<1>2. RowInv /\ Types /\ [Next]_vars => (RowInv /\ Types)'
  BY RowStep, TypesStep DEF RowInv
<1>3. RowInv /\ Types => TypeOK
  BY TypesAreAll DEF RowInv
<1>4. QED
  BY <1>1, <1>2, <1>3, PTL DEF Spec

-----------------------------------------------------------------------------
(* The file in force.                                                      *)

\* Between an accepted file and its load the difference is owed by the handler
\* that wrote the file, or is on record.
Owed ==
    running /\ ~lagging /\ live # file =>
        \E c \in Calls : call[c].pc \in {"deactivate", "insert", "reload"} /\ call[c].ok

\* A handler that owes a load still does after the step.
Debts ==
    \A c \in Calls : call[c].pc \in {"deactivate", "insert", "reload"} /\ call[c].ok =>
        call'[c].pc \in {"deactivate", "insert", "reload"} /\ call'[c].ok

LEMMA DebtsKept ==
    ASSUME Owed, Debts, UNCHANGED <<file, live, lagging>>, running' => running
    PROVE  Owed'
  BY DEF Owed, Debts

LEMMA ReloadPays ==
    ASSUME Owed, NEW owed \in BOOLEAN, Reload(owed), UNCHANGED <<running, file>>,
           owed \/ Debts
    PROVE  Owed'
<1>1. CASE live' = file /\ lagging' = FALSE
  BY <1>1 DEF Owed
<1>2. CASE NoLoad(owed)
  BY <1>2 DEF Owed, Debts, NoLoad
<1>3. QED
  BY <1>1, <1>2 DEF Reload

LEMMA LostIsOnRecord ==
    ASSUME Owed, NEW C \in SUBSET Calls, Lost(C), UNCHANGED <<file, live, running>>
    PROVE  Owed'
<1> SUFFICES ASSUME running, ~lagging', live # file
             PROVE  \E c \in Calls : call'[c].pc \in {"deactivate", "insert", "reload"} /\ call'[c].ok
  BY DEF Owed
<1>1. ~lagging /\ \A c \in C : call[c].pc \notin {"deactivate", "insert", "reload"}
  BY DEF Lost
<1>2. PICK c \in Calls : call[c].pc \in {"deactivate", "insert", "reload"} /\ call[c].ok
  BY <1>1 DEF Owed
<1>3. call'[c] = call[c]
  BY <1>1, <1>2 DEF Lost
<1>4. QED
  BY <1>2, <1>3

LEMMA OwedStep ==
    ASSUME Table, Owed, [Next]_vars
    PROVE  Owed'
<1>0. call \in [Calls -> Call]
  BY DEF Table
<1>1. CASE \E c \in Calls, reload \in BOOLEAN : Apply(c, reload)
  <2> PICK c \in Calls, reload \in BOOLEAN : Apply(c, reload)
    BY <1>1
  <2> PICK ok \in BOOLEAN :
        /\ call' = [call EXCEPT ![c] = [IdleCall EXCEPT !.pc = "deactivate", !.ok = ok,
                                                        !.reload = reload]]
        /\ lagging' = (lagging \/ ~ok)
    BY DEF Apply
  <2>1. call'[c].pc = "deactivate" /\ call'[c].ok = ok
    BY <1>0 DEF IdleCall
  <2>2. QED
    BY <2>1 DEF Owed
<1>2. CASE \E c \in Calls : Deactivate(c)
  <2>1. Debts
    BY <1>0, <1>2 DEF Deactivate, Debts, Call
  <2>2. QED
    BY <1>2, <2>1, DebtsKept DEF Deactivate
<1>3. CASE \E c \in Calls : Insert(c)
  <2> PICK c \in Calls : Insert(c)
    BY <1>3
  <2>1. /\ call[c].ok => call'[c].pc = "reload" /\ call'[c].ok
        /\ \A d \in Calls \ {c} : call'[d] = call[d]
    BY <1>0 DEF Insert, Call
  <2>2. Debts
    BY <2>1 DEF Debts
  <2>3. QED
    BY <2>2, DebtsKept DEF Insert
<1>4. CASE \E c \in Calls : Withdraw(c)
  <2>1. Debts
    BY <1>0, <1>4 DEF Withdraw, Debts
  <2>2. QED
    BY <1>4, <2>1, DebtsKept DEF Withdraw
<1>5. CASE \E c \in Calls : TakeEffect(c)
  <2> PICK c \in Calls : TakeEffect(c)
    BY <1>5
  <2>1. UNCHANGED <<running, file>>
    BY DEF TakeEffect
  <2>2. CASE Reload(TRUE)
    BY <2>1, <2>2, ReloadPays
  <2>3. CASE NoLoad(TRUE)
    BY <2>3 DEF Owed, NoLoad
  <2>4. QED
    BY <2>2, <2>3 DEF TakeEffect
<1>6. CASE Start
  BY <1>6 DEF Start, Owed
<1>7. CASE ServiceReload
  <2>1. Debts /\ UNCHANGED <<running, file>> /\ Reload(FALSE)
    BY <1>7 DEF ServiceReload, Debts
  <2>2. QED
    BY <2>1, ReloadPays
<1>8. CASE Stop \/ NginxDies \/ Observe \/ UNCHANGED vars
  <2>1. UNCHANGED <<call, file, live, lagging>> /\ (running' => running)
    BY <1>8 DEF Stop, NginxDies, Observe, vars
  <2>2. QED
    BY <2>1, DebtsKept DEF Debts
<1>9. CASE \E c \in Calls, suite \in Suites : Probe(c, suite)
  <2> PICK c \in Calls, suite \in Suites : Probe(c, suite)
    BY <1>9
  <2>1. call[c].pc = "idle" /\ \A d \in Calls \ {c} : call'[d] = call[d]
    BY <1>0 DEF Probe
  <2>2. Debts
    BY <2>1 DEF Debts
  <2>3. QED
    BY <2>2, DebtsKept DEF Probe
<1>10. CASE \E c \in Calls : Store(c)
  <2> PICK c \in Calls : Store(c)
    BY <1>10
  <2>1. call[c].pc = "store" /\ \A d \in Calls \ {c} : call'[d] = call[d]
    BY <1>0 DEF Store
  <2>2. Debts
    BY <2>1 DEF Debts
  <2>3. QED
    BY <2>2, DebtsKept DEF Store
<1>11. CASE \E c \in Calls : CutShort(c)
  <2> PICK c \in Calls : CutShort(c)
    BY <1>11
  <2>1. {c} \in SUBSET Calls /\ Lost({c}) /\ UNCHANGED <<file, live, running>>
    BY DEF CutShort
  <2>2. QED
    BY <2>1, LostIsOnRecord
<1>12. CASE \E s \in Settings : Restart(s)
  <2>1. Lost(Calls) /\ UNCHANGED <<file, live, running>>
    BY <1>12 DEF Restart
  <2>2. QED
    BY <2>1, LostIsOnRecord
<1>13. QED
  BY <1>1, <1>2, <1>3, <1>4, <1>5, <1>6, <1>7, <1>8, <1>9, <1>10, <1>11, <1>12 DEF Next

\* In whatever order applies, starts, reloads and deaths of NGINX come, and
\* wherever one fails: a running NGINX runs the file on disk, unless a handler is
\* under way or the last change is on record as not loaded (service.py:150-245).
THEOREM FileInForceCorrect == Spec => []FileInForce
<1>1. Init => RowInv /\ Owed
  BY RowInvInit DEF Init, Owed
<1>2. RowInv /\ Owed /\ [Next]_vars => (RowInv /\ Owed)'
  BY RowStep, OwedStep DEF RowInv
<1>3. Owed => FileInForce
  BY DEF Owed, FileInForce
<1>4. QED
  BY <1>1, <1>2, <1>3, PTL DEF Spec

-----------------------------------------------------------------------------
(* The evidence.                                                           *)

Unstored(c) == ToSet(call[c].results)

\* Every handshake is in the table or in the hands of one handler, once; its
\* run_at is that of a run that has been.
Accounted ==
    /\ \A r : r \in done <=> r \in ToSet(probes) \/ \E c \in Calls : r \in Unstored(c)
    /\ \A r \in done : r.run_at <= clock
    /\ \A c \in Calls :
          /\ call[c].pc # "store" => call[c].results = <<>>
          /\ Unstored(c) \cap ToSet(probes) = {}
          /\ \A i, j \in DOMAIN call[c].results : call[c].results[i] = call[c].results[j] => i = j
          /\ \A d \in Calls \ {c} : Unstored(c) \cap Unstored(d) = {}

LEMMA SetOfNone == ToSet(<<>>) = {}
  BY DEF ToSet

LEMMA SetOfAppend ==
    ASSUME NEW S, NEW s \in Seq(S), NEW x \in S
    PROVE  ToSet(Append(s, x)) = ToSet(s) \cup {x}
<1> DEFINE t == Append(s, x)
<1>1. /\ Len(s) \in Nat /\ DOMAIN s = 1..Len(s) /\ DOMAIN t = 1..(Len(s) + 1)
      /\ t[Len(s) + 1] = x /\ \A i \in 1..Len(s) : t[i] = s[i]
  OBVIOUS
<1> HIDE DEF t
<1>2. \A y \in ToSet(t) : y \in ToSet(s) \/ y = x
  <2> SUFFICES ASSUME NEW i \in DOMAIN t PROVE t[i] \in ToSet(s) \/ t[i] = x
    BY DEF ToSet
  <2>1. i = Len(s) + 1 \/ i \in DOMAIN s
    BY <1>1
  <2>2. QED
    BY <1>1, <2>1 DEF ToSet
<1>3. \A y \in ToSet(s) : y \in ToSet(t)
  BY <1>1 DEF ToSet
<1>4. x \in ToSet(t)
  BY <1>1 DEF ToSet
<1>5. ToSet(t) = ToSet(s) \cup {x}
  BY <1>2, <1>3, <1>4
<1>6. QED
  BY <1>5 DEF t

\* A sequence without duplicates: its head is not in its tail.
LEMMA HeadAndTail ==
    ASSUME NEW S, NEW s \in Seq(S), s # <<>>,
           \A i, j \in DOMAIN s : s[i] = s[j] => i = j
    PROVE  /\ ToSet(s) = {Head(s)} \cup ToSet(Tail(s))
           /\ Head(s) \in S /\ Head(s) \notin ToSet(Tail(s))
           /\ \A i, j \in DOMAIN Tail(s) : Tail(s)[i] = Tail(s)[j] => i = j
<1>1. /\ Len(s) \in Nat /\ Len(s) >= 1 /\ DOMAIN s = 1..Len(s) /\ Head(s) = s[1]
      /\ Tail(s) \in Seq(S) /\ DOMAIN Tail(s) = 1..(Len(s) - 1)
      /\ \A i \in 1..(Len(s) - 1) : Tail(s)[i] = s[i + 1]
  OBVIOUS
<1>2. \A i \in 1..Len(s) : i = 1 \/ (i - 1 \in 1..(Len(s) - 1) /\ s[i] = Tail(s)[i - 1])
  BY <1>1
<1>3. ToSet(s) = {Head(s)} \cup ToSet(Tail(s))
  <2>1. \A x \in ToSet(s) : x \in {Head(s)} \cup ToSet(Tail(s))
    <3> SUFFICES ASSUME NEW i \in DOMAIN s PROVE s[i] = Head(s) \/ s[i] \in ToSet(Tail(s))
      BY DEF ToSet
    <3>1. CASE i = 1
      BY <1>1, <3>1
    <3>2. CASE i - 1 \in DOMAIN Tail(s) /\ s[i] = Tail(s)[i - 1]
      BY <3>2 DEF ToSet
    <3>3. QED
      BY <1>1, <1>2, <3>1, <3>2
  <2>2. \A x \in {Head(s)} \cup ToSet(Tail(s)) : x \in ToSet(s)
    BY <1>1 DEF ToSet
  <2>3. QED
    BY <2>1, <2>2
<1>4. \A i \in 1..(Len(s) - 1) : i + 1 \in 1..Len(s) /\ i + 1 # 1
  BY <1>1
<1>5. Head(s) \notin ToSet(Tail(s))
  BY <1>1, <1>4 DEF ToSet
<1>6. \A i, j \in 1..(Len(s) - 1) : Tail(s)[i] = Tail(s)[j] => i = j
  BY <1>1, <1>4
<1>7. QED
  BY <1>1, <1>3, <1>5, <1>6

\* A step that handles no results.
LEMMA ResultsStay ==
    ASSUME Accounted, UNCHANGED <<probes, done, clock>>,
           \A c \in Calls : /\ call'[c].results = call[c].results
                            /\ call'[c].pc # "store" => call[c].pc # "store"
    PROVE  Accounted'
<1>1. \A c \in Calls : Unstored(c)' = Unstored(c)
  BY DEF Unstored
<1>2. \A r : (\E c \in Calls : r \in Unstored(c)') <=> (\E c \in Calls : r \in Unstored(c))
  BY <1>1
<1>3. \A r : r \in done' <=> r \in ToSet(probes') \/ \E c \in Calls : r \in Unstored(c)'
  BY <1>2 DEF Accounted
<1>4. \A r \in done' : r.run_at <= clock'
  BY DEF Accounted
<1>5. ASSUME NEW c \in Calls
      PROVE  /\ call'[c].pc # "store" => call'[c].results = <<>>
             /\ Unstored(c)' \cap ToSet(probes') = {}
             /\ \A i, j \in DOMAIN call'[c].results :
                   call'[c].results[i] = call'[c].results[j] => i = j
             /\ \A d \in Calls \ {c} : Unstored(c)' \cap Unstored(d)' = {}
  BY <1>1 DEF Accounted
<1>6. QED
  BY <1>3, <1>4, <1>5 DEF Accounted

\* Handshakes of one request are new, and one of each kind.
LEMMA NewHandshakes ==
    ASSUME Table, NEW suite \in Suites, NEW flipped \in SUBSET DOMAIN suite
    PROVE  /\ \A r \in ToSet(Handshakes(suite, flipped)) : r.run_at = clock + 1
           /\ \A i, j \in DOMAIN Handshakes(suite, flipped) :
                 Handshakes(suite, flipped)[i] = Handshakes(suite, flipped)[j] => i = j
<1>1. /\ DOMAIN Handshakes(suite, flipped) = DOMAIN suite
      /\ \A i \in DOMAIN suite : /\ Handshakes(suite, flipped)[i].probe = suite[i]
                                 /\ Handshakes(suite, flipped)[i].run_at = clock + 1
  BY DEF Handshakes
<1>2. \A i, j \in DOMAIN suite : suite[i] = suite[j] => i = j
  <2>1. CASE suite = <<"negative_x25519">>
    BY <2>1
  <2>2. CASE suite = <<"negative_prime256v1">>
    BY <2>2
  <2>3. CASE suite = <<"negative_x25519", "negative_prime256v1">>
    BY <2>3
  <2>4. QED
    BY <2>1, <2>2, <2>3 DEF Suites
<1>3. QED
  BY <1>1, <1>2 DEF ToSet

LEMMA ProbeAccounted ==
    ASSUME Table, Types, Accounted, NEW c \in Calls, NEW suite \in Suites, Probe(c, suite)
    PROVE  Accounted'
<1>1. PICK flipped \in SUBSET DOMAIN suite :
        /\ call' = [call EXCEPT ![c] = [IdleCall EXCEPT !.pc = "store",
                                                        !.results = Handshakes(suite, flipped)]]
        /\ done' = done \cup ToSet(Handshakes(suite, flipped))
  BY DEF Probe
<1> DEFINE new == Handshakes(suite, flipped)
<1>2. /\ call[c].pc = "idle" /\ clock \in Nat /\ clock' = clock + 1 /\ probes' = probes
      /\ call \in [Calls -> Call]
  BY DEF Probe, Table
<1>3. /\ \A r \in ToSet(new) : r.run_at = clock + 1
      /\ \A i, j \in DOMAIN new : new[i] = new[j] => i = j
  BY NewHandshakes
<1>4. \A r \in done : r \notin ToSet(new)
  BY <1>2, <1>3 DEF Accounted
<1>5. done' = done \cup ToSet(new)
  BY <1>1
<1>6. /\ call'[c].pc = "store" /\ call'[c].results = new
      /\ \A d \in Calls \ {c} : call'[d] = call[d]
  BY <1>1, <1>2 DEF IdleCall
<1> HIDE DEF new
<1>7. Unstored(c) = {}
  BY <1>2, SetOfNone DEF Accounted, Unstored
<1>8. Unstored(c)' = ToSet(new) /\ \A d \in Calls \ {c} : Unstored(d)' = Unstored(d)
  BY <1>6 DEF Unstored
<1>9. \A d \in Calls : Unstored(d) \subseteq done
  BY DEF Accounted
<1>10. ToSet(probes) \subseteq done
  BY DEF Accounted
<1>11. ASSUME NEW r
       PROVE  r \in done' <=> r \in ToSet(probes') \/ \E d \in Calls : r \in Unstored(d)'
  <2>1. r \in done <=> r \in ToSet(probes) \/ \E d \in Calls : r \in Unstored(d)
    BY DEF Accounted
  <2>2. (\E d \in Calls : r \in Unstored(d)')
          <=> r \in ToSet(new) \/ \E d \in Calls : r \in Unstored(d)
    BY <1>7, <1>8
  <2>3. QED
    BY <1>2, <1>5, <2>1, <2>2
<1>12. \A r \in done' : r.run_at <= clock'
  <2>1. \A r \in done : r.run_at <= clock + 1
    <3> SUFFICES ASSUME NEW r \in done PROVE r.run_at <= clock + 1
      OBVIOUS
    <3>1. r.run_at <= clock
      BY DEF Accounted
    <3>2. r.run_at \in Nat
      BY DEF Types, Result
    <3>3. QED
      BY <1>2, <3>1, <3>2
  <2>2. QED
    BY <1>2, <1>3, <1>5, <2>1
<1>13. ASSUME NEW d \in Calls
      PROVE  /\ call'[d].pc # "store" => call'[d].results = <<>>
             /\ Unstored(d)' \cap ToSet(probes') = {}
             /\ \A i, j \in DOMAIN call'[d].results :
                   call'[d].results[i] = call'[d].results[j] => i = j
             /\ \A e \in Calls \ {d} : Unstored(d)' \cap Unstored(e)' = {}
  <2>1. CASE d = c
    BY <1>2, <1>3, <1>4, <1>6, <1>8, <1>9, <1>10, <2>1
  <2>2. CASE d # c
    <3>1. /\ call[d].pc # "store" => call[d].results = <<>>
          /\ Unstored(d) \cap ToSet(probes) = {}
          /\ \A i, j \in DOMAIN call[d].results : call[d].results[i] = call[d].results[j] => i = j
          /\ \A e \in Calls \ {d} : Unstored(d) \cap Unstored(e) = {}
      BY DEF Accounted
    <3>2. call'[d] = call[d] /\ Unstored(d)' = Unstored(d)
      BY <1>6, <1>8, <2>2
    <3>3. Unstored(d) \cap ToSet(new) = {}
      BY <1>4, <1>9
    <3>4. QED
      BY <1>2, <1>8, <3>1, <3>2, <3>3
  <2>3. QED
    BY <2>1, <2>2
<1>14. QED
  BY <1>11, <1>12, <1>13 DEF Accounted

LEMMA StoreAccounted ==
    ASSUME Table, Types, Accounted, NEW c \in Calls, Store(c)
    PROVE  Accounted'
<1> DEFINE s == call[c].results
           left == Tail(s)
<1>1. /\ call \in [Calls -> Call] /\ call[c].pc = "store" /\ s \in Seq(Result) /\ s # <<>>
      /\ \A i, j \in DOMAIN s : s[i] = s[j] => i = j
      /\ Unstored(c) = ToSet(s)
  BY DEF Table, Call, Store, Accounted, Unstored
<1>2. /\ probes' = Append(probes, Head(s)) /\ UNCHANGED <<done, clock>>
      /\ call' = [call EXCEPT ![c] = IF left = <<>> THEN IdleCall
                                      ELSE [call[c] EXCEPT !.results = left]]
  BY DEF Store
<1> HIDE DEF s, left
<1>3. /\ ToSet(s) = {Head(s)} \cup ToSet(left)
      /\ Head(s) \in Result /\ Head(s) \notin ToSet(left)
      /\ \A i, j \in DOMAIN left : left[i] = left[j] => i = j
  BY <1>1, HeadAndTail DEF left
<1>4. ToSet(probes') = ToSet(probes) \cup {Head(s)}
  BY <1>2, <1>3, SetOfAppend DEF Types
<1>5. /\ call'[c].results = left
      /\ call'[c].pc # "store" => left = <<>>
      /\ \A d \in Calls \ {c} : call'[d] = call[d]
  BY <1>1, <1>2 DEF IdleCall, Call
<1>6. Unstored(c)' = ToSet(left) /\ \A d \in Calls \ {c} : Unstored(d)' = Unstored(d)
  <2>1. Unstored(c)' = ToSet(call'[c].results)
    BY DEF Unstored
  <2>2. Unstored(c)' = ToSet(left)
    BY <1>5, <2>1
  <2>3. \A d \in Calls \ {c} : Unstored(d)' = Unstored(d)
    BY <1>5 DEF Unstored
  <2>4. QED
    BY <2>2, <2>3
<1>7. ASSUME NEW r
      PROVE  r \in done' <=> r \in ToSet(probes') \/ \E d \in Calls : r \in Unstored(d)'
  <2>1. r \in done <=> r \in ToSet(probes) \/ \E d \in Calls : r \in Unstored(d)
    BY DEF Accounted
  <2>2. QED
    BY <1>1, <1>2, <1>3, <1>4, <1>6, <2>1
<1>8. \A r \in done' : r.run_at <= clock'
  BY <1>2 DEF Accounted
<1>9. ASSUME NEW d \in Calls
      PROVE  /\ call'[d].pc # "store" => call'[d].results = <<>>
             /\ Unstored(d)' \cap ToSet(probes') = {}
             /\ \A i, j \in DOMAIN call'[d].results :
                   call'[d].results[i] = call'[d].results[j] => i = j
             /\ \A e \in Calls \ {d} : Unstored(d)' \cap Unstored(e)' = {}
  <2>1. /\ call[d].pc # "store" => call[d].results = <<>>
        /\ Unstored(d) \cap ToSet(probes) = {}
        /\ \A i, j \in DOMAIN call[d].results : call[d].results[i] = call[d].results[j] => i = j
        /\ \A e \in Calls \ {d} : Unstored(d) \cap Unstored(e) = {}
    BY DEF Accounted
  <2>2. CASE d = c
    <3>1. ToSet(left) \subseteq Unstored(c)
      BY <1>1, <1>3
    <3>2. ToSet(left) \cap ToSet(probes') = {}
      BY <1>3, <1>4, <2>1, <2>2, <3>1
    <3>3. \A e \in Calls \ {c} : ToSet(left) \cap Unstored(e)' = {}
      BY <1>6, <2>1, <2>2, <3>1
    <3>4. QED
      BY <1>3, <1>5, <1>6, <2>2, <3>2, <3>3
  <2>3. CASE d # c
    <3>1. Head(s) \notin Unstored(d)
      BY <1>1, <1>3, <2>1, <2>3
    <3>2. \A e \in Calls : Unstored(e)' \subseteq Unstored(e)
      BY <1>1, <1>3, <1>6
    <3>3. QED
      BY <1>4, <1>5, <1>6, <2>1, <2>3, <3>1, <3>2
  <2>4. QED
    BY <2>2, <2>3
<1>10. QED
  BY <1>7, <1>8, <1>9 DEF Accounted

LEMMA LostAccounted ==
    ASSUME Accounted, NEW C \in SUBSET Calls, Lost(C), UNCHANGED <<probes, clock>>
    PROVE  Accounted'
<1>1. /\ done' = done \ UNION {ToSet(call[c].results) : c \in C}
      /\ \A c \in Calls : call'[c] = IF c \in C THEN IdleCall ELSE call[c]
  BY DEF Lost
<1>2. \A c \in Calls : Unstored(c)' = IF c \in C THEN {} ELSE Unstored(c)
  <2> SUFFICES ASSUME NEW c \in Calls PROVE Unstored(c)' = IF c \in C THEN {} ELSE Unstored(c)
    OBVIOUS
  <2>1. Unstored(c)' = ToSet(call'[c].results)
    BY DEF Unstored
  <2>2. CASE c \in C
    <3>1. call'[c].results = <<>>
      BY <1>1, <2>2 DEF IdleCall
    <3>2. QED
      BY <2>1, <2>2, <3>1, SetOfNone
  <2>3. CASE c \notin C
    BY <1>1, <2>1, <2>3 DEF Unstored
  <2>4. QED
    BY <2>2, <2>3
<1>3. \A r : r \in done' <=> r \in done /\ \A c \in C : r \notin Unstored(c)
  BY <1>1 DEF Unstored
<1>4. ASSUME NEW r
      PROVE  r \in done' <=> r \in ToSet(probes') \/ \E d \in Calls : r \in Unstored(d)'
  <2>1. r \in done <=> r \in ToSet(probes) \/ \E d \in Calls : r \in Unstored(d)
    BY DEF Accounted
  <2>2. r \in ToSet(probes) => \A c \in C : r \notin Unstored(c)
    BY DEF Accounted
  <2>3. \A d \in Calls \ C : r \in Unstored(d) => \A c \in C : r \notin Unstored(c)
    BY DEF Accounted
  <2>4. QED
    BY <1>2, <1>3, <2>1, <2>2, <2>3
<1>5. \A r \in done' : r.run_at <= clock'
  BY <1>3 DEF Accounted
<1>6. ASSUME NEW d \in Calls
      PROVE  /\ call'[d].pc # "store" => call'[d].results = <<>>
             /\ Unstored(d)' \cap ToSet(probes') = {}
             /\ \A i, j \in DOMAIN call'[d].results :
                   call'[d].results[i] = call'[d].results[j] => i = j
             /\ \A e \in Calls \ {d} : Unstored(d)' \cap Unstored(e)' = {}
  BY <1>1, <1>2 DEF Accounted, IdleCall
<1>7. QED
  BY <1>4, <1>5, <1>6 DEF Accounted

LEMMA AccountedStep ==
    ASSUME Table, Types, Accounted, [Next]_vars
    PROVE  Accounted'
<1>0. call \in [Calls -> Call] /\ \A c \in Calls : call[c].pc # "store" => call[c].results = <<>>
  BY DEF Table, Accounted
<1>1. CASE \E c \in Calls, reload \in BOOLEAN : Apply(c, reload)
  <2>1. \A c \in Calls : /\ call'[c].results = call[c].results
                         /\ call'[c].pc # "store" => call[c].pc # "store"
    BY <1>0, <1>1 DEF Apply, IdleCall
  <2>2. QED
    BY <1>1, <2>1, ResultsStay DEF Apply
<1>2. CASE \E c \in Calls : Deactivate(c)
  <2>1. \A c \in Calls : /\ call'[c].results = call[c].results
                         /\ call'[c].pc # "store" => call[c].pc # "store"
    BY <1>0, <1>2 DEF Deactivate, Call
  <2>2. QED
    BY <1>2, <2>1, ResultsStay DEF Deactivate
<1>3. CASE \E c \in Calls : Insert(c)
  <2>1. \A c \in Calls : /\ call'[c].results = call[c].results
                         /\ call'[c].pc # "store" => call[c].pc # "store"
    BY <1>0, <1>3 DEF Insert, Call
  <2>2. QED
    BY <1>3, <2>1, ResultsStay DEF Insert
<1>4. CASE \E c \in Calls : Withdraw(c) \/ TakeEffect(c)
  <2> PICK c \in Calls : call[c].pc # "store" /\ call' = [call EXCEPT ![c] = IdleCall]
    BY <1>4 DEF Withdraw, TakeEffect
  <2>0. call'[c] = IdleCall /\ \A d \in Calls \ {c} : call'[d] = call[d]
    BY <1>0
  <2>1. \A d \in Calls : /\ call'[d].results = call[d].results
                         /\ call'[d].pc # "store" => call[d].pc # "store"
    BY <1>0, <2>0 DEF IdleCall
  <2>2. QED
    BY <1>4, <2>1, ResultsStay DEF Withdraw, TakeEffect
<1>5. CASE Start \/ ServiceReload \/ Stop \/ NginxDies \/ Observe \/ UNCHANGED vars
  <2>1. UNCHANGED <<call, probes, done, clock>>
    BY <1>5 DEF Start, ServiceReload, Stop, NginxDies, Observe, vars
  <2>2. QED
    BY <2>1, ResultsStay
<1>6. CASE \E c \in Calls, suite \in Suites : Probe(c, suite)
  BY <1>6, ProbeAccounted
<1>7. CASE \E c \in Calls : Store(c)
  BY <1>7, StoreAccounted
<1>8. CASE \E c \in Calls : CutShort(c)
  <2> PICK c \in Calls : CutShort(c)
    BY <1>8
  <2>1. {c} \in SUBSET Calls /\ Lost({c}) /\ UNCHANGED <<probes, clock>>
    BY DEF CutShort
  <2>2. QED
    BY <2>1, LostAccounted
<1>9. CASE \E s \in Settings : Restart(s)
  <2>1. Lost(Calls) /\ UNCHANGED <<probes, clock>>
    BY <1>9 DEF Restart
  <2>2. QED
    BY <2>1, LostAccounted
<1>10. QED
  BY <1>1, <1>2, <1>3, <1>4, <1>5, <1>6, <1>7, <1>8, <1>9 DEF Next

\* However probe requests overlap, and wherever one is cut short, once the
\* handshakes of a kind are all stored or lost the status is decided by the newest
\* of them (router.py:106-119).
THEOREM NewestEvidenceCorrect == Spec => []NewestEvidence
<1> DEFINE Inv == RowInv /\ Types /\ Accounted
<1>1. Init => Inv
  <2> SUFFICES ASSUME Init PROVE Accounted
    BY RowInvInit, TypesInit
  <2>1. ToSet(probes) = {} /\ \A c \in Calls : Unstored(c) = {} /\ call[c].results = <<>>
    BY SetOfNone DEF Init, IdleCall, Unstored
  <2>2. done = {} /\ \A c \in Calls : DOMAIN call[c].results = {}
    BY <2>1 DEF Init
  <2>3. QED
    BY <2>1, <2>2 DEF Accounted
<1>2. Inv /\ [Next]_vars => Inv'
  BY RowStep, TypesStep, AccountedStep DEF RowInv
<1>3. Inv => NewestEvidence
  <2> SUFFICES ASSUME Accounted, NEW probe \in EnforcementProbes,
                      {c \in Calls : \E r \in ToSet(call[c].results) : r.probe = probe} = {}
               PROVE  {r \in done : r.probe = probe} = Rows(probe)
    BY DEF NewestEvidence, Passed
  <2>1. \A c \in Calls : \A r \in Unstored(c) : r.probe # probe
    BY DEF Unstored
  <2>2. \A r : r \in done <=> r \in ToSet(probes) \/ \E c \in Calls : r \in Unstored(c)
    BY DEF Accounted
  <2>3. QED
    BY <2>1, <2>2 DEF Rows
<1>4. QED
  BY <1>1, <1>2, <1>3, PTL DEF Spec
=============================================================================
