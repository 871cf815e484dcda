----------------------------- MODULE TlsPolicy -----------------------------
(***************************************************************************)
(* The TLS policy of quansec: protocols/tls/policy.py (apply), service.py  *)
(* (the NGINX process and the status derived from it), probe.py and the    *)
(* handlers of router.py that change state.  One event loop runs every     *)
(* handler and subprocesses block it, so what lies between two awaits is   *)
(* one action, and handlers interleave at their SQL statements only.       *)
(* nginx.conf is rendered from the environment of the API process, which   *)
(* changes when the process is restarted.  NGINX itself is external: it    *)
(* loads a file when it is started or reloaded.                            *)
(***************************************************************************)
EXTENDS Naturals, Sequences, SequencesExt

CONSTANTS
    Calls,        \* handlers in flight at once
    Settings,     \* environments the API may be started with
    Tls13Only,    \* those whose ssl_protocols is TLSv1.3
    AdmitX25519, AdmitPrime256v1,  \* those whose groups let such a client in
    Accepted,     \* those whose rendered configuration passes nginx -t
    MaxRows,      \* bound: rows ever inserted into tls_policy_state
    MaxProbes,    \* bound: probe runs
    MaxFaults,    \* bound: failed subprocesses, NGINX deaths, calls cut short
    MaxRestarts   \* bound: restarts of the API process

ASSUME Settings_Assumption ==
    /\ {Tls13Only, AdmitX25519, AdmitPrime256v1, Accepted} \subseteq SUBSET Settings
    /\ "absent" \notin Settings
ASSUME Bounds_Assumption == {MaxRows, MaxProbes, MaxFaults, MaxRestarts} \subseteq Nat

VARIABLES
    env,         \* the settings of the running API process
    file,        \* nginx.conf
    running,     \* the NGINX process is up
    live,        \* what it was last started or reloaded with
    rows,        \* tls_policy_state, oldest first
    probes,      \* the enforcement probes in tls_probe_results, in INSERT order
    observed,    \* tls_sessions has a hybrid session
    call,        \* what each handler has still to do
    clock,       \* probe runs so far: run_at
    faults, restarts,
    lagging,     \* history: the file was written after the last load, for a reason
    raced,       \* history: two UPDATE-INSERT pairs overlapped; nothing cleaned up since
    abandoned,   \* history: rejected rows whose handler never took them back
    done         \* history: every probe run but those whose result was lost

vars == <<env, file, running, live, rows, probes, observed, call, clock, faults,
          restarts, lagging, raced, abandoned, done>>

Conf == Settings \cup {"absent"}
EnforcementProbes == {"negative_x25519", "negative_prime256v1"}
Admits(probe) == IF probe = "negative_x25519" THEN AdmitX25519 ELSE AdmitPrime256v1
HybridOnly == Settings \ (AdmitX25519 \cup AdmitPrime256v1)

Row == [policy: Settings, validated: BOOLEAN, active: BOOLEAN]
Result == [probe: EnforcementProbes, passed: BOOLEAN, run_at: Nat]
Steps == {"idle", "deactivate", "insert", "withdraw", "reload", "store"}
Call == [pc: Steps, ok: BOOLEAN, reload: BOOLEAN, row: Nat, results: Seq(Result)]
IdleCall == [pc |-> "idle", ok |-> FALSE, reload |-> FALSE, row |-> 0, results |-> <<>>]

TypeOK ==
    /\ env \in Settings /\ file \in Conf /\ live \in Conf
    /\ running => live \in Settings
    /\ running \in BOOLEAN /\ observed \in BOOLEAN
    /\ rows \in Seq(Row) /\ probes \in Seq(Result)
    /\ call \in [Calls -> Call]
    /\ clock \in Nat /\ faults \in Nat /\ restarts \in Nat
    /\ lagging \in BOOLEAN /\ raced \in BOOLEAN
    /\ abandoned \subseteq 1..Len(rows)
    /\ done \subseteq Result

Init ==
    /\ env \in Settings
    /\ file = "absent" /\ running = FALSE /\ live = "absent"
    /\ rows = <<>> /\ probes = <<>> /\ observed = FALSE
    /\ call = [c \in Calls |-> IdleCall]
    /\ clock = 0 /\ faults = 0 /\ restarts = 0
    /\ lagging = FALSE /\ raced = FALSE /\ abandoned = {} /\ done = {}

Fault == faults < MaxFaults /\ faults' = faults + 1

\* nginx -t on a file: its verdict, or a run that fails or exceeds its 30 s.
Valid(conf, ok) ==
    \/ ok = (conf \in Accepted) /\ UNCHANGED faults
    \/ ok = FALSE /\ conf \in Accepted /\ Fault

-----------------------------------------------------------------------------
(* POST /policy/apply.  (Seeded faults are no part of Next.)               *)

\* is_fail_closed on the groups, and the protocols.
FailClosed(s) == s \in HybridOnly \cap Tls13Only

\* A policy that is not fail-closed is refused before anything is written;
\* another is rendered into the live path, and then tested there.
Apply(c, reload) ==
    /\ call[c].pc = "idle"
    /\ FailClosed(env)
    /\ file' = env
    /\ \E ok \in BOOLEAN :
          /\ Valid(env, ok)
          /\ call' = [call EXCEPT ![c] = [IdleCall EXCEPT !.pc = "deactivate", !.ok = ok,
                                                          !.reload = reload]]
          /\ lagging' = (lagging \/ ~ok)
    /\ UNCHANGED <<env, running, live, rows, probes, observed, clock, restarts,
                   raced, abandoned, done>>

Deactivate(c) ==
    /\ call[c].pc = "deactivate"
    /\ rows' = [i \in DOMAIN rows |-> [rows[i] EXCEPT !.active = FALSE]]
    /\ call' = [call EXCEPT ![c].pc = "insert"]
    /\ raced' = \E d \in Calls \ {c} : call[d].pc = "insert"
    /\ UNCHANGED <<env, file, running, live, probes, observed, clock, faults, restarts,
                   lagging, abandoned, done>>

\* The row goes in active, validated or not.
Insert(c) ==
    /\ call[c].pc = "insert"
    /\ Len(rows) < MaxRows
    /\ rows' = Append(rows, [policy |-> env, validated |-> call[c].ok, active |-> TRUE])
    /\ call' = [call EXCEPT ![c].pc = IF call[c].ok THEN "reload" ELSE "withdraw",
                            ![c].row = Len(rows) + 1]
    /\ UNCHANGED <<env, file, running, live, probes, observed, clock, faults, restarts,
                   lagging, raced, abandoned, done>>

\* Seeded fault: the rejected row is left as it is.
WithdrawNothing(c) ==
    /\ call[c].pc = "withdraw"
    /\ call' = [call EXCEPT ![c] = IdleCall]
    /\ UNCHANGED <<env, file, running, live, rows, probes, observed, clock, faults, restarts,
                   lagging, raced, abandoned, done>>

\* A rejected row is taken back; the file stays.
Withdraw(c) ==
    /\ call[c].pc = "withdraw"
    /\ rows' = [rows EXCEPT ![call[c].row].active = FALSE]
    /\ call' = [call EXCEPT ![c] = IdleCall]
    /\ UNCHANGED <<env, file, running, live, probes, observed, clock, faults, restarts,
                   lagging, raced, abandoned, done>>

\* NginxTlsService.reload: the file that is there by now is tested again, then
\* NGINX is signalled.  `owed' says whether a failure leaves a policy behind.
NoLoad(owed) == UNCHANGED live /\ lagging' = (lagging \/ owed)
Reload(owed) ==
    \/ /\ running /\ file \in Accepted
       /\ live' = file /\ lagging' = FALSE /\ UNCHANGED faults
    \/ running /\ file \in Accepted /\ Fault /\ NoLoad(owed)
    \/ ~(running /\ file \in Accepted) /\ NoLoad(owed) /\ UNCHANGED faults

\* Seeded fault: the test for a running NGINX is inverted.
TakeEffectIfStopped(c) ==
    /\ call[c].pc = "reload"
    /\ IF call[c].reload /\ ~running THEN Reload(TRUE)
       ELSE UNCHANGED <<live, faults, lagging>>
    /\ call' = [call EXCEPT ![c] = IdleCall]
    /\ UNCHANGED <<env, file, running, rows, probes, observed, clock, restarts,
                   raced, abandoned, done>>

\* The accepted policy takes effect now, or at the next start, or (the caller
\* asked for no reload) some day.
TakeEffect(c) ==
    /\ call[c].pc = "reload"
    /\ IF call[c].reload /\ running THEN Reload(TRUE) ELSE NoLoad(TRUE) /\ UNCHANGED faults
    /\ call' = [call EXCEPT ![c] = IdleCall]
    /\ UNCHANGED <<env, file, running, rows, probes, observed, clock, restarts,
                   raced, abandoned, done>>

-----------------------------------------------------------------------------
(* POST /service/{start, stop, reload} and NGINX.                          *)

\* Seeded fault: the file is started as it is, untested.
StartUnrendered ==
    /\ ~running
    /\ running' = TRUE /\ live' = file /\ lagging' = FALSE
    /\ UNCHANGED <<env, file, rows, probes, observed, call, clock, faults, restarts,
                   raced, abandoned, done>>

\* start renders and tests the environment's policy, fail-closed or not.
Start ==
    /\ ~running
    /\ file' = env
    /\ \E ok \in BOOLEAN :
          /\ Valid(env, ok)
          /\ running' = ok
          /\ IF ok THEN live' = env /\ lagging' = FALSE ELSE NoLoad(TRUE)
    /\ UNCHANGED <<env, rows, probes, observed, call, clock, restarts, raced, abandoned, done>>

Stop ==
    /\ running
    /\ running' = FALSE
    /\ UNCHANGED <<env, file, live, rows, probes, observed, call, clock, faults, restarts,
                   lagging, raced, abandoned, done>>

ServiceReload ==
    /\ Reload(FALSE)
    /\ UNCHANGED <<env, file, running, rows, probes, observed, call, clock, restarts,
                   raced, abandoned, done>>

NginxDies ==
    /\ running /\ Fault
    /\ running' = FALSE
    /\ UNCHANGED <<env, file, live, rows, probes, observed, call, clock, restarts,
                   lagging, raced, abandoned, done>>

\* A hybrid client connects, and the log collector stores its session.
Observe ==
    /\ running /\ ~observed
    /\ observed' = TRUE
    /\ UNCHANGED <<env, file, running, live, rows, probes, call, clock, faults, restarts,
                   lagging, raced, abandoned, done>>

-----------------------------------------------------------------------------
(* POST /probe.                                                            *)

\* A negative probe passes when its client does not connect: refused, timed
\* out, or met by nobody.  A client that cannot be executed fails it.
Passes(probe) == ~running \/ live \notin Admits(probe)

\* One handshake for each probe asked for, in the order of PROBE_SPECS; those in
\* `flipped' do not tell the truth.
Handshakes(suite, flipped) ==
    [i \in DOMAIN suite |->
        [probe |-> suite[i], passed |-> (Passes(suite[i]) # (i \in flipped)), run_at |-> clock + 1]]

Probe(c, suite) ==
    /\ call[c].pc = "idle"
    /\ clock < MaxProbes
    /\ clock' = clock + 1
    /\ \E flipped \in SUBSET DOMAIN suite :
          /\ IF flipped # {} THEN Fault ELSE UNCHANGED faults
          /\ call' = [call EXCEPT ![c] = [IdleCall EXCEPT !.pc = "store",
                                                          !.results = Handshakes(suite, flipped)]]
          /\ done' = done \cup ToSet(Handshakes(suite, flipped))
    /\ UNCHANGED <<env, file, running, live, rows, probes, observed, restarts,
                   lagging, raced, abandoned>>

\* One INSERT; run_at is the time of the handshake.
Store(c) ==
    /\ call[c].pc = "store"
    /\ probes' = Append(probes, Head(call[c].results))
    /\ LET left == Tail(call[c].results)
       IN call' = [call EXCEPT ![c] = IF left = <<>> THEN IdleCall
                                      ELSE [call[c] EXCEPT !.results = left]]
    /\ UNCHANGED <<env, file, running, live, rows, observed, clock, faults, restarts,
                   lagging, raced, abandoned, done>>

-----------------------------------------------------------------------------
(* A handler stops half-way, or all do.                                    *)

InFlight(c) == call[c].pc # "idle"
Lost(C) ==
    /\ call' = [c \in Calls |-> IF c \in C THEN IdleCall ELSE call[c]]
    /\ lagging' = (lagging \/ \E c \in C : call[c].pc \in {"deactivate", "insert", "reload"})
    /\ abandoned' = abandoned \cup {call[c].row : c \in {d \in C : call[d].pc = "withdraw"}}
    /\ done' = done \ UNION {ToSet(call[c].results) : c \in C}

\* A statement raises, or the connection to the database is gone.
CutShort(c) ==
    /\ InFlight(c) /\ Fault
    /\ Lost({c})
    /\ UNCHANGED <<env, file, running, live, rows, probes, observed, clock, restarts, raced>>

\* NGINX is a process of its own and outlives the API.
Restart(s) ==
    /\ restarts < MaxRestarts
    /\ restarts' = restarts + 1
    /\ env' = s
    /\ Lost(Calls)
    /\ UNCHANGED <<file, running, live, rows, probes, observed, clock, faults, raced>>

Suites == {<<"negative_x25519">>, <<"negative_prime256v1">>,
           <<"negative_x25519", "negative_prime256v1">>}

Next ==
    \/ \E c \in Calls, reload \in BOOLEAN : Apply(c, reload)
    \/ \E c \in Calls : Deactivate(c)
    \/ \E c \in Calls : Insert(c)
    \/ \E c \in Calls : Withdraw(c)
    \/ \E c \in Calls : TakeEffect(c)
    \/ Start
    \/ Stop
    \/ ServiceReload
    \/ NginxDies
    \/ Observe
    \/ \E c \in Calls, suite \in Suites : Probe(c, suite)
    \/ \E c \in Calls : Store(c)
    \/ \E c \in Calls : CutShort(c)
    \/ \E s \in Settings : Restart(s)

Spec == Init /\ [][Next]_vars

-----------------------------------------------------------------------------
(* GET /status.                                                            *)

Rows(probe) == {r \in ToSet(probes) : r.probe = probe}

\* Seeded fault: the row inserted last, whenever its probe ran.
PassedLastInserted(probe) ==
    LET kept == SelectSeq(probes, LAMBDA r : r.probe = probe)
    IN kept # <<>> /\ Last(kept).passed

\* SELECT DISTINCT ON (probe_type) ... ORDER BY probe_type, run_at DESC.
Passed(probe) ==
    \E r \in Rows(probe) : r.passed /\ \A q \in Rows(probe) : q.run_at <= r.run_at

HybridOnlyEnforced == \A probe \in EnforcementProbes : Passed(probe)
WasEnforced == \A probe \in EnforcementProbes : \E r \in Rows(probe) : r.passed

\* _overall, over the file on disk.
Status ==
    CASE ~running -> "unavailable"
      [] running /\ file \notin HybridOnly -> "classical"
      [] running /\ file \in HybridOnly ->
            CASE HybridOnlyEnforced /\ observed -> "hybrid_enforced"
              [] WasEnforced /\ ~HybridOnlyEnforced -> "degraded"
              [] observed /\ ~WasEnforced -> "hybrid_observed"
              [] OTHER -> "configured_unproven"

-----------------------------------------------------------------------------
(* Properties.                                                             *)

\* "The previous row is deactivated first, so exactly one row is active"
\* (policy.py:188-189), as far as the code keeps it: unless two applies
\* interleaved, the only row that can be active is the newest, and the next
\* apply that is alone repairs the table; a rejected row is active only while
\* its handler is about to take it back, or for good if that handler died.  "A
\* rejected config is recorded with `validated = FALSE` and NOT activated"
\* (policy.py:242-244) is thus not what the code does: README, section 4.
ActiveRow ==
    \A i \in DOMAIN rows : rows[i].active =>
        /\ ~raced => i = Len(rows)
        /\ ~rows[i].validated =>
              i \in abandoned \/ \E c \in Calls : call[c].pc = "withdraw" /\ call[c].row = i

\* Applies, starts, reloads and deaths of NGINX may come in any order: unless
\* an apply is under way, or the last one ended without a load (rejected, not
\* asked for, failed, cut short), a running NGINX runs the file that the status
\* and the drift report are read from.
FileInForce ==
    (running /\ ~lagging /\ \A c \in Calls : call[c].pc \in {"idle", "store"}) => live = file

\* The status rests on the newest handshake of each kind, in whatever order
\* overlapping requests stored theirs (router.py:110-112).
NewestEvidence ==
    \A probe \in EnforcementProbes :
        LET ran == {r \in done : r.probe = probe}
            pending == {c \in Calls : \E r \in ToSet(call[c].results) : r.probe = probe}
        IN (ran # {} /\ pending = {}) =>
              (Passed(probe) <=> \E r \in ran : r.passed /\ \A q \in ran : q.run_at <= r.run_at)

\* "An enforcement claim must rest on the current state of the data plane, not on
\* a probe that passed last week before someone widened the group list"
\* (router.py:110-112): when no request is in progress, what is reported as
\* enforced lets no classical client in.
Quiet == \A c \in Calls : ~InFlight(c)
EnforcedNow == (Quiet /\ Status = "hybrid_enforced") => live \in HybridOnly

\* "Exactly one row is active" (policy.py:188): when no request is in progress,
\* once some policy has been accepted.
OneActiveRow ==
    (Quiet /\ \E i \in DOMAIN rows : rows[i].validated) =>
        \E i \in DOMAIN rows : \A j \in DOMAIN rows : rows[j].active <=> j = i
=============================================================================
