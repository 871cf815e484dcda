# A TLA+ verification of quansec

quansec watches and configures post-quantum IPsec, SSH and TLS end points. This
directory holds a formal model of the parts of it that keep state and change it
concurrently, the TLC runs that check the model on small instances, and proofs,
checked by TLAPS, of the invariants that matter most for instances of any size.
Every definition follows the code under `src/`; `PROJECT.json` ties each one to
its lines.

    tlc -workers 2 -config Monitors.cfg MCMonitors        # one run
    tlapm SshPolicyProofs.tla                             # one proof module

## 1. The system

Processes: one `uvicorn` API process (a single asyncio event loop, so a handler
runs undisturbed between two `await`s), a policy-engine process, an IPsec and an
SSH worker, PostgreSQL, an optional Redis, an NGINX data plane, and on the host a
root agent, behind a Unix socket, that edits the daemons' configuration files.
SQL statements autocommit; the only transaction in the code is the upsert of the IPsec
poll (`protocols/ipsec/collector.py:85`).

| Component (source) | State | Operations | Interacts with |
|---|---|---|---|
| Refresh tokens (`core/tokens.py`, `protocols/auth_router.py`) | `refresh_tokens` rows: family, parent, replaced_by, revoked_reason, expires_at | login, refresh (rotation, replay detection), logout, revoke-all | browser cookie, PostgreSQL |
| Access tokens, API keys, scopes (`core/auth.py`, `core/scopes.py`, `protocols/auth_api_keys.py`) | `users`, `api_keys` rows; signed claims | authenticate, create/list/revoke key, require scope | every handler |
| Rate limiter (`core/ratelimit.py`, `core/redis_client.py`) | Redis counter and lock keys, `auth_throttle` rows, the client singleton | check, reset | login, refresh |
| Browser session (`core/csrf.py`, `auth_router.py`, `quansec-ui/src/lib/api.ts`) | two cookies, what the client of each tab remembers | login, refresh, logout, revoke-all, page load | refresh tokens |
| SSH certificate authority (`protocols/ssh/ca.py`) | `issued_certs` | issue | ssh-keygen |
| Host policy agent (`host_policy_agent.py`) | the daemon's file, what the daemon has loaded | apply_ipsec, apply_ssh, status | swanctl, sshd, systemd |
| SSH policy API (`protocols/ssh/policy.py`, `core/host_control.py`) | `ssh_policy_history` | apply, rollback, history | host agent |
| IPsec policy API (`protocols/ipsec/policy.py`) | audit rows only | apply | host agent |
| TLS policy and data plane (`protocols/tls/policy.py`, `service.py`, `probe.py`, `router.py`) | nginx.conf, the NGINX process, `tls_policy_state`, `tls_probe_results` | apply, start, stop, reload, probe, status | NGINX, openssl s_client |
| TLS collector (`protocols/tls/collector.py`) | log offset, `tls_sessions` | collect once, loop | NGINX access log |
| IPsec monitoring (`protocols/ipsec/collector.py`, `events.py`, `websocket.py`) | `ipsec_tunnels`, `ipsec_events`, a queue | poll, mark down, listen, publish | charon (VICI), Redis |
| SSH monitoring (`protocols/ssh/collector.py`, `ztaudit.py`) | `ssh_connections`, `zt_audit` | poll, read auth log | sshd |
| Alerts (`protocols/alerts/router.py`) | `alerts` rows | evaluate, acknowledge | the monitors' tables |
| Service processes (`services/`, `core/database.py`, `core/migrations.py`) | connection pool, tasks | start, supervise, stop | all |
| Fail mode (`protocols/failmode/router.py`) | one in-memory value | read, set | UI |

### What is hard in it

* **Interleaved statements.** A refresh is SELECT, INSERT, UPDATE without a
  transaction; an apply of a TLS policy is file write, UPDATE, INSERT, UPDATE or
  reload; a poll selects the stale tunnels and marks them later; the CA reads a
  serial and stores it after signing. Anything may run in between.
* **Threads without locks.** The agent is a threading server; every request reads,
  replaces, tests, loads and perhaps restores one and the same file.
* **Partial failure.** `sshd -t`, a reload or a restore may fail or time out, each
  leaving file, daemon and database in a different combination.
* **Late effects.** The API waits 20 s for the agent; the agent may take 20 s for each
  of up to four subprocesses and goes on after its caller has given up.
* **Crashes and lost answers.** systemd restarts the agent, compose the API; a rotated
  token may be committed and never delivered. A collector dies between its rows and its
  offset, a worker with events on its queue, Redis between INCR and EXPIRE.
* **Logs read while they are written.** Half-written lines, rotation, lines of several
  connections interleaved, one attempt spread over two lines.
* **Loops that must go on.** Pollers, listeners and evaluators restart after any failure, and
  what they watch has to show up in the end; a thread that cannot be cancelled, or
  requests that wait for one another's connection, stop that.
* **Stale evidence.** The TLS status combines a file on disk, probes of different ages
  and old sessions into a claim about a running process.

### What makes each component correct

* Tokens: the rows of a family form one consistent tree; a session has one current
  token; a replay kills what was live; a session that is over stays over.
* Agent: the daemon runs what the file says; an apply changes one line or nothing.
* SSH policy: the history, which the rollback trusts, names the policy in force.
* TLS policy: one active row, the newest and accepted; what the status is read from
  is what runs; the evidence is the newest there is.
* Rate limiter: no more than the limit of attempts per window, whatever the backend does;
  a caller who waits as told is let in.
* Authority: a request acts within its credential and within what its account may do
  today, and never beyond the token that its credential descends from.
* Browser: several tabs and lost answers never look like a stolen token; a logout ends
  the session.
* CA: a certificate that is out can be revoked by its serial.
* Collectors: a log line, session or attempt is stored once and under its own key and
  evidence; a tunnel that is gone is reported down once, and shown so in the end.
* Alerts: a condition that stands is raised.
* Connections: whoever waits for one gets it in the end.

## 2. Modules

| Module | Models | Runs | Proofs |
|---|---|---|---|
| `RefreshTokens` | the token store and its four handlers | `refresh_tokens`, `refresh_fork` | `RefreshTokensProofs` |
| `BrowserSession` | cookies, CSRF check and the client in each tab | `refresh_tokens` | `BrowserSessionProofs` |
| `HostAgent` | the agent, its file and one daemon | `host_agent`, `host_agent_overlap` | `SshPolicyProofs`, part 1 |
| `SshPolicy` | API handlers and history, composed with `HostAgent` (EXTENDS; an API action is joined with the agent action it triggers) | `ssh_policy`, `ssh_rollback` | `SshPolicyProofs`, part 2 |
| `TlsPolicy` | apply, NGINX, probes, status | `tls_policy`, `tls_enforced`, `tls_active_row` | `TlsPolicyProofs` |
| `Access` | accounts, tokens, API keys, scopes, migration | `auth`, `key_migration` | `AccessProofs` |
| `RateLimit` | check and reset over Redis and PostgreSQL | `auth` | `AuthProofs` |
| `SshCa` | serials of certificates | `auth` | `AuthProofs` |
| `ConnectionPool` | the API's database connections | `auth` | `AuthProofs` |
| `TlsCollector`, `LogCopy` | the collectors of the NGINX log; `LogCopy` is the abstract specification they implement | `monitors` | `TlsCollectorProofs` |
| `IpsecWorker`, `IpsecPoller`, `IpsecEvents`, composed in `IpsecMonitor` | the worker and its watchdog; polls; events | `monitors` | `MonitorsProofs` |
| `SshMonitor` | SSH sessions and the journal | `monitors` | `MonitorsProofs` |
| `ZtAudit` | zero-trust audit of the sshd log | `monitors` | `MonitorsProofs` |
| `Alerts` | the policy engine's evaluation | `monitors` | `MonitorsProofs` |

An `MC` module per run instantiates them. `MCSessions`, `MCAuth`, `Monitors` and
`MCMonitors` (`Monitors` and `TlsCollector`) compose components that share no state: a behaviour
picks a `focus` at the start and is one of that component, while the others rest. Nothing is lost by that, because none of
the properties relates two of them and a step of one neither enables nor changes a step of
another; `OwnBehaviour` and `OwnTables` (section 3) prove the latter of `MCAuth` and `Monitors`.
Where components do interact they are joined action by action: `SshPolicy` with
`HostAgent`, and the daemon, worker, poller and listener in `IpsecMonitor`.

Each module contains some operators marked *seeded fault*. They are not part of any
next-state relation. Each is a version of an action with one plausible bug, kept to
show that the property it is listed with in `PROJECT.json` would notice it.

### RefreshTokens

One action per SQL statement. `token` is the table; a token is its id. `revoked_at`
and `revoked_reason`, always written together, are one field. `req[r]` is a handler's
local state: the token it has read, the successor it inserted, the outcome it will
answer. `Refresh` is the SELECT with the branches that follow (reuse, then revoked,
then expired); `RevokeFamily`, `InsertSuccessor` and `CloseOld` are the statements;
`Respond` hands the raw token out, which is when it may be presented, by anybody, any
number of times. `Abort` is an exception, a crash or a lost response. `condemned` and
`raced` are history variables. Left out: the browser
(`BrowserSession`), rate limits (`RateLimit`), audit rows, `purge_expired` (never called),
deletion of users.

*Checks.* `ChainIntegrity` (parents are older and of the same family and user; a row is
`rotated` exactly when it names a child of its own as successor), `OneCurrentUnlessRaced`
(only two overlapping rotations, or one that stopped between INSERT and UPDATE, fork a
session), `ReplayKillsFamily`, and the action property `OverIsFinal`. `refresh_fork`
checks `SingleUse`, what the migration and the endpoint's docstring say; two requests
that read the same live token violate it: both get a successor, and the session goes on
in two live branches without a reuse being seen.

*Bounds.* 2 users, 2 requests, 3 rows, a lifetime of one tick and one tick of clock,
one abort. Three rows are a login and two rotations, or two logins and one; two
requests suffice for every pairwise race; the clock passes the expiry of the first
rows. The proofs do without any bound.

### HostAgent

`file` and `loaded` are a policy line and one bit for the rest of the file. Every file
access is an action: the read the new text is computed from, the second read in
`_atomic_replace` that a failure restores, `os.replace`, and the two halves of
`write_bytes` (open truncates, write fills what was opened: if another thread has replaced
the file meanwhile, `unlinked`, the bytes go nowhere). Every subprocess is an action that
succeeds or, within `MaxFailures`, fails; a failed load may have had no effect, may have
taken effect late, and for sshd (`reload-or-restart`) may leave no daemon at all.
`Crash` is the death of the agent; systemd restarts it with `Restart=on-failure`.

*Checks.* `DaemonFollowsFile`: with no thread still owing a load and no lost repair, the
daemon runs the file. `AllOrNothing`: an answer `ok` or an error means just that, for a
request nothing overlapped, whatever failed in it. `host_agent_overlap` checks
`ConfigPreserved` (docs/CONTAINERS.md) for overlapping requests: one of two SSH applies
reads the file the other has just truncated for its restore, and installs a
configuration of one line.

*Bounds.* 2 threads, 2 policies, 3 failures, 2 crashes, for sshd, whose two extra tests of
the file make it the longer variant: three failures are a refused apply, its failed repair
and one more in the other thread. The IPsec variant (fewer steps, and a file without
its proposal lines refused) and any number of threads are covered by the proofs.

### SshPolicy

`call` is the API handler, `history` the last two rows of the table (all the rollback
reads), `Refused` a socket on which nobody listens, `CutShort` the 20 s time-out, a failed INSERT or the death of the API. A call
that is cut short leaves its thread behind in the agent (`Orphan` ends it).
`HistoryFollowsFile` says that one undisturbed apply is enough to bring history and file
together again, whatever happened before. `ssh_rollback` checks the docstring of the
rollback: after a time-out the newest row need not be the policy in force.

*Bounds.* 2 threads, 2 calls, 2 policies, 1 failure, 1 crash, 1 loss.

### TlsPolicy

An action is what a handler does between two awaits. `env` is the environment the API
process was started with, the source of every rendered configuration; `file` is
nginx.conf, `live` what NGINX loaded last. Sets of settings say which are TLS 1.3 only,
which let a classical client in, and which `nginx -t` accepts. A reload is taken to be
complete when `nginx -s reload` returns. A probe's outcome is what `_execute` makes of
it: a negative probe passes whenever its client did not connect. Only the two
enforcement probes are modelled; the others feed fields that are not the overall status.
`Observe` stands for the collector: no service starts `collect_loop`, but the
status reads the table it fills. Each handshake of a probe run may go wrong by itself
(together they count as one fault). `Status` is `_overall`, branch for branch.

*Checks.* `ActiveRow`: without interleaved applies only the newest row can be active, the
next undisturbed apply repairs the table, and a rejected row is active only between its
INSERT and its withdrawal, or for good if its handler stopped in between (`abandoned`). `FileInForce`: a running NGINX runs the file the status is
read from unless an apply was rejected, failed, was lost or was told not to reload.
`NewestEvidence`: overlapping probe requests cannot make the status rest on an older
handshake. `tls_enforced` and `tls_active_row` check two claims of the
docstrings that the code does not keep. A third one, that a rejected configuration is never
activated, `ActiveRow` weakens to what the code does (section 4).

*Bounds.* 2 handlers, 3 settings (one good, one that NGINX refuses, one open to X25519),
2 rows, 2 probe runs, one fault, one restart.

### BrowserSession

What `RefreshTokens` leaves out: who presents which token. `jar` is the browser's refresh
and CSRF cookie (set together, so one number), `csrfToken` what the client in each tab
remembers, `exchange` the requests and answers under way, which overtake one another and
are lost. `Send...` evaluates `verify_csrf` (`core/csrf.py`) with what the page remembers:
the CSRF cookie has the path of the API, so a page's own `document.cookie` never shows it
and a freshly loaded page has no value to send. A handler is one step.

*Checks.* `NoFalseTheft`: however many tabs there are and however their requests cross, a
browser has its own session revoked as stolen only after a refresh that went unanswered.
`LogoutEnds`: an accepted logout leaves no live token, unless a refresh crossed it or
went unanswered.

*Bounds.* 2 tabs, 2 requests under way, 2 tokens. Two tokens are one rotation or two
logins, which is what one tab needs to be overtaken by the other. The proofs do without any bound.

### RateLimit

One bucket. Each Redis command and each SQL statement is an action that may fail, or be
carried out and its answer lost; a failed Redis command sends the attempt to PostgreSQL, a
failed statement lets it through. `INCR` may count twice (`retry_on_timeout`). TTLs and
ages are relative, so time needs no horizon. `used`, `promise` and the last three
fields of an attempt are history.

*Checks.* `LimitPerWindow`: no store admits more than the limit in one window of its own.
`RetryAfterHonoured`: who comes back when Redis's Retry-After has passed, alone, is not refused
by Redis again; this needs a limit of 2 or more, since one attempt may count twice.

*Bounds.* Limit 2, window 1, lockout 2 ticks, 2 attempts at once: the shortest values in
which a window ends inside a lockout and a count passes the limit by both ways.

### Access

`account`, `apiKey`, `bearer` are tables and signed tokens, `handler` a request: it reads
the rows once (`Authenticate`, `ReadAccount` at a login, `ReadSession` at a refresh) and acts
on the principal it built then, while administrators change or delete the account, keys are
revoked, and every start re-runs the migration of the keys (`Migrate`). A refresh signs the
scopes of the role of now, so a session gains with a promotion. `signed` remembers what the
access token was signed with from which a credential descends, through any chain of keys
minted with keys; `moved` that the rows of a request changed under it.

*Checks.* `NothingBeyondSigning` (no chain of keys ever has more than that token), `AuthorityIsCurrent`, and `OneAccountPerEmail`: two accounts
of one address take two overlapping registrations in two spellings.
`key_migration` checks what the comment of migration 009 says, that keys only narrow:
its list of scopes has become too short, and a key with `tls:probe` alone is widened.

*Bounds.* 2 users, 2 posts, 2 handlers, one key and one token (slots that serve again), keys
asked for with an empty list or with `tls:admin`.

### SshCa and ConnectionPool

`RevocableBySerial`: a certificate that was handed out has a row, and shares its serial with
overlapping requests only. `QueueMovesUnlessExhausted`: a request that waits for a connection
waits for one that is free or held by somebody at work, unless there are as many `/refresh`
as connections, each of which keeps one and waits for a second. 3 requests, 3 clients on
2 connections: one more than can hold a connection each.

### TlsCollector and LogCopy

NGINX writes lines, sometimes half of one first, and logrotate empties the file once. Any
number of collectors read the stored offset, look at the size, read, insert row by
row with `ON CONFLICT DO NOTHING`, and store the offset; each may fail or die anywhere
(`StartOver`). `lines` and `cut` are history.

A line may hold a byte that is no UTF-8 (`bad`): `escape=json` leaves bytes from 0x80 on as they
are, and `$uri` is decoded. `read_from` decodes such a byte to U+FFFD and counts positions in
the text encoded again, where it has three bytes. `Grown` is what that adds; `Key` and
`ReadUpTo` are positions with it. A line is `clean` if there was no such byte before it.

*Checks.* `Traceable`: the key of a clean line's row is where the line began, that of another one
lies behind. `NothingSkipped`: until the log is rotated the stored offset passes no clean line
without a row. `CopiesTheLog` is the refinement: with `written` the usable clean lines,
`copied` the number of rows of each and `rotated` the rotation, the behaviours are those of
`LogCopy`, which copies each line at most once, in order until the log is rotated, and all of
them in the end if it is not. The docstrings promise this for every line; one such byte is
enough to break both promises (section 4).

*Bounds.* 2 collectors, 2 lines of 2 or 3 bytes (an offset can fall into a later file's
line, and into a line that was written after it was stored), one bad byte in a line, one rotation.

### IPsec: worker, poller, events

`charon` and `sa` are the daemon and what it lists; it comes, goes and rekeys as it likes. The
worker runs poller, listener and watchdog, and ends with any of them; but a
listener blocked in its thread keeps the process from ending until the daemon does
(`stopping`). `poll[p]` is a poll of the worker or of a `/refresh`: list, upsert in one
transaction, select the stale rows, then mark and report one by one. A report is a DOWN event in the same
table as the listener's (`StoreDown`), whatever the tunnel is by then. Events pass through a
queue that is lost with the process. An IKE_SA is listed under its own name only while it
has no child, and no event says so (`Unsaid`). `raced` and `lost` are history.

*Checks.* `DownOnlyUnseen` and `DownReportedOnce`: polls that do not overlap never
mark DOWN what has just been seen, and report an outage once. `TimelineCurrent`: when its
events are stored, a tunnel's last one says whether it is up, unless that one was lost, never
sent or a rekeying, or is the DOWN of a poll for a tunnel that is up (`list_sas` had failed, or
the tunnel came up after it was listed). `RowsFollowSas` (liveness): what stays up is shown up, with its proposal,
time and again; what is gone for good is no longer shown up.

*Bounds.* One tunnel, the worker's loop and one `/refresh`, `StaleAfter` 1 tick, a queue of 2.

### SshMonitor and ZtAudit

sshd's journal is one log of all connections; a `kex:` line names no peer and is given
to the connection announced last. A cycle reads the journal, then lists the TCP
sessions, then writes row by row, while sessions come and go. `EvidenceIsOwn`: a row says what
its own session negotiated or "unknown", unless two handshakes overlapped (`crossed`).
`RowsFollowSessions` (liveness): open sessions are ACTIVE time and again, ended ones do not stay so.

The audit re-reads its whole log every eight seconds and relies on a hash to store
each attempt once. A lone rejection's hash includes its place. `StoredOnce`,
`ReasonIsOwn`, and the liveness property `EveryAttemptStored` hold up to what rotation
(`moved`), a reading or another program's line between two lines of one attempt (`torn`) and
lines of other attempts there (`jumbled`) spoil; each of the three exceptions is needed. The code
skips lines of cron and sudo, but its look at the next line does not.

*Bounds.* 2 sessions, one of them hybrid, 2 lines of journal; 2 attempts, a log of 3 lines,
another program's line only where it matters, after the first line of a rejection
(`OtherMatters`; `ZtAudit` itself, and the proofs about it, let it come anywhere).

### Alerts

One evaluation runs four rules, each a query followed by INSERTs with a unique fingerprint; the rows
change and operators acknowledge in between. `StandingIsAlerted` (liveness): what stays
true is alerted, although the TLS rule fails every time. One tunnel, one peer, one key
exchange, 2 rejections, the newest 1 of which is looked at, so that the other one
falls out of sight.

### Deadlock and fairness

Deadlock is checked except in `Auth.cfg` and `Monitors.cfg`, where systems really run out:
each certificate request is made once, and when all attempts are over and the log has been rotated
away the audit has nothing to read.

Fairness is weak fairness of each loop (`while True` with a sleep; compose restarts the
containers, `restart: unless-stopped`), and, for failures, only that they stop at some time:
`<>[][failure => progress]` says that from then on no step is a failure only. Of the
collectors of the TLS log one is fair (`CollectorFairness`, in the run `CollectingFairness`). Nothing is assumed of StrongSwan, sshd, NGINX,
operators and callers of the API; in particular nobody has to call `/refresh`. The
poller's clock is fair. `TlsPolicy`, the token store, the browser, the limiter and the
other request handlers owe nothing, and no liveness is claimed for them.

### Sizes

| Run | Distinct states | Time on 2 workers |
|---|---|---|
| `refresh_tokens` | 814 thousand | 40 s |
| `host_agent` | 2.3 million | 30 s |
| `ssh_policy` | 2.6 million | 50 s |
| `tls_policy` | 3.2 million | 75 s |
| `auth` | 1.9 million | 100 s |
| `monitors` | 407 thousand, with five temporal properties | 140 s |

## 3. Proofs

Thirty-nine theorems, listed in `PROJECT.json` with the properties they state, hold for any number
of users, requests, rows, ticks, threads, policies, keys, tabs, connections, tunnels, sessions,
lines and failures, under the named assumptions on the constants alone: all the invariants
that the passing runs check, the action property `OverIsFinal`, and the safety half of the
refinement `CopiesTheLog`. One theorem has a hypothesis of its own: `RetryAfterKept` is about
limits of two or more, because with a limit of one it is false (an `INCR` that the client
repeats counts one attempt as two). Bounds such as the length of a queue or of a log are
only assumed to be natural numbers. Each theorem rests on an inductive
invariant, which is stronger than the property: the property alone says too little about
what requests in flight remember.

* **Tokens.** The inductive invariant is `Shape`: types, `ChainIntegrity`, and `RequestOK`,
  which ties what a request in flight remembers to the table: the token it read exists,
  and once it has inserted a successor, that row is a child of the token it is going to
  close. Without that, `CloseOld` could link a row to another row's child. `RowsPersist`
  (identity fields never change, a revoked row is never live again) carries the two-state
  arguments. `OverForGood` splits a step into the rows it adds and the rotations it
  starts; `ReplayKills` adds that condemned tokens only lose liveness. For
  `OneCurrentToken` the invariant is `RaceInv`: a family that did not race is
  `Undisputed`, that is, has at most one rotation in flight and its one current token is
  that rotation's old or new one, according to its phase.
* **Agent.** `DaemonInSync` is inductive with the types. For `ApplyAllOrNothing` the
  invariant `Undisturbed` says what file, saved text and origin are at each step of a
  request that is still alone (`Stage`); `OwnStep` says that no other thread is busy then.
* **SSH policy.** `ApiDrivesAgent` shows that a behaviour of the composition is one of the agent,
  so that all that is proved of the agent holds of it there. For `HistoryFollowsFile` the
  invariant is `Settled`. A call that nothing overlapped is alone (`Solo`): its thread is the only
  one at work, wants what the call wants, and found the file that the newest row names. With the
  agent's `Undisturbed` the answer then tells which policy is in the file. A thread whose
  caller has given up has blurred the table from then on (`Orphans`).
* **TLS policy.** For `ActiveRow` the invariant `RowInv` adds two facts to it. `Table` types the
  rows and handlers and says that a handler in `withdraw` names a row that exists.
  `Exclusive` says that, unless two pairs of UPDATE and INSERT overlapped, an apply between
  its UPDATE and its INSERT is alone there and no row is active; without it an INSERT
  could add a second active row. Every step but `Deactivate`, `Insert` and `Withdraw` is
  shown to be a `Bystander` (it leaves the rows alone, and drops a pending withdrawal only
  by recording its row in `abandoned`), and one lemma shows that a bystander keeps `RowInv`.
  For `FileInForce`, `Owed`: a difference between the file and what NGINX runs is owed by a
  handler on its way to the reload, or on record; a handler that owes still does after
  every step but its own last (`DebtsKept`, `ReloadPays`). For `NewestEvidence`, `Accounted`:
  every handshake that was not lost is either in the table or in the hands of exactly one
  handler, exactly once. Without "exactly once" a handler that dies could be charged
  with a handshake that the table has.
* **Browser.** `NoFalseTheft` is about what one step sees, and needs `BrowserInv` to be
  inductive. Nobody knows a token before it is issued, and no two pages the same CSRF value
  (`KnownIsIssued`, `OnePage`); what an answer brings is new to everybody else
  (`InTransit`). So only the one page whose value matches the cookie can send a refresh, and
  it waits for its answer (`OneExchange`): a token that has been exchanged can be
  presented again only when that answer was lost (`NotAgain`). `LogoutEnds` takes `LogoutInv` on
  top of it. A family has one live token, and none once one of it was revoked (`Descended`); a
  refresh and a logout of one family that are under way together have met (`Overlapping`); so a
  logout that met none, with no answer lost, carries the live token of its family (`Carried`).
* **Limiter.** `Covered`: a store has counted whatever it has admitted in its window. An
  attempt is admitted on a count within the limit, so the admitted are, too; a failed
  command only ever adds to the count, and what resets the count resets the window.
  `RetryAfterHonoured` needs `Attention`, which follows one caller from its refusal through its wait to
  its return: the lock outlives the counter (`LockOutlives`), a lock younger than the caller's look
  at it is full (`Since`), a caller that is alone was told a time that outlasts both (`Told`), the
  promise stands until somebody comes (`Promised`), and who has waited finds neither lock nor
  count (`Waited`).
* **Authority.** Implication between scopes is transitive, so `Expand` returns closed sets and
  closed sets meet in closed sets. Every key descends from a token signed at a login or a
  refresh, which always has the read scopes; so not even the migration, which replaces a list by
  these, gives a request more than that token had. A request whose rows have not changed still has the
  principal that a fresh look at the tables would give it.
* **CA.** `Distinct`: a row shares its serial with overlapping requests only. `MAX(serial)` is
  there and the greatest because the serials are bounded (well-foundedness of the
  naturals, since the choice in `Max` has to be shown to exist).
* **Pool.** Every connection is free or held by a request at work (`PoolTypeOK`, an equation between
  cardinalities), and only finitely many requests hold one, however many there are. If none is free
  and nobody is at work, all must be held by requests that wait for a second one.
* **Collector.** `LogInv`: the lines in the file are in the order of their numbers and
  offsets, and are all there until it is rotated. `RowInv`: rows and what is about to become
  one come from lines. `CopyInv`: every offset that anybody remembers has only passed clean lines
  that are in the table or, for a collector that is inserting, in its batch. What comes before a
  bad byte is not moved by it (`Grown` is 0 there), and every key counted after one lies at or
  behind it, so no such key is taken for a clean line's. With the invariant `CollectorCopies` shows step by step that the log and its collectors implement
  `LogCopy`: a row inserted is the earliest line without one.

* **IPsec.** `PollInv` is about what polls are about to do: what some poll has selected to mark has
  not been seen for long, unless polls overlapped (`MarkedUnseen`), and without overlap only one
  poll is at it and nothing has been reported yet (`ReportedOnce`). `EventsInv` says of the last
  event of a tunnel, on the queue or else stored, what `TimelineCurrent` says once it is stored.
* **SSH sessions.** `MonitorInv` speaks of the journal: a key exchange that follows the line of a session,
  with nothing but key exchanges in between, is like that session's own, or two sessions
  crossed. Then so is what a cycle has found and what it has written, whatever part of
  the journal it still saw.
* **Audit.** `ZtInv`: an attempt has one line of each sort, an undisturbed rejection is followed by its own
  line, and every row stored or about to be is what its line still gives, unless the
  attempt was disturbed. Hence two rows of one attempt come from one line (`StoredOnce`).
* **Side by side.** `OwnBehaviour` and `OwnTables` show that each component of `MCAuth` and of `Monitors` goes
  through a behaviour of its own; the types of the compositions follow.

Only model-checked: the liveness properties `RowsFollowSas`, `RowsFollowSessions`, `EveryAttemptStored`,
`StandingIsAlerted` and the liveness half of `CopiesTheLog`, because the provers do not reach fairness.
The six claims of section 4 are refuted by their runs.

## 4. Where code and documents differ

Six runs end in a counterexample: `refresh_fork`, `host_agent_overlap`, `ssh_rollback`,
`tls_enforced`, `tls_active_row`, `key_migration`. `PROJECT.json` quotes the lines under
`findings`. What else was noticed while modelling; the models do what the code does.

Sessions and authority:

* A page load logs the user out, although docs/AUTHENTICATION.md:329-330 says it does not: no page
  calls `restore()`, and its refresh would be answered 403, since the page cannot read the
  CSRF cookie.
* `auth_router.py:346` says every failure path clears the cookie, but headers set on the
  injected response are dropped when `HTTPException` is raised.
* A tab overtaken by another one's login or refresh keeps a stale CSRF value: 403 until it
  logs in, and its logout revokes nothing. A logout that crosses a refresh leaves the successor live.
* `purge_expired` has no caller.
* core/auth.py:8-11 says that a key's scopes never come from its row; since migration 009, and in
  the code and docs/, they are the row's, cut down to the owner's role.
* PostgreSQL counts attempts made while blocked, so the first one after a block that ends
  inside the window is refused again. Each switch between the two stores is a fresh budget.
* Two overlapping requests for certificates share a serial (`ca.py:20`: "Each cert gets a unique serial").
* As many concurrent `/refresh` as connections wait for one another for ever
  (docs/ARCHITECTURE.md:418-421 describes a queue that moves).

Policies:

* `tls/policy.py:242-244` says "A rejected config is recorded with `validated = FALSE` and NOT
  activated, so the audit trail shows the attempt without the status page ever treating it as the
  running policy". The code inserts it active (198-202), after it has deactivated the row of the
  policy that keeps running (191-194), and takes it back in a statement of its own (283-286). In between,
  and for good if the handler stops there, `active_policy_state` answers with the rejected one
  (`tls/router.py:435`). `ActiveRow` excuses exactly these two cases (`withdraw`, `abandoned`).
* `failmode/router.py:63` says the mode is "also reflected in config", and nothing reads it.

Monitors:

* No service starts the loop of the TLS collector. A rotated log loses what had not been read.
* `tls/collector.py:9-11` says "each row carries the log path and byte offset it came from, so any
  record can be traced back to its source", and 231-233 that a restart does not "re-import the
  whole log or silently skip what arrived while it was down". But positions are lengths of
  text that was decoded with `errors="replace"` and encoded again (264-279). After a byte that is no UTF-8
  keys and offset are too large: rows point behind their lines, a line that the offset cuts in two
  is skipped, and a log shorter than its offset is taken for rotated and read again (255-258).
* A poll whose `list_sas` failed reports tunnels DOWN that are up, into the timeline that is served;
  nothing in it says that they came back until their next event.
* A line of cron or sudo between the two lines of a rejection has it stored twice
  (`ztaudit.py:120-122` looks at the raw next line).
* When StrongSwan is gone, rows stay up: the poll returns before it looks at them
  (`ipsec/collector.py:162`; docs/ARCHITECTURE.md:475 says otherwise). A worker whose listener is
  blocked does not end when its watchdog does.
* A rekeying of a child is stored as CHILD_DOWN, that of an IKE_SA as "unknown" and down
  (`events.py:46-49, 81`). The coroutine that subscribes a websocket is not awaited.
* An SSH session older than the ten minutes of journal becomes "unknown" and raises a downgrade
  alert; the fallback to the configured key exchange that the docstring names is not in the code.
* Lines of two connections in between lose a rejection or give it another one's reason;
  syslog stamps without a year are stored again on each reading.
* INSTALLED child SAs are never alerted (docs/API.md:213 and 604); all IPsec downgrades
  share the fingerprint `ipsec-downgrade-None`; the TLS rule queries columns that
  `tls_sessions` does not have; an acknowledged alert is never raised again.
* Scores: no rows give 6.0 and not 0 (docs/API.md:579-580), mlkem768x25519 85 and not 90
  (571), and the overall score averages three protocols where 576 names two.

## 5. Plan

In this order:

1. Abstract specifications: `Session` (a family is open or over) implemented by
   `RefreshTokens`, and `OneLineFile` (apply is atomic) by `HostAgent` with one thread, with proofs of
   their safety halves.
2. Three tokens in `BrowserSession`: more than 15 million states without an error, but not
   all of them.

## 6. Not modelled

* The user interface but for `lib/api.ts`: its pages render what the API answers.
* Scoring, metrics, SIEM export, TLS statistics and certificates: read-only arithmetic and
  formatting over rows that other components write.
* The audit log: append-only, its errors are swallowed, and nothing reads it to decide.
* The fail mode switch: a dictionary in memory that nothing but its own GET reads.
* Settings: read once at start; they enter as constants and assumptions.
* Attack demonstrations: scripts without a state of their own.
* The websocket feed: no state; a client that misses a message sees the next one.
* The order in which containers start is compose's; set-up scripts, the superseded
  copies in `legacy` and `quansec_auth`, and `compiled-backup` are not part of what runs.
* The API side of the IPsec policy: it sends one call to the agent and keeps no history.
* Errors of the file system in the host agent (a disk that is full, a file that cannot be opened):
  they would end a request as the modelled failures of its subprocesses do, but also within a restore.
