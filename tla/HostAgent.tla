----------------------------- MODULE HostAgent -----------------------------
(***************************************************************************)
(* host_policy_agent.py: the root agent that rewrites the configuration of *)
(* one daemon and reloads it.  socketserver.ThreadingUnixStreamServer runs *)
(* every request in a thread of its own and nothing is locked, so a thread *)
(* may be overtaken between any two file accesses or subprocesses.         *)
(* apply_ssh and apply_ipsec differ in two places, chosen by Daemon: sshd  *)
(* is asked to test the file before it is reloaded, and the IPsec rewrite  *)
(* refuses a file without its proposal lines where the SSH one appends.    *)
(***************************************************************************)
EXTENDS Naturals, FiniteSets

CONSTANTS
    Threads,       \* connections served at once
    Policies,      \* the allow-listed policies of the daemon
    Daemon,        \* "ssh" or "ipsec"
    MaxFailures,   \* bound: subprocess runs that fail or exceed 20 s
    MaxCrashes     \* bound: deaths of the agent (systemd restarts it)

ASSUME Daemon_Assumption == Daemon \in {"ssh", "ipsec"}
ASSUME Budget_Assumption == MaxFailures \in Nat /\ MaxCrashes \in Nat

VARIABLES
    file,       \* the configuration file
    loaded,     \* the content the daemon took at its last load
    job,        \* what each thread has read and has still to do
    failures,   \* failed subprocess runs so far
    crashes,    \* agent deaths so far
    stale       \* history: the last repair load was lost, or never ran

vars == <<file, loaded, job, failures, crashes, stale>>

\* A file is its policy line and the rest of it (identities, keys, host keys:
\* all that an apply has to preserve).  Truncating it loses both.
None == "none"
Content == [policy: Policies \cup {None}, whole: BOOLEAN]
Empty == [policy |-> None, whole |-> FALSE]
Down == [policy |-> "down", whole |-> FALSE]  \* no daemon: a reload killed it

Steps == {"idle", "read", "save", "replace", "check", "reload",
          "truncate", "rewrite", "recheck", "recover", "done"}
Job == [pc: Steps, want: Policies \cup {None},
        base: BOOLEAN,         \* was the rest there when the file was read?
        previous: Content,     \* what a failure restores
        unlinked: BOOLEAN,     \* the file opened for the restore has been replaced since
        ok: BOOLEAN,           \* the answer
        origin: Content,       \* history: the file when the request came in
        alone: BOOLEAN]        \* history: no other request overlapped it
IdleJob == [pc |-> "idle", want |-> None, base |-> FALSE, previous |-> Empty,
            unlinked |-> FALSE, ok |-> FALSE, origin |-> Empty, alone |-> FALSE]

TypeOK ==
    /\ file \in Content
    /\ loaded \in Content \cup {Down}
    /\ job \in [Threads -> Job]
    /\ failures \in Nat
    /\ crashes \in Nat
    /\ stale \in BOOLEAN

Busy(t) == job[t].pc # "idle"
\* The thread has written the file and not loaded it since.
Dirty(t) == job[t].pc \in {"check", "reload", "truncate", "rewrite", "recheck", "recover"}

Init ==
    /\ \E p \in Policies : file = [policy |-> p, whole |-> TRUE]
    /\ loaded = file
    /\ job = [t \in Threads |-> IdleJob]
    /\ failures = 0
    /\ crashes = 0
    /\ stale = FALSE

-----------------------------------------------------------------------------
(* One request.  The operators called seeded faults are no part of Next:    *)
(* each is a plausible bug that a property below would catch.              *)

Goto(t, step) == job' = [job EXCEPT ![t].pc = step]
Reply(t, ok) == job' = [job EXCEPT ![t].pc = "done", ![t].ok = ok]

\* Seeded fault: the allow-list is not consulted.
AcceptUnlisted(t, p) ==
    /\ ~Busy(t)
    /\ job' = [job EXCEPT ![t] = [IdleJob EXCEPT !.pc = "read", !.want = "unlisted",
                                                !.origin = file]]
    /\ UNCHANGED <<file, loaded, failures, crashes, stale>>

\* The allow-list passed; the file and the binary are there.
Accept(t, p) ==
    /\ ~Busy(t)
    /\ job' = [u \in Threads |->
                  IF u = t THEN [IdleJob EXCEPT !.pc = "read", !.want = p, !.origin = file,
                                                !.alone = \A v \in Threads : ~Busy(v)]
                  ELSE [job[u] EXCEPT !.alone = FALSE]]
    /\ UNCHANGED <<file, loaded, failures, crashes, stale>>

\* read_text, and the new text computed from it.
ReadConfig(t) ==
    /\ job[t].pc = "read"
    /\ IF Daemon = "ipsec" /\ ~file.whole
       THEN Reply(t, FALSE)
       ELSE job' = [job EXCEPT ![t].pc = "save", ![t].base = file.whole]
    /\ UNCHANGED <<file, loaded, failures, crashes, stale>>

\* _atomic_replace reads the file a second time, for the restore.
SavePrevious(t) ==
    /\ job[t].pc = "save"
    /\ job' = [job EXCEPT ![t].pc = "replace", ![t].previous = file]
    /\ UNCHANGED <<file, loaded, failures, crashes, stale>>

\* os.replace: nobody ever sees half of the new text, and what another thread has opened
\* for writing is no longer the file.
Replace(t) ==
    /\ job[t].pc = "replace"
    /\ file' = [policy |-> job[t].want, whole |-> job[t].base]
    /\ job' = [u \in Threads |->
                  IF u = t THEN [job[t] EXCEPT !.pc = IF Daemon = "ssh" THEN "check" ELSE "reload"]
                  ELSE IF job[u].pc = "rewrite" THEN [job[u] EXCEPT !.unlinked = TRUE]
                  ELSE job[u]]
    /\ UNCHANGED <<loaded, failures, crashes, stale>>

Fail == failures < MaxFailures /\ failures' = failures + 1

\* sshd -t -f <file>: whatever the file is by now.
Check(t) ==
    /\ job[t].pc = "check"
    /\ \/ Goto(t, "reload") /\ UNCHANGED failures
       \/ Goto(t, "truncate") /\ Fail
    /\ UNCHANGED <<file, loaded, crashes, stale>>

\* A load that works takes the file as it is.  One that fails may have had no
\* effect, may have taken the file and overrun the 20 s, or (sshd is restarted
\* if it cannot be reloaded) may have left the daemon dead.
LoadFile == loaded' = file /\ stale' = FALSE /\ UNCHANGED failures
LoadFails == Fail /\ loaded' \in {loaded, file} \cup (IF Daemon = "ssh" THEN {Down} ELSE {})

Reload(t) ==
    /\ job[t].pc = "reload"
    /\ \/ LoadFile /\ Reply(t, TRUE)
       \/ LoadFails /\ Goto(t, "truncate") /\ UNCHANGED stale
    /\ UNCHANGED <<file, crashes>>

\* _restore is write_bytes: it opens the live file for writing first (an error of the file
\* system, there or elsewhere, is not modelled) ...
Truncate(t) ==
    /\ job[t].pc = "truncate"
    /\ file' = Empty
    /\ job' = [job EXCEPT ![t].pc = "rewrite", ![t].unlinked = FALSE]
    /\ UNCHANGED <<loaded, failures, crashes, stale>>

\* Seeded fault: what is written back is the refused text.
RewriteWanted(t) ==
    /\ job[t].pc = "rewrite"
    /\ file' = [job[t].previous EXCEPT !.policy = job[t].want]
    /\ Goto(t, IF Daemon = "ssh" THEN "recheck" ELSE "recover")
    /\ UNCHANGED <<loaded, failures, crashes, stale>>

\* ... and puts the saved bytes back second, into what it has opened.
Rewrite(t) ==
    /\ job[t].pc = "rewrite"
    /\ file' = IF job[t].unlinked THEN file ELSE job[t].previous
    /\ Goto(t, IF Daemon = "ssh" THEN "recheck" ELSE "recover")
    /\ UNCHANGED <<loaded, failures, crashes, stale>>

\* The repair: its own failures are swallowed and the answer is an error.
Recheck(t) ==
    /\ job[t].pc = "recheck"
    /\ \/ Goto(t, "recover") /\ UNCHANGED <<failures, stale>>
       \/ Reply(t, FALSE) /\ Fail /\ stale' = TRUE
    /\ UNCHANGED <<file, loaded, crashes>>

\* Seeded fault: the restored file is not loaded.
RecoverWithoutLoad(t) ==
    /\ job[t].pc = "recover"
    /\ Reply(t, FALSE)
    /\ UNCHANGED <<file, loaded, failures, stale, crashes>>

Recover(t) ==
    /\ job[t].pc = "recover"
    /\ Reply(t, FALSE)
    /\ \/ LoadFile
       \/ LoadFails /\ stale' = TRUE
    /\ UNCHANGED <<file, crashes>>

\* The answer goes out (or to a client that has gone) and the thread ends.
Finish(t) ==
    /\ job[t].pc = "done"
    /\ job' = [job EXCEPT ![t] = IdleJob]
    /\ UNCHANGED <<file, loaded, failures, crashes, stale>>

\* The agent dies with all its threads and is started again.
Crash ==
    /\ crashes < MaxCrashes
    /\ crashes' = crashes + 1
    /\ stale' = (stale \/ \E t \in Threads : Dirty(t))
    /\ job' = [t \in Threads |-> IdleJob]
    /\ UNCHANGED <<file, loaded, failures>>

\* What a thread does on its own, request in hand.
Work(t) ==
    \/ ReadConfig(t)
    \/ SavePrevious(t)
    \/ Replace(t)
    \/ Check(t)
    \/ Reload(t)
    \/ Truncate(t)
    \/ Rewrite(t)
    \/ Recheck(t)
    \/ Recover(t)

Next ==
    \/ \E t \in Threads, p \in Policies : Accept(t, p)
    \/ \E t \in Threads : Work(t)
    \/ \E t \in Threads : Finish(t)
    \/ Crash

Spec == Init /\ [][Next]_vars

-----------------------------------------------------------------------------
(* Properties.                                                             *)

\* However threads, failures and restores overlap, the daemon runs what the
\* file says as soon as no thread still owes it a load, unless the last repair
\* load was itself lost: the configuration a restart would read is the one in
\* force.  (apply_ssh and apply_ipsec reload after every write they make.)
DaemonFollowsFile ==
    (~stale /\ \A t \in Threads : ~Dirty(t)) => loaded = file

\* A request that nothing overlapped is all or nothing, whichever of its steps
\* failed: answered "ok" it has changed the policy line and only that, answered
\* with an error it has put back the file it found.  (docs/CONTAINERS.md:24-28.)
AllOrNothing ==
    \A t \in Threads : (job[t].pc = "done" /\ job[t].alone) =>
        IF job[t].ok THEN file = [job[t].origin EXCEPT !.policy = job[t].want]
                     ELSE file = job[t].origin

\* "It preserves the existing StrongSwan identities, addresses, traffic selectors
\* and PSK [...] For SSH it changes only KexAlgorithms" (docs/CONTAINERS.md:26-28):
\* when no request is in progress the file is all there.
ConfigPreserved == (\A t \in Threads : ~Busy(t)) => file.whole
=============================================================================
