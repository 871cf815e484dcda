---------------------------- MODULE IpsecWorker ----------------------------
(***************************************************************************)
(* The telemetry worker of services/ipsec_worker.py and the daemon it      *)
(* watches.  run_worker runs three tasks, the poller (IpsecPoller), the    *)
(* event listener (IpsecEvents) and the watchdog; when one ends it cancels *)
(* the others and raises, and the container is started again.  Cancelling  *)
(* does not stop a thread: asyncio.run waits for the one that is blocked   *)
(* in session.listen before the process can end.                           *)
(***************************************************************************)
EXTENDS Naturals

CONSTANT Names      \* what list_sas may list: an IKE_SA, or a CHILD_SA of one

VARIABLES
    charon,     \* the daemon answers on its socket
    sa,         \* what it lists under each name
    worker,     \* the worker process
    listener    \* the thread that listens for events

workerVars == <<charon, sa, worker, listener>>

\* _is_pqc of the two proposals
Proposals == {"pqc", "classical"}
NoSa == "none"

WorkerTypeOK ==
    /\ charon \in BOOLEAN
    /\ sa \in [Names -> Proposals \cup {NoSa}]
    /\ worker \in {"down", "running", "stopping"}
    /\ listener \in {"none", "retry", "listening"}

WorkerInit ==
    /\ charon = TRUE
    /\ sa = [n \in Names |-> NoSa]
    /\ worker = "down" /\ listener = "none"

-----------------------------------------------------------------------------
(* StrongSwan.                                                             *)

\* A name is listed, or listed no more, for whatever reason.
Establish(n, proposal) ==
    /\ charon /\ sa[n] = NoSa
    /\ sa' = [sa EXCEPT ![n] = proposal]
    /\ UNCHANGED <<charon, worker, listener>>

Terminate(n) ==
    /\ charon /\ sa[n] # NoSa
    /\ sa' = [sa EXCEPT ![n] = NoSa]
    /\ UNCHANGED <<charon, worker, listener>>

\* The listener's connection ends with the daemon, and with it its thread: the worker
\* that was waiting for it can exit.
CharonStops ==
    /\ charon
    /\ charon' = FALSE
    /\ sa' = [n \in Names |-> NoSa]
    /\ worker' = IF worker = "stopping" THEN "down" ELSE worker
    /\ listener' = IF worker = "running" THEN "retry" ELSE "none"

CharonStarts ==
    /\ ~charon
    /\ charon' = TRUE
    /\ UNCHANGED <<sa, worker, listener>>

-----------------------------------------------------------------------------
(* The worker.                                                             *)

\* require_vici, then the three tasks.
StartWorker ==
    /\ worker = "down" /\ charon
    /\ worker' = "running" /\ listener' = "retry"
    /\ UNCHANGED <<charon, sa>>

\* A connection that fails is tried again five seconds later.
Listen ==
    /\ worker = "running" /\ listener = "retry" /\ charon
    /\ listener' = "listening"
    /\ UNCHANGED <<charon, sa, worker>>

\* require_vici raises: the daemon does not answer, or this one check has failed.
Watchdog ==
    /\ worker = "running"
    /\ worker' = IF listener = "listening" THEN "stopping" ELSE "down"
    /\ listener' = IF listener = "listening" THEN listener ELSE "none"
    /\ UNCHANGED <<charon, sa>>

\* The container is killed.
KillWorker ==
    /\ worker # "down"
    /\ worker' = "down" /\ listener' = "none"
    /\ UNCHANGED <<charon, sa>>
=============================================================================
