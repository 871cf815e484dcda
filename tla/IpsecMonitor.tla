---------------------------- MODULE IpsecMonitor ----------------------------
(***************************************************************************)
(* StrongSwan, the telemetry worker with its poller, its event listener    *)
(* and its watchdog, and the /refresh handlers that poll beside it.        *)
(***************************************************************************)
EXTENDS IpsecPoller, IpsecEvents

ipsecVars == <<workerVars, pollVars, eventVars>>

\* Both sides of the worker, the poller's and the listener's.
IpsecTypeOK == PollTypeOK /\ EventsTypeOK

IpsecInit == WorkerInit /\ PollInit /\ EventsInit

\* What the daemon does, the listener may hear.
Daemon ==
    \/ \E n \in Names, proposal \in Proposals : Establish(n, proposal) /\ Updown(n, "up")
    \/ \E n \in Names : Terminate(n) /\ Updown(n, "down")
    \/ \E n \in Names : Rekey(n)
    \/ \E n \in Names, proposal \in Proposals : Establish(n, proposal) /\ Unsaid(n)
    \/ \E n \in Names : Terminate(n) /\ Unsaid(n)
    \/ CharonStops /\ Silence
    \/ CharonStarts /\ UNCHANGED eventVars

\* The tasks of a worker that ends are cancelled together.
WorkerEnds == (Watchdog \/ KillWorker) /\ LoopEnds /\ DropQueue

PollFault(p) == ListFails(p) \/ PollFails(p)

\* A poll writes ipsec_tunnels, and its DOWN events into the timeline.
Polling(p) ==
    /\ \/ (PollRows(p) \/ PollFault(p)) /\ UNCHANGED eventVars
       \/ \E n \in Names : Report(p, n) /\ StoreDown(n)
    /\ UNCHANGED workerVars

IpsecNext ==
    \/ Daemon /\ UNCHANGED pollVars
    \/ (StartWorker \/ Listen) /\ UNCHANGED <<pollVars, eventVars>>
    \/ WorkerEnds
    \/ \E p \in Pollers : Polling(p)
    \/ (Store \/ StoreFails) /\ UNCHANGED <<workerVars, pollVars>>
    \/ /\ \E n \in Names, proposal \in Proposals : CreateTunnel(n, proposal)
       /\ UNCHANGED <<workerVars, eventVars>>
    \/ Tick /\ UNCHANGED <<workerVars, eventVars>>

\* The container is started again and the loop goes on, and after some time nothing fails.
\* Nobody has to call /refresh, and the daemon owes nothing.
IpsecFairness ==
    /\ WF_workerVars(StartWorker)
    /\ WF_pollVars(PollStep(Loop))
    /\ WF_pollVars(Tick)
    /\ <>[][WorkerEnds \/ PollFault(Loop) => PollStep(Loop)]_ipsecVars

IpsecSteps == IpsecInit /\ [][IpsecNext]_ipsecVars
IpsecSpec == IpsecSteps /\ IpsecFairness
=============================================================================
