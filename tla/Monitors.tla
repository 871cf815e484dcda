------------------------------ MODULE Monitors -----------------------------
(***************************************************************************)
(* The background loops that watch IPsec and SSH, and the evaluator that   *)
(* reads what they store.  They share no state but the database, each      *)
(* writing tables of its own, and Alerts already lets the rows it reads    *)
(* change at any time; so they are explored side by side, each behaviour   *)
(* being one of the component in focus.                                    *)
(***************************************************************************)
EXTENDS IpsecMonitor, SshMonitor, ZtAudit, Alerts

VARIABLE focus

monitorsVars ==
    <<focus, ipsecVars, sshVars, ztVars, alertVars>>

Components == {"ipsec", "ssh", "zt", "alerts"}

MonitorsInit ==
    /\ focus \in Components
    /\ IpsecInit /\ MonitorInit /\ ZtInit /\ AlertsInit

Ipsec ==
    /\ focus = "ipsec" /\ IpsecNext
    /\ UNCHANGED <<focus, sshVars, ztVars, alertVars>>
Ssh ==
    /\ focus = "ssh" /\ MonitorNext
    /\ UNCHANGED <<focus, ipsecVars, ztVars, alertVars>>

\* Bound: another program's line comes after the first line of a rejection, where it matters.
OtherMatters == authlog # <<>> /\ Last(authlog).kind = "invalid"
Zt ==
    /\ focus = "zt" /\ ZtNext /\ (WriteOther => OtherMatters)
    /\ UNCHANGED <<focus, ipsecVars, sshVars, alertVars>>
Alerting ==
    /\ focus = "alerts" /\ AlertsNext
    /\ UNCHANGED <<focus, ipsecVars, sshVars, ztVars>>
MonitorsNext == Ipsec \/ Ssh \/ Zt \/ Alerting

\* The fairness of each component, for the behaviours that are about it.
Faults ==
    \/ (WorkerEnds \/ PollFault(Loop)) /\ ~PollStep(Loop)
    \/ MonitorFault /\ ~Collect
    \/ CycleEnds /\ ~InsertEvent
    \/ EvaluationEnds /\ ~Evaluate
MonitorsFairness ==
    /\ WF_workerVars(focus = "ipsec" /\ StartWorker)
    /\ WF_pollVars(focus = "ipsec" /\ PollStep(Loop))
    /\ WF_pollVars(focus = "ipsec" /\ Tick)
    /\ WF_sshVars(focus = "ssh" /\ Collect)
    /\ WF_ztVars(focus = "zt" /\ (Fetch \/ InsertEvent))
    /\ WF_alertVars(focus = "alerts" /\ Evaluate)
    /\ <>[][~Faults]_monitorsVars

MonitorsSpec == MonitorsInit /\ [][MonitorsNext]_monitorsVars /\ MonitorsFairness

\* Every component's state is well formed.
MonitorsTypeOK ==
    IpsecTypeOK /\ MonitorTypeOK /\ ZtTypeOK /\ AlertsTypeOK
=============================================================================
