----------------------------- MODULE MCMonitors -----------------------------
(***************************************************************************)
(* Instances of the monitors for model checking, beside the TLS session    *)
(* collector: one more background loop that shares nothing with the        *)
(* others, explored as the component in focus.  The sets are in the        *)
(* configuration.                                                          *)
(***************************************************************************)
EXTENDS Monitors, TlsCollector

AllInit ==
    \/ MonitorsInit /\ CollectorInit
    \/ /\ focus = "tls"
       /\ IpsecInit /\ MonitorInit /\ ZtInit /\ AlertsInit
       /\ CollectorInit

Collecting ==
    /\ focus = "tls" /\ CollectorNext
    /\ UNCHANGED monitorsVars
Monitoring == MonitorsNext /\ UNCHANGED collectorVars
AllNext == Monitoring \/ Collecting

\* CollectorFairness, for the behaviours that are about the collectors.
CollectingFairness(c) ==
    /\ WF_collectorVars(focus = "tls" /\ Cycle(c))
    /\ <>[][StartOver(c) => Cycle(c)]_collectorVars

AllSpec ==
    /\ AllInit /\ [][AllNext]_<<monitorsVars, collectorVars>>
    /\ MonitorsFairness
    /\ \E c \in Collectors : CollectingFairness(c)
=============================================================================
