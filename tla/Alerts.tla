------------------------------- MODULE Alerts ------------------------------
(***************************************************************************)
(* protocols/alerts/router.py: the policy engine evaluates four rules over *)
(* the tables that the monitors fill, one after the other, and raises what *)
(* each finds.  The fingerprint of an alert is unique and stays in the     *)
(* table for ever.  The rows change, and operators acknowledge, between    *)
(* any two statements.  A failure of the IPsec or the SSH rule ends the    *)
(* evaluation; the TLS and the zero-trust rule fail by themselves.         *)
(***************************************************************************)
EXTENDS Naturals, Sequences, FiniteSets

CONSTANTS
    Ike,            \* names in ipsec_tunnels of IKE_SAs without a child: ESTABLISHED when up.
                    \* A CHILD_SA is INSTALLED when it is up, and no rule looks at it.
    Peers,          \* remote hosts of ssh_connections
    NotPqc,         \* the key exchanges without post-quantum protection, "unknown" among them
    Rejections,     \* rejected authentications in zt_audit
    Newest          \* how many of them an evaluation looks at: 5

VARIABLES
    tunnels,    \* those that ipsec_tunnels says are ESTABLISHED and classical
    ssh,        \* the key exchange of an ACTIVE row without post-quantum protection
    rejected,   \* the rejections in zt_audit, the oldest first
    alerts,     \* by fingerprint
    evaluation  \* how far the evaluation is

alertVars == <<tunnels, ssh, rejected, alerts, evaluation>>

\* pqc_kem, the "kex_algorithm" of the IPsec rule, is NULL whenever the tunnel is classical.
IpsecDowngrade == <<"ipsec-downgrade", "None">>
SshDowngrade(p, k) == <<"ssh-downgrade", p, k>>
ZtReject(r) == <<"zt-reject", r>>
Fingerprints ==
    {IpsecDowngrade} \cup {ZtReject(r) : r \in Rejections}
        \cup {SshDowngrade(p, k) : p \in Peers, k \in NotPqc}

Rules == {"ipsec", "ssh", "tls", "zt"}
Prefix == [ipsec |-> "ipsec-downgrade", ssh |-> "ssh-downgrade", zt |-> "zt-reject"]

\* An evaluation raises what the rule at hand has found, and nothing when it is over.
AlertsTypeOK ==
    /\ tunnels \subseteq Ike
    /\ ssh \in [Peers -> {"none"} \cup NotPqc]
    /\ rejected \in Seq(Rejections)
    /\ alerts \in [Fingerprints -> {"none", "active", "acked"}]
    /\ evaluation \in [rule: Rules \cup {"idle"}, fetched: BOOLEAN, raise: SUBSET Fingerprints]
    /\ \A f \in evaluation.raise : evaluation.fetched /\ f[1] = Prefix[evaluation.rule]

-----------------------------------------------------------------------------
(* The rules.                                                              *)

DowngradedTunnels == {IpsecDowngrade : n \in tunnels}
DowngradedSessions == {SshDowngrade(p, ssh[p]) : p \in {q \in Peers : ssh[q] \in NotPqc}}
Recent(n) == {k \in DOMAIN rejected : k + n > Len(rejected)}
RecentRejections == {ZtReject(rejected[k]) : k \in Recent(Newest)}
Standing == DowngradedTunnels \cup DowngradedSessions \cup RecentRejections

AlertsInit ==
    /\ tunnels = {}
    /\ ssh = [p \in Peers |-> "none"]
    /\ rejected = <<>>
    /\ alerts = [f \in Fingerprints |-> "none"]
    /\ evaluation = [rule |-> "idle", fetched |-> FALSE, raise |-> {}]

-----------------------------------------------------------------------------
(* The monitors and the operator.                                          *)

TunnelWritten(n) ==
    /\ tunnels' = IF n \in tunnels THEN tunnels \ {n} ELSE tunnels \cup {n}
    /\ UNCHANGED <<ssh, rejected, alerts, evaluation>>

SessionWritten(p) ==
    /\ \E state \in {"none"} \cup NotPqc : ssh' = [ssh EXCEPT ![p] = state]
    /\ UNCHANGED <<tunnels, rejected, alerts, evaluation>>

RejectionStored(r) ==
    /\ \A k \in DOMAIN rejected : rejected[k] # r
    /\ rejected' = Append(rejected, r)
    /\ UNCHANGED <<tunnels, ssh, alerts, evaluation>>

\* ack_alert
Ack(f) ==
    /\ alerts[f] = "active"
    /\ alerts' = [alerts EXCEPT ![f] = "acked"]
    /\ UNCHANGED <<tunnels, ssh, rejected, evaluation>>

-----------------------------------------------------------------------------
(* evaluate_once.                                                          *)

Enter(rule) == evaluation' = [rule |-> rule, fetched |-> FALSE, raise |-> {}]
Begin ==
    /\ evaluation.rule = "idle"
    /\ Enter("ipsec")
    /\ UNCHANGED <<tunnels, ssh, rejected, alerts>>

\* The rows of a rule are all fetched before the first alert is raised.
Query(rule, found) ==
    /\ evaluation.rule = rule /\ ~evaluation.fetched
    /\ evaluation' = [rule |-> rule, fetched |-> TRUE, raise |-> found]
    /\ UNCHANGED <<tunnels, ssh, rejected, alerts>>
QueryIpsec == Query("ipsec", DowngradedTunnels)
QuerySsh == Query("ssh", DowngradedSessions)
QueryZt == Query("zt", RecentRejections)

\* _raise: INSERT ... ON CONFLICT (fingerprint) DO NOTHING
Raise(f) ==
    /\ f \in evaluation.raise
    /\ alerts' = [alerts EXCEPT ![f] = IF @ = "none" THEN "active" ELSE @]
    /\ evaluation' = [evaluation EXCEPT !.raise = @ \ {f}]
    /\ UNCHANGED <<tunnels, ssh, rejected>>

Raised(rule) == evaluation.rule = rule /\ evaluation.fetched /\ evaluation.raise = {}
Proceed(rule, next) ==
    /\ Raised(rule)
    /\ Enter(next)
    /\ UNCHANGED <<tunnels, ssh, rejected, alerts>>
IpsecDone == Proceed("ipsec", "ssh")
SshDone == Proceed("ssh", "tls")
ZtDone == Proceed("zt", "idle")

\* Seeded fault: nothing catches what the TLS rule raises.
TlsRuleEndsAll ==
    /\ evaluation.rule = "tls"
    /\ Enter("idle")
    /\ UNCHANGED <<tunnels, ssh, rejected, alerts>>

\* tls_sessions has neither an outcome nor an observed_at column: the query fails every
\* time, and the exception is caught.
TlsRule ==
    /\ evaluation.rule = "tls"
    /\ Enter("zt")
    /\ UNCHANGED <<tunnels, ssh, rejected, alerts>>

\* Any statement fails, or the process stops.
EvaluationEnds ==
    /\ evaluation.rule # "idle"
    /\ Enter("idle")
    /\ UNCHANGED <<tunnels, ssh, rejected, alerts>>

Evaluate ==
    \/ Begin
    \/ QueryIpsec
    \/ QuerySsh
    \/ QueryZt
    \/ \E f \in Fingerprints : Raise(f)
    \/ IpsecDone
    \/ SshDone
    \/ ZtDone
    \/ TlsRule

AlertsNext ==
    \/ \E n \in Ike : TunnelWritten(n)
    \/ \E p \in Peers : SessionWritten(p)
    \/ \E r \in Rejections : RejectionStored(r)
    \/ \E f \in Fingerprints : Ack(f)
    \/ Evaluate
    \/ EvaluationEnds

\* The loop goes on, and after some time nothing fails.
AlertsFairness ==
    /\ WF_alertVars(Evaluate)
    /\ <>[][EvaluationEnds => Evaluate]_alertVars

AlertsSteps == AlertsInit /\ [][AlertsNext]_alertVars
AlertsSpec == AlertsSteps /\ AlertsFairness

-----------------------------------------------------------------------------
(* Properties.                                                             *)

\* docs/API.md:604-605, as far as the code goes: an ESTABLISHED tunnel or an ACTIVE session
\* that stays without post-quantum protection, and a rejection that stays among the newest,
\* is alerted, although the rule for TLS fails each time.
StandingIsAlerted ==
    \A f \in Fingerprints : []<>(f \notin Standing \/ alerts[f] # "none")
=============================================================================
