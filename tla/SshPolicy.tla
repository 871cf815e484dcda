----------------------------- MODULE SshPolicy -----------------------------
(***************************************************************************)
(* protocols/ssh/policy.py over core/host_control.py: the two API handlers *)
(* that change the SSH policy (apply, rollback), the agent they drive      *)
(* (HostAgent with Daemon = "ssh") and the ssh_policy_history table.  The  *)
(* handler waits for the agent at most 20 s, no longer than one of the     *)
(* agent's own subprocesses may take, and its thread runs on without it.   *)
(***************************************************************************)
EXTENDS HostAgent, Sequences, SequencesExt

CONSTANTS
    Calls,        \* API handlers running at once
    MaxLosses     \* bound: calls cut short (time-outs, dead API, failed INSERT)

ASSUME Ssh_Assumption == Daemon = "ssh"
ASSUME Losses_Assumption == MaxLosses \in Nat

VARIABLES
    call,      \* where each handler stands
    history,   \* ssh_policy_history, oldest row first: its last two rows,
               \* which are all that rollback reads
    losses,    \* calls cut short so far
    blurred    \* history: the last call that may have changed the file was cut
               \* short or overlapped another one

apiVars == <<call, history, losses, blurred>>
allVars == <<vars, apiVars>>

NoThread == "none"
Call == [pc: {"idle", "send", "wait", "record"}, want: Policies \cup {None},
         thread: Threads \cup {NoThread},
         clean: BOOLEAN]     \* history: nothing else ran since the call began
IdleCall == [pc |-> "idle", want |-> None, thread |-> NoThread, clean |-> FALSE]

ApiTypeOK ==
    /\ TypeOK
    /\ call \in [Calls -> Call]
    /\ history \in Seq(Policies) /\ Len(history) <= 2
    /\ losses \in Nat
    /\ blurred \in BOOLEAN

Idle(c) == call[c].pc = "idle"
Quiet == (\A c \in Calls : Idle(c)) /\ (\A t \in Threads : ~Busy(t))
Waiting(c, t) == call[c].pc = "wait" /\ call[c].thread = t

ApiInit ==
    /\ Init
    /\ call = [c \in Calls |-> IdleCall]
    /\ history = <<>>
    /\ losses = 0
    /\ blurred = FALSE

-----------------------------------------------------------------------------
(* Handlers (the seeded faults are no part of ApiNext).                    *)

\* The name is in SSH_POLICIES.
Begin(c, p) ==
    /\ Idle(c)
    /\ call' = [d \in Calls |->
                   IF d = c THEN [IdleCall EXCEPT !.pc = "send", !.want = p, !.clean = Quiet]
                   ELSE [call[d] EXCEPT !.clean = FALSE]]
    /\ UNCHANGED <<vars, history, losses, blurred>>

Apply(c, p) == Begin(c, p)

\* The SELECT of the two newest rows; with fewer the answer is 400.
Rollback(c) ==
    /\ Len(history) = 2
    /\ Begin(c, history[1])

\* connect and sendall: the agent gives the request a thread.
Send(c) ==
    /\ call[c].pc = "send"
    /\ \E t \in Threads :
          /\ Accept(t, call[c].want)
          /\ call' = [call EXCEPT ![c].pc = "wait", ![c].thread = t]
    /\ UNCHANGED <<history, losses, blurred>>

\* Nobody listens on the socket, or it is not there: 503, and the agent hears nothing.
Refused(c) ==
    /\ call[c].pc = "send"
    /\ call' = [call EXCEPT ![c] = IdleCall]
    /\ UNCHANGED <<vars, history, losses, blurred>>

\* Seeded fault: an error answer is treated like any other.
AnswerUnread(c) == \E t \in Threads :
    /\ Waiting(c, t)
    /\ Finish(t)
    /\ call' = [call EXCEPT ![c].pc = "record", ![c].thread = NoThread]
    /\ UNCHANGED <<history, losses, blurred>>

\* The answer arrives: an error becomes 503 and leaves no trace.
Answer(c) == \E t \in Threads :
    /\ Waiting(c, t)
    /\ Finish(t)
    /\ IF job[t].ok
       THEN /\ call' = [call EXCEPT ![c].pc = "record", ![c].thread = NoThread]
            /\ UNCHANGED blurred
       ELSE /\ call' = [call EXCEPT ![c] = IdleCall]
            /\ blurred' = (blurred \/ ~call[c].clean)
    /\ UNCHANGED <<history, losses>>

\* Seeded fault: the request's policy is read after it has been reset.
RecordAfterReset(c) ==
    /\ call[c].pc = "record"
    /\ call' = [call EXCEPT ![c] = IdleCall]
    /\ history' = (IF Len(history) < 2 THEN history ELSE Tail(history)) \o <<call'[c].want>>
    /\ blurred' = ~call[c].clean
    /\ UNCHANGED <<vars, losses>>

\* _record_policy.
Record(c) ==
    /\ call[c].pc = "record"
    /\ history' = (IF Len(history) < 2 THEN history ELSE Tail(history)) \o <<call[c].want>>
    /\ blurred' = ~call[c].clean
    /\ call' = [call EXCEPT ![c] = IdleCall]
    /\ UNCHANGED <<vars, losses>>

\* 20 s without an answer (503), an INSERT that fails (500) or the API dying:
\* the call is over, its thread in the agent is not.
CutShort(c) ==
    /\ call[c].pc \in {"wait", "record"}
    /\ losses < MaxLosses
    /\ losses' = losses + 1
    /\ blurred' = TRUE
    /\ call' = [call EXCEPT ![c] = IdleCall]
    /\ UNCHANGED <<vars, history>>

\* A thread nobody waits for any more writes to a closed socket and ends.
Orphan(t) ==
    /\ \A c \in Calls : ~Waiting(c, t)
    /\ Finish(t)
    /\ UNCHANGED apiVars

\* The agent dies: the calls that wait for it read end-of-file, which is 503.
AgentCrash ==
    /\ Crash
    /\ call' = [c \in Calls |-> IF call[c].pc = "wait" THEN IdleCall ELSE call[c]]
    /\ blurred' = TRUE
    /\ UNCHANGED <<history, losses>>

AgentWork(t) == Work(t) /\ UNCHANGED apiVars

ApiNext ==
    \/ \E c \in Calls, p \in Policies : Apply(c, p)
    \/ \E c \in Calls : Rollback(c)
    \/ \E c \in Calls : Send(c)
    \/ \E c \in Calls : Refused(c)
    \/ \E c \in Calls : Answer(c)
    \/ \E c \in Calls : Record(c)
    \/ \E c \in Calls : CutShort(c)
    \/ \E t \in Threads : AgentWork(t)
    \/ \E t \in Threads : Orphan(t)
    \/ AgentCrash

ApiSpec == ApiInit /\ [][ApiNext]_allVars

-----------------------------------------------------------------------------
(* Properties.                                                             *)

\* The newest row of the history is the policy in the file whenever all is
\* quiet, except after a call that was cut short or overlapped another; and one
\* undisturbed apply is enough to bring the two together again.  (Rollback
\* trusts the table and never looks at the file.)
HistoryFollowsFile ==
    (Quiet /\ ~blurred /\ history # <<>>) => Last(history) = file.policy

\* "One-click rollback: revert to the previous SSH policy" (ssh/policy.py:133):
\* when nothing else is in progress, the newest row, which the rollback skips,
\* is the policy in force, so that the row it takes is the previous one.
RollbackLeavesCurrent ==
    (Quiet /\ Len(history) = 2) => Last(history) = file.policy
=============================================================================
