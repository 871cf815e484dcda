-------------------------- MODULE SshPolicyProofs --------------------------
(***************************************************************************)
(* What the agent on the host guarantees for every number of threads,      *)
(* every set of policies and every budget of failures and crashes; and     *)
(* what the API in front of it adds, for every number of handlers.  The    *)
(* agent's own theorems carry over: the API drives it by its requests.     *)
(***************************************************************************)
EXTENDS SshPolicy, TLAPS

(***************************************************************************)
(* The agent.                                                              *)
(***************************************************************************)
\* A free thread and one that has just been given a request are well typed.
LEMMA JobTypes ==
    ASSUME NEW p \in Policies, NEW c \in Content, NEW b \in BOOLEAN
    PROVE  /\ IdleJob \in Job
           /\ [IdleJob EXCEPT !.pc = "read", !.want = p, !.origin = c, !.alone = b] \in Job
BY DEF Job, IdleJob, Steps, Content, Empty

\* A thread that goes on, or that has its answer, is well typed.
LEMMA GotoTypes ==
    ASSUME TypeOK, NEW t \in Threads, NEW step \in Steps, Goto(t, step)
    PROVE  job' \in [Threads -> Job]
<1>1. job[t] \in Job
  BY DEF TypeOK
<1>2. [job[t] EXCEPT !.pc = step] \in Job
  BY <1>1 DEF Job
<1>3. QED
  BY <1>2 DEF Goto, TypeOK

LEMMA ReplyTypes ==
    ASSUME TypeOK, NEW t \in Threads, NEW ok \in BOOLEAN, Reply(t, ok)
    PROVE  job' \in [Threads -> Job]
<1>1. job[t] \in Job /\ "done" \in Steps
  BY DEF TypeOK, Steps
<1>2. [job[t] EXCEPT !.pc = "done", !.ok = ok] \in Job
  BY <1>1 DEF Job
<1>3. QED
  BY <1>2 DEF Reply, TypeOK

\* The initial state and every step are well typed.
THEOREM AgentTypes == Spec => []TypeOK
<1>1. Init => TypeOK
  <2> SUFFICES ASSUME Init PROVE TypeOK
    OBVIOUS
  <2>1. file \in Content
    BY DEF Init, Content
  <2>2. IdleJob \in Job
    BY DEF Job, IdleJob, Steps, Content, Empty
  <2> QED
    BY <2>1, <2>2 DEF Init, TypeOK
<1>2. TypeOK /\ [Next]_vars => TypeOK'
  <2> SUFFICES ASSUME TypeOK, [Next]_vars PROVE TypeOK'
    OBVIOUS
  <2>0. Empty \in Content /\ TRUE \in BOOLEAN /\ FALSE \in BOOLEAN
    BY DEF Empty, Content
  <2>1. ASSUME NEW t \in Threads, NEW p \in Policies, Accept(t, p) PROVE TypeOK'
    <3>1. \A u \in Threads : job'[u] \in Job
      <4> SUFFICES ASSUME NEW u \in Threads PROVE job'[u] \in Job
        OBVIOUS
      <4>1. CASE u = t
        <5>1. (\A v \in Threads : ~Busy(v)) \in BOOLEAN
          OBVIOUS
        <5>2. PICK b \in BOOLEAN : job'[u] =
                [IdleJob EXCEPT !.pc = "read", !.want = p, !.origin = file, !.alone = b]
          BY <2>1, <4>1, <5>1 DEF Accept
        <5>3. file \in Content
          BY DEF TypeOK
        <5>4. [IdleJob EXCEPT !.pc = "read", !.want = p, !.origin = file, !.alone = b] \in Job
          BY <5>3, JobTypes
        <5>5. QED
          BY <5>2, <5>4
      <4>2. CASE u # t
        BY <2>1, <4>2 DEF Accept, TypeOK, Job
      <4>3. QED
        BY <4>1, <4>2
    <3>2. QED
      BY <2>1, <3>1 DEF Accept, TypeOK
  <2>2. ASSUME NEW t \in Threads, ReadConfig(t) PROVE TypeOK'
    <3>1. job[t] \in Job /\ file.whole \in BOOLEAN
      BY DEF TypeOK, Content
    <3>2. "done" \in Steps /\ "save" \in Steps
      BY DEF Steps
    <3>3. /\ [job[t] EXCEPT !.pc = "done", !.ok = FALSE] \in Job
          /\ [job[t] EXCEPT !.pc = "save", !.base = file.whole] \in Job
      BY <3>1, <3>2 DEF Job
    <3>4. QED
      BY <2>2, <3>3 DEF ReadConfig, Reply, TypeOK
  <2>3. ASSUME NEW t \in Threads, SavePrevious(t) PROVE TypeOK'
    <3>1. job[t] \in Job /\ file \in Content /\ "replace" \in Steps
      BY DEF TypeOK, Steps
    <3>2. [job[t] EXCEPT !.pc = "replace", !.previous = file] \in Job
      BY <3>1 DEF Job
    <3>3. QED
      BY <2>3, <3>2 DEF SavePrevious, TypeOK
  <2>4. ASSUME NEW t \in Threads, Replace(t) PROVE TypeOK'
    <3>1. job[t].want \in Policies \cup {None} /\ job[t].base \in BOOLEAN
      BY DEF TypeOK, Job
    <3>2. file' \in Content
      BY <2>4, <3>1 DEF Replace, Content
    <3>3. (IF Daemon = "ssh" THEN "check" ELSE "reload") \in Steps
      BY DEF Steps
    <3>4. job' \in [Threads -> Job]
      <4>1. \A u \in Threads : /\ job[u] \in Job
                               /\ [job[u] EXCEPT !.unlinked = TRUE] \in Job
        BY DEF TypeOK, Job
      <4>2. [job[t] EXCEPT !.pc = IF Daemon = "ssh" THEN "check" ELSE "reload"] \in Job
        BY <3>3 DEF TypeOK, Job
      <4>3. QED
        BY <2>4, <4>1, <4>2 DEF Replace
    <3>5. QED
      BY <2>4, <3>2, <3>4 DEF Replace, TypeOK
  <2>5. ASSUME NEW t \in Threads, Check(t) PROVE TypeOK'
    <3>1. "reload" \in Steps /\ "truncate" \in Steps
      BY DEF Steps
    <3>2. job' \in [Threads -> Job]
      BY <2>5, <3>1, GotoTypes DEF Check
    <3>3. QED
      BY <2>5, <3>2 DEF Check, Fail, TypeOK
  <2>6. ASSUME NEW t \in Threads, Reload(t) PROVE TypeOK'
    <3>1. job' \in [Threads -> Job]
      <4>1. "truncate" \in Steps
        BY DEF Steps
      <4>2. QED
        BY <2>6, <4>1, GotoTypes, ReplyTypes DEF Reload
    <3>2. loaded' \in Content \cup {Down}
      BY <2>6 DEF Reload, LoadFile, LoadFails, TypeOK
    <3>3. failures' \in Nat
      <4>1. CASE LoadFile
        BY <4>1 DEF LoadFile, TypeOK
      <4>2. CASE LoadFails
        <5>1. Fail
          BY <4>2 DEF LoadFails
        <5>2. QED
          BY <5>1 DEF Fail, TypeOK
      <4>3. QED
        BY <2>6, <4>1, <4>2 DEF Reload
    <3>4. stale' \in BOOLEAN
      BY <2>6 DEF Reload, LoadFile, TypeOK
    <3>5. QED
      BY <2>6, <3>1, <3>2, <3>3, <3>4 DEF Reload, TypeOK
  <2>7. ASSUME NEW t \in Threads, Truncate(t) PROVE TypeOK'
    <3>1. "rewrite" \in Steps
      BY DEF Steps
    <3>2. job' \in [Threads -> Job]
      <4>1. [job[t] EXCEPT !.pc = "rewrite", !.unlinked = FALSE] \in Job
        BY <3>1 DEF TypeOK, Job
      <4>2. QED
        BY <2>7, <4>1 DEF Truncate, TypeOK
    <3>3. QED
      BY <2>0, <2>7, <3>2 DEF Truncate, TypeOK
  <2>8. ASSUME NEW t \in Threads, Rewrite(t) PROVE TypeOK'
    <3>1. (IF Daemon = "ssh" THEN "recheck" ELSE "recover") \in Steps
      BY DEF Steps
    <3>2. job' \in [Threads -> Job]
      BY <2>8, <3>1, GotoTypes DEF Rewrite
    <3>3. job[t].previous \in Content
      BY DEF TypeOK, Job
    <3>4. QED
      BY <2>8, <3>2, <3>3 DEF Rewrite, TypeOK
  <2>9. ASSUME NEW t \in Threads, Recheck(t) PROVE TypeOK'
    <3>1. job' \in [Threads -> Job]
      <4>1. "recover" \in Steps
        BY DEF Steps
      <4>2. QED
        BY <2>9, <4>1, GotoTypes, ReplyTypes DEF Recheck
    <3>2. failures' \in Nat
      <4>1. Fail \/ UNCHANGED failures
        BY <2>9 DEF Recheck
      <4>2. QED
        BY <4>1 DEF Fail, TypeOK
    <3>3. stale' \in BOOLEAN
      BY <2>9 DEF Recheck, TypeOK
    <3>4. QED
      BY <2>9, <3>1, <3>2, <3>3 DEF Recheck, TypeOK
  <2>10. ASSUME NEW t \in Threads, Recover(t) PROVE TypeOK'
    <3>1. job' \in [Threads -> Job]
      BY <2>10, ReplyTypes DEF Recover
    <3>2. loaded' \in Content \cup {Down}
      BY <2>10 DEF Recover, LoadFile, LoadFails, TypeOK
    <3>3. failures' \in Nat
      <4>1. CASE LoadFile
        BY <4>1 DEF LoadFile, TypeOK
      <4>2. CASE LoadFails
        <5>1. Fail
          BY <4>2 DEF LoadFails
        <5>2. QED
          BY <5>1 DEF Fail, TypeOK
      <4>3. QED
        BY <2>10, <4>1, <4>2 DEF Recover
    <3>4. stale' \in BOOLEAN
      BY <2>10 DEF Recover, LoadFile, TypeOK
    <3>5. QED
      BY <2>10, <3>1, <3>2, <3>3, <3>4 DEF Recover, TypeOK
  <2>11. ASSUME NEW t \in Threads, Finish(t) PROVE TypeOK'
    <3>1. IdleJob \in Job
      BY <2>0 DEF Job, IdleJob, Steps
    <3>2. QED
      BY <2>11, <3>1 DEF Finish, TypeOK
  <2>12. CASE Crash
    <3>1. IdleJob \in Job
      BY <2>0 DEF Job, IdleJob, Steps
    <3>2. QED
      BY <2>12, <3>1 DEF Crash, TypeOK
  <2>13. CASE UNCHANGED vars
    BY <2>13 DEF vars, TypeOK
  <2>14. QED
    BY <2>1, <2>2, <2>3, <2>4, <2>5, <2>6, <2>7, <2>8, <2>9, <2>10, <2>11, <2>12, <2>13
       DEF Next, Work
<1>3. QED
  BY <1>1, <1>2, PTL DEF Spec
-----------------------------------------------------------------------------

\* The daemon runs what the file says once nobody owes it a load, for any number
\* of threads and of faults (apply_ssh and apply_ipsec reload after every write).
\* The property is inductive by itself.
THEOREM DaemonInSync == Spec => []DaemonFollowsFile
<1>1. Init => DaemonFollowsFile
  BY DEF Init, DaemonFollowsFile
<1>2. TypeOK /\ DaemonFollowsFile /\ [Next]_vars => DaemonFollowsFile'
  <2> SUFFICES ASSUME TypeOK, DaemonFollowsFile, [Next]_vars PROVE DaemonFollowsFile'
    OBVIOUS
  <2>j. \A t \in Threads : job[t] \in Job
    BY DEF TypeOK
  \* A step that leaves its thread owing a load needs nothing else.
  <2>a. ASSUME NEW t \in Threads,
               job'[t].pc \in {"check", "reload", "truncate", "rewrite", "recheck", "recover"}
        PROVE  DaemonFollowsFile'
    BY <2>a DEF DaemonFollowsFile, Dirty
  \* A load that works settles all debts.
  <2>b. ASSUME LoadFile, file' = file PROVE DaemonFollowsFile'
    BY <2>b DEF LoadFile, DaemonFollowsFile
  \* Nor does a step matter that leaves file, daemon and debts alone.
  <2>c. ASSUME file' = file, loaded' = loaded, stale => stale',
               \A t \in Threads : Dirty(t) => (stale' \/ Dirty(t)')
        PROVE  DaemonFollowsFile'
    BY <2>c DEF DaemonFollowsFile
  <2>1. ASSUME NEW t \in Threads, NEW p \in Policies, Accept(t, p) PROVE DaemonFollowsFile'
    <3>1. \A u \in Threads : Dirty(u) => Dirty(u)'
      BY <2>1, <2>j DEF Accept, Busy, Dirty, Job
    <3>2. QED
      BY <2>1, <3>1, <2>c DEF Accept
  <2>2. ASSUME NEW t \in Threads, ReadConfig(t) PROVE DaemonFollowsFile'
    <3>1. \A u \in Threads : Dirty(u) => Dirty(u)'
      BY <2>2, <2>j DEF ReadConfig, Reply, Dirty, Job, TypeOK
    <3>2. QED
      BY <2>2, <3>1, <2>c DEF ReadConfig
  <2>3. ASSUME NEW t \in Threads, SavePrevious(t) PROVE DaemonFollowsFile'
    <3>1. \A u \in Threads : Dirty(u) => Dirty(u)'
      BY <2>3, <2>j DEF SavePrevious, Dirty, Job, TypeOK
    <3>2. QED
      BY <2>3, <3>1, <2>c DEF SavePrevious
  <2>4. ASSUME NEW t \in Threads, Replace(t) PROVE DaemonFollowsFile'
    BY <2>4, <2>j, <2>a DEF Replace, TypeOK, Job
  <2>5. ASSUME NEW t \in Threads, Check(t) PROVE DaemonFollowsFile'
    BY <2>5, <2>j, <2>a DEF Check, Goto, TypeOK, Job
  <2>6. ASSUME NEW t \in Threads, Reload(t) PROVE DaemonFollowsFile'
    <3>1. CASE LoadFile
      BY <2>6, <3>1, <2>b DEF Reload
    <3>2. CASE Goto(t, "truncate")
      BY <3>2, <2>j, <2>a DEF Goto, TypeOK, Job
    <3>3. QED
      BY <2>6, <3>1, <3>2 DEF Reload
  <2>7. ASSUME NEW t \in Threads, Truncate(t) PROVE DaemonFollowsFile'
    BY <2>7, <2>j, <2>a DEF Truncate, TypeOK, Job
  <2>8. ASSUME NEW t \in Threads, Rewrite(t) PROVE DaemonFollowsFile'
    BY <2>8, <2>j, <2>a DEF Rewrite, Goto, TypeOK, Job
  <2>9. ASSUME NEW t \in Threads, Recheck(t) PROVE DaemonFollowsFile'
    <3>1. CASE Goto(t, "recover")
      BY <3>1, <2>j, <2>a DEF Goto, TypeOK, Job
    <3>2. CASE stale' = TRUE
      BY <3>2 DEF DaemonFollowsFile
    <3>3. QED
      BY <2>9, <3>1, <3>2 DEF Recheck
  <2>10. ASSUME NEW t \in Threads, Recover(t) PROVE DaemonFollowsFile'
    <3>1. CASE LoadFile
      BY <2>10, <3>1, <2>b DEF Recover
    <3>2. CASE stale' = TRUE
      BY <3>2 DEF DaemonFollowsFile
    <3>3. QED
      BY <2>10, <3>1, <3>2 DEF Recover
  <2>11. ASSUME NEW t \in Threads, Finish(t) PROVE DaemonFollowsFile'
    <3>1. \A u \in Threads : Dirty(u) => Dirty(u)'
      BY <2>11, <2>j DEF Finish, Dirty, Job, TypeOK
    <3>2. QED
      BY <2>11, <3>1, <2>c DEF Finish
  <2>12. CASE Crash
    BY <2>12 DEF Crash, DaemonFollowsFile
  <2>13. CASE UNCHANGED vars
    BY <2>13 DEF vars, DaemonFollowsFile, Dirty
  <2>14. QED
    BY <2>1, <2>2, <2>3, <2>4, <2>5, <2>6, <2>7, <2>8, <2>9, <2>10, <2>11, <2>12, <2>13
       DEF Next, Work
<1>3. QED
  BY <1>1, <1>2, AgentTypes, PTL DEF Spec

-----------------------------------------------------------------------------

\* What is known at each step of a request that nothing overlapped.
Applied(j) == [j.origin EXCEPT !.policy = j.want]
Stage(t) ==
    /\ job[t].pc \in {"read", "save", "replace", "recheck", "recover"} => file = job[t].origin
    /\ job[t].pc \in {"save", "replace"} => job[t].base = job[t].origin.whole
    /\ job[t].pc \in {"replace", "check", "reload", "truncate", "rewrite"}
           => job[t].previous = job[t].origin
    /\ job[t].pc = "rewrite" => ~job[t].unlinked
    /\ job[t].pc \in {"check", "reload"} => file = Applied(job[t])
    /\ job[t].pc = "done" => file = IF job[t].ok THEN Applied(job[t]) ELSE job[t].origin

\* The strengthening of AllOrNothing: such a request is indeed the only one.
Undisturbed ==
    \A t \in Threads : (Busy(t) /\ job[t].alone) =>
        Stage(t) /\ \A u \in Threads \ {t} : ~Busy(u)

\* A step of thread t that keeps its own stage right disturbs nobody's.
LEMMA OwnStep ==
    ASSUME Undisturbed, NEW t \in Threads, Busy(t),
           \A u \in Threads \ {t} : job'[u].pc = job[u].pc /\ job'[u].alone = job[u].alone,
           job'[t].alone => job[t].alone,
           job[t].alone => Stage(t)'
    PROVE  Undisturbed'
<1> SUFFICES ASSUME NEW v \in Threads, Busy(v)', job'[v].alone
             PROVE  Stage(v)' /\ \A u \in Threads \ {v} : ~Busy(u)'
  BY DEF Undisturbed
<1>1. CASE v = t
  BY <1>1 DEF Undisturbed, Busy
<1>2. CASE v # t
  BY <1>2 DEF Undisturbed, Busy
<1>3. QED
  BY <1>1, <1>2

\* The strengthening is invariant.
LEMMA StaysUndisturbed == Spec => []Undisturbed
<1>1. Init => Undisturbed
  BY DEF Init, Undisturbed, Busy, IdleJob
<1>2. TypeOK /\ Undisturbed /\ [Next]_vars => Undisturbed'
  <2> SUFFICES ASSUME TypeOK, Undisturbed, [Next]_vars PROVE Undisturbed'
    OBVIOUS
  <2>j. /\ job \in [Threads -> Job] /\ file \in Content
        /\ \A t \in Threads : job[t] \in Job /\ job[t].origin \in Content
    BY DEF TypeOK, Job
  <2>s. \A t \in Threads : Busy(t) /\ job[t].alone => Stage(t)
    BY DEF Undisturbed
  <2>1. ASSUME NEW t \in Threads, NEW p \in Policies, Accept(t, p) PROVE Undisturbed'
    <3> SUFFICES ASSUME NEW v \in Threads, job'[v].alone
                 PROVE  Stage(v)' /\ \A u \in Threads \ {v} : ~Busy(u)'
      BY DEF Undisturbed
    <3>1. v = t
      BY <2>1, <2>j DEF Accept, Job
    <3>2. job'[t].pc = "read" /\ job'[t].origin = file /\ file' = file
      BY <2>1 DEF Accept, IdleJob
    <3>3. \A u \in Threads : ~Busy(u)
      BY <2>1, <3>1 DEF Accept, IdleJob
    <3>4. \A u \in Threads \ {t} : job'[u].pc = job[u].pc
      BY <2>1, <2>j DEF Accept, Job
    <3>5. QED
      BY <3>1, <3>2, <3>3, <3>4 DEF Stage, Busy
  <2>2. ASSUME NEW t \in Threads, ReadConfig(t) PROVE Undisturbed'
    <3>1. Busy(t) /\ \A u \in Threads \ {t} : job'[u] = job[u]
      BY <2>2, <2>j DEF ReadConfig, Reply, Busy
    <3>2. job'[t].alone = job[t].alone /\ job'[t].origin = job[t].origin
      BY <2>2, <2>j DEF ReadConfig, Reply, Job
    <3>3. \/ job'[t].pc = "done" /\ job'[t].ok = FALSE
          \/ job'[t].pc = "save" /\ job'[t].base = file.whole
      BY <2>2, <2>j DEF ReadConfig, Reply, Job
    <3>4. job[t].alone => Stage(t)'
      BY <2>2, <2>s, <3>1, <3>2, <3>3 DEF ReadConfig, Stage
    <3>5. QED
      BY <3>1, <3>2, <3>4, OwnStep
  <2>3. ASSUME NEW t \in Threads, SavePrevious(t) PROVE Undisturbed'
    <3>1. Busy(t) /\ \A u \in Threads \ {t} : job'[u] = job[u]
      BY <2>3, <2>j DEF SavePrevious, Busy
    <3>2. /\ job'[t].alone = job[t].alone /\ job'[t].origin = job[t].origin
          /\ job'[t].base = job[t].base
          /\ job'[t].pc = "replace" /\ job'[t].previous = file
      BY <2>3, <2>j DEF SavePrevious, Job
    <3>3. job[t].alone => Stage(t)'
      BY <2>3, <2>s, <3>1, <3>2 DEF SavePrevious, Stage
    <3>4. QED
      BY <3>1, <3>2, <3>3, OwnStep
  <2>4. ASSUME NEW t \in Threads, Replace(t) PROVE Undisturbed'
    <3>1. /\ Busy(t)
          /\ \A u \in Threads \ {t} : job'[u].pc = job[u].pc /\ job'[u].alone = job[u].alone
      BY <2>4, <2>j DEF Replace, Busy, Job
    <3>2. /\ job'[t].alone = job[t].alone /\ job'[t].origin = job[t].origin
          /\ job'[t].want = job[t].want /\ job'[t].previous = job[t].previous
          /\ job'[t].pc \in {"check", "reload"}
      BY <2>4, <2>j DEF Replace, Job
    <3>3. ASSUME job[t].alone PROVE file' = Applied(job[t])
      <4>1. job[t].base = job[t].origin.whole
        BY <2>4, <2>s, <3>1, <3>3 DEF Replace, Stage
      <4>2. QED
        BY <2>4, <2>j, <4>1 DEF Replace, Applied, Content
    <3>4. job[t].alone => Stage(t)'
      BY <2>4, <2>s, <3>1, <3>2, <3>3 DEF Replace, Stage, Applied
    <3>5. QED
      BY <3>1, <3>2, <3>4, OwnStep
  \* The steps that move the program counter only.
  <2>m. ASSUME NEW t \in Threads, NEW s \in Steps, Goto(t, s), Busy(t),
               job[t].alone => Stage(t)'
        PROVE  Undisturbed'
    <3>1. \A u \in Threads \ {t} : job'[u] = job[u]
      BY <2>m, <2>j DEF Goto
    <3>2. job'[t].alone = job[t].alone
      BY <2>m, <2>j DEF Goto, Job
    <3>3. QED
      BY <2>m, <3>1, <3>2, OwnStep
  <2>r. ASSUME NEW t \in Threads, NEW b \in BOOLEAN, Reply(t, b), Busy(t),
               job[t].alone => file' = IF b THEN Applied(job[t]) ELSE job[t].origin
        PROVE  Undisturbed'
    <3>1. \A u \in Threads \ {t} : job'[u] = job[u]
      BY <2>r, <2>j DEF Reply
    <3>2. /\ job'[t].alone = job[t].alone /\ job'[t].origin = job[t].origin
          /\ job'[t].want = job[t].want /\ job'[t].pc = "done" /\ job'[t].ok = b
      BY <2>r, <2>j DEF Reply, Job
    <3>3. job[t].alone => Stage(t)'
      BY <2>r, <3>2 DEF Stage, Applied
    <3>4. QED
      BY <2>r, <3>1, <3>2, <3>3, OwnStep
  \* What Goto changes of a job.
  <2>g. ASSUME NEW t \in Threads, NEW s \in Steps, Goto(t, s)
        PROVE  /\ job'[t].pc = s /\ job'[t].origin = job[t].origin
               /\ job'[t].want = job[t].want /\ job'[t].previous = job[t].previous
    BY <2>g, <2>j DEF Goto, Job
  <2>5. ASSUME NEW t \in Threads, Check(t) PROVE Undisturbed'
    <3>1. Busy(t) /\ job[t].pc = "check" /\ file' = file
      BY <2>5 DEF Check, Busy
    <3>2. PICK s \in {"reload", "truncate"} : Goto(t, s)
      BY <2>5 DEF Check
    <3>3. s \in Steps
      BY DEF Steps
    <3>4. job[t].alone => Stage(t)'
      BY <2>g, <2>s, <3>1, <3>2, <3>3 DEF Stage, Applied
    <3>5. QED
      BY <2>m, <3>1, <3>2, <3>3, <3>4
  <2>6. ASSUME NEW t \in Threads, Reload(t) PROVE Undisturbed'
    <3>1. Busy(t) /\ job[t].pc = "reload" /\ file' = file
      BY <2>6 DEF Reload, Busy
    <3>2. CASE Reply(t, TRUE)
      BY <2>r, <2>s, <3>1, <3>2 DEF Stage
    <3>3. CASE Goto(t, "truncate")
      <4>1. "truncate" \in Steps
        BY DEF Steps
      <4>2. job[t].alone => Stage(t)'
        BY <2>g, <2>s, <3>1, <3>3, <4>1 DEF Stage
      <4>3. QED
        BY <2>m, <3>1, <3>3, <4>1, <4>2
    <3>4. QED
      BY <2>6, <3>2, <3>3 DEF Reload
  <2>7. ASSUME NEW t \in Threads, Truncate(t) PROVE Undisturbed'
    <3>1. /\ Busy(t) /\ job[t].pc = "truncate" /\ \A u \in Threads \ {t} : job'[u] = job[u]
          /\ job'[t].pc = "rewrite" /\ ~job'[t].unlinked /\ job'[t].alone = job[t].alone
          /\ job'[t].previous = job[t].previous /\ job'[t].origin = job[t].origin
      BY <2>7, <2>j DEF Truncate, Busy, Job
    <3>2. job[t].alone => Stage(t)'
      BY <2>s, <3>1 DEF Stage
    <3>3. QED
      BY <3>1, <3>2, OwnStep
  <2>8. ASSUME NEW t \in Threads, Rewrite(t) PROVE Undisturbed'
    <3>1. /\ Busy(t) /\ job[t].pc = "rewrite"
          /\ job[t].alone => file' = job[t].previous
      BY <2>8, <2>s DEF Rewrite, Busy, Stage
    <3>2. PICK s \in {"recheck", "recover"} : Goto(t, s)
      BY <2>8 DEF Rewrite
    <3>3. s \in Steps
      BY DEF Steps
    <3>4. job[t].alone => Stage(t)'
      BY <2>g, <2>s, <3>1, <3>2, <3>3 DEF Stage
    <3>5. QED
      BY <2>m, <3>1, <3>2, <3>3, <3>4
  <2>9. ASSUME NEW t \in Threads, Recheck(t) PROVE Undisturbed'
    <3>1. Busy(t) /\ job[t].pc = "recheck" /\ file' = file
      BY <2>9 DEF Recheck, Busy
    <3>2. CASE Goto(t, "recover")
      <4>1. "recover" \in Steps
        BY DEF Steps
      <4>2. job[t].alone => Stage(t)'
        BY <2>g, <2>s, <3>1, <3>2, <4>1 DEF Stage
      <4>3. QED
        BY <2>m, <3>1, <3>2, <4>1, <4>2
    <3>3. CASE Reply(t, FALSE)
      BY <2>r, <2>s, <3>1, <3>3 DEF Stage
    <3>4. QED
      BY <2>9, <3>2, <3>3 DEF Recheck
  <2>10. ASSUME NEW t \in Threads, Recover(t) PROVE Undisturbed'
    <3>1. Busy(t) /\ job[t].pc = "recover" /\ file' = file /\ Reply(t, FALSE)
      BY <2>10 DEF Recover, Busy
    <3>2. QED
      BY <2>r, <2>s, <3>1 DEF Stage
  <2>11. ASSUME NEW t \in Threads, Finish(t) PROVE Undisturbed'
    <3>1. Busy(t) /\ \A u \in Threads \ {t} : job'[u] = job[u]
      BY <2>11, <2>j DEF Finish, Busy
    <3>2. job'[t].pc = "idle" /\ job'[t].alone = FALSE
      BY <2>11, <2>j DEF Finish, IdleJob
    <3>3. Stage(t)'
      BY <3>2 DEF Stage
    <3>4. QED
      BY <3>1, <3>2, <3>3, OwnStep
  <2>12. CASE Crash
    BY <2>12 DEF Crash, Undisturbed, Busy, IdleJob
  <2>13. CASE UNCHANGED vars
    BY <2>13 DEF vars, Undisturbed, Busy, Stage
  <2>14. QED
    BY <2>1, <2>2, <2>3, <2>4, <2>5, <2>6, <2>7, <2>8, <2>9, <2>10, <2>11, <2>12, <2>13
       DEF Next, Work
<1>3. QED
  BY <1>1, <1>2, AgentTypes, PTL DEF Spec

\* A request that nothing overlapped is all or nothing, for any number of
\* threads and whichever of its steps fail (docs/CONTAINERS.md:24-28).
THEOREM ApplyAllOrNothing == Spec => []AllOrNothing
<1>1. Undisturbed => AllOrNothing
  BY DEF Undisturbed, AllOrNothing, Stage, Busy, Applied
<1>2. QED
  BY <1>1, StaysUndisturbed, PTL

(***************************************************************************)
(* The API.                                                                *)
(***************************************************************************)
\* What concerns the handlers alone: the request of one in progress is of the
\* allow-list.
Handlers ==
    /\ call \in [Calls -> Call]
    /\ history \in Seq(Policies) /\ Len(history) <= 2
    /\ losses \in Nat
    /\ blurred \in BOOLEAN
    /\ \A c \in Calls : /\ ~Idle(c) => call[c].want \in Policies
                        /\ call[c].pc = "wait" => call[c].thread \in Threads

LEMMA IdleCallType == IdleCall \in Call /\ IdleCall.pc = "idle" /\ IdleCall.clean = FALSE
  BY DEF IdleCall, Call

\* What an UPDATE of the history leaves: its newest row is the one added.
LEMMA Recorded ==
    ASSUME NEW p \in Policies, history \in Seq(Policies), Len(history) <= 2
    PROVE  LET new == (IF Len(history) < 2 THEN history ELSE Tail(history)) \o <<p>>
           IN new \in Seq(Policies) /\ Len(new) <= 2 /\ Last(new) = p
<1> DEFINE kept == IF Len(history) < 2 THEN history ELSE Tail(history)
<1>0. Len(history) < 2 \/ Len(history) = 2
  <2>1. \A n \in Nat : n <= 2 => n < 2 \/ n = 2
    OBVIOUS
  <2>2. Len(history) \in Nat
    OBVIOUS
  <2>3. QED
    BY <2>1, <2>2, Zenon
<1>1. kept \in Seq(Policies) /\ Len(kept) \in Nat /\ Len(kept) < 2
  <2>1. CASE Len(history) < 2
    BY <2>1
  <2>2. CASE Len(history) = 2
    <3>1. history # <<>>
      <4>1. Len(<<>>) = 0 /\ 2 # 0
        OBVIOUS
      <4>2. QED
        BY <2>2, <4>1, Zenon
    <3>2. Tail(history) \in Seq(Policies) /\ Len(Tail(history)) = 1
      BY <2>2, <3>1
    <3>3. kept = Tail(history)
      BY <2>2
    <3>4. QED
      BY <3>2, <3>3
  <2>3. QED
    BY <1>0, <2>1, <2>2
<1> HIDE DEF kept
<1>2. /\ kept \o <<p>> \in Seq(Policies) /\ Len(kept \o <<p>>) = Len(kept) + 1
      /\ (kept \o <<p>>)[Len(kept) + 1] = p
  BY <1>1
<1>3. Last(kept \o <<p>>) = p
  BY <1>2 DEF Last
<1>4. QED
  BY <1>1, <1>2, <1>3 DEF kept

\* A handler that is done is idle, the others are as they were.
LEMMA Done ==
    ASSUME Handlers, NEW c \in Calls, call' = [call EXCEPT ![c] = IdleCall]
    PROVE  /\ call' \in [Calls -> Call] /\ call'[c] = IdleCall
           /\ \A d \in Calls \ {c} : call'[d] = call[d]
  BY IdleCallType DEF Handlers

LEMMA Begun ==
    ASSUME Handlers, NEW c \in Calls, NEW p \in Policies, Begin(c, p)
    PROVE  /\ call' \in [Calls -> Call]
           /\ call'[c].pc = "send" /\ call'[c].want = p /\ call'[c].clean = Quiet
           /\ \A d \in Calls \ {c} : /\ call'[d].pc = call[d].pc /\ call'[d].want = call[d].want
                                     /\ call'[d].thread = call[d].thread
                                     /\ call'[d].clean = FALSE
<1>1. Quiet \in BOOLEAN
  BY DEF Quiet
<1>2. [IdleCall EXCEPT !.pc = "send", !.want = p, !.clean = Quiet] \in Call
  BY <1>1, IdleCallType DEF Call
<1>3. call'[c] = [IdleCall EXCEPT !.pc = "send", !.want = p, !.clean = Quiet]
  BY DEF Begin
<1>4. \A d \in Calls \ {c} : call'[d] = [call[d] EXCEPT !.clean = FALSE] /\ call[d] \in Call
  BY DEF Begin, Handlers
<1>5. \A d \in Calls \ {c} : call'[d] \in Call
  BY <1>4 DEF Call
<1>6. call' \in [Calls -> Call]
  BY <1>2, <1>3, <1>5 DEF Begin
<1>7. QED
  BY <1>3, <1>4, <1>6 DEF IdleCall, Call

LEMMA Sent ==
    ASSUME Handlers, NEW c \in Calls, NEW t \in Threads,
           call' = [call EXCEPT ![c].pc = "wait", ![c].thread = t]
    PROVE  /\ call' \in [Calls -> Call]
           /\ call'[c].pc = "wait" /\ call'[c].thread = t
           /\ call'[c].want = call[c].want /\ call'[c].clean = call[c].clean
           /\ \A d \in Calls \ {c} : call'[d] = call[d]
<1>1. call[c] \in Call
  BY DEF Handlers
<1>2. [call[c] EXCEPT !.pc = "wait", !.thread = t] \in Call
  BY <1>1 DEF Call
<1>3. call' = [call EXCEPT ![c] = [call[c] EXCEPT !.pc = "wait", !.thread = t]]
  BY DEF Handlers
<1>4. QED
  BY <1>1, <1>2, <1>3 DEF Handlers, Call

LEMMA Answered ==
    ASSUME Handlers, NEW c \in Calls,
           call' = [call EXCEPT ![c].pc = "record", ![c].thread = NoThread]
    PROVE  /\ call' \in [Calls -> Call]
           /\ call'[c].pc = "record"
           /\ call'[c].want = call[c].want /\ call'[c].clean = call[c].clean
           /\ \A d \in Calls \ {c} : call'[d] = call[d]
<1>1. call[c] \in Call
  BY DEF Handlers
<1>2. [call[c] EXCEPT !.pc = "record", !.thread = NoThread] \in Call
  BY <1>1 DEF Call
<1>3. call' = [call EXCEPT ![c] = [call[c] EXCEPT !.pc = "record", !.thread = NoThread]]
  BY DEF Handlers
<1>4. QED
  BY <1>1, <1>2, <1>3 DEF Handlers, Call

\* A rollback asks for a policy of the table, which is one of the allow-list.
LEMMA Requests ==
    ASSUME Handlers, NEW c \in Calls, (\E p \in Policies : Apply(c, p)) \/ Rollback(c)
    PROVE  \E p \in Policies : Begin(c, p)
<1>1. CASE Rollback(c)
  <2>1. history[1] \in Policies
    BY <1>1 DEF Rollback, Handlers
  <2>2. QED
    BY <1>1, <2>1 DEF Rollback
<1>2. QED
  BY <1>1 DEF Apply

LEMMA HandlersStep ==
    ASSUME Handlers, [ApiNext]_allVars
    PROVE  Handlers'
<1>0. call \in [Calls -> Call] /\ \A c \in Calls : call[c] \in Call
  BY DEF Handlers
<1>1. ASSUME NEW c \in Calls, NEW p \in Policies, Begin(c, p)
      PROVE  Handlers'
  <2>1. /\ call' \in [Calls -> Call]
        /\ call'[c].pc = "send" /\ call'[c].want = p
        /\ \A d \in Calls \ {c} : /\ call'[d].pc = call[d].pc /\ call'[d].want = call[d].want
                                  /\ call'[d].thread = call[d].thread
    BY <1>1, Begun
  <2>2. UNCHANGED <<history, losses, blurred>>
    BY <1>1 DEF Begin
  <2>3. QED
    BY <2>1, <2>2 DEF Handlers, Idle
<1>2. ASSUME NEW c \in Calls, Send(c)
      PROVE  Handlers'
  <2> PICK t \in Threads : call' = [call EXCEPT ![c].pc = "wait", ![c].thread = t]
    BY <1>2 DEF Send
  <2>1. ~Idle(c) /\ UNCHANGED <<history, losses, blurred>>
    BY <1>2 DEF Send, Idle
  <2>2. /\ call' \in [Calls -> Call]
        /\ call'[c].thread = t /\ call'[c].want = call[c].want
        /\ \A d \in Calls \ {c} : call'[d] = call[d]
    BY Sent
  <2>3. QED
    BY <2>1, <2>2 DEF Handlers, Idle
<1>3. ASSUME NEW c \in Calls, Answer(c)
      PROVE  Handlers'
  <2> UNCHANGED <<history, losses>> /\ call[c].pc = "wait"
    BY <1>3 DEF Answer, Waiting
  <2>1. CASE call' = [call EXCEPT ![c].pc = "record", ![c].thread = NoThread] /\ UNCHANGED blurred
    BY <2>1, Answered DEF Handlers, Idle
  <2>2. CASE call' = [call EXCEPT ![c] = IdleCall] /\ blurred' = (blurred \/ ~call[c].clean)
    BY <2>2, Done, IdleCallType DEF Handlers, Idle
  <2>3. QED
    BY <1>3, <2>1, <2>2 DEF Answer
<1>4. ASSUME NEW c \in Calls, Record(c)
      PROVE  Handlers'
  <2>1. call[c].want \in Policies
    BY <1>4 DEF Handlers, Record, Idle
  <2>2. history' \in Seq(Policies) /\ Len(history') <= 2
    BY <1>4, <2>1, Recorded DEF Record, Handlers
  <2>3. QED
    BY <1>0, <1>4, <2>2, Done, IdleCallType DEF Handlers, Record, Idle, Call
<1>5. ASSUME NEW c \in Calls, CutShort(c) \/ Refused(c)
      PROVE  Handlers'
  <2>1. CASE CutShort(c)
    BY <1>5, <2>1, Done, IdleCallType DEF Handlers, CutShort, Idle
  <2>2. CASE Refused(c)
    BY <1>5, <2>2, Done, IdleCallType DEF Handlers, Refused, Idle
  <2>3. QED
    BY <1>5, <2>1, <2>2
<1>6. CASE AgentCrash
  <2>1. call' \in [Calls -> Call]
    BY <1>0, <1>6, IdleCallType DEF AgentCrash
  <2>2. QED
    BY <1>6, <2>1, IdleCallType DEF AgentCrash, Handlers, Idle
<1>7. CASE UNCHANGED apiVars
  BY <1>7 DEF apiVars, Handlers, Idle
<1>8. QED
  BY <1>1, <1>2, <1>3, <1>4, <1>5, <1>6, <1>7, Requests
     DEF ApiNext, AgentWork, Orphan, allVars

-----------------------------------------------------------------------------
(* The agent under the API.                                                *)

LEMMA HandlersInit == ApiInit => Handlers
<1> SUFFICES ASSUME ApiInit PROVE Handlers
  OBVIOUS
<1>1. history \in Seq(Policies) /\ Len(history) <= 2
  BY DEF ApiInit
<1>2. QED
  BY <1>1, IdleCallType DEF ApiInit, Handlers, Idle

LEMMA HandlersStay == ApiSpec => []Handlers
  BY HandlersInit, HandlersStep, PTL DEF ApiSpec

\* The handlers do to the agent only what its clients may do, whatever is cut
\* short: they send it policies of its allow-list and wait for what it answers
\* (core/host_control.py:18-58).
THEOREM ApiDrivesAgent == ApiSpec => Spec
<1>1. ApiInit => Init
  BY DEF ApiInit
<1>2. Handlers /\ [ApiNext]_allVars => [Next]_vars
  <2> SUFFICES ASSUME Handlers, [ApiNext]_allVars PROVE [Next]_vars
    OBVIOUS
  <2>1. ASSUME NEW c \in Calls, Send(c)
        PROVE  Next
    <3>1. call[c].want \in Policies
      BY <2>1 DEF Handlers, Send, Idle
    <3>2. QED
      BY <2>1, <3>1 DEF Send, Next
  <2>2. ASSUME NEW c \in Calls, Answer(c)
        PROVE  Next
    BY <2>2 DEF Answer, Next
  <2>3. ASSUME NEW t \in Threads, AgentWork(t) \/ Orphan(t)
        PROVE  Next
    BY <2>3 DEF AgentWork, Orphan, Next
  <2>4. CASE AgentCrash
    BY <2>4 DEF AgentCrash, Next
  <2>5. ASSUME NEW c \in Calls, Record(c) \/ CutShort(c) \/ Refused(c)
        PROVE  UNCHANGED vars
    BY <2>5 DEF Record, CutShort, Refused
  <2>6. ASSUME NEW c \in Calls, (\E p \in Policies : Apply(c, p)) \/ Rollback(c)
        PROVE  UNCHANGED vars
    BY <2>6 DEF Apply, Rollback, Begin
  <2>7. QED
    BY <2>1, <2>2, <2>3, <2>4, <2>5, <2>6 DEF ApiNext, allVars
<1>3. QED
  BY <1>1, <1>2, HandlersStay, PTL DEF ApiSpec, Spec

\* Types hold for any handlers, threads and faults; the table never holds a
\* policy that is not of the allow-list (ssh/policy.py:73-101).
THEOREM ApiTypes == ApiSpec => []ApiTypeOK
<1>1. Handlers /\ TypeOK => ApiTypeOK
  BY DEF Handlers, ApiTypeOK
<1>2. QED
  BY <1>1, HandlersStay, ApiDrivesAgent, AgentTypes, PTL
-----------------------------------------------------------------------------
(* The table and the file.                                                 *)

Follows(p) == (~blurred /\ history # <<>>) => Last(history) = p

\* What a handler that nothing has overlapped so far may rely on: it is the only
\* one, its thread in the agent is the only one, and the file it found is the one
\* that the newest row names.
Solo(c) ==
    /\ ~Idle(c)
    /\ \A d \in Calls \ {c} : Idle(d)
    /\ call[c].pc = "send" => (\A t \in Threads : ~Busy(t)) /\ Follows(file.policy)
    /\ call[c].pc = "wait" =>
          /\ Busy(call[c].thread) /\ job[call[c].thread].alone
          /\ job[call[c].thread].want = call[c].want
          /\ Follows(job[call[c].thread].origin.policy)
    /\ call[c].pc = "record" => (\A t \in Threads : ~Busy(t)) /\ file.policy = call[c].want

\* A thread nobody waits for has blurred what the table says of the file.
Orphans == \A t \in Threads : Busy(t) /\ (\A c \in Calls : ~Waiting(c, t)) => blurred

\* A handler that has not reached the agent yet changes nothing.
Quiescent == (\A c \in Calls : call[c].pc \in {"idle", "send"}) /\ (\A t \in Threads : ~Busy(t))
Resting == Quiescent => Follows(file.policy)

Settled ==
    /\ Resting
    /\ \A c \in Calls : call[c].clean => Solo(c)
    /\ Orphans

\* What the agent has proved of itself.
Agent == TypeOK /\ Undisturbed

LEMMA BeginSettled ==
    ASSUME Handlers, Settled, NEW c \in Calls, NEW p \in Policies, Begin(c, p)
    PROVE  Settled'
<1>1. /\ Idle(c) /\ UNCHANGED <<vars, history, blurred>>
      /\ call'[c].pc = "send" /\ call'[c].clean = Quiet
      /\ \A d \in Calls \ {c} : /\ call'[d].pc = call[d].pc /\ call'[d].thread = call[d].thread
                                /\ call'[d].clean = FALSE
  BY Begun DEF Begin
<1>2. Resting'
  <2>1. Quiescent' => Quiescent
    BY <1>1 DEF Quiescent, Idle, Busy, vars
  <2>2. QED
    BY <1>1, <2>1 DEF Settled, Resting, Follows, vars
<1>3. ASSUME Quiet PROVE Solo(c)'
  <2>1. \A t \in Threads : ~Busy(t)'
    BY <1>1, <1>3 DEF Quiet, Busy, vars
  <2>2. \A d \in Calls \ {c} : Idle(d)'
    BY <1>1, <1>3 DEF Quiet, Idle
  <2>3. Follows(file.policy)'
    BY <1>1, <1>3 DEF Settled, Resting, Quiescent, Quiet, Idle, Follows, vars
  <2>4. QED
    BY <1>1, <2>1, <2>2, <2>3 DEF Solo, Idle
<1>4. ASSUME NEW t \in Threads, \A d \in Calls : ~Waiting(d, t)'
      PROVE  \A d \in Calls : ~Waiting(d, t)
  BY <1>1, <1>4 DEF Waiting, Idle
<1>5. Orphans'
  BY <1>1, <1>4 DEF Settled, Orphans, Busy, vars
<1>6. QED
  BY <1>1, <1>2, <1>3, <1>5 DEF Settled

\* A handler in progress leaves no other one undisturbed.
LEMMA OnlyOne ==
    ASSUME Settled, NEW c \in Calls, NEW d \in Calls, ~Idle(c), call[d].clean
    PROVE  d = c /\ Solo(c)
  BY DEF Settled, Solo

LEMMA SendSettled ==
    ASSUME Handlers, Agent, Settled, NEW c \in Calls, Send(c)
    PROVE  Settled'
<1> PICK t \in Threads : /\ Accept(t, call[c].want)
                         /\ call' = [call EXCEPT ![c].pc = "wait", ![c].thread = t]
  BY DEF Send
<1>1. /\ call[c].pc = "send" /\ UNCHANGED <<file, history, blurred>>
      /\ call'[c].pc = "wait" /\ call'[c].thread = t
      /\ call'[c].want = call[c].want /\ call'[c].clean = call[c].clean
      /\ \A d \in Calls \ {c} : call'[d] = call[d]
  BY Sent DEF Send, Accept
<1>2. /\ ~Busy(t) /\ Busy(t)' /\ job'[t].want = call[c].want /\ job'[t].origin = file
      /\ (\A u \in Threads : ~Busy(u)) => job'[t].alone
      /\ \A u \in Threads \ {t} : Busy(u)' <=> Busy(u)
  <2>1. job'[t] = [IdleJob EXCEPT !.pc = "read", !.want = call[c].want, !.origin = file,
                                  !.alone = \A v \in Threads : ~Busy(v)]
    BY DEF Accept
  <2>2. \A u \in Threads \ {t} : job'[u] = [job[u] EXCEPT !.alone = FALSE] /\ job[u] \in Job
    BY DEF Accept, Agent, TypeOK
  <2>3. \A u \in Threads \ {t} : job'[u].pc = job[u].pc
    BY <2>2 DEF Job
  <2>4. QED
    BY <2>1, <2>3 DEF IdleJob, Accept, Busy
<1>3. Resting' /\ ~Idle(c)
  BY <1>1, <1>2 DEF Resting, Quiescent, Idle
<1>4. ASSUME NEW d \in Calls, call'[d].clean PROVE Solo(d)'
  <2>1. d = c /\ Solo(c)
    BY <1>1, <1>3, <1>4, OnlyOne
  <2>2. (\A u \in Threads : ~Busy(u)) /\ Follows(file.policy)
    BY <1>1, <2>1 DEF Solo
  <2>3. \A e \in Calls \ {c} : Idle(e)'
    BY <1>1, <2>1 DEF Solo, Idle
  <2>4. Follows(job[t].origin.policy)'
    BY <1>1, <1>2, <2>2 DEF Follows
  <2>5. Busy(t)' /\ job'[t].alone /\ job'[t].want = call'[c].want
    BY <1>1, <1>2, <2>2
  <2>6. Solo(c)'
    BY <1>1, <2>3, <2>4, <2>5 DEF Solo, Idle
  <2>7. QED
    BY <2>1, <2>6
<1>5. ASSUME NEW u \in Threads, Busy(u)', \A d \in Calls : ~Waiting(d, u)'
      PROVE  blurred'
  <2>1. u # t
    BY <1>1, <1>5 DEF Waiting
  <2>2. \A d \in Calls : ~Waiting(d, u)
    BY <1>1, <1>5 DEF Waiting
  <2>3. QED
    BY <1>1, <1>2, <1>5, <2>1, <2>2 DEF Settled, Orphans
<1>6. QED
  BY <1>3, <1>4, <1>5 DEF Settled, Orphans

\* What an answer tells of the file, to a handler that nothing overlapped.
LEMMA AnswerFound ==
    ASSUME Handlers, Agent, Settled, NEW c \in Calls, NEW t \in Threads,
           Waiting(c, t), job[t].pc = "done", call[c].clean
    PROVE  /\ Solo(c) /\ \A u \in Threads \ {t} : ~Busy(u)
           /\ job[t].ok => file.policy = call[c].want
           /\ ~job[t].ok => Follows(file.policy)
<1>1. Solo(c)
  BY DEF Settled
<1>2. /\ Busy(t) /\ job[t].alone /\ job[t].want = call[c].want
      /\ Follows(job[t].origin.policy)
  BY <1>1 DEF Solo, Waiting
<1>3. Stage(t) /\ \A u \in Threads \ {t} : ~Busy(u)
  BY <1>2 DEF Agent, Undisturbed
<1>4. file = IF job[t].ok THEN Applied(job[t]) ELSE job[t].origin
  BY <1>3 DEF Stage
<1>5. job[t].origin \in Content
  BY DEF Agent, TypeOK, Job
<1>6. Applied(job[t]).policy = job[t].want
  BY <1>5 DEF Applied, Content
<1>7. job[t].ok => file.policy = call[c].want
  BY <1>2, <1>4, <1>6
<1>8. ~job[t].ok => Follows(file.policy)
  BY <1>2, <1>4
<1>9. QED
  BY <1>1, <1>3, <1>7, <1>8

LEMMA AnswerSettled ==
    ASSUME Handlers, Agent, Settled, NEW c \in Calls, Answer(c)
    PROVE  Settled'
<1> PICK t \in Threads :
      /\ Waiting(c, t) /\ Finish(t)
      /\ IF job[t].ok
         THEN /\ call' = [call EXCEPT ![c].pc = "record", ![c].thread = NoThread]
              /\ UNCHANGED blurred
         ELSE /\ call' = [call EXCEPT ![c] = IdleCall]
              /\ blurred' = (blurred \/ ~call[c].clean)
  BY DEF Answer
<1>1. /\ UNCHANGED <<file, history>> /\ call[c].pc = "wait" /\ job[t].pc = "done"
      /\ ~Idle(c) /\ (blurred => blurred')
  BY DEF Answer, Finish, Waiting, Idle
<1>2. ~Busy(t)' /\ \A u \in Threads \ {t} : job'[u] = job[u] /\ (Busy(u)' <=> Busy(u))
  BY DEF Finish, Agent, TypeOK, Busy, IdleJob
<1>3. /\ call'[c].pc # "wait"
      /\ \A d \in Calls \ {c} : call'[d] = call[d]
  <2>1. CASE job[t].ok
    BY <2>1, Answered
  <2>2. CASE ~job[t].ok
    BY <2>2, Done, IdleCallType
  <2>3. QED
    BY <2>1, <2>2
<1>4. Orphans'
  <2> SUFFICES ASSUME NEW u \in Threads, Busy(u)', \A d \in Calls : ~Waiting(d, u)'
               PROVE  blurred
    BY <1>1 DEF Orphans
  <2>1. u # t
    BY <1>2
  <2>2. \A d \in Calls : ~Waiting(d, u)
    BY <1>3, <2>1 DEF Waiting
  <2>3. QED
    BY <1>2, <2>1, <2>2 DEF Settled, Orphans
<1>5. CASE job[t].ok
  <2>1. call'[c].pc = "record" /\ call'[c].want = call[c].want /\ call'[c].clean = call[c].clean
    BY <1>5, Answered
  <2>2. Resting'
    BY <2>1 DEF Resting, Quiescent
  <2>3. ASSUME NEW d \in Calls, call'[d].clean PROVE Solo(d)'
    <3>1. d = c /\ Solo(c) /\ call[c].clean
      BY <1>1, <1>3, <2>1, <2>3, OnlyOne
    <3>2. (\A u \in Threads \ {t} : ~Busy(u)) /\ file.policy = call[c].want
      BY <1>1, <1>5, <3>1, AnswerFound
    <3>3. \A u \in Threads : ~Busy(u)'
      BY <1>2, <3>2
    <3>4. \A e \in Calls \ {c} : Idle(e)'
      BY <1>3, <3>1 DEF Solo, Idle
    <3>5. QED
      BY <1>1, <2>1, <3>1, <3>2, <3>3, <3>4 DEF Solo, Idle
  <2>4. QED
    BY <1>4, <2>2, <2>3 DEF Settled
<1>6. CASE ~job[t].ok
  <2>1. call'[c] = IdleCall /\ blurred' = (blurred \/ ~call[c].clean)
    BY <1>6, Done
  <2>2. \A d \in Calls : ~call'[d].clean
    BY <1>1, <1>3, <2>1, OnlyOne, IdleCallType
  <2>3. ASSUME ~blurred', history # <<>> PROVE Last(history) = file.policy
    BY <1>1, <1>6, <2>1, <2>3, AnswerFound DEF Follows
  <2>4. QED
    BY <1>1, <1>4, <2>2, <2>3 DEF Settled, Resting, Follows
<1>7. QED
  BY <1>5, <1>6

LEMMA RecordSettled ==
    ASSUME Handlers, Settled, NEW c \in Calls, Record(c)
    PROVE  Settled'
<1>1. /\ call[c].pc = "record" /\ ~Idle(c) /\ blurred' = ~call[c].clean
      /\ UNCHANGED <<file, job>>
      /\ call'[c] = IdleCall /\ \A d \in Calls \ {c} : call'[d] = call[d]
  BY Done DEF Record, Idle, vars
<1>2. Last(history') = call[c].want
  <2>1. call[c].want \in Policies
    BY <1>1 DEF Handlers
  <2>2. QED
    BY <2>1, Recorded DEF Record, Handlers
<1>3. call[c].clean => (\A t \in Threads : ~Busy(t)) /\ file.policy = call[c].want
  BY <1>1 DEF Settled, Solo
<1>4. Resting'
  BY <1>1, <1>2, <1>3 DEF Resting, Follows
<1>5. \A d \in Calls : ~call'[d].clean
  BY <1>1, OnlyOne, IdleCallType
<1>6. Orphans'
  BY <1>1, <1>3 DEF Orphans, Busy
<1>7. QED
  BY <1>4, <1>5, <1>6 DEF Settled

LEMMA CutShortSettled ==
    ASSUME Handlers, Settled, NEW c \in Calls, CutShort(c)
    PROVE  Settled'
<1>1. /\ ~Idle(c) /\ blurred'
      /\ call'[c] = IdleCall /\ \A d \in Calls \ {c} : call'[d] = call[d]
  BY Done DEF CutShort, Idle
<1>2. \A d \in Calls : ~call'[d].clean
  BY <1>1, OnlyOne, IdleCallType
<1>3. QED
  BY <1>1, <1>2 DEF Settled, Resting, Follows, Orphans

LEMMA RefusedSettled ==
    ASSUME Handlers, Settled, NEW c \in Calls, Refused(c)
    PROVE  Settled'
<1>1. /\ call[c].pc = "send" /\ ~Idle(c) /\ UNCHANGED <<vars, history, blurred>>
      /\ call'[c] = IdleCall /\ \A d \in Calls \ {c} : call'[d] = call[d]
  BY Done DEF Refused, Idle
<1>2. \A d \in Calls : ~call'[d].clean
  BY <1>1, OnlyOne, IdleCallType
<1>3. Resting'
  <2>1. Quiescent' => Quiescent
    BY <1>1 DEF Quiescent, Busy, vars
  <2>2. QED
    BY <1>1, <2>1 DEF Settled, Resting, Follows, vars
<1>4. ASSUME NEW t \in Threads, \A d \in Calls : ~Waiting(d, t)'
      PROVE  \A d \in Calls : ~Waiting(d, t)
  BY <1>1, <1>4 DEF Waiting
<1>5. QED
  BY <1>1, <1>2, <1>3, <1>4 DEF Settled, Orphans, Busy, vars

\* A thread at work keeps its request and stays at work.
LEMMA WorkFrame ==
    ASSUME TypeOK, NEW t \in Threads, Work(t)
    PROVE  /\ Busy(t) /\ Busy(t)'
           /\ job'[t].want = job[t].want /\ job'[t].origin = job[t].origin
           /\ job'[t].alone = job[t].alone
           /\ \A u \in Threads \ {t} :
                 /\ Busy(u)' <=> Busy(u)
                 /\ job'[u].want = job[u].want /\ job'[u].origin = job[u].origin
                 /\ job'[u].alone = job[u].alone
<1>0. job \in [Threads -> Job] /\ job[t] \in Job
  BY DEF TypeOK
<1> DEFINE Same == /\ job'[t].want = job[t].want /\ job'[t].origin = job[t].origin
                   /\ job'[t].alone = job[t].alone
                   /\ \A u \in Threads \ {t} :
                         /\ Busy(u)' <=> Busy(u)
                         /\ job'[u].want = job[u].want /\ job'[u].origin = job[u].origin
                         /\ job'[u].alone = job[u].alone
<1>1. ASSUME NEW s \in Steps \ {"idle"}, Goto(t, s) PROVE Busy(t)' /\ Same
  BY <1>0, <1>1 DEF Goto, Job, Busy
<1>2. ASSUME NEW ok \in BOOLEAN, Reply(t, ok) PROVE Busy(t)' /\ Same
  BY <1>0, <1>2 DEF Reply, Job, Busy
<1>3. CASE ReadConfig(t)
  <2>1. CASE Reply(t, FALSE)
    BY <1>2, <1>3, <2>1 DEF ReadConfig, Busy
  <2>2. CASE job' = [job EXCEPT ![t].pc = "save", ![t].base = file.whole]
    BY <1>0, <1>3, <2>2 DEF ReadConfig, Job, Busy
  <2>3. QED
    BY <1>3, <2>1, <2>2 DEF ReadConfig
<1>4. CASE SavePrevious(t)
  BY <1>0, <1>4 DEF SavePrevious, Job, Busy
<1>5. CASE Check(t) \/ Rewrite(t)
  <2>1. PICK s \in {"reload", "truncate", "recheck", "recover"} : Goto(t, s)
    BY <1>5 DEF Check, Rewrite
  <2>2. s \in Steps \ {"idle"}
    BY DEF Steps
  <2>3. QED
    BY <1>1, <1>5, <2>1, <2>2 DEF Check, Rewrite, Busy
<1>6. CASE Truncate(t)
  BY <1>0, <1>6 DEF Truncate, Job, Busy
<1>7. CASE Replace(t)
  <2>1. /\ job'[t] = [job[t] EXCEPT !.pc = IF Daemon = "ssh" THEN "check" ELSE "reload"]
        /\ \A u \in Threads \ {t} : \/ job'[u] = job[u]
                                    \/ job'[u] = [job[u] EXCEPT !.unlinked = TRUE]
        /\ job[t].pc = "replace"
    BY <1>0, <1>7 DEF Replace
  <2>2. /\ job'[t].pc # "idle" /\ job'[t].want = job[t].want
        /\ job'[t].origin = job[t].origin /\ job'[t].alone = job[t].alone
    BY <1>0, <2>1 DEF Job
  <2>3. ASSUME NEW u \in Threads \ {t}
        PROVE  /\ job'[u].pc = job[u].pc /\ job'[u].want = job[u].want
               /\ job'[u].origin = job[u].origin /\ job'[u].alone = job[u].alone
    <3>1. CASE job'[u] = job[u]
      BY <3>1
    <3>2. CASE job'[u] = [job[u] EXCEPT !.unlinked = TRUE]
      BY <1>0, <2>3, <3>2 DEF Job
    <3>3. QED
      BY <2>1, <2>3, <3>1, <3>2
  <2>4. QED
    BY <2>1, <2>2, <2>3 DEF Busy
<1>8. CASE Reload(t) \/ Recheck(t) \/ Recover(t)
  <2>1. Busy(t)
    BY <1>8 DEF Reload, Recheck, Recover, Busy
  <2>2. (\E s \in {"truncate", "recover"} : Goto(t, s)) \/ (\E ok \in BOOLEAN : Reply(t, ok))
    BY <1>8 DEF Reload, Recheck, Recover
  <2>3. {"truncate", "recover"} \subseteq Steps \ {"idle"}
    BY DEF Steps
  <2>4. QED
    BY <1>1, <1>2, <2>1, <2>2, <2>3
<1>9. QED
  BY <1>3, <1>4, <1>5, <1>6, <1>7, <1>8 DEF Work

LEMMA WorkSettled ==
    ASSUME Handlers, Agent, Settled, NEW t \in Threads, AgentWork(t)
    PROVE  Settled'
<1>1. /\ Busy(t) /\ Busy(t)'
      /\ job'[t].want = job[t].want /\ job'[t].origin = job[t].origin
      /\ job'[t].alone = job[t].alone
      /\ \A u \in Threads \ {t} :
            /\ Busy(u)' <=> Busy(u)
            /\ job'[u].want = job[u].want /\ job'[u].origin = job[u].origin
            /\ job'[u].alone = job[u].alone
      /\ UNCHANGED <<call, history, blurred>>
  BY WorkFrame DEF AgentWork, Agent, apiVars
<1>2. Resting'
  BY <1>1 DEF Resting, Quiescent
<1>3. \A u \in Threads : /\ Busy(u)' <=> Busy(u)
                         /\ job'[u].want = job[u].want /\ job'[u].alone = job[u].alone
                         /\ job'[u].origin = job[u].origin
  BY <1>1
<1>4. ASSUME NEW c \in Calls, call'[c].clean PROVE Solo(c)'
  <2>1. Solo(c) /\ call'[c] = call[c]
    BY <1>1, <1>4 DEF Settled
  <2>2. call[c].pc = "wait"
    <3>1. call[c].pc \in {"idle", "send", "wait", "record"}
      BY DEF Handlers, Call
    <3>2. QED
      BY <1>1, <2>1, <3>1 DEF Solo, Idle
  <2>3. call[c].thread \in Threads
    BY <2>2 DEF Handlers
  <2>4. \A p : Follows(p)' <=> Follows(p)
    BY <1>1 DEF Follows
  <2>5. QED
    BY <1>1, <1>3, <2>1, <2>2, <2>3, <2>4 DEF Solo, Idle
<1>5. Orphans'
  BY <1>1, <1>3 DEF Settled, Orphans, Waiting
<1>6. QED
  BY <1>2, <1>4, <1>5 DEF Settled

LEMMA OrphanSettled ==
    ASSUME Handlers, Agent, Settled, NEW t \in Threads, Orphan(t)
    PROVE  Settled'
<1>1. /\ UNCHANGED <<file, call, history, blurred>> /\ Busy(t)
      /\ \A c \in Calls : ~Waiting(c, t)
      /\ ~Busy(t)' /\ \A u \in Threads \ {t} : job'[u] = job[u]
  BY DEF Orphan, Finish, Agent, TypeOK, Busy, IdleJob, apiVars
<1>2. blurred /\ blurred'
  BY <1>1 DEF Settled, Orphans
<1>3. ASSUME NEW c \in Calls, call'[c].clean PROVE Solo(c)'
  <2>1. Solo(c) /\ call'[c] = call[c]
    BY <1>1, <1>3 DEF Settled
  <2>2. CASE call[c].pc = "wait"
    <3>1. call[c].thread \in Threads \ {t}
      BY <1>1, <2>2 DEF Handlers, Waiting
    <3>2. QED
      BY <1>1, <1>2, <2>1, <2>2, <3>1 DEF Solo, Idle, Follows, Busy
  <2>3. CASE call[c].pc # "wait"
    <3>1. \A u \in Threads : ~Busy(u) => ~Busy(u)'
      BY <1>1 DEF Busy
    <3>2. QED
      BY <1>1, <1>2, <2>1, <2>3, <3>1 DEF Solo, Idle, Follows
  <2>4. QED
    BY <2>2, <2>3
<1>4. QED
  BY <1>2, <1>3 DEF Settled, Resting, Follows, Orphans

LEMMA CrashSettled ==
    ASSUME Handlers, Settled, AgentCrash
    PROVE  Settled'
<1>1. /\ blurred' /\ UNCHANGED file /\ \A t \in Threads : ~Busy(t)'
      /\ \A c \in Calls : call'[c] = IF call[c].pc = "wait" THEN IdleCall ELSE call[c]
  BY DEF AgentCrash, Crash, Busy, IdleJob
<1>2. ASSUME NEW c \in Calls, call'[c].clean PROVE Solo(c)'
  <2>1. call[c].pc # "wait" /\ call'[c] = call[c]
    BY <1>1, <1>2, IdleCallType
  <2>2. Solo(c)
    BY <1>2, <2>1 DEF Settled
  <2>3. \A d \in Calls \ {c} : Idle(d)'
    BY <1>1, <2>2, IdleCallType DEF Solo, Idle
  <2>4. QED
    BY <1>1, <2>1, <2>2, <2>3 DEF Solo, Idle, Follows
<1>3. QED
  BY <1>1, <1>2 DEF Settled, Resting, Follows, Orphans

\* However handlers, threads of the agent, lost answers and crashes interleave,
\* when all is quiet the newest row names the policy in the file, unless the last
\* call that may have changed it was cut short or overlapped (ssh/policy.py:73-150).
THEOREM HistoryFollows == ApiSpec => []HistoryFollowsFile
<1>1. ApiInit => Settled
  BY IdleCallType DEF ApiInit, Init, Settled, Resting, Follows, Orphans, Busy, IdleJob
<1>2. Handlers /\ Agent /\ Settled /\ [ApiNext]_allVars => Settled'
  <2> SUFFICES ASSUME Handlers, Agent, Settled, [ApiNext]_allVars PROVE Settled'
    OBVIOUS
  <2>1. CASE UNCHANGED allVars
    BY <2>1 DEF allVars, apiVars, vars, Settled, Resting, Quiescent, Solo, Orphans,
                Follows, Idle, Busy, Waiting
  <2>2. QED
    BY <2>1, Requests, BeginSettled, SendSettled, AnswerSettled, RecordSettled, CutShortSettled,
       RefusedSettled, WorkSettled, OrphanSettled, CrashSettled DEF ApiNext
<1>3. ApiSpec => []Agent
  BY ApiDrivesAgent, AgentTypes, StaysUndisturbed, PTL DEF Agent
<1>4. Settled => HistoryFollowsFile
  BY DEF Settled, HistoryFollowsFile, Resting, Quiescent, Quiet, Idle, Follows
<1>5. QED
  BY <1>1, <1>2, <1>3, <1>4, HandlersStay, PTL DEF ApiSpec
=============================================================================
