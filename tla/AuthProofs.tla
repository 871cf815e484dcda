----------------------------- MODULE AuthProofs -----------------------------
(* Proofs about what stands around the accounts: the throttle in front of  *)
(* /login, the certificate authority and the connection pool, for any      *)
(* limits, any number of requests and any pool.  Accounts and keys have    *)
(* theirs in AccessProofs; the last part puts the four together.           *)
EXTENDS MCAuth, AccessProofs, FiniteSetTheorems, WellFoundedInduction, TLAPS

-----------------------------------------------------------------------------
(* RateLimit: how many attempts a store lets through.                      *)

(***************************************************************************)
(* The inductive invariant: a store has counted whatever it has admitted,  *)
(* and of what it has counted it admits no more than the limit.            *)
(***************************************************************************)
Covered ==
    /\ used["redis"] <= counter.count
    /\ used["postgres"] <= row.attempts
Budget == ThrottleTypeOK /\ Covered /\ LimitPerWindow

Remembered == [by: Stores \cup {"nobody"}, due: Nat]

LEMMA PlusCounts ==
    ASSUME NEW count \in 0..Limit + 1, NEW n \in {1, 2}
    PROVE  /\ Plus(count, n) \in 1..Limit + 1
           /\ Plus(count, n) <= Limit => Plus(count, n) = count + n
  BY Limits_Assumption DEF Plus

LEMMA PhaseNames ==
    {"verify", "refused", "upsert", "block", "incr", "expire", "setex", "forget", "delete"}
        \subseteq Phases
  BY DEF Phases

LEMMA StepAttempt ==
    ASSUME call \in [Attempts -> Attempt], NEW r \in Attempts, NEW step \in Phases,
           Goto(r, step)
    PROVE  call' \in [Attempts -> Attempt]
  BY DEF Goto, Attempt

LEMMA EndAttempt ==
    ASSUME call \in [Attempts -> Attempt], NEW r \in Attempts
    PROVE  [call EXCEPT ![r] = NoAttempt] \in [Attempts -> Attempt]
  BY DEF Attempt, NoAttempt, Phases

LEMMA RefuseAttempt ==
    ASSUME call \in [Attempts -> Attempt], NEW r \in Attempts,
           NEW store \in Stores, NEW wait \in Nat, Refuse(r, store, wait)
    PROVE  call' \in [Attempts -> Attempt]
<1> DEFINE new == [call[r] EXCEPT !.pc = "refused", !.by = store, !.wait = wait]
<1>1. new \in Attempt
  <2>1. call[r] \in Attempt /\ "refused" \in Phases /\ store \in Stores \cup {"nobody"}
    BY DEF Phases
  <2> QED
    BY <2>1 DEF Attempt
<1>2. call' = [call EXCEPT ![r] = new]
  BY DEF Refuse
<1> QED
  BY <1>1, <1>2

LEMMA PassAttempt ==
    ASSUME call \in [Attempts -> Attempt], NEW r \in Attempts, Pass(r)
    PROVE  call' \in [Attempts -> Attempt]
  BY DEF Pass, Attempt, NoAttempt, Phases

LEMMA JudgeAttempt ==
    ASSUME call \in [Attempts -> Attempt], NEW r \in Attempts,
           NEW over \in BOOLEAN, NEW ttl \in Nat, Judge(r, over, ttl)
    PROVE  call' \in [Attempts -> Attempt]
<1>1. CASE ~over
  BY <1>1, PassAttempt DEF Judge
<1>2. CASE over /\ Lockout > 0
  BY <1>2, StepAttempt, PhaseNames DEF Judge
<1>3. CASE over /\ ~(Lockout > 0)
  BY <1>3, RefuseAttempt DEF Judge, Stores
<1> QED
  BY <1>1, <1>2, <1>3

(***************************************************************************)
(* One step.                                                               *)
(***************************************************************************)
\* A step that leaves both stores alone disturbs nothing but the types of the rest.
LEMMA Elsewhere ==
    ASSUME Budget, UNCHANGED <<counter, row, used>>,
           lock' \in 0..Lockout, call' \in [Attempts -> Attempt], promise' \in Remembered
    PROVE  Budget'
  BY DEF Budget, Covered, LimitPerWindow, ThrottleTypeOK, Remembered

LEMMA CountInRedis ==
    ASSUME Budget, NEW r \in Attempts, call[r].pc = "incr", NEW n \in {1, 2},
           CountIn(r, n, Plus(counter.count, n)), UNCHANGED <<lock, row, promise>>
    PROVE  Budget'
<1> DEFINE count == Plus(counter.count, n)
<1>1. /\ counter \in [count: 0..Limit + 1, ttl: 0..Window]
      /\ used \in [Stores -> Nat] /\ call \in [Attempts -> Attempt]
      /\ Limit \in Nat /\ Window \in Nat
  BY Limits_Assumption DEF Budget, ThrottleTypeOK
<1>2. count \in 1..Limit + 1 /\ (count <= Limit => count = counter.count + n)
  BY <1>1, PlusCounts
<1>3. counter' = [counter EXCEPT !.count = count]
  BY DEF CountIn
<1>4. /\ counter' \in [count: 0..Limit + 1, ttl: 0..Window]
      /\ counter'.count = count
      /\ counter'.count = 0 => counter'.ttl = 0
  BY <1>1, <1>2, <1>3
<1>5. call' \in [Attempts -> Attempt]
  <2>1. CASE counter.ttl = NoEnd
    <3>1. call' = [call EXCEPT ![r].pc = "expire", ![r].over = count > Limit]
      BY <2>1 DEF CountIn
    <3>2. (count > Limit) \in BOOLEAN /\ "expire" \in Phases
      BY PhaseNames
    <3>3. [call[r] EXCEPT !.pc = "expire", !.over = count > Limit] \in Attempt
      <4> DEFINE over == count > Limit
      <4>1. call[r] \in Attempt /\ over \in BOOLEAN /\ "expire" \in Phases
        BY <1>1, <3>2
      <4> HIDE DEF over
      <4>2. [call[r] EXCEPT !.pc = "expire", !.over = over] \in Attempt
        BY <4>1 DEF Attempt
      <4> QED
        BY <4>2 DEF over
    <3>4. call' = [call EXCEPT ![r] = [call[r] EXCEPT !.pc = "expire", !.over = count > Limit]]
      BY <3>1
    <3> HIDE DEF count
    <3> QED
      BY <1>1, <3>3, <3>4
  <2>2. CASE counter.ttl # NoEnd
    <3>1. Judge(r, count > Limit, counter.ttl)
      BY <2>2 DEF CountIn
    <3>2. counter.ttl \in Nat /\ (count > Limit) \in BOOLEAN
      BY <1>1
    <3> QED
      BY <1>1, <3>1, <3>2, JudgeAttempt
  <2> QED
    BY <2>1, <2>2
<1>6. /\ used' \in [Stores -> Nat]
      /\ used'["redis"] <= count /\ used'["redis"] <= Limit
      /\ used'["postgres"] = used["postgres"]
  <2>1. CASE count > Limit
    <3>1. Renew("redis", counter.count = 0)
      BY <2>1 DEF CountIn
    <3> QED
      BY <1>1, <1>2, <3>1, <2>1 DEF Renew, Stores, Budget, Covered, LimitPerWindow
  <2>2. CASE ~(count > Limit)
    <3>1. Admit("redis", counter.count = 0)
      BY <2>2 DEF CountIn
    <3> QED
      BY <1>1, <1>2, <3>1, <2>2 DEF Admit, Stores, Budget, Covered, LimitPerWindow
  <2> QED
    BY <2>1, <2>2
<1>7. Covered' /\ LimitPerWindow'
  BY <1>4, <1>6 DEF Budget, Covered, LimitPerWindow, Stores
<1> QED
  BY <1>4, <1>5, <1>6, <1>7 DEF Budget, ThrottleTypeOK

LEMMA CountInPostgres ==
    ASSUME Budget, NEW r \in Attempts, Upsert(r)
    PROVE  Budget'
<1> DEFINE fresh == row.attempts = 0 \/ row.age > Window
           next == IF fresh THEN [row EXCEPT !.attempts = 1, !.age = 0]
                            ELSE [row EXCEPT !.attempts = Plus(@, 1)]
           admitted == row.blocked = 0 /\ next.attempts <= Limit
<1>1. /\ row \in [attempts: 0..Limit + 1, age: 0..Window + 1, blocked: 0..Lockout]
      /\ used \in [Stores -> Nat] /\ call \in [Attempts -> Attempt]
      /\ Limit \in Nat \ {0} /\ Window \in Nat /\ Lockout \in Nat
  BY Limits_Assumption DEF Budget, ThrottleTypeOK
<1>2. Plus(row.attempts, 1) \in 1..Limit + 1
      /\ (Plus(row.attempts, 1) <= Limit => Plus(row.attempts, 1) = row.attempts + 1)
  BY <1>1, PlusCounts
<1>3. /\ row' = next
      /\ IF admitted THEN Admit("postgres", fresh) ELSE Renew("postgres", fresh)
      /\ CASE row.blocked > 0 -> Refuse(r, "postgres", row.blocked)
           [] admitted -> Pass(r)
           [] row.blocked = 0 /\ ~admitted ->
                 IF Lockout > 0 THEN Goto(r, "block") ELSE Refuse(r, "postgres", Window)
  BY DEF Upsert
<1>4. /\ next \in [attempts: 0..Limit + 1, age: 0..Window + 1, blocked: 0..Lockout]
      /\ next.attempts = IF fresh THEN 1 ELSE Plus(row.attempts, 1)
  <2>1. CASE fresh
    <3>1. next = [row EXCEPT !.attempts = 1, !.age = 0]
      BY <2>1
    <3>2. 1 \in 0..Limit + 1 /\ 0 \in 0..Window + 1
      BY <1>1
    <3> HIDE DEF next, fresh
    <3> QED
      BY <1>1, <2>1, <3>1, <3>2
  <2>2. CASE ~fresh
    BY <1>1, <1>2, <2>2
  <2> QED
    BY <2>1, <2>2
<1>5. admitted => row.blocked = 0
  OBVIOUS
<1> HIDE DEF next, fresh
<1>6. call' \in [Attempts -> Attempt]
  <2>1. CASE row.blocked > 0
    <3>1. Refuse(r, "postgres", row.blocked)
      <4>1. row.blocked # 0
        BY <1>1, <2>1
      <4> HIDE DEF admitted
      <4> QED
        BY <1>3, <1>5, <2>1, <4>1
    <3> QED
      BY <1>1, <3>1, RefuseAttempt DEF Stores
  <2>2. CASE row.blocked = 0 /\ admitted
    <3>1. Pass(r)
      BY <1>1, <1>3, <2>2
    <3> QED
      BY <1>1, <3>1, PassAttempt
  <2>3. CASE row.blocked = 0 /\ ~admitted
    <3>1. Goto(r, "block") \/ Refuse(r, "postgres", Window)
      <4>1. ~(row.blocked > 0)
        BY <2>3
      <4> HIDE DEF admitted
      <4> QED
        BY <1>3, <2>3, <4>1
    <3> QED
      BY <1>1, <3>1, RefuseAttempt, StepAttempt, PhaseNames DEF Stores
  <2> QED
    BY <1>1, <2>1, <2>2, <2>3
<1>7. /\ used' \in [Stores -> Nat]
      /\ used'["postgres"] <= row'.attempts /\ used'["postgres"] <= Limit
      /\ used'["redis"] = used["redis"]
  <2>1. CASE ~admitted
    BY <1>1, <1>2, <1>3, <1>4, <2>1 DEF fresh, Renew, Stores, Budget, Covered, LimitPerWindow
  <2>2. CASE admitted
    BY <1>1, <1>2, <1>3, <1>4, <2>2 DEF fresh, Admit, Stores, Budget, Covered, LimitPerWindow
  <2> QED
    BY <2>1, <2>2
<1>8. UNCHANGED <<counter, lock, promise>>
  BY DEF Upsert
<1>9. Covered' /\ LimitPerWindow'
  BY <1>7, <1>8 DEF Budget, Covered, LimitPerWindow, Stores
<1> QED
  BY <1>3, <1>4, <1>6, <1>7, <1>8, <1>9 DEF Budget, ThrottleTypeOK

LEMMA HandlerKeepsBudget ==
    ASSUME Budget, NEW r \in Attempts, Handle(r)
    PROVE  Budget'
<1> USE DEF Budget
<1>0. /\ call \in [Attempts -> Attempt] /\ promise \in Remembered /\ lock \in 0..Lockout
      /\ counter \in [count: 0..Limit + 1, ttl: 0..Window]
      /\ used \in [Stores -> Nat]
      /\ Limit \in Nat /\ Window \in Nat \ {0} /\ Lockout \in Nat
  BY Limits_Assumption DEF ThrottleTypeOK, Remembered
<1>1. CASE RedisFails(r)
  BY <1>0, <1>1, StepAttempt, PhaseNames, Elsewhere DEF RedisFails
<1>2. CASE ReadLock(r)
  <2>1. call' \in [Attempts -> Attempt]
    <3>1. CASE lock > 0
      BY <1>0, <1>2, <3>1, RefuseAttempt DEF ReadLock, Stores
    <3>2. CASE ~(lock > 0)
      BY <1>0, <1>2, <3>2, StepAttempt, PhaseNames DEF ReadLock
    <3> QED
      BY <3>1, <3>2
  <2> QED
    BY <1>0, <1>2, <2>1, Elsewhere DEF ReadLock
<1>3. CASE Incr(r)
  BY <1>3, CountInRedis DEF Incr
<1>4. CASE IncrLost(r)
  <2>1. /\ call' \in [Attempts -> Attempt]
        /\ counter' = [counter EXCEPT !.count = Plus(counter.count, 1)]
        /\ Renew("redis", counter.count = 0)
        /\ UNCHANGED <<lock, row, promise>>
    BY <1>0, <1>4, StepAttempt, PhaseNames DEF IncrLost
  <2>2. /\ Plus(counter.count, 1) \in 1..Limit + 1
        /\ Plus(counter.count, 1) <= Limit => Plus(counter.count, 1) = counter.count + 1
    BY <1>0, PlusCounts
  <2>3. /\ counter' \in [count: 0..Limit + 1, ttl: 0..Window]
        /\ counter'.count = Plus(counter.count, 1) /\ counter'.count # 0
    BY <1>0, <2>1, <2>2
  <2>4. /\ used' \in [Stores -> Nat]
        /\ used'["redis"] <= counter'.count /\ used'["redis"] <= Limit
        /\ used'["postgres"] = used["postgres"]
    BY <1>0, <2>1, <2>2, <2>3 DEF Renew, Stores, Covered, LimitPerWindow
  <2> QED
    BY <2>1, <2>3, <2>4 DEF ThrottleTypeOK, Covered, LimitPerWindow, Stores
<1>5. CASE Expire(r)
  <2>1. call[r].over \in BOOLEAN
    BY <1>0 DEF Attempt
  <2>2. call' \in [Attempts -> Attempt]
    BY <1>0, <1>5, <2>1, JudgeAttempt DEF Expire
  <2>3. /\ counter' \in [count: 0..Limit + 1, ttl: 0..Window]
        /\ counter'.count = counter.count
        /\ counter'.count = 0 => counter'.ttl = 0
    BY <1>0, <1>5 DEF Expire, ThrottleTypeOK
  <2> QED
    BY <1>5, <2>2, <2>3 DEF Expire, ThrottleTypeOK, Covered, LimitPerWindow
<1>6. CASE SetLock(r)
  <2>1. call' \in [Attempts -> Attempt]
    BY <1>0, <1>6, RefuseAttempt, StepAttempt, PhaseNames DEF SetLock, Stores
  <2> QED
    BY <1>0, <1>6, <2>1, Elsewhere DEF SetLock
<1>7. CASE Upsert(r)
  BY <1>7, CountInPostgres
<1>8. CASE Block(r)
  <2>1. call' \in [Attempts -> Attempt]
    BY <1>0, <1>8, RefuseAttempt DEF Block, Stores
  <2>2. /\ row' \in [attempts: 0..Limit + 1, age: 0..Window + 1, blocked: 0..Lockout]
        /\ row'.attempts = row.attempts
    BY <1>0, <1>8 DEF Block, ThrottleTypeOK
  <2> QED
    BY <1>8, <2>1, <2>2 DEF Block, ThrottleTypeOK, Covered, LimitPerWindow
<1>9. CASE PostgresFails(r)
  BY <1>0, <1>9, PassAttempt, Elsewhere DEF PostgresFails
<1>10. CASE Answer(r)
  <2>1. promise' \in Remembered
    BY <1>0, <1>10 DEF Answer, Remembered, NoPromise, Attempt
  <2> QED
    BY <1>0, <1>10, <2>1, EndAttempt, Elsewhere DEF Answer
<1>11. CASE Verify(r)
  BY <1>0, <1>11, EndAttempt, StepAttempt, PhaseNames, Elsewhere DEF Verify
<1>12. CASE Forget(r)
  <2>1. call' \in [Attempts -> Attempt] /\ UNCHANGED <<row, promise>>
    BY <1>0, <1>12, StepAttempt, PhaseNames DEF Forget
  <2>2. CASE UNCHANGED <<counter, lock, used>>
    BY <1>0, <2>1, <2>2, Elsewhere
  <2>3. CASE counter' = NoKey /\ lock' = 0 /\ Forgotten("redis")
    BY <1>0, <2>1, <2>3
    DEF ThrottleTypeOK, Covered, LimitPerWindow, Forgotten, NoKey, NoEnd, Stores
  <2> QED
    BY <1>12, <2>2, <2>3 DEF Forget
<1>13. CASE Delete(r)
  <2>1. call' \in [Attempts -> Attempt] /\ UNCHANGED <<counter, lock, promise>>
    BY <1>0, <1>13, EndAttempt DEF Delete
  <2>2. CASE UNCHANGED <<row, used>>
    BY <1>0, <2>1, <2>2, Elsewhere
  <2>3. CASE row' = NoRow /\ Forgotten("postgres")
    BY <1>0, <2>1, <2>3
    DEF ThrottleTypeOK, Covered, LimitPerWindow, Forgotten, NoRow, Stores
  <2> QED
    BY <1>13, <2>2, <2>3 DEF Delete
<1> QED
  BY <1>1, <1>2, <1>3, <1>4, <1>5, <1>6, <1>7, <1>8, <1>9, <1>10, <1>11, <1>12, <1>13
  DEF Handle

LEMMA TickKeepsBudget ==
    ASSUME Budget, Tick
    PROVE  Budget'
<1> USE DEF Budget
<1>0. /\ call \in [Attempts -> Attempt] /\ promise \in Remembered /\ lock \in 0..Lockout
      /\ counter \in [count: 0..Limit + 1, ttl: 0..Window]
      /\ row \in [attempts: 0..Limit + 1, age: 0..Window + 1, blocked: 0..Lockout]
      /\ used \in [Stores -> Nat]
      /\ Limit \in Nat /\ Window \in Nat \ {0} /\ Lockout \in Nat
  BY Limits_Assumption DEF ThrottleTypeOK, Remembered
<1>1. call' \in [Attempts -> Attempt]
  <2>1. \A q \in Attempts : [call[q] EXCEPT !.late = ~Idle(q)] \in Attempt
    <3> SUFFICES ASSUME NEW q \in Attempts PROVE [call[q] EXCEPT !.late = ~Idle(q)] \in Attempt
      OBVIOUS
    <3>1. call[q] \in Attempt /\ (~Idle(q)) \in BOOLEAN
      BY <1>0
    <3> QED
      BY <3>1 DEF Attempt
  <2> QED
    BY <2>1 DEF Tick
<1>2. promise' \in Remembered /\ lock' \in 0..Lockout
  BY <1>0 DEF Tick, Remembered, Down
<1>3. /\ row' \in [attempts: 0..Limit + 1, age: 0..Window + 1, blocked: 0..Lockout]
      /\ row'.attempts = row.attempts
  <2>1. row' = [row EXCEPT !.age = IF row.attempts > 0 /\ row.age <= Window
                                   THEN row.age + 1 ELSE row.age,
                           !.blocked = Down(row.blocked)]
    BY DEF Tick
  <2>2. Down(row.blocked) \in 0..Lockout
    BY <1>0 DEF Down
  <2>3. (IF row.attempts > 0 /\ row.age <= Window THEN row.age + 1 ELSE row.age)
            \in 0..Window + 1
    BY <1>0
  <2> QED
    BY <1>0, <2>1, <2>2, <2>3
<1>4. /\ counter' \in [count: 0..Limit + 1, ttl: 0..Window]
      /\ counter'.count = 0 => counter'.ttl = 0
      /\ \/ counter'.count = counter.count /\ used' = used
         \/ counter'.count = 0 /\ used' = [used EXCEPT !["redis"] = 0]
  BY <1>0 DEF Tick, Down, NoKey, NoEnd, ThrottleTypeOK
<1>5. used' \in [Stores -> Nat] /\ Covered' /\ LimitPerWindow'
  BY <1>0, <1>3, <1>4 DEF Covered, LimitPerWindow, Stores
<1> QED
  BY <1>1, <1>2, <1>3, <1>4, <1>5 DEF ThrottleTypeOK, Remembered

LEMMA BudgetStep ==
    ASSUME Budget, [ThrottleNext]_throttleVars
    PROVE  Budget'
<1>0. call \in [Attempts -> Attempt] /\ promise \in Remembered /\ lock \in 0..Lockout
  BY DEF Budget, ThrottleTypeOK, Remembered
<1>1. CASE UNCHANGED throttleVars
  BY <1>0, <1>1, Elsewhere DEF throttleVars
<1>2. CASE \E r \in Attempts : Arrive(r)
  <2>1. PICK r \in Attempts : Arrive(r)
    BY <1>2
  <2>2. call' \in [Attempts -> Attempt]
    <3>1. PICK step \in FirstSteps :
            call' = [q \in Attempts |->
                       IF q = r
                       THEN [NoAttempt EXCEPT !.pc = step, !.alone = Alone(r),
                               !.patient = IF promise.due = 0 /\ ~Endless THEN promise.by
                                           ELSE "nobody"]
                       ELSE IF Idle(q) THEN call[q] ELSE [call[q] EXCEPT !.alone = FALSE]]
      BY <2>1 DEF Arrive
    <3>2. Alone(r) \in BOOLEAN /\ promise.by \in Stores \cup {"nobody"}
      BY <1>0 DEF Alone, Remembered
    <3>3. /\ (IF promise.due = 0 /\ ~Endless THEN promise.by ELSE "nobody")
                \in Stores \cup {"nobody"}
          /\ step \in Phases
      BY <3>2 DEF FirstSteps, Phases
    <3>4. [NoAttempt EXCEPT !.pc = step, !.alone = Alone(r),
             !.patient = IF promise.due = 0 /\ ~Endless THEN promise.by ELSE "nobody"]
              \in Attempt
      <4> HIDE DEF Alone, Endless
      <4> QED
        BY <3>2, <3>3 DEF Attempt, NoAttempt
    <3>5. \A q \in Attempts : [call[q] EXCEPT !.alone = FALSE] \in Attempt
      BY <1>0 DEF Attempt
    <3> QED
      BY <1>0, <3>1, <3>4, <3>5
  <2>3. promise' \in Remembered /\ UNCHANGED <<counter, lock, row, used>>
    BY <2>1 DEF Arrive, Remembered, NoPromise
  <2> QED
    BY <1>0, <2>2, <2>3, Elsewhere
<1>3. CASE \E r \in Attempts : Handle(r)
  BY <1>3, HandlerKeepsBudget
<1>4. CASE Crash
  <2>1. call' \in [Attempts -> Attempt]
    BY <1>4 DEF Crash, Attempt, NoAttempt, Phases
  <2> QED
    BY <1>0, <1>4, <2>1, Elsewhere DEF Crash
<1>5. CASE Tick
  BY <1>5, TickKeepsBudget
<1> QED
  BY <1>1, <1>2, <1>3, <1>4, <1>5 DEF ThrottleNext

LEMMA BudgetInit ==
    ASSUME ThrottleInit
    PROVE  Budget
  BY Limits_Assumption
  DEF ThrottleInit, Budget, ThrottleTypeOK, Covered, LimitPerWindow, NoKey, NoEnd, NoRow,
      NoPromise, NoAttempt, Attempt, Phases, Stores

THEOREM BudgetKept == ThrottleSpec => []Budget
<1>1. ThrottleInit => Budget
  BY BudgetInit
<1>2. Budget /\ [ThrottleNext]_throttleVars => Budget'
  BY BudgetStep
<1> QED
  BY <1>1, <1>2, PTL DEF ThrottleSpec

(***************************************************************************)
(* "attempts permitted per window" (ratelimit.py:82): whatever fails, is   *)
(* counted twice or interleaves, neither store lets more than the limit    *)
(* through to the password check in one window.                            *)
(***************************************************************************)
THEOREM NeverBeyondLimit == ThrottleSpec => []LimitPerWindow
<1>1. Budget => LimitPerWindow
  BY DEF Budget
<1> QED
  BY <1>1, BudgetKept, PTL

-----------------------------------------------------------------------------
(* RateLimit: the promise of Retry-After.                                  *)

\* The lock outlives the counter.
LockOutlives == lock > 0 => counter.ttl <= lock

\* A handler that found no lock and has not counted yet: a lock that is there now
\* was set after it looked, at most one tick ago.
Since(r) ==
    /\ call[r].pc \in {"incr", "expire"} /\ lock > 0 =>
          lock + 1 >= Lockout /\ (~call[r].late => lock = Lockout)
    /\ call[r].pc = "setex" => Lockout > 0

\* A handler that nothing overlapped is the only one.
Solitary(r) == call[r].alone => ~Idle(r) /\ Alone(r)

\* What Redis told such a handler outlasts the lock and the window.
Told(r) ==
    call[r].alone /\ call[r].pc = "refused" /\ call[r].by = "redis" =>
        lock <= call[r].wait /\ counter.ttl <= call[r].wait

\* One that has waited as it was told to finds neither a lock nor a count.
Waited(r) ==
    call[r].alone /\ call[r].patient = "redis" =>
        /\ call[r].pc \in {"lock", "incr"} => lock = 0 /\ counter.count = 0
        /\ call[r].pc = "expire" => ~call[r].over
        /\ call[r].pc # "setex"
        /\ call[r].pc = "refused" => call[r].by # "redis"

\* Until somebody comes the promise of the last refusal holds.
Promised ==
    promise.by = "redis" => /\ \A r \in Attempts : Idle(r)
                            /\ lock <= promise.due /\ counter.ttl <= promise.due

Attention ==
    /\ LockOutlives /\ Promised
    /\ \A r \in Attempts : Since(r) /\ Solitary(r) /\ Told(r) /\ Waited(r)

LEMMA ThrottleTypes ==
    ASSUME ThrottleTypeOK
    PROVE  /\ call \in [Attempts -> Attempt] /\ \A r \in Attempts : call[r] \in Attempt
           /\ Limit \in Nat \ {0} /\ Window \in Nat \ {0} /\ Lockout \in Nat
           /\ Lockout = 0 \/ Lockout > Window
           /\ lock \in Nat /\ lock <= Lockout
           /\ counter \in [count: 0..Limit + 1, ttl: 0..Window]
           /\ counter.count \in Nat /\ counter.ttl \in Nat /\ counter.ttl <= Window
           /\ counter.count = 0 => counter.ttl = 0
           /\ promise.due \in Nat
  BY Limits_Assumption DEF ThrottleTypeOK

\* What the three ways on do to a handler.
Others(r) == \A q \in Attempts \ {r} : call'[q] = call[q]

LEMMA GotoFields ==
    ASSUME call \in [Attempts -> Attempt], NEW r \in Attempts, NEW step, Goto(r, step)
    PROVE  /\ Others(r) /\ call'[r].pc = step
           /\ call'[r].alone = call[r].alone /\ call'[r].late = call[r].late
           /\ call'[r].patient = call[r].patient
  BY DEF Goto, Others, Attempt

LEMMA RefuseFields ==
    ASSUME call \in [Attempts -> Attempt], NEW r \in Attempts, NEW store, NEW wait,
           Refuse(r, store, wait)
    PROVE  /\ Others(r) /\ call'[r].pc = "refused"
           /\ call'[r].by = store /\ call'[r].wait = wait
           /\ call'[r].alone = call[r].alone /\ call'[r].late = call[r].late
           /\ call'[r].patient = call[r].patient
  BY DEF Refuse, Others, Attempt

LEMMA PassFields ==
    ASSUME call \in [Attempts -> Attempt], NEW r \in Attempts, Pass(r)
    PROVE  Others(r) /\ call'[r].pc = "verify" /\ call'[r].alone = FALSE
<1>1. call'[r] = [NoAttempt EXCEPT !.pc = "verify", !.late = call[r].late]
  BY DEF Pass
<1>2. QED
  BY <1>1 DEF Pass, Others, NoAttempt

LEMMA EndFields ==
    ASSUME call \in [Attempts -> Attempt], NEW r \in Attempts,
           call' = [call EXCEPT ![r] = NoAttempt]
    PROVE  Others(r) /\ call'[r].pc = "idle" /\ call'[r].alone = FALSE
  BY DEF Others, NoAttempt

\* A step of one handler: the others are as they were, and none of them is alone.
LEMMA OneHandler ==
    ASSUME ThrottleTypeOK, Attention, NEW r \in Attempts, ~Idle(r), Others(r),
           UNCHANGED promise, lock' \in {lock, 0, Lockout},
           call'[r].alone => call[r].alone /\ call'[r].pc # "idle",
           LockOutlives', Since(r)', Told(r)', Waited(r)'
    PROVE  Attention'
<1>1. Promised'
  BY DEF Attention, Promised
<1>2. ASSUME NEW q \in Attempts \ {r}
      PROVE  Since(q)' /\ Solitary(q)' /\ Told(q)' /\ Waited(q)'
  <2>1. call'[q] = call[q] /\ ~call[q].alone
    BY <1>2 DEF Others, Attention, Solitary, Alone
  <2>2. Since(q)'
    <3>1. Since(q)
      BY DEF Attention
    <3>2. CASE lock' = lock
      BY <2>1, <3>1, <3>2 DEF Since
    <3>3. CASE lock' = 0
      BY <2>1, <3>1, <3>3 DEF Since
    <3>4. CASE lock' = Lockout
      BY <2>1, <3>1, <3>4, ThrottleTypes DEF Since
    <3>5. QED
      BY <3>2, <3>3, <3>4
  <2>3. QED
    BY <2>1, <2>2 DEF Solitary, Told, Waited
<1>3. Solitary(r)'
  <2> SUFFICES ASSUME call'[r].alone PROVE ~Idle(r)' /\ Alone(r)'
    BY DEF Solitary
  <2>1. Alone(r)
    BY DEF Attention, Solitary
  <2>2. QED
    BY <2>1 DEF Others, Alone, Idle
<1>4. QED
  BY <1>1, <1>2, <1>3 DEF Attention

\* A handler that ends or is past its check.
LEMMA PastCheck ==
    ASSUME ThrottleTypeOK, Attention, NEW r \in Attempts, ~Idle(r), Others(r),
           UNCHANGED promise, lock' \in {lock, 0}, lock' > 0 => counter'.ttl = counter.ttl,
           call'[r].alone => call[r].alone /\ call'[r].pc # "idle",
           \/ call'[r].pc \in {"idle", "upsert", "block", "verify", "forget", "delete"}
           \/ call'[r].pc = "refused" /\ call'[r].by = "postgres"
    PROVE  Attention'
<1>1. LockOutlives'
  BY DEF Attention, LockOutlives
<1>2. Since(r)' /\ Told(r)' /\ Waited(r)'
  BY DEF Since, Told, Waited
<1>3. QED
  BY <1>1, <1>2, OneHandler

\* What follows once the counter has an end.
LEMMA JudgeKeeps ==
    ASSUME ThrottleTypeOK, Attention, NEW r \in Attempts, ~Idle(r),
           UNCHANGED <<promise, lock>>, LockOutlives',
           NEW over \in BOOLEAN, NEW ttl \in Nat, Judge(r, over, ttl), counter'.ttl <= ttl,
           over => ~(call[r].alone /\ call[r].patient = "redis")
    PROVE  Attention'
<1>0. call \in [Attempts -> Attempt] /\ lock \in Nat /\ lock <= Lockout /\ Lockout \in Nat
  BY ThrottleTypes
<1>1. CASE ~over
  <2>1. Pass(r)
    BY <1>1 DEF Judge
  <2>2. Others(r) /\ call'[r].pc = "verify" /\ call'[r].alone = FALSE
    BY <1>0, <2>1, PassFields
  <2>3. Since(r)' /\ Told(r)' /\ Waited(r)'
    BY <2>2 DEF Since, Told, Waited
  <2>4. QED
    BY <2>2, <2>3, OneHandler
<1>2. CASE over /\ Lockout > 0
  <2>1. Goto(r, "setex")
    BY <1>2 DEF Judge
  <2>2. /\ Others(r) /\ call'[r].pc = "setex"
        /\ call'[r].alone = call[r].alone /\ call'[r].patient = call[r].patient
    BY <1>0, <2>1, GotoFields
  <2>3. Since(r)' /\ Told(r)' /\ Waited(r)'
    BY <1>2, <2>2 DEF Since, Told, Waited
  <2>4. QED
    BY <2>2, <2>3, OneHandler
<1>3. CASE over /\ ~(Lockout > 0)
  <2>1. Refuse(r, "redis", ttl)
    BY <1>3 DEF Judge
  <2>2. /\ Others(r) /\ call'[r].pc = "refused" /\ call'[r].by = "redis" /\ call'[r].wait = ttl
        /\ call'[r].alone = call[r].alone /\ call'[r].patient = call[r].patient
    BY <1>0, <2>1, RefuseFields
  <2>3. lock' <= ttl
    BY <1>0, <1>3
  <2>4. Since(r)' /\ Told(r)' /\ Waited(r)'
    BY <1>3, <2>2, <2>3 DEF Since, Told, Waited
  <2>5. QED
    BY <2>2, <2>4, OneHandler
<1>4. QED
  BY <1>1, <1>2, <1>3

LEMMA CountInKeeps ==
    ASSUME ThrottleTypeOK, Attention, Limit >= 2, NEW r \in Attempts, Incr(r)
    PROVE  Attention'
<1> PICK n \in {1, 2} : CountIn(r, n, Plus(counter.count, n))
  BY DEF Incr
<1> DEFINE count == Plus(counter.count, n)
           over == count > Limit
<1>0. /\ call \in [Attempts -> Attempt] /\ call[r] \in Attempt /\ counter.count \in Nat /\ counter.ttl \in Nat
      /\ counter \in [count: 0..Limit + 1, ttl: 0..Window]
      /\ counter.count = 0 => counter.ttl = 0
  BY ThrottleTypes
<1>1. /\ call[r].pc = "incr" /\ ~Idle(r) /\ UNCHANGED <<lock, promise>>
      /\ counter'.ttl = counter.ttl
  BY <1>0 DEF Incr, CountIn, Idle
<1>2. LockOutlives'
  BY <1>1 DEF Attention, LockOutlives
<1>3. call[r].alone /\ call[r].patient = "redis" => counter.ttl = NoEnd /\ ~over
  <2> SUFFICES ASSUME call[r].alone, call[r].patient = "redis" PROVE counter.ttl = 0 /\ ~over
    BY DEF NoEnd
  <2>1. counter.count = 0
    BY <1>1 DEF Attention, Waited
  <2>2. Plus(0, n) = n
    BY Limits_Assumption DEF Plus
  <2>3. QED
    BY <1>0, <2>1, <2>2, Limits_Assumption
<1>4. over \in BOOLEAN
  OBVIOUS
<1>5. CASE counter.ttl = NoEnd
  <2>1. call' = [call EXCEPT ![r].pc = "expire", ![r].over = over]
    BY <1>5 DEF CountIn
  <2> HIDE DEF over
  <2>2. /\ Others(r) /\ call'[r].pc = "expire" /\ call'[r].over = over
        /\ call'[r].alone = call[r].alone /\ call'[r].patient = call[r].patient
        /\ call'[r].late = call[r].late
    BY <1>0, <2>1 DEF Others, Attempt
  <2>3. Since(r)'
    BY <1>1, <2>2 DEF Attention, Since
  <2>4. Told(r)' /\ Waited(r)'
    BY <1>3, <2>2 DEF Told, Waited
  <2>5. QED
    BY <1>1, <1>2, <2>2, <2>3, <2>4, OneHandler
<1>6. CASE counter.ttl # NoEnd
  <2>1. Judge(r, over, counter.ttl)
    BY <1>6 DEF CountIn
  <2> HIDE DEF over
  <2>2. ~(call[r].alone /\ call[r].patient = "redis")
    BY <1>3, <1>6
  <2>3. counter'.ttl <= counter.ttl
    BY <1>0, <1>1
  <2>4. QED
    BY <1>0, <1>1, <1>2, <1>4, <2>1, <2>2, <2>3, JudgeKeeps
<1>7. QED
  BY <1>5, <1>6

LEMMA ExpireKeeps ==
    ASSUME ThrottleTypeOK, Attention, NEW r \in Attempts, Expire(r)
    PROVE  Attention'
<1>0. /\ call \in [Attempts -> Attempt] /\ call[r].over \in BOOLEAN
      /\ counter.ttl \in Nat /\ counter.ttl <= Window /\ Window \in Nat \ {0}
      /\ lock \in Nat /\ lock <= Lockout /\ Lockout \in Nat /\ (Lockout = 0 \/ Lockout > Window)
      /\ counter \in [count: 0..Limit + 1, ttl: 0..Window]
  BY ThrottleTypes DEF Attempt
<1>1. /\ call[r].pc = "expire" /\ ~Idle(r) /\ UNCHANGED <<lock, promise>>
      /\ Judge(r, call[r].over, Window)
      /\ counter'.ttl \in {counter.ttl, Window} /\ counter'.ttl <= Window
  BY <1>0 DEF Expire, Idle
<1>2. LockOutlives'
  <2> SUFFICES ASSUME lock > 0 PROVE counter'.ttl <= lock
    BY <1>1 DEF LockOutlives
  <2>1. lock + 1 >= Lockout
    BY <1>1 DEF Attention, Since
  <2>2. Window <= lock
    BY <1>0, <2>1
  <2>3. QED
    BY <1>0, <1>1, <2>2
<1>3. call[r].over => ~(call[r].alone /\ call[r].patient = "redis")
  BY <1>1 DEF Attention, Waited
<1>4. QED
  BY <1>0, <1>1, <1>2, <1>3, JudgeKeeps

LEMMA SetLockKeeps ==
    ASSUME ThrottleTypeOK, Attention, NEW r \in Attempts, SetLock(r)
    PROVE  Attention'
<1>0. /\ call \in [Attempts -> Attempt]
      /\ counter.ttl \in Nat /\ counter.ttl <= Window /\ Window \in Nat \ {0}
      /\ Lockout \in Nat /\ (Lockout = 0 \/ Lockout > Window)
  BY ThrottleTypes
<1>1. /\ call[r].pc = "setex" /\ ~Idle(r) /\ lock' = Lockout /\ UNCHANGED <<counter, promise>>
      /\ Refuse(r, "redis", Lockout) \/ Goto(r, "upsert")
  BY DEF SetLock, Idle
<1>2. /\ Lockout > 0
      /\ ~(call[r].alone /\ call[r].patient = "redis")
  BY <1>1 DEF Attention, Since, Waited
<1>3. counter'.ttl <= Lockout /\ LockOutlives'
  BY <1>0, <1>1, <1>2 DEF LockOutlives
<1>4. CASE Refuse(r, "redis", Lockout)
  <2>1. /\ Others(r) /\ call'[r].pc = "refused" /\ call'[r].wait = Lockout
        /\ call'[r].alone = call[r].alone /\ call'[r].patient = call[r].patient
    BY <1>0, <1>4, RefuseFields
  <2>2. Since(r)' /\ Told(r)' /\ Waited(r)'
    BY <1>0, <1>1, <1>2, <1>3, <2>1 DEF Since, Told, Waited
  <2>3. QED
    BY <1>1, <1>3, <2>1, <2>2, OneHandler
<1>5. CASE Goto(r, "upsert")
  <2>1. Others(r) /\ call'[r].pc = "upsert" /\ call'[r].alone = call[r].alone
    BY <1>0, <1>5, GotoFields
  <2>2. Since(r)' /\ Told(r)' /\ Waited(r)'
    BY <2>1 DEF Since, Told, Waited
  <2>3. QED
    BY <1>1, <1>3, <2>1, <2>2, OneHandler
<1>6. QED
  BY <1>1, <1>4, <1>5

LEMMA ReadLockKeeps ==
    ASSUME ThrottleTypeOK, Attention, NEW r \in Attempts, ReadLock(r)
    PROVE  Attention'
<1>0. call \in [Attempts -> Attempt] /\ lock \in Nat
  BY ThrottleTypes
<1>1. /\ call[r].pc = "lock" /\ ~Idle(r) /\ UNCHANGED <<lock, counter, promise>>
  BY DEF ReadLock, Idle
<1>2. LockOutlives'
  BY <1>1 DEF Attention, LockOutlives
<1>3. call[r].alone /\ call[r].patient = "redis" => lock = 0 /\ counter.count = 0
  BY <1>1 DEF Attention, Waited
<1>4. CASE lock > 0
  <2>1. Refuse(r, "redis", lock)
    BY <1>4 DEF ReadLock
  <2>2. /\ Others(r) /\ call'[r].pc = "refused" /\ call'[r].wait = lock
        /\ call'[r].alone = call[r].alone /\ call'[r].patient = call[r].patient
    BY <1>0, <2>1, RefuseFields
  <2>3. lock' <= lock /\ counter'.ttl <= lock
    BY <1>0, <1>1, <1>4 DEF Attention, LockOutlives
  <2>4. Since(r)' /\ Told(r)' /\ Waited(r)'
    BY <1>0, <1>3, <1>4, <2>2, <2>3 DEF Since, Told, Waited
  <2>5. QED
    BY <1>1, <1>2, <2>2, <2>4, OneHandler
<1>5. CASE ~(lock > 0)
  <2>1. Goto(r, "incr")
    BY <1>5 DEF ReadLock
  <2>2. /\ Others(r) /\ call'[r].pc = "incr"
        /\ call'[r].alone = call[r].alone /\ call'[r].patient = call[r].patient
    BY <1>0, <2>1, GotoFields
  <2>3. Since(r)' /\ Told(r)' /\ Waited(r)'
    BY <1>1, <1>3, <1>5, <2>2 DEF Since, Told, Waited
  <2>4. QED
    BY <1>1, <1>2, <2>2, <2>3, OneHandler
<1>6. QED
  BY <1>4, <1>5

\* The answer: the refusal of a handler that was alone becomes the promise.
LEMMA AnswerKeeps ==
    ASSUME ThrottleTypeOK, Attention, NEW r \in Attempts, Answer(r)
    PROVE  Attention'
<1>0. call \in [Attempts -> Attempt]
  BY ThrottleTypes
<1>1. /\ call[r].pc = "refused" /\ ~Idle(r) /\ UNCHANGED <<lock, counter>>
      /\ promise' = IF call[r].alone THEN [by |-> call[r].by, due |-> call[r].wait]
                    ELSE NoPromise
      /\ Others(r) /\ call'[r].pc = "idle" /\ call'[r].alone = FALSE
  BY <1>0, EndFields DEF Answer, Idle
<1>2. Promised'
  <2> SUFFICES ASSUME promise'.by = "redis"
               PROVE  /\ \A q \in Attempts : Idle(q)'
                      /\ lock <= promise'.due /\ counter.ttl <= promise'.due
    BY <1>1 DEF Promised
  <2>1. call[r].alone /\ call[r].by = "redis" /\ promise'.due = call[r].wait
    BY <1>1 DEF NoPromise
  <2>2. \A q \in Attempts : Idle(q)'
    BY <1>1, <2>1 DEF Attention, Solitary, Alone, Idle, Others
  <2>3. QED
    BY <1>1, <2>1, <2>2 DEF Attention, Told
<1>3. ASSUME NEW q \in Attempts PROVE Since(q)' /\ Solitary(q)' /\ Told(q)' /\ Waited(q)'
  <2>1. CASE q = r
    BY <1>1, <2>1 DEF Since, Solitary, Told, Waited
  <2>2. CASE q # r
    <3>1. call'[q] = call[q] /\ ~call[q].alone
      BY <1>1, <2>2 DEF Others, Attention, Solitary, Alone
    <3>2. QED
      BY <1>1, <3>1 DEF Attention, Since, Solitary, Told, Waited
  <2>3. QED
    BY <2>1, <2>2
<1>4. QED
  BY <1>1, <1>2, <1>3 DEF Attention, LockOutlives

LEMMA HandlerAttends ==
    ASSUME ThrottleTypeOK, Attention, Limit >= 2, NEW r \in Attempts, Handle(r)
    PROVE  Attention'
<1>0. call \in [Attempts -> Attempt] /\ lock \in Nat
  BY ThrottleTypes
<1>1. CASE RedisFails(r) \/ IncrLost(r)
  <2>1. ~Idle(r) /\ Goto(r, "upsert") /\ UNCHANGED <<promise, lock>> /\ counter'.ttl = counter.ttl
    BY <1>1, ThrottleTypes DEF RedisFails, IncrLost, Idle
  <2>2. Others(r) /\ call'[r].pc = "upsert" /\ call'[r].alone = call[r].alone
    BY <1>0, <2>1, GotoFields
  <2>3. QED
    BY <2>1, <2>2, PastCheck
<1>2. CASE ReadLock(r)
  BY <1>2, ReadLockKeeps
<1>3. CASE Incr(r)
  BY <1>3, CountInKeeps
<1>4. CASE Expire(r)
  BY <1>4, ExpireKeeps
<1>5. CASE SetLock(r)
  BY <1>5, SetLockKeeps
<1>6. CASE Upsert(r) \/ Block(r) \/ PostgresFails(r)
  <2>1. ~Idle(r) /\ UNCHANGED <<promise, lock, counter>>
    BY <1>6 DEF Upsert, Block, PostgresFails, Idle
  <2>2. (\E wait : Refuse(r, "postgres", wait)) \/ Pass(r) \/ Goto(r, "block")
    <3>1. CASE Upsert(r)
      <4> DEFINE fresh == row.attempts = 0 \/ row.age > Window
                 next == IF fresh THEN [row EXCEPT !.attempts = 1, !.age = 0]
                                  ELSE [row EXCEPT !.attempts = Plus(@, 1)]
                 admitted == row.blocked = 0 /\ next.attempts <= Limit
      <4>1. (CASE row.blocked > 0 -> Refuse(r, "postgres", row.blocked)
               [] admitted -> Pass(r)
               [] row.blocked = 0 /\ ~admitted ->
                     IF Lockout > 0 THEN Goto(r, "block") ELSE Refuse(r, "postgres", Window))
        BY <3>1 DEF Upsert
      <4>2. row.blocked > 0 \/ row.blocked = 0
        BY DEF ThrottleTypeOK
      <4> HIDE DEF admitted
      <4>3. QED
        BY <4>1, <4>2
    <3>2. QED
      BY <1>6, <3>1 DEF Block, PostgresFails
  <2>3. /\ Others(r)
        /\ \/ call'[r].pc \in {"block", "verify"}
           \/ call'[r].pc = "refused" /\ call'[r].by = "postgres"
        /\ call'[r].alone => call[r].alone
    <3>1. CASE \E wait : Refuse(r, "postgres", wait)
      BY <1>0, <3>1, RefuseFields
    <3>2. CASE Pass(r)
      BY <1>0, <3>2, PassFields
    <3>3. CASE Goto(r, "block")
      BY <1>0, <3>3, GotoFields
    <3>4. QED
      BY <2>2, <3>1, <3>2, <3>3
  <2>4. QED
    BY <2>1, <2>3, PastCheck
<1>7. CASE Answer(r)
  BY <1>7, AnswerKeeps
<1>8. CASE Verify(r) \/ Forget(r) \/ Delete(r)
  <2>1. /\ ~Idle(r) /\ UNCHANGED promise
        /\ lock' \in {lock, 0} /\ (lock' > 0 => counter'.ttl = counter.ttl)
    BY <1>8 DEF Verify, Forget, Delete, Idle
  <2>2. \/ call' = [call EXCEPT ![r] = NoAttempt]
        \/ Goto(r, "forget") \/ Goto(r, "delete")
    BY <1>8 DEF Verify, Forget, Delete
  <2>3. /\ Others(r) /\ call'[r].pc \in {"idle", "forget", "delete"}
        /\ call'[r].alone => call[r].alone /\ call'[r].pc # "idle"
    <3>1. CASE call' = [call EXCEPT ![r] = NoAttempt]
      BY <1>0, <3>1, EndFields
    <3>2. CASE Goto(r, "forget")
      BY <1>0, <3>2, GotoFields
    <3>3. CASE Goto(r, "delete")
      BY <1>0, <3>3, GotoFields
    <3>4. QED
      BY <2>2, <3>1, <3>2, <3>3
  <2>4. QED
    BY <2>1, <2>3, PastCheck
<1>9. QED
  BY <1>1, <1>2, <1>3, <1>4, <1>5, <1>6, <1>7, <1>8 DEF Handle

LEMMA ArrivalAttends ==
    ASSUME ThrottleTypeOK, Attention, NEW r \in Attempts, Arrive(r)
    PROVE  Attention'
<1> PICK step \in FirstSteps :
      call' = [q \in Attempts |->
                 IF q = r
                 THEN [NoAttempt EXCEPT !.pc = step, !.alone = Alone(r),
                         !.patient = IF promise.due = 0 /\ ~Endless THEN promise.by
                                     ELSE "nobody"]
                 ELSE IF Idle(q) THEN call[q] ELSE [call[q] EXCEPT !.alone = FALSE]]
  BY DEF Arrive
<1>0. /\ call \in [Attempts -> Attempt] /\ Idle(r) /\ step \in {"lock", "upsert"}
      /\ promise' = NoPromise /\ UNCHANGED <<counter, lock>>
  BY ThrottleTypes DEF Arrive, FirstSteps
<1> HIDE DEF Alone, Endless
<1>1. /\ call'[r].pc = step /\ call'[r].alone = Alone(r)
      /\ call'[r].patient = "redis" => promise.due = 0 /\ ~Endless /\ promise.by = "redis"
  <2> DEFINE p == IF promise.due = 0 /\ ~Endless THEN promise.by ELSE "nobody"
  <2>1. call'[r] = [NoAttempt EXCEPT !.pc = step, !.alone = Alone(r), !.patient = p]
    OBVIOUS
  <2>2. p = "redis" => promise.due = 0 /\ ~Endless /\ promise.by = "redis"
    OBVIOUS
  <2> HIDE DEF p
  <2>3. QED
    BY <2>1, <2>2 DEF NoAttempt
<1>2. ASSUME NEW q \in Attempts \ {r}
      PROVE  /\ ~call'[q].alone /\ call'[q].pc = call[q].pc /\ call'[q].late = call[q].late
  <2>1. CASE Idle(q)
    <3>1. call'[q] = call[q]
      BY <2>1
    <3>2. QED
      BY <2>1, <3>1 DEF Attention, Solitary
  <2>2. CASE ~Idle(q)
    <3>1. call'[q] = [call[q] EXCEPT !.alone = FALSE]
      BY <2>2
    <3>2. QED
      BY <1>0, <3>1 DEF Attempt
  <2>3. QED
    BY <2>1, <2>2
<1>3. ASSUME NEW q \in Attempts PROVE Since(q)' /\ Solitary(q)' /\ Told(q)' /\ Waited(q)'
  <2>1. CASE q = r
    <3>1. Since(q)' /\ Told(q)'
      BY <1>0, <1>1, <2>1 DEF Since, Told
    <3>2. Solitary(q)'
      BY <1>0, <1>1, <1>2, <2>1 DEF Solitary, Alone, Idle
    <3>3. Waited(q)'
      <4> SUFFICES ASSUME call'[r].patient = "redis"
                   PROVE  lock = 0 /\ counter.count = 0
        BY <1>0, <1>1, <2>1 DEF Waited
      <4>1. lock <= 0 /\ counter.ttl <= 0
        BY <1>1 DEF Attention, Promised
      <4>2. QED
        BY <1>1, <4>1, ThrottleTypes DEF Endless, NoEnd
    <3>4. QED
      BY <3>1, <3>2, <3>3
  <2>2. CASE q # r
    <3>1. Since(q)'
      BY <1>0, <1>2, <2>2 DEF Attention, Since
    <3>2. QED
      BY <1>2, <2>2, <3>1 DEF Solitary, Told, Waited
  <2>3. QED
    BY <2>1, <2>2
<1>4. LockOutlives' /\ Promised'
  BY <1>0 DEF Attention, LockOutlives, Promised, NoPromise
<1>5. QED
  BY <1>3, <1>4 DEF Attention

LEMMA TickAttends ==
    ASSUME ThrottleTypeOK, Attention, Tick
    PROVE  Attention'
<1>0. /\ call \in [Attempts -> Attempt] /\ lock \in Nat /\ lock <= Lockout /\ Lockout \in Nat
      /\ counter \in [count: 0..Limit + 1, ttl: 0..Window]
      /\ counter.ttl \in Nat /\ counter.count \in Nat
      /\ counter.count = 0 => counter.ttl = 0
      /\ promise \in [by: Stores \cup {"nobody"}, due: Nat]
  BY ThrottleTypes DEF ThrottleTypeOK
<1>1. lock' = Down(lock) /\ lock' \in Nat /\ lock' <= lock /\ (lock' > 0 => lock' + 1 = lock)
  BY <1>0 DEF Tick, Down
<1>2. /\ counter'.ttl \in Nat /\ counter'.ttl <= counter.ttl
      /\ counter.ttl > 0 => counter'.ttl + 1 = counter.ttl
      /\ counter.count = 0 => counter'.count = 0
  <2>1. CASE counter.ttl = 1
    BY <1>0, <2>1 DEF Tick, NoKey, NoEnd
  <2>2. CASE counter.ttl # 1
    BY <1>0, <2>2 DEF Tick, Down
  <2>3. QED
    BY <2>1, <2>2
<1>3. promise'.by = promise.by /\ promise'.due = Down(promise.due)
  BY <1>0 DEF Tick
<1>4. ASSUME NEW q \in Attempts
      PROVE  /\ ~call[q].late
             /\ call'[q].pc = call[q].pc /\ call'[q].late = ~Idle(q)
             /\ call'[q].alone = call[q].alone /\ call'[q].patient = call[q].patient
             /\ call'[q].by = call[q].by /\ call'[q].wait = call[q].wait
             /\ call'[q].over = call[q].over /\ call[q].wait \in Nat
  <2>1. call'[q] = [call[q] EXCEPT !.late = ~Idle(q)] /\ ~call[q].late
    BY DEF Tick
  <2> HIDE DEF Idle
  <2>2. QED
    BY <1>0, <2>1 DEF Attempt
<1>5. LockOutlives'
  <2> SUFFICES ASSUME lock' > 0 PROVE counter'.ttl <= lock'
    BY DEF LockOutlives
  <2>1. counter.ttl <= lock
    BY <1>0, <1>1 DEF Attention, LockOutlives
  <2>2. CASE counter.ttl > 0
    BY <1>0, <1>1, <1>2, <2>1, <2>2
  <2>3. CASE ~(counter.ttl > 0)
    BY <1>0, <1>1, <1>2, <2>3
  <2>4. QED
    BY <2>2, <2>3
<1>6. Promised'
  <2> SUFFICES ASSUME promise.by = "redis"
               PROVE  /\ \A q \in Attempts : Idle(q)'
                      /\ lock' <= promise'.due /\ counter'.ttl <= promise'.due
    BY <1>3 DEF Promised
  <2>1. /\ \A q \in Attempts : Idle(q)
        /\ lock <= promise.due /\ counter.ttl <= promise.due
    BY DEF Attention, Promised
  <2>2. \A n \in Nat : n <= promise.due => Down(n) <= Down(promise.due)
    BY <1>0 DEF Down
  <2>3. counter'.ttl = Down(counter.ttl)
    BY <1>0, <1>2 DEF Down
  <2>4. QED
    BY <1>0, <1>1, <1>3, <1>4, <2>1, <2>2, <2>3 DEF Idle
<1>7. ASSUME NEW q \in Attempts PROVE Since(q)' /\ Solitary(q)' /\ Told(q)' /\ Waited(q)'
  <2>0. Since(q) /\ Solitary(q) /\ Told(q) /\ Waited(q)
    BY DEF Attention
  <2>1. Since(q)'
    <3>1. lock' > 0 => lock > 0
      BY <1>0, <1>1
    <3>2. call[q].pc \in {"incr", "expire"} /\ lock' > 0 => lock' + 1 >= Lockout
      BY <1>0, <1>1, <1>4, <2>0, <3>1 DEF Since
    <3>3. call[q].pc \in {"incr", "expire"} => call'[q].late
      BY <1>4 DEF Idle
    <3>4. QED
      BY <1>4, <2>0, <3>2, <3>3 DEF Since
  <2>2. Solitary(q)'
    BY <1>4, <2>0 DEF Solitary, Alone, Idle
  <2>3. Told(q)'
    BY <1>0, <1>1, <1>2, <1>4, <2>0 DEF Told
  <2>4. Waited(q)'
    <3>1. lock = 0 => lock' = 0
      BY <1>1 DEF Down
    <3>2. QED
      BY <1>2, <1>4, <2>0, <3>1 DEF Waited
  <2>5. QED
    BY <2>1, <2>2, <2>3, <2>4
<1>8. QED
  BY <1>5, <1>6, <1>7 DEF Attention

LEMMA AttentionStep ==
    ASSUME Limit >= 2, ThrottleTypeOK, Attention, [ThrottleNext]_throttleVars
    PROVE  Attention'
<1>1. CASE UNCHANGED throttleVars
  BY <1>1 DEF throttleVars, Attention, LockOutlives, Promised, Since, Solitary, Told, Waited,
              Alone, Idle
<1>2. CASE \E r \in Attempts : Arrive(r)
  BY <1>2, ArrivalAttends
<1>3. CASE \E r \in Attempts : Handle(r)
  BY <1>3, HandlerAttends
<1>4. CASE Crash
  <2>1. \A r \in Attempts : call'[r].pc = "idle" /\ ~call'[r].alone
    BY <1>4 DEF Crash, NoAttempt
  <2>2. UNCHANGED <<counter, lock, promise>>
    BY <1>4 DEF Crash
  <2>3. QED
    BY <2>1, <2>2
    DEF Attention, LockOutlives, Promised, Since, Solitary, Told, Waited, Idle
<1>5. CASE Tick
  BY <1>5, TickAttends
<1>6. QED
  BY <1>1, <1>2, <1>3, <1>4, <1>5 DEF ThrottleNext

LEMMA AttentionInit ==
    ASSUME ThrottleInit
    PROVE  Attention
  BY DEF ThrottleInit, Attention, LockOutlives, Promised, Since, Solitary, Told, Waited, Idle,
         NoPromise, NoAttempt, NoKey, NoEnd

(***************************************************************************)
(* Retry-After is kept: a caller that Redis refused, that waited as it was *)
(* told and that nobody anticipated or overlapped is not refused by Redis  *)
(* again.  Not for a limit of one: an INCR that the client repeats counts  *)
(* the first attempt as two.                                               *)
(***************************************************************************)
THEOREM RetryAfterKept ==
    ASSUME Limit >= 2
    PROVE  ThrottleSpec => []RetryAfterHonoured
<1>1. ThrottleInit => Attention
  BY AttentionInit
<1>2. Budget => ThrottleTypeOK
  BY DEF Budget
<1>3. ThrottleTypeOK /\ Attention /\ [ThrottleNext]_throttleVars => Attention'
  BY AttentionStep
<1>4. Attention => RetryAfterHonoured
  BY DEF Attention, Waited, RetryAfterHonoured
<1>5. QED
  BY <1>1, <1>2, <1>3, <1>4, BudgetKept, PTL DEF ThrottleSpec

-----------------------------------------------------------------------------
(* SshCa.                                                                  *)

\* The order of the naturals as a relation (the arithmetic provers do not take OpToRel).
Below == OpToRel(<, Nat)

LEMMA BelowIsWellFounded == IsWellFoundedOn(Below, Nat)
  BY NatLessThanWellFounded, Zenon DEF Below

LEMMA BelowIsLess == \A a \in Nat, b \in Nat : a < b => <<a, b>> \in Below
  BY Zenon DEF Below, OpToRel

(***************************************************************************)
(* MAX(serial) is there and is the greatest, whenever the serials have a   *)
(* bound at all.                                                           *)
(***************************************************************************)
LEMMA GreatestExists ==
    ASSUME NEW S \in SUBSET Nat, NEW s \in S, NEW bound \in Nat, \A n \in S : n <= bound
    PROVE  Max(S) \in S /\ \A n \in S : n <= Max(S)
<1> DEFINE Bounds == {b \in Nat : \A n \in S : n <= b}
<1>1. Bounds \subseteq Nat /\ Bounds # {}
  OBVIOUS
<1>2. PICK least \in Bounds : \A b \in Bounds : <<b, least>> \notin Below
  BY <1>1, BelowIsWellFounded, WFMin, Zenon
<1>3. \A b \in Bounds : least <= b
  <2> SUFFICES ASSUME NEW b \in Bounds PROVE least <= b
    OBVIOUS
  <2>1. b \in Nat /\ least \in Nat
    BY <1>1
  <2>2. <<b, least>> \notin Below
    BY <1>2, Zenon
  <2>3. ~ (b < least)
    BY <2>1, <2>2, BelowIsLess, Zenon
  <2> QED
    BY <2>1, <2>3
<1>4. least \in S
  <2>1. SUFFICES ASSUME least \notin S PROVE FALSE
    OBVIOUS
  <2>2. \A n \in S : n < least
    BY <1>1, <2>1
  <2>3. least # 0 /\ least \in Nat
    BY <1>1, <2>2
  <2>4. least - 1 \in Bounds
    BY <2>2, <2>3
  <2> QED
    BY <1>3, <2>3, <2>4
<1>5. \A n \in S : least >= n
  BY <1>1
<1>6. Max(S) \in S /\ \A n \in S : Max(S) >= n
  BY <1>4, <1>5 DEF Max
<1> QED
  BY <1>6

(***************************************************************************)
(* The inductive invariant.                                                *)
(***************************************************************************)
Bounded == \E bound \in Nat : \A c \in Certs : cert[c].serial <= bound
Overlap(c, d) == c \in cert[d].beside \/ d \in cert[c].beside
\* Requests that have read and not stored overlap; a row shares its serial with nothing else.
Distinct ==
    \A c \in Certs : \A d \in Certs \ {c} :
        /\ c \in Unstored /\ d \in Unstored => Overlap(c, d)
        /\ cert[c].row /\ (cert[d].row \/ d \in Unstored) /\ cert[c].serial = cert[d].serial
             => Overlap(c, d)
Kept == \A c \in Certs : cert[c].pc \in {"stored", "given"} => cert[c].row
CaInv == CaTypeOK /\ Bounded /\ Distinct /\ Kept

LEMMA NextIsNew ==
    ASSUME CaTypeOK, Bounded
    PROVE  /\ NextSerial \in Nat /\ NextSerial > 0
           /\ \A c \in Certs : cert[c].row => cert[c].serial < NextSerial
<1> DEFINE S == {0} \cup Recorded
<1>1. PICK bound \in Nat : \A c \in Certs : cert[c].serial <= bound
  BY DEF Bounded
<1>2. S \in SUBSET Nat /\ 0 \in S
  BY DEF CaTypeOK, Certificate, Recorded
<1>3. \A n \in S : n <= bound
  BY <1>1 DEF Recorded
<1>4. Max(S) \in S /\ \A n \in S : n <= Max(S)
  BY <1>1, <1>2, <1>3, GreatestExists
<1>5. \A c \in Certs : cert[c].row => cert[c].serial \in S
  BY DEF Recorded
<1> QED
  <2>1. Max(S) \in Nat /\ NextSerial = Max(S) + 1
    BY <1>2, <1>4 DEF NextSerial
  <2>2. \A c \in Certs : cert[c].row => cert[c].serial <= Max(S) /\ cert[c].serial \in Nat
    BY <1>2, <1>4, <1>5
  <2> HIDE DEF S
  <2> QED
    BY <2>1, <2>2

LEMMA CaInitOK == CaInit => CaInv
<1> SUFFICES ASSUME CaInit PROVE CaInv
  OBVIOUS
<1>1. CaTypeOK /\ Kept
  BY DEF CaInit, CaTypeOK, Kept, Certificate, Unasked
<1>2. Bounded
  BY DEF CaInit, Bounded, Unasked
<1>3. Distinct
  BY DEF CaInit, Distinct, Unstored, Unasked
<1> QED
  BY <1>1, <1>2, <1>3 DEF CaInv

\* The statement that reads: its serial is new, and it is beside whoever has read one.
LEMMA ReadKeeps ==
    ASSUME CaInv, NEW c \in Certs, ReadSerial(c)
    PROVE  CaInv'
<1> DEFINE new == [pc |-> "read", serial |-> NextSerial, row |-> FALSE, beside |-> Unstored]
<1>1. cert' = [cert EXCEPT ![c] = new] /\ cert[c].pc = "unasked" /\ cert \in [Certs -> Certificate]
  BY DEF ReadSerial, CaInv, CaTypeOK
<1>2. NextSerial \in Nat /\ NextSerial > 0 /\ \A d \in Certs : cert[d].row => cert[d].serial < NextSerial
  BY NextIsNew DEF CaInv
<1>3. new \in Certificate
  BY <1>2 DEF Certificate, Unstored
<1>4. cert'[c] = new /\ \A d \in Certs \ {c} : cert'[d] = cert[d]
  BY <1>1
<1>5. CaTypeOK'
  BY <1>1, <1>2, <1>3, <1>4 DEF CaInv, CaTypeOK
<1>6. Bounded'
  <2>1. PICK bound \in Nat : \A d \in Certs : cert[d].serial <= bound
    BY DEF CaInv, Bounded
  <2>2. \A d \in Certs : cert'[d].serial <= bound + NextSerial
    <3> SUFFICES ASSUME NEW d \in Certs PROVE cert'[d].serial <= bound + NextSerial
      OBVIOUS
    <3>1. cert[d].serial \in Nat /\ cert[d].serial <= bound
      BY <1>1, <2>1 DEF Certificate
    <3> QED
      BY <1>2, <1>4, <2>1, <3>1
  <2>3. bound + NextSerial \in Nat
    BY <1>2, <2>1
  <2> QED
    BY <2>2, <2>3 DEF Bounded
<1>7. Distinct'
  <2> SUFFICES ASSUME NEW d \in Certs, NEW e \in Certs \ {d}
               PROVE  /\ d \in Unstored' /\ e \in Unstored' => Overlap(d, e)'
                      /\ cert'[d].row /\ (cert'[e].row \/ e \in Unstored')
                           /\ cert'[d].serial = cert'[e].serial => Overlap(d, e)'
    BY DEF Distinct
  <2>1. CASE d # c /\ e # c
    BY <1>4, <2>1 DEF CaInv, Distinct, Overlap, Unstored
  <2>2. CASE d = c
    BY <1>4, <2>2 DEF Overlap, Unstored
  <2>3. CASE e = c
    <3>1. cert[d].row => cert[d].serial # NextSerial
      BY <1>1, <1>2 DEF Certificate
    <3> QED
      BY <1>4, <2>3, <3>1 DEF Overlap, Unstored
  <2> QED
    BY <2>1, <2>2, <2>3
<1>8. Kept'
  BY <1>4 DEF CaInv, Kept
<1> QED
  BY <1>5, <1>6, <1>7, <1>8 DEF CaInv

\* Any later step of a request: its serial stays, and a row appears only as it is stored.
LEMMA AdvanceKeeps ==
    ASSUME CaInv, NEW c \in Certs, NEW from, NEW to, NEW stored \in BOOLEAN,
           Advance(c, from, to, stored),
           from \in {"read", "signed", "stored"}, to \in {"signed", "stored", "given", "failed"},
           to = "signed" => from = "read" /\ ~stored,
           to \in {"stored", "given"} => stored,
           from = "stored" => stored
    PROVE  CaInv'
<1>1. cert \in [Certs -> Certificate] /\ cert[c].pc = from
  BY DEF CaInv, CaTypeOK, Advance
<1>2. /\ cert'[c] = [cert[c] EXCEPT !.pc = to, !.row = stored]
      /\ cert' = [cert EXCEPT ![c] = cert'[c]]
      /\ \A d \in Certs \ {c} : cert'[d] = cert[d]
  BY <1>1 DEF Advance
<1>3. cert'[c] \in Certificate
  BY <1>1, <1>2 DEF Certificate
<1>4. /\ cert'[c].pc = to /\ cert'[c].row = stored
      /\ cert'[c].serial = cert[c].serial /\ cert'[c].beside = cert[c].beside
  <2>1. cert[c] \in Certificate
    BY <1>1
  <2> QED
    BY <1>2, <2>1 DEF Certificate
<1>5. \A d \in Certs : cert'[d].serial = cert[d].serial /\ cert'[d].beside = cert[d].beside
  BY <1>2, <1>4
<1>6. CaTypeOK'
  BY <1>1, <1>2, <1>3, <1>5, <1>4 DEF CaInv, CaTypeOK
<1>7. Bounded'
  BY <1>5 DEF CaInv, Bounded
<1>8. Unstored' \subseteq Unstored
  BY <1>1, <1>2, <1>4 DEF Unstored
<1>9. cert'[c].row => cert[c].row \/ c \in Unstored
  <2>1. from = "stored" => cert[c].row
    BY <1>1 DEF CaInv, Kept
  <2> QED
    BY <1>1, <2>1 DEF Unstored
<1>10. \A d \in Certs : cert'[d].row => cert[d].row \/ d \in Unstored
  BY <1>2, <1>9
<1>11. Distinct'
  BY <1>5, <1>8, <1>10 DEF CaInv, Distinct, Overlap
<1>12. Kept'
  BY <1>2, <1>4 DEF CaInv, Kept
<1> QED
  BY <1>6, <1>7, <1>11, <1>12 DEF CaInv

LEMMA CaStep == CaInv /\ [CaNext]_certVars => CaInv'
<1> SUFFICES ASSUME CaInv, [CaNext]_certVars PROVE CaInv'
  OBVIOUS
<1>1. ASSUME NEW c \in Certs, ReadSerial(c) PROVE CaInv'
  BY <1>1, ReadKeeps
<1>2. ASSUME NEW c \in Certs, Sign(c) PROVE CaInv'
  BY <1>2, AdvanceKeeps DEF Sign
<1>3. ASSUME NEW c \in Certs, StoreCert(c) PROVE CaInv'
  BY <1>3, AdvanceKeeps DEF StoreCert
<1>4. ASSUME NEW c \in Certs, HandOut(c) PROVE CaInv'
  BY <1>4, AdvanceKeeps DEF HandOut
<1>5. ASSUME NEW c \in Certs, IssueFails(c) PROVE CaInv'
  <2>1. CASE Advance(c, "read", "failed", FALSE)
    BY <2>1, AdvanceKeeps
  <2>2. ASSUME NEW stored \in BOOLEAN, Advance(c, "signed", "failed", stored) PROVE CaInv'
    BY <2>2, AdvanceKeeps
  <2>3. CASE Advance(c, "stored", "failed", TRUE)
    BY <2>3, AdvanceKeeps
  <2> QED
    BY <1>5, <2>1, <2>2, <2>3 DEF IssueFails
<1>6. CASE UNCHANGED certVars
  BY <1>6 DEF CaInv, CaTypeOK, Bounded, Distinct, Kept, Overlap, Unstored, certVars
<1> QED
  BY <1>1, <1>2, <1>3, <1>4, <1>5, <1>6 DEF CaNext

THEOREM CaInvariant == CaSpec => []CaInv
  BY CaInitOK, CaStep, PTL DEF CaSpec

\* A certificate that was handed out (ca.py:118-142) has its row, and shares its serial with
\* another only if their requests overlapped.
THEOREM CertsRevocable == CaSpec => []RevocableBySerial
<1>1. CaInv => RevocableBySerial
  BY DEF CaInv, Kept, Distinct, Overlap, RevocableBySerial
<1> QED
  BY <1>1, CaInvariant, PTL

-----------------------------------------------------------------------------
(* ConnectionPool.                                                         *)

\* Only finitely many requests hold a connection, however many there are.
PoolInv ==
    /\ PoolTypeOK
    /\ IsFiniteSet(HeldBy(1)) /\ IsFiniteSet(HeldBy(2))

LEMMA HeldValues ==
    ASSUME NEW c \in Clients, work[c].at \in Steps
    PROVE  /\ Held(c) \in {0, 1, 2}
           /\ work[c].at \in {"none", "queued"} => Held(c) = 0
           /\ work[c].at \in {"running", "queued again"} => Held(c) = 1
           /\ work[c].at = "storing" => Held(c) = 2
<1>1. work[c].at \in {"none", "queued"} => Held(c) = 0
  BY DEF Held
<1>2. work[c].at \in {"running", "queued again"} => Held(c) = 1
  BY DEF Held
<1>3. work[c].at = "storing" => Held(c) = 2
  BY DEF Held
<1>4. work[c].at \in {"none", "queued", "running", "queued again", "storing"}
  BY DEF Steps
<1>5. QED
  BY <1>1, <1>2, <1>3, <1>4

\* The same of the state after a step.
LEMMA HeldNext ==
    ASSUME NEW c \in Clients, work'[c].at \in Steps
    PROVE  /\ Held(c)' \in {0, 1, 2}
           /\ work'[c].at \in {"none", "queued"} => Held(c)' = 0
           /\ work'[c].at \in {"running", "queued again"} => Held(c)' = 1
           /\ work'[c].at = "storing" => Held(c)' = 2
<1>1. work'[c].at \in {"none", "queued"} => Held(c)' = 0
  BY DEF Held
<1>2. work'[c].at \in {"running", "queued again"} => Held(c)' = 1
  BY DEF Held
<1>3. work'[c].at = "storing" => Held(c)' = 2
  BY DEF Held
<1>4. work'[c].at \in {"none", "queued", "running", "queued again", "storing"}
  BY DEF Steps
<1>5. QED
  BY <1>1, <1>2, <1>3, <1>4

\* One request takes or gives back connections: the number of those who hold n.
LEMMA OneMoves ==
    ASSUME PoolInv, NEW c \in Clients, NEW n \in {1, 2},
           \A d \in Clients \ {c} : work'[d] = work[d]
    PROVE  /\ IsFiniteSet(HeldBy(n)')
           /\ Cardinality(HeldBy(n)') =
                 Cardinality(HeldBy(n)) + (IF Held(c)' = n THEN 1 ELSE 0)
                                        - (IF Held(c) = n THEN 1 ELSE 0)
<1> DEFINE S == HeldBy(n)
           rest == S \ {c}
<1>1. IsFiniteSet(S) /\ Cardinality(S) \in Nat
  BY FS_CardinalityType DEF PoolInv
<1>2. /\ IsFiniteSet(rest) /\ Cardinality(rest) \in Nat
      /\ Cardinality(rest) = IF c \in S THEN Cardinality(S) - 1 ELSE Cardinality(S)
  BY <1>1, FS_RemoveElement, FS_CardinalityType
<1>3. HeldBy(n)' = IF Held(c)' = n THEN rest \cup {c} ELSE rest
  <2>1. \A d \in Clients \ {c} : Held(d)' = Held(d)
    BY DEF Held
  <2>2. QED
    BY <2>1 DEF HeldBy
<1>4. c \notin rest /\ (c \in S <=> Held(c) = n)
  BY DEF HeldBy
<1> HIDE DEF S, rest
<1>5. IsFiniteSet(rest \cup {c}) /\ Cardinality(rest \cup {c}) = Cardinality(rest) + 1
  BY <1>2, <1>4, FS_AddElement
<1>6. QED
  BY <1>1, <1>2, <1>3, <1>4, <1>5 DEF S

\* What a step moves into a request it takes from the pool, and back.
LEMMA Balance ==
    ASSUME PoolInv, NEW c \in Clients, NEW new \in [at: Steps, polls: BOOLEAN],
           work' = [work EXCEPT ![c] = new],
           free' \in Nat, free' + Held(c)' = free + Held(c)
    PROVE  PoolInv'
<1>1. /\ work \in [Clients -> [at: Steps, polls: BOOLEAN]]
      /\ work' \in [Clients -> [at: Steps, polls: BOOLEAN]]
      /\ \A d \in Clients \ {c} : work'[d] = work[d]
  BY DEF PoolInv, PoolTypeOK
<1>2. Held(c) \in {0, 1, 2} /\ Held(c)' \in {0, 1, 2}
  <2>1. work[c].at \in Steps /\ work'[c].at \in Steps
    BY <1>1
  <2>2. QED
    BY <2>1, HeldValues, HeldNext
<1>3. /\ IsFiniteSet(HeldBy(1)') /\ IsFiniteSet(HeldBy(2)')
      /\ Cardinality(HeldBy(1)') = Cardinality(HeldBy(1)) + (IF Held(c)' = 1 THEN 1 ELSE 0)
                                                          - (IF Held(c) = 1 THEN 1 ELSE 0)
      /\ Cardinality(HeldBy(2)') = Cardinality(HeldBy(2)) + (IF Held(c)' = 2 THEN 1 ELSE 0)
                                                          - (IF Held(c) = 2 THEN 1 ELSE 0)
  BY <1>1, OneMoves
<1>4. /\ Cardinality(HeldBy(1)) \in Nat /\ Cardinality(HeldBy(2)) \in Nat
      /\ Cardinality(HeldBy(1)') \in Nat /\ Cardinality(HeldBy(2)') \in Nat
  BY <1>3, FS_CardinalityType DEF PoolInv
<1>5. /\ free \in Nat /\ PoolSize \in Nat
      /\ free + Cardinality(HeldBy(1)) + 2 * Cardinality(HeldBy(2)) = PoolSize
  BY PoolAssumption DEF PoolInv, PoolTypeOK
<1>6. free' + Cardinality(HeldBy(1)') + 2 * Cardinality(HeldBy(2)') = PoolSize
  BY <1>2, <1>3, <1>4, <1>5
<1>7. free' \in 0..PoolSize
  BY <1>4, <1>5, <1>6
<1>8. QED
  BY <1>1, <1>3, <1>6, <1>7 DEF PoolInv, PoolTypeOK

LEMMA MoveKeeps ==
    ASSUME PoolInv, NEW c \in Clients, NEW from \in Steps, NEW to \in Steps,
           NEW taken \in Nat, NEW back \in Nat, Move(c, from, to, taken, back),
           Held(c)' + back = Held(c) + taken
    PROVE  PoolInv'
<1> DEFINE new == [work[c] EXCEPT !.at = to]
<1>1. work \in [Clients -> [at: Steps, polls: BOOLEAN]] /\ free \in Nat
  BY PoolAssumption DEF PoolInv, PoolTypeOK
<1>2. new \in [at: Steps, polls: BOOLEAN] /\ work' = [work EXCEPT ![c] = new] /\ new.at = to
  BY <1>1 DEF Move
<1>3. Held(c) \in Nat /\ Held(c)' \in Nat
  <2>1. work[c].at \in Steps /\ work'[c].at \in Steps
    BY <1>1, <1>2
  <2>2. Held(c) \in {0, 1, 2} /\ Held(c)' \in {0, 1, 2}
    BY <2>1, HeldValues, HeldNext
  <2>3. \A n \in {0, 1, 2} : n \in Nat
    OBVIOUS
  <2>4. QED
    BY <2>2, <2>3, Zenon
<1>4. free' \in Nat /\ free' = free - taken + back
  BY <1>1 DEF Move
<1>5. free' + Held(c)' = free + Held(c)
  BY <1>1, <1>3, <1>4
<1> HIDE DEF new
<1>6. QED
  BY <1>2, <1>4, <1>5, Balance

\* How many a request holds before and after a move.
LEMMA HeldAfter ==
    ASSUME PoolInv, NEW c \in Clients, NEW from \in Steps, NEW to \in Steps, NEW taken, NEW back,
           Move(c, from, to, taken, back)
    PROVE  /\ work[c].at = from /\ work'[c].at = to
           /\ from \in {"none", "queued"} => Held(c) = 0
           /\ from \in {"running", "queued again"} => Held(c) = 1
           /\ from = "storing" => Held(c) = 2
           /\ to \in {"none", "queued"} => Held(c)' = 0
           /\ to \in {"running", "queued again"} => Held(c)' = 1
           /\ to = "storing" => Held(c)' = 2
<1>1. work[c].at = from /\ work'[c].at = to
  BY DEF PoolInv, PoolTypeOK, Move
<1>2. QED
  BY <1>1, HeldValues, HeldNext

LEMMA PoolStep ==
    ASSUME PoolInv, [PoolNext]_poolVars
    PROVE  PoolInv'
<1>0. /\ work \in [Clients -> [at: Steps, polls: BOOLEAN]] /\ free \in Nat
      /\ {"none", "queued", "running", "queued again", "storing"} \subseteq Steps
  <2>1. PoolSize \in Nat /\ free \in 0..PoolSize
    BY PoolAssumption DEF PoolInv, PoolTypeOK
  <2>2. free \in Nat
    BY <2>1
  <2>3. QED
    BY <2>2 DEF PoolInv, PoolTypeOK, Steps
<1>1. ASSUME NEW c \in Clients, NEW polls \in BOOLEAN, Call(c, polls) PROVE PoolInv'
  <2>1. [at |-> "queued", polls |-> polls] \in [at: Steps, polls: BOOLEAN]
    BY <1>0
  <2>2. Held(c) = 0 /\ Held(c)' = 0
    <3>1. work[c].at = "none" /\ work'[c].at = "queued"
      BY <1>0, <1>1 DEF Call
    <3>2. QED
      BY <1>0, <3>1, HeldValues, HeldNext
  <2>3. free' \in Nat /\ free' + Held(c)' = free + Held(c)
    BY <1>0, <1>1, <2>2 DEF Call
  <2>4. QED
    BY <1>1, <2>1, <2>3, Balance DEF Call
<1>2. ASSUME NEW c \in Clients, AcquireConn(c) PROVE PoolInv'
  <2>1. Held(c) = 0 /\ Held(c)' = 1
    BY <1>0, <1>2, HeldAfter DEF AcquireConn
  <2>2. Held(c)' + 0 = Held(c) + 1
    BY <2>1
  <2>3. 0 \in Nat /\ 1 \in Nat
    OBVIOUS
  <2>4. QED
    BY <1>0, <1>2, <2>2, <2>3, MoveKeeps DEF AcquireConn
<1>3. ASSUME NEW c \in Clients, AcquireSecond(c) PROVE PoolInv'
  <2>1. Held(c) = 1 /\ Held(c)' = 2
    BY <1>0, <1>3, HeldAfter DEF AcquireSecond
  <2>2. Held(c)' + 0 = Held(c) + 1
    BY <2>1
  <2>3. 0 \in Nat /\ 1 \in Nat
    OBVIOUS
  <2>4. QED
    BY <1>0, <1>3, <2>2, <2>3, MoveKeeps DEF AcquireSecond
<1>4. ASSUME NEW c \in Clients, AskCharon(c) PROVE PoolInv'
  <2>1. Held(c) = 1 /\ Held(c)' = 1
    BY <1>0, <1>4, HeldAfter DEF AskCharon
  <2>2. QED
    BY <1>0, <1>4, <2>1, MoveKeeps DEF AskCharon
<1>5. ASSUME NEW c \in Clients, StoreDone(c) PROVE PoolInv'
  <2>1. [at |-> "running", polls |-> FALSE] \in [at: Steps, polls: BOOLEAN]
    BY <1>0
  <2>2. Held(c) = 2 /\ Held(c)' = 1
    <3>1. work[c].at = "storing" /\ work'[c].at = "running"
      BY <1>0, <1>5 DEF StoreDone
    <3>2. QED
      BY <1>0, <3>1, HeldValues, HeldNext
  <2>3. free' \in Nat /\ free' + Held(c)' = free + Held(c)
    <3>1. free' = free + 1 /\ free \in Nat
      BY <1>0, <1>5 DEF StoreDone
    <3>2. QED
      BY <2>2, <3>1
  <2>4. QED
    BY <1>5, <2>1, <2>3, Balance DEF StoreDone
<1>6. ASSUME NEW c \in Clients, Done(c) \/ Fails(c) PROVE PoolInv'
  <2>1. Move(c, "running", "none", 0, 1)
    BY <1>6 DEF Done, Fails
  <2>2. Held(c) = 1 /\ Held(c)' = 0
    BY <1>0, <2>1, HeldAfter
  <2>3. Held(c)' + 1 = Held(c) + 0
    BY <2>2
  <2>4. 0 \in Nat /\ 1 \in Nat
    OBVIOUS
  <2>5. QED
    BY <1>0, <2>1, <2>3, <2>4, MoveKeeps
<1>7. CASE PoolRestarts
  <2>1. /\ work' \in [Clients -> [at: Steps, polls: BOOLEAN]]
        /\ free' = PoolSize /\ PoolSize \in Nat
    BY <1>0, <1>7, PoolAssumption DEF PoolRestarts
  <2>2. HeldBy(1)' = {} /\ HeldBy(2)' = {}
    <3>1. \A c \in Clients : work'[c].at = "none"
      BY <1>7 DEF PoolRestarts
    <3>2. \A c \in Clients : Held(c)' = 0
      BY <1>0, <3>1, HeldNext
    <3>3. QED
      BY <3>2 DEF HeldBy
  <2>3. QED
    <3>1. PoolSize + 0 + 2 * 0 = PoolSize /\ PoolSize \in 0..PoolSize
      BY <2>1
    <3>2. QED
      BY <2>1, <2>2, <3>1, FS_EmptySet DEF PoolInv, PoolTypeOK
<1>8. CASE UNCHANGED poolVars
  BY <1>8 DEF poolVars, PoolInv, PoolTypeOK, HeldBy, Held
<1>9. QED
  BY <1>1, <1>2, <1>3, <1>4, <1>5, <1>6, <1>7, <1>8 DEF PoolNext, Acquire, Progress

THEOREM PoolInvariant == PoolSpec => []PoolInv
<1>1. PoolInit => PoolInv
  <2> SUFFICES ASSUME PoolInit PROVE PoolInv
    OBVIOUS
  <2>1. HeldBy(1) = {} /\ HeldBy(2) = {}
    <3>1. \A c \in Clients : work[c].at = "none"
      BY DEF PoolInit
    <3>2. \A c \in Clients : Held(c) = 0
      BY <3>1, HeldValues DEF Steps
    <3>3. QED
      BY <3>2 DEF HeldBy
  <2>2. QED
    BY <2>1, FS_EmptySet, PoolAssumption DEF PoolInit, PoolInv, PoolTypeOK, Steps
<1>2. PoolInv /\ [PoolNext]_poolVars => PoolInv'
  BY PoolStep
<1>3. QED
  BY <1>1, <1>2, PTL DEF PoolSpec

\* "asyncpg queues rather than erroring" (docs/ARCHITECTURE.md:420-421), for any number of
\* requests and connections: a request in the queue waits for a free connection or for one
\* that somebody at work will give back, unless every connection is held by a /refresh that
\* waits for a second one (core/database.py, protocols/ipsec/collector.py:112-170).
THEOREM QueueMoves == PoolSpec => []QueueMovesUnlessExhausted
<1>1. PoolInv => QueueMovesUnlessExhausted
  <2> SUFFICES ASSUME PoolInv, free = 0,
                      \A c \in Clients : work[c].at \notin {"running", "storing"}
               PROVE  Exhausted
    BY PoolAssumption DEF QueueMovesUnlessExhausted, PoolInv, PoolTypeOK
  <2>1. \A c \in Clients : work[c].at \in Steps
    BY DEF PoolInv, PoolTypeOK
  <2>2. HeldBy(2) = {} /\ HeldBy(1) = {c \in Clients : work[c].at = "queued again"}
    <3>1. ASSUME NEW c \in Clients
          PROVE  ~(Held(c) = 2) /\ (Held(c) = 1 <=> work[c].at = "queued again")
      <4>1. CASE work[c].at = "queued again"
        <5>1. Held(c) = 1
          BY <2>1, <4>1, HeldValues
        <5>2. Held(c) # 2
          BY <5>1
        <5>3. QED
          BY <4>1, <5>1, <5>2, Zenon
      <4>2. CASE work[c].at \in {"none", "queued"}
        <5>1. Held(c) = 0
          BY <2>1, <4>2, HeldValues
        <5>2. Held(c) # 2 /\ Held(c) # 1
          BY <5>1
        <5>3. work[c].at # "queued again"
          BY <4>2
        <5>4. QED
          BY <5>2, <5>3, Zenon
      <4>3. QED
        BY <2>1, <4>1, <4>2 DEF Steps
    <3>2. QED
      BY <3>1 DEF HeldBy
  <2>3. Cardinality(HeldBy(2)) = 0 /\ Cardinality(HeldBy(1)) \in Nat
    BY <2>2, FS_EmptySet, FS_CardinalityType DEF PoolInv
  <2>4. 0 + Cardinality(HeldBy(1)) + 2 * 0 = PoolSize
    BY <2>3 DEF PoolInv, PoolTypeOK
  <2>5. Cardinality(HeldBy(1)) = PoolSize
    BY <2>3, <2>4
  <2>6. QED
    BY <2>2, <2>5, Zenon DEF Exhausted
<1>2. QED
  BY <1>1, PoolInvariant, PTL

-----------------------------------------------------------------------------
(* The four together.                                                      *)


(***************************************************************************)
(* Of a behaviour of the four together each component sees one of its own, *)
(* with stutters while another has the focus.                              *)
(***************************************************************************)
THEOREM OwnBehaviour ==
    MCSpec => ThrottleSpec /\ AccessSpec /\ CaSpec /\ PoolSpec
<1>1. MCInit => ThrottleInit /\ AccessInit /\ CaInit /\ PoolInit
  BY DEF MCInit
<1>2. [MCNext]_AuthVars => /\ [ThrottleNext]_throttleVars /\ [AccessNext]_accessVars
                           /\ [CaNext]_certVars /\ [PoolNext]_poolVars
  BY DEF MCNext, Throttle, Accounts, Authority, Connections, AuthVars
<1>3. QED
  BY <1>1, <1>2, PTL DEF MCSpec, ThrottleSpec, AccessSpec, CaSpec, PoolSpec

(***************************************************************************)
(* The state of each of them is well formed, whatever the others do: a key *)
(* is never empty and carries what its scopes imply, no certificate has    *)
(* serial 0, a count that is gone has no end, and no connection of the     *)
(* pool is lost or handed out twice.                                       *)
(***************************************************************************)
THEOREM AuthTypes == MCSpec => []AuthTypeOK
<1>1. Budget => ThrottleTypeOK
  BY DEF Budget
<1>2. AccessInv => AccessTypeOK
  BY DEF AccessInv, Types, Origins, KeyDescended, Closed, IsKey, AccessTypeOK
<1>3. CaInv => CaTypeOK
  BY DEF CaInv
<1>4. PoolInv => PoolTypeOK
  BY DEF PoolInv
<1>5. ThrottleTypeOK /\ AccessTypeOK /\ CaTypeOK /\ PoolTypeOK => AuthTypeOK
  BY DEF AuthTypeOK
<1>6. QED
  BY <1>1, <1>2, <1>3, <1>4, <1>5, OwnBehaviour, BudgetKept, AccessInvariant, CaInvariant,
     PoolInvariant, PTL
=============================================================================
