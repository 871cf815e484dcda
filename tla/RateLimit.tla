----------------------------- MODULE RateLimit -----------------------------
(***************************************************************************)
(* core/ratelimit.py on one bucket (an IP address and an e-mail address),  *)
(* as /login uses it: check() before the password is verified, reset()     *)
(* after it was right.  Redis counts; when a command to it fails the       *)
(* attempt is counted again in PostgreSQL, and when that fails too it is   *)
(* let through.  A handler may be overtaken at every command.              *)
(* Time is relative: a TTL is the number of ticks it has left and a        *)
(* timestamp is its age, so that no behaviour has to be cut off.  Redis    *)
(* keeps its data when it is restarted (compose.yaml:52).                  *)
(***************************************************************************)
EXTENDS Naturals

CONSTANTS
    Attempts,   \* handlers of /login at work at once
    Limit,      \* LOGIN_RATE_LIMIT
    Window,     \* LOGIN_RATE_WINDOW_SECONDS, in ticks
    Lockout     \* LOGIN_LOCKOUT_SECONDS, in ticks; 0 for none (/refresh)

\* A tick is longer than a command (socket_timeout=5), and a lockout outlasts
\* the window by more than that (900 and 300 seconds).
ASSUME Limits_Assumption ==
    /\ Limit \in Nat \ {0} /\ Window \in Nat \ {0} /\ Lockout \in Nat
    /\ Lockout = 0 \/ Lockout > Window

VARIABLES
    counter,    \* the Redis counter and its TTL; count 0: no such key
    lock,       \* the TTL of the Redis lock; 0: no such key
    row,        \* the row of auth_throttle; attempts 0: no such row
    call,       \* how far each handler is
    used,       \* history: attempts each store admitted in its present window
    promise     \* history: the last refusal, if nobody has tried since

throttleVars == <<counter, lock, row, call, used, promise>>

Stores == {"redis", "postgres"}
NoEnd == 0                      \* the TTL of a key that never expires
NoPromise == [by |-> "nobody", due |-> 0]
Phases == {"idle", "lock", "incr", "expire", "setex", "upsert", "block", "refused",
           "verify", "forget", "delete"}
Attempt == [pc: Phases,
            over: BOOLEAN,                       \* the count was beyond the limit
            by: Stores \cup {"nobody"},          \* who refused it
            wait: Nat,                           \* Retry-After
            patient: Stores \cup {"nobody"},     \* history: it waited as that store told it to
            alone: BOOLEAN,                      \* history: no other attempt overlapped it
            late: BOOLEAN]                       \* history: a tick has passed since it came
NoAttempt == [pc |-> "idle", over |-> FALSE, by |-> "nobody", wait |-> 0,
              patient |-> "nobody", alone |-> FALSE, late |-> FALSE]

ThrottleTypeOK ==
    /\ counter \in [count: 0..Limit + 1, ttl: 0..Window]
    /\ counter.count = 0 => counter.ttl = 0
    /\ lock \in 0..Lockout
    /\ row \in [attempts: 0..Limit + 1, age: 0..Window + 1, blocked: 0..Lockout]
    /\ call \in [Attempts -> Attempt]
    /\ used \in [Stores -> Nat]
    /\ promise \in [by: Stores \cup {"nobody"}, due: Nat]

NoKey == [count |-> 0, ttl |-> NoEnd]
NoRow == [attempts |-> 0, age |-> 0, blocked |-> 0]

ThrottleInit ==
    /\ counter = NoKey /\ lock = 0 /\ row = NoRow
    /\ call = [r \in Attempts |-> NoAttempt]
    /\ used = [b \in Stores |-> 0]
    /\ promise = NoPromise

-----------------------------------------------------------------------------
(* The steps of one handler.  (Seeded faults are no part of the next-state *)
(* relation.)                                                              *)

\* Counts are compared with the limit and with nothing else.
Plus(count, n) == IF count + n > Limit THEN Limit + 1 ELSE count + n

Goto(r, step) == call' = [call EXCEPT ![r].pc = step]
Refuse(r, store, wait) ==
    call' = [call EXCEPT ![r].pc = "refused", ![r].by = store, ![r].wait = wait]
Pass(r) == call' = [call EXCEPT ![r] = [NoAttempt EXCEPT !.pc = "verify",
                                                         !.late = call[r].late]]

\* An attempt counted in the present window of a store, or in a new one.
Admit(store, fresh) == used' = [used EXCEPT ![store] = IF fresh THEN 1 ELSE @ + 1]
Renew(store, fresh) == used' = IF fresh THEN [used EXCEPT ![store] = 0] ELSE used

Idle(r) == call[r].pc = "idle"
Alone(r) == \A q \in Attempts \ {r} : Idle(q)

\* A stop between INCR and EXPIRE, or an EXPIRE that failed, has left a count that
\* outlives its window and the lockout, until the next attempt gives it an end.
Endless == counter.count > 0 /\ counter.ttl = NoEnd

\* get_redis_optional gives a client, verified by a ping or by nobody yet, or none and
\* PostgreSQL is asked at once.
FirstSteps == {"lock", "upsert"}

Arrive(r) ==
    /\ Idle(r)
    /\ \E step \in FirstSteps :
          call' = [q \in Attempts |->
                     IF q = r
                     THEN [NoAttempt EXCEPT !.pc = step, !.alone = Alone(r),
                             !.patient = IF promise.due = 0 /\ ~Endless THEN promise.by
                                         ELSE "nobody"]
                     ELSE IF Idle(q) THEN call[q] ELSE [call[q] EXCEPT !.alone = FALSE]]
    /\ promise' = NoPromise
    /\ UNCHANGED <<counter, lock, row, used>>

\* Any exception of a Redis command.
RedisFails(r) ==
    /\ call[r].pc \in {"lock", "incr", "expire", "setex"}
    /\ Goto(r, "upsert")
    /\ UNCHANGED <<counter, lock, row, used, promise>>

\* Seeded fault: a locked bucket answers with the window, not with the lock.
ReadLockWindow(r) ==
    /\ call[r].pc = "lock"
    /\ IF lock > 0 THEN Refuse(r, "redis", Window) ELSE Goto(r, "incr")
    /\ UNCHANGED <<counter, lock, row, used, promise>>

ReadLock(r) ==
    /\ call[r].pc = "lock"
    /\ IF lock > 0 THEN Refuse(r, "redis", lock) ELSE Goto(r, "incr")
    /\ UNCHANGED <<counter, lock, row, used, promise>>

\* What follows once the counter has an end, ttl ticks away.
Judge(r, over, ttl) ==
    IF ~over THEN Pass(r) ELSE IF Lockout > 0 THEN Goto(r, "setex") ELSE Refuse(r, "redis", ttl)

\* INCR and TTL in one transaction, which redis-py repeats once after a
\* time-out (retry_on_timeout): an attempt may count twice.
CountIn(r, n, after) ==
    LET count == Plus(counter.count, n)
        over == after > Limit
    IN /\ counter' = [counter EXCEPT !.count = count]
       /\ IF over THEN Renew("redis", counter.count = 0)
                  ELSE Admit("redis", counter.count = 0)
       /\ IF counter.ttl = NoEnd
          THEN call' = [call EXCEPT ![r].pc = "expire", ![r].over = over]
          ELSE Judge(r, over, counter.ttl)

\* Seeded fault: the count before the increment decides.
IncrStale(r) ==
    /\ call[r].pc = "incr"
    /\ CountIn(r, 1, counter.count)
    /\ UNCHANGED <<lock, row, promise>>

Incr(r) ==
    /\ call[r].pc = "incr"
    /\ \E n \in {1, 2} : CountIn(r, n, Plus(counter.count, n))
    /\ UNCHANGED <<lock, row, promise>>

\* The transaction was carried out, and its answer was lost.
IncrLost(r) ==
    /\ call[r].pc = "incr"
    /\ counter' = [counter EXCEPT !.count = Plus(@, 1)]
    /\ Renew("redis", counter.count = 0)
    /\ Goto(r, "upsert")
    /\ UNCHANGED <<lock, row, promise>>

\* Seeded fault: the end is set for a key that may have gone.
ExpireGone(r) ==
    /\ call[r].pc = "expire"
    /\ counter' = [counter EXCEPT !.ttl = Window]
    /\ Judge(r, call[r].over, Window)
    /\ UNCHANGED <<lock, row, used, promise>>

\* EXPIRE does nothing to a key that has been deleted meanwhile.
Expire(r) ==
    /\ call[r].pc = "expire"
    /\ counter' = IF counter.count = 0 THEN counter ELSE [counter EXCEPT !.ttl = Window]
    /\ Judge(r, call[r].over, Window)
    /\ UNCHANGED <<lock, row, used, promise>>

\* SETEX; if only its answer is lost the attempt goes on to PostgreSQL.
SetLock(r) ==
    /\ call[r].pc = "setex"
    /\ lock' = Lockout
    /\ Refuse(r, "redis", Lockout) \/ Goto(r, "upsert")
    /\ UNCHANGED <<counter, row, used, promise>>

\* The upsert of auth_throttle: one statement, which counts the attempt before
\* it tells whether the bucket is blocked.
Upsert(r) ==
    /\ call[r].pc = "upsert"
    /\ LET fresh == row.attempts = 0 \/ row.age > Window
           next == IF fresh THEN [row EXCEPT !.attempts = 1, !.age = 0]
                            ELSE [row EXCEPT !.attempts = Plus(@, 1)]
           admitted == row.blocked = 0 /\ next.attempts <= Limit
       IN /\ row' = next
          /\ IF admitted THEN Admit("postgres", fresh) ELSE Renew("postgres", fresh)
          /\ CASE row.blocked > 0 -> Refuse(r, "postgres", row.blocked)
               [] admitted -> Pass(r)
               [] row.blocked = 0 /\ ~admitted ->
                     IF Lockout > 0 THEN Goto(r, "block") ELSE Refuse(r, "postgres", Window)
    /\ UNCHANGED <<counter, lock, promise>>

Block(r) ==
    /\ call[r].pc = "block"
    /\ row' = IF row.attempts = 0 THEN row ELSE [row EXCEPT !.blocked = Lockout]
    /\ Refuse(r, "postgres", Lockout)
    /\ UNCHANGED <<counter, lock, used, promise>>

\* A statement that fails lets the attempt through.
PostgresFails(r) ==
    /\ call[r].pc \in {"upsert", "block"}
    /\ Pass(r)
    /\ UNCHANGED <<counter, lock, row, used, promise>>

\* 429, with Retry-After.
Answer(r) ==
    /\ call[r].pc = "refused"
    /\ call' = [call EXCEPT ![r] = NoAttempt]
    /\ promise' = IF call[r].alone THEN [by |-> call[r].by, due |-> call[r].wait]
                ELSE NoPromise
    /\ UNCHANGED <<counter, lock, row, used>>

\* authenticate_user: 401, or reset() follows.
Verify(r) ==
    /\ call[r].pc = "verify"
    /\ call' = [call EXCEPT ![r] = NoAttempt] \/ Goto(r, "forget")
    /\ UNCHANGED <<counter, lock, row, used, promise>>

\* What a store has forgotten does not count against it any more.
Forgotten(store) == used' = [used EXCEPT ![store] = 0]

\* reset() deletes both keys, then the row; exceptions are swallowed.
Forget(r) ==
    /\ call[r].pc = "forget"
    /\ Goto(r, "delete")
    /\ \/ counter' = NoKey /\ lock' = 0 /\ Forgotten("redis")
       \/ UNCHANGED <<counter, lock, used>>
    /\ UNCHANGED <<row, promise>>

Delete(r) ==
    /\ call[r].pc = "delete"
    /\ call' = [call EXCEPT ![r] = NoAttempt]
    /\ \/ row' = NoRow /\ Forgotten("postgres")
       \/ UNCHANGED <<row, used>>
    /\ UNCHANGED <<counter, lock, promise>>

Crash ==
    /\ call' = [r \in Attempts |-> NoAttempt]
    /\ UNCHANGED <<counter, lock, row, used, promise>>

-----------------------------------------------------------------------------
(* Time.                                                                   *)

Down(ticks) == IF ticks > 0 THEN ticks - 1 ELSE 0

\* Handlers take less than two ticks.
Tick ==
    /\ \A r \in Attempts : ~call[r].late
    /\ counter' = IF counter.ttl = 1 THEN NoKey ELSE [counter EXCEPT !.ttl = Down(@)]
    /\ used' = IF counter.ttl = 1 THEN [used EXCEPT !["redis"] = 0] ELSE used
    /\ lock' = Down(lock)
    /\ row' = [row EXCEPT !.age = IF row.attempts > 0 /\ @ <= Window THEN @ + 1 ELSE @,
                          !.blocked = Down(@)]
    /\ call' = [r \in Attempts |-> [call[r] EXCEPT !.late = ~Idle(r)]]
    /\ promise' = [promise EXCEPT !.due = Down(@)]

Handle(r) ==
    \/ RedisFails(r)
    \/ ReadLock(r)
    \/ Incr(r)
    \/ IncrLost(r)
    \/ Expire(r)
    \/ SetLock(r)
    \/ Upsert(r)
    \/ Block(r)
    \/ PostgresFails(r)
    \/ Answer(r)
    \/ Verify(r)
    \/ Forget(r)
    \/ Delete(r)

ThrottleNext ==
    \/ \E r \in Attempts : Arrive(r)
    \/ \E r \in Attempts : Handle(r)
    \/ Crash
    \/ Tick

ThrottleSpec == ThrottleInit /\ [][ThrottleNext]_throttleVars

-----------------------------------------------------------------------------
(* Properties.                                                             *)

\* However attempts interleave, fail half-way or are counted twice: a store lets
\* no more than Limit of them through to the password check in one window
\* (ratelimit.py:82, "attempts permitted per window").
LimitPerWindow == \A b \in Stores : used[b] <= Limit

\* A caller whom Redis refused, who comes back when Retry-After has passed, whom
\* nobody anticipated or overlapped and who finds no endless count, is not refused by
\* Redis again.  (PostgreSQL counts the attempts made while the bucket is blocked, and
\* keeps no such promise.  With a Limit of 1 an attempt that is counted twice is one too
\* many.)
RetryAfterHonoured ==
    \A r \in Attempts :
        call[r].pc = "refused" /\ call[r].by = "redis" /\ call[r].alone
            => call[r].patient # "redis"
=============================================================================
