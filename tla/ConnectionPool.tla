--------------------------- MODULE ConnectionPool ---------------------------
(***************************************************************************)
(* The database connections of the API process (core/database.py).  A      *)
(* request acquires one before its handler runs and keeps it to the end    *)
(* (get_db); /health acquires its own.  The handler of POST                *)
(* /api/ipsec/refresh polls VICI and, when there is one, acquires a second *)
(* connection to store what it found.  Acquiring has no timeout: a request *)
(* waits until one is free.                                                *)
(***************************************************************************)
EXTENDS Naturals, FiniteSets

CONSTANTS
    Clients,        \* requests at work at once
    PoolSize        \* max_size

ASSUME PoolAssumption == PoolSize \in Nat \ {0}

VARIABLES
    free,           \* connections that nobody holds
    work            \* how far each request is; the kinds of request are those with and
                    \* without a poll of their own

poolVars == <<free, work>>

Steps == {"none", "queued", "running", "queued again", "storing"}

Held(c) == CASE work[c].at \in {"none", "queued"} -> 0
             [] work[c].at \in {"running", "queued again"} -> 1
             [] work[c].at = "storing" -> 2

HeldBy(n) == {c \in Clients : Held(c) = n}

\* No connection is lost or handed out twice.
PoolTypeOK ==
    /\ free \in 0..PoolSize
    /\ work \in [Clients -> [at: Steps, polls: BOOLEAN]]
    /\ free + Cardinality(HeldBy(1)) + 2 * Cardinality(HeldBy(2)) = PoolSize

PoolInit ==
    /\ free = PoolSize
    /\ work = [c \in Clients |-> [at |-> "none", polls |-> FALSE]]

Move(c, from, to, taken, back) ==
    /\ work[c].at = from /\ free >= taken
    /\ free' = free - taken + back
    /\ work' = [work EXCEPT ![c].at = to]

\* pool.acquire(), of get_db and of collect_once
AcquireConn(c) == Move(c, "queued", "running", 1, 0)
AcquireSecond(c) == Move(c, "queued again", "storing", 1, 0)

\* polls: a /refresh that finds the VICI socket; without one collect_once returns at once.
Call(c, polls) ==
    /\ work[c].at = "none"
    /\ work' = [work EXCEPT ![c] = [at |-> "queued", polls |-> polls]]
    /\ UNCHANGED free

AskCharon(c) == work[c].polls /\ Move(c, "running", "queued again", 0, 0)

\* collect_once returns whether or not its statements failed.
StoreDone(c) ==
    /\ work[c].at = "storing"
    /\ free' = free + 1
    /\ work' = [work EXCEPT ![c] = [at |-> "running", polls |-> FALSE]]

Done(c) == ~work[c].polls /\ Move(c, "running", "none", 0, 1)

\* Seeded fault: a handler that fails keeps its connection.
FailsHolding(c) == Move(c, "running", "none", 0, 0)

\* An exception leaves the context manager, too.
Fails(c) == Move(c, "running", "none", 0, 1)

\* close_pool or a kill, and a new process
PoolRestarts ==
    /\ free' = PoolSize
    /\ work' = [c \in Clients |-> [at |-> "none", polls |-> FALSE]]

Acquire(c) == AcquireConn(c) \/ AcquireSecond(c)
Progress(c) == AskCharon(c) \/ StoreDone(c) \/ Done(c)

PoolNext ==
    \/ \E c \in Clients :
          \/ \E polls \in BOOLEAN : Call(c, polls)
          \/ Acquire(c)
          \/ Progress(c)
          \/ Fails(c)
    \/ PoolRestarts

PoolSpec == PoolInit /\ [][PoolNext]_poolVars

-----------------------------------------------------------------------------
(* Properties.                                                             *)

Waits(c) == work[c].at \in {"queued", "queued again"}

\* Every connection is held by a /refresh that waits for a second one.
Exhausted == Cardinality({c \in Clients : work[c].at = "queued again"}) = PoolSize

\* "asyncpg queues rather than erroring" (docs/ARCHITECTURE.md:420-421): a request that waits
\* for a connection waits for one that is free or that somebody at work will give back,
\* unless there come to be as many /refresh at once as connections: these wait for one
\* another, and then nobody is served any more.
QueueMovesUnlessExhausted ==
    (\E c \in Clients : Waits(c)) =>
        \/ free > 0
        \/ \E c \in Clients : work[c].at \in {"running", "storing"}
        \/ Exhausted
=============================================================================
