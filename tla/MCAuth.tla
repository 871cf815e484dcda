------------------------------- MODULE MCAuth -------------------------------
(***************************************************************************)
(* The throttle in front of /login, the accounts and keys behind it, the   *)
(* certificate authority and the connection pool share no state: a         *)
(* behaviour exercises one of them, and the others rest.                   *)
(***************************************************************************)
EXTENDS RateLimit, Access, SshCa, ConnectionPool, TLC
CONSTANTS u1, u2, k1, t1, h1, h2, root, c1, c2, c3
VARIABLE focus

MCPosts == {<<"admin", "main">>, <<"operator", "tls">>}
MCRequests == {{}, {"tls:admin"}}
MCSym == Permutations(Users) \cup Permutations(Handlers)

AuthVars == <<focus, throttleVars, accessVars, certVars, poolVars>>

MCInit ==
    /\ ThrottleInit /\ AccessInit /\ CaInit /\ PoolInit
    /\ focus \in {"access", "throttle", "ca", "pool"}
    /\ focus # "access" => \A u \in Users : account[u].email = AnyEmail
Throttle ==
    /\ focus = "throttle" /\ ThrottleNext
    /\ UNCHANGED <<focus, accessVars, certVars, poolVars>>
Accounts ==
    /\ focus = "access" /\ AccessNext
    /\ UNCHANGED <<focus, throttleVars, certVars, poolVars>>
Authority ==
    /\ focus = "ca" /\ CaNext
    /\ UNCHANGED <<focus, throttleVars, accessVars, poolVars>>
Connections ==
    /\ focus = "pool" /\ PoolNext
    /\ UNCHANGED <<focus, throttleVars, accessVars, certVars>>

MCNext == Throttle \/ Accounts \/ Authority \/ Connections
MCSpec == MCInit /\ [][MCNext]_AuthVars

\* Every component's state is well formed.
AuthTypeOK == ThrottleTypeOK /\ AccessTypeOK /\ CaTypeOK /\ PoolTypeOK
=============================================================================
