----------------------------- MODULE MCSessions -----------------------------
(***************************************************************************)
(* The token store of the server, and the browser whose cookies it fills:  *)
(* BrowserSession takes each handler for one step, so nothing is lost by   *)
(* exploring the two side by side, each behaviour being one of them.       *)
(***************************************************************************)
EXTENDS RefreshTokens, BrowserSession, TLC
CONSTANTS u1, u2, r1, r2
VARIABLE focus

\* u1 and u2 are the users and the tabs, r1 and r2 the handlers and the requests under way.
Symmetric == Permutations(Users) \cup Permutations(Requests)

SessionsInit == Init /\ BrowserInit /\ focus \in {"store", "browser"}
Store == focus = "store" /\ Next /\ UNCHANGED <<focus, browserVars>>
Browser == focus = "browser" /\ BrowserNext /\ UNCHANGED <<focus, vars>>
SessionsNext == Store \/ Browser
SessionsSpec == SessionsInit /\ [][SessionsNext]_<<focus, vars, browserVars>>
=============================================================================
