---------------------------- MODULE MCHostAgent ----------------------------
(* Small instances of HostAgent for TLC. *)
EXTENDS HostAgent, TLC

Symmetric == Permutations(Threads) \cup Permutations(Policies)
=============================================================================
