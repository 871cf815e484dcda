---------------------------- MODULE MCSshPolicy ----------------------------
(* Small instances of SshPolicy for TLC. *)
EXTENDS SshPolicy, TLC

Symmetric == Permutations(Threads) \cup Permutations(Calls) \cup Permutations(Policies)
=============================================================================
