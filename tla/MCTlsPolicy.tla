---------------------------- MODULE MCTlsPolicy ----------------------------
(* Small instances of TlsPolicy for TLC. *)
EXTENDS TlsPolicy, TLC

Symmetric == Permutations(Calls)
=============================================================================
