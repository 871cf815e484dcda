-------------------------- MODULE MCRefreshTokens --------------------------
(* Small instances of RefreshTokens for TLC. *)
EXTENDS RefreshTokens, TLC

Symmetric == Permutations(Users) \cup Permutations(Requests)
=============================================================================
