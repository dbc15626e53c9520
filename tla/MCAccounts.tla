----------------------------- MODULE MCAccounts -----------------------------
(* Values of Accounts' constants for TLC. *)
EXTENDS Accounts, TLC

CONSTANTS r1, r2, r3, r4, a1

RequestSymmetry == Permutations(Requests)
=============================================================================
