----------------------------- MODULE MCAccounts -----------------------------
(* An instance of Accounts for TLC. *)
EXTENDS Accounts, TLC
CONSTANTS u1, u2, r1, r2
Symmetric == Permutations(Slots)
=============================================================================
