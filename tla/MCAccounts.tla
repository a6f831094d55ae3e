------------------------------- MODULE MCAccounts -------------------------------
(* Instances of Accounts for TLC. *)
EXTENDS Accounts, TLC

Symmetry == Permutations(Users) \cup Permutations(Passwords) \cup Permutations(Requests)

===============================================================================
