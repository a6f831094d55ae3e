-------------------------------- MODULE MCCerts --------------------------------
(***************************************************************************)
(* Instances of Certs for TLC. Requests, users and names are interchangeable *)
(* in the runs that check invariants only.                                    *)
(***************************************************************************)
EXTENDS Certs, TLC

Symmetry == Permutations(Requests) \union Permutations(Users) \union Permutations(CNs)

===============================================================================
