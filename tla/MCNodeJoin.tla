------------------------------- MODULE MCNodeJoin -------------------------------
(* Instances of NodeJoin for TLC. *)
EXTENDS NodeJoin, TLC

Symmetry == Permutations(Hosts) \cup Permutations(Names) \cup Permutations(Codes) \cup Permutations(Joiners)

===============================================================================
