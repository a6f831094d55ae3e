------------------------------- MODULE MCDnsStub -------------------------------
(* Instances of DnsStub for TLC. *)
EXTENDS DnsStub, TLC

Symmetry == Permutations(Requests)

===============================================================================
