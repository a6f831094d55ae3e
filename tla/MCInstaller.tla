----------------------------- MODULE MCInstaller -----------------------------
(***************************************************************************)
(* Instances of Installer for TLC: the plan is built from installation      *)
(* parameters as buildSteps() does, on small hosts.                          *)
(***************************************************************************)
EXTENDS Installer, InstallSteps

MCResources == FixedResources \union {"crl"}
MCRules == {"masquerade", "forward"}

\* One key file of the five and two rules of the four.
MCFiles == <<"crl">>
MCRuleSeq == <<"masquerade", "forward">>

\* OpenVPN on port 53 with the resolved stub in the way, IPv4 only.
Port53Params == [ipv6 |-> FALSE, freePort53 |-> TRUE, port53 |-> TRUE, self |-> FALSE]
Port53Plan == BuildPlan(Port53Params, MCFiles, MCRuleSeq)

\* Every optional step of a server that resolves for its clients.
SelfParams == [ipv6 |-> TRUE, freePort53 |-> FALSE, port53 |-> FALSE, self |-> TRUE]
SelfPlan == BuildPlan(SelfParams, MCFiles, MCRuleSeq)

ASSUME Normalized(Port53Params) /\ Normalized(SelfParams)

\* A fresh host: resolved runs with its stub, nothing else is there.
FreshHost == [r \in MCResources |-> IF r = "stub" THEN "user" ELSE "absent"]

\* A host with OpenVPN installed, an old key file, a sysctl file and a log
\* directory of its own.
UsedHost == [FreshHost EXCEPT !["pkg"] = "user", !["crl"] = "userMode", !["sysctl"] = "user",
                              !["logdir"] = "user", !["stub"] = "absent"]

\* A directory of an earlier EasyRSA is in the way.
OldPkiHost == [FreshHost EXCEPT !["easyrsa"] = "user"]

FreshHosts == {FreshHost}
AllHosts == {FreshHost, UsedHost, OldPkiHost}
UsedHosts == {UsedHost}

NoRules == {[r \in MCRules |-> 0]}
UserRules == {[r \in MCRules |-> IF r = "forward" THEN 1 ELSE 0]}
AnyRules == NoRules \union UserRules

===============================================================================
