----------------------------- MODULE InstallSteps -----------------------------
(***************************************************************************)
(* The installation plan of internal/installer: buildSteps() returns eleven *)
(* steps, and each step is a short sequence of items of three kinds:        *)
(*   check   work that changes nothing outside what is already journaled    *)
(*           (precheck, a wait for a port or a unit, final verification);   *)
(*   record  Journal.Record: snapshot the resource, append it to the        *)
(*           write-ahead rollback journal, fsync;                           *)
(*   apply   the change that the record announced.                          *)
(* An item also carries the condition under which the step skips it.        *)
(***************************************************************************)
EXTENDS Naturals, Sequences, SequencesExt

\* The resources of the host an installation changes. The server key files are
\* a parameter (Files), the firewall rules are counted apart (Rules).
FixedResources == {"pkg", "easyrsa", "logdir", "conf", "sysctl", "sysctl6", "stub", "svc"}

\* The conditions of an item. always: unconditional. ifAbsent: nothing to do when
\* the resource is already there. ifPresent: nothing to do when it is already
\* gone. fresh: an error when it exists.
Check(step) ==
    [step |-> step, op |-> "check", act |-> "file", res |-> "none", cond |-> "always"]

Record(step, act, res, cond) ==
    [step |-> step, op |-> "record", act |-> act, res |-> res, cond |-> cond]

Apply(step, act, res) ==
    [step |-> step, op |-> "apply", act |-> act, res |-> res, cond |-> "always"]

\* Record the old state, then make the change.
Journaled(step, act, res, cond) == <<Record(step, act, res, cond), Apply(step, act, res)>>

\* stepPackages: apt-get update, then only the packages that are missing are
\* recorded and installed, then the version probe.
StepPackages == <<Check("pkgs")>> \o Journaled("pkgs", "pkg", "pkg", "ifAbsent") \o <<Check("pkgs")>>

\* stepEasyRSA: an existing directory is an error; download, extract, rename.
StepEasyRSA == Journaled("easyrsa", "dir", "easyrsa", "fresh")

\* stepPKI: writes only below the easyrsa directory, which is journaled already.
StepPKI == <<Apply("pki", "dir", "easyrsa")>>

\* stepServerConf: the key files in order, the log directory if it is missing,
\* and server.conf last: its existence is what Installed() looks at.
StepServerConf(files) ==
    <<Check("serverconf")>>
        \o FlattenSeq([i \in 1..Len(files) |-> Journaled("serverconf", "file", files[i], "always")])
        \o Journaled("serverconf", "dir", "logdir", "ifAbsent")
        \o Journaled("serverconf", "file", "conf", "always")

StepSysctl(p) ==
    Journaled("sysctl", "sysctl", "sysctl", "always")
        \o (IF p.ipv6 THEN Journaled("sysctl", "sysctl", "sysctl6", "always") ELSE <<>>)

\* stepFirewall: one journal entry for all the rules, then iptables -A one by
\* one, then netfilter-persistent save.
StepFirewall(rules) ==
    <<Check("firewall"), Record("firewall", "rules", "rules", "always")>>
        \o [i \in 1..Len(rules) |-> Apply("firewall", "rules", rules[i])]
        \o <<Check("firewall")>>

\* stepFreePort53: skipped unless the server is to listen on port 53; when the
\* resolved stub does not listen, port 53 is free and nothing is recorded.
StepFreePort53(p) ==
    IF p.freePort53 /\ p.port53
    THEN <<Check("freeport53")>> \o Journaled("freeport53", "stub", "stub", "ifPresent")
            \o <<Check("freeport53")>>
    ELSE <<>>

StepService == Journaled("service", "svc", "svc", "always") \o <<Check("service")>>

\* stepDNSSelf: skipped unless the VPN clients use this host as their resolver.
StepDNSSelf(p) ==
    IF p.self THEN Journaled("dnsself", "stub", "stub", "always") \o <<Check("dnsself")>> ELSE <<>>

\* Params.Normalize: the self DNS mode excludes port 53, and freePort53 has no
\* meaning on any other port.
Normalized(p) == ~(p.self /\ p.port53) /\ (p.freePort53 => p.port53)

\* buildSteps, with every step expanded to its items.
BuildPlan(p, files, rules) ==
    <<Check("precheck")>> \o StepPackages \o StepEasyRSA \o StepPKI \o StepServerConf(files)
        \o StepSysctl(p) \o StepFirewall(rules) \o StepFreePort53(p) \o StepService
        \o StepDNSSelf(p) \o <<Check("verify")>>

===============================================================================
