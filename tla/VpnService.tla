------------------------------- MODULE VpnService -------------------------------
(***************************************************************************)
(* updates.UpgradeOpenVPN and handleServiceCtl: the package goes by apt, the   *)
(* service by systemctl. Whether it was running is asked before apt starts,     *)
(* which takes minutes.                                                         *)
(***************************************************************************)
EXTENDS OpenVPNUnit

CONSTANTS
    Requests,
    MaxPackage,  \* bound on the versions of the package
    Faults,
    MaxFaults

VARIABLES
    package,    \* the installed version, 0: none; negative: apt was killed half way
    candidate,  \* the version apt would install
    vpn,        \* the unit
    apt,        \* the requests that upgrade the package
    files,      \* what a backup restores; "server" is the configuration
    faults

IdleApt == [pc |-> "idle", was |-> FALSE, answer |-> "none"]

At(r, at) == apt[r].pc = at
Answers(r, what) == apt' = [apt EXCEPT ![r].pc = "answer", ![r].answer = what]

Fails(kind) == kind \in Faults /\ faults < MaxFaults /\ faults' = faults + 1

-------------------------------------------------------------------------------

\* The distribution has a newer package.
NewPackage ==
    /\ candidate < MaxPackage /\ candidate' = candidate + 1
    /\ UNCHANGED <<package, vpn, apt, files, faults>>

\* handleServiceCtl.
Control(action) ==
    /\ package # 0
    /\ vpn' = CASE action = "stop" -> Down
                [] action = "restart" -> Started(package, files["server"])
                [] action = "start" ->
                      IF vpn.active THEN vpn ELSE Started(package, files["server"])
    /\ UNCHANGED <<package, candidate, apt, files, faults>>

\* A service whose state cannot be read is taken not to run.
BeginUpgrade(r) ==
    /\ At(r, "idle")
    /\ \E was \in BOOLEAN :
          /\ \/ was = vpn.active /\ UNCHANGED faults
             \/ was = FALSE /\ Fails("status")
          /\ apt' = [apt EXCEPT ![r] = [pc |-> "install", was |-> was, answer |-> "none"]]
    /\ UNCHANGED <<package, candidate, vpn, files>>

\* apt-get install --only-upgrade runs on the context of the request: when the client
\* goes or its deadline passes, apt is killed where it is.
Install(r) ==
    /\ At(r, "install")
    /\ \/ /\ package' = IF package = 0 THEN 0 ELSE candidate
          /\ IF apt[r].was THEN apt' = [apt EXCEPT ![r].pc = "restart"]
             ELSE Answers(r, "upgraded")
          /\ UNCHANGED faults
       \/ /\ Fails("apt") /\ Answers(r, "failed")
          /\ package' \in {package, IF package = 0 THEN 0 ELSE -candidate}
    /\ UNCHANGED <<candidate, vpn, files>>

\* Variant: the service goes on with what it runs.
RestartNot(r) ==
    /\ At(r, "restart") /\ Answers(r, "upgraded")
    /\ UNCHANGED <<package, candidate, vpn, files, faults>>

Restart(r) ==
    /\ At(r, "restart")
    /\ \/ /\ vpn' = Started(package, files["server"]) /\ UNCHANGED faults
          /\ Answers(r, IF vpn'.active THEN "upgraded" ELSE "failed")
       \/ Fails("restart") /\ Answers(r, "failed") /\ UNCHANGED vpn
    /\ UNCHANGED <<package, candidate, files>>

Answer(r) ==
    /\ At(r, "answer")
    /\ apt' = [apt EXCEPT ![r] = IdleApt]
    /\ UNCHANGED <<package, candidate, vpn, files, faults>>

Step(r) == Install(r) \/ Restart(r) \/ Answer(r)

\* Requests die with the panel.
Forget == apt' = [r \in Requests |-> IdleApt]

-------------------------------------------------------------------------------

ServiceType ==
    /\ package \in -MaxPackage..MaxPackage /\ candidate \in 1..MaxPackage
    /\ vpn.active => vpn.run > 0 /\ vpn.conf > 0

\* A service that was seen to run before the upgrade runs the new package after it.
AnswersRight(r) ==
    At(r, "answer") /\ apt[r].answer = "upgraded" /\ apt[r].was =>
        vpn.active /\ vpn.run = package

===============================================================================
