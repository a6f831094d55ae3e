------------------------------ MODULE Maintenance ------------------------------
(***************************************************************************)
(* The maintenance handlers together: upgrades of EasyRSA, of OpenVPN and of   *)
(* the panel, backups and restores work on the same directories, the same       *)
(* service and the same process, and nothing in the panel keeps them apart.     *)
(* A restart of the panel, asked for or not, ends all of them where they are.   *)
(***************************************************************************)
EXTENDS OpenVPNUnit, Sequences, FiniteSets

CONSTANTS
    Requests,      \* concurrent requests
    OneAtATime,    \* the administrator waits for each answer
    PutBack, RestartsFirst, InstallWaits, SameSecond,  \* what else he does
    Retries,       \* attempts of a download
    MaxOps,        \* bound on the operations begun
    MaxVersion, MaxPackage, MaxPanel, MaxContent, MaxPlaces,
    MaxNews,       \* bound on the releases that come out, of all three
    Faults,        \* which operations may fail
    MaxFaults,     \* bound on failures
    MaxCrashes     \* bound on ends of the panel's process

FaultKinds == {"extract", "rename", "marker", "copy", "upload", "unpack", "move", "read",
               "apt", "status", "restart"}

ASSUME MaintenanceAssumption ==
    /\ {OneAtATime, PutBack, RestartsFirst, InstallWaits, SameSecond} \subseteq BOOLEAN
    /\ IsFiniteSet(Requests)
    /\ {Retries, MaxVersion, MaxPackage, MaxPanel, MaxPlaces} \subseteq Nat \ {0}
    /\ MaxContent \in Nat /\ 2 <= MaxContent
    /\ {MaxOps, MaxNews, MaxFaults, MaxCrashes} \subseteq Nat
    /\ Faults \subseteq FaultKinds

VARIABLES
    fs, files, vpn, package, faults,         \* what the parts share
    latest, cached, upgrading,               \* EasyRSAUpgrade
    candidate, apt,                          \* VpnService
    bin, fresh, self, running, published, known, updating,  \* PanelUpdate
    installing, archives, staging, kept, restoring, exporting, newest, owed,  \* Backups
    ops,      \* operations begun
    crashes   \* ends of the process

easyrsa == <<latest, cached, upgrading>>
service == <<package, candidate, apt>>
panel == <<bin, fresh, self, running, published, known, updating>>
backups == <<installing, archives, staging, kept, restoring, exporting, newest, owed>>
counts == <<ops, crashes>>
vars == <<fs, files, vpn, faults, easyrsa, service, panel, backups, counts>>

Upgrade == INSTANCE EasyRSAUpgrade
Service == INSTANCE VpnService
Panel == INSTANCE PanelUpdate
Backup == INSTANCE Backups

\* A host on which the first state of every entry was backed up long ago and the second
\* is in use, or one that has nothing, where that backup is to be restored.
Init ==
    /\ \E installed \in BOOLEAN :
          LET now == IF installed THEN 2 ELSE 0 IN
          /\ fs = [p \in Upgrade!Places |->
                      IF installed /\ p = "dir"
                      THEN [there |-> TRUE, script |-> 1, marker |-> 0, pki |-> now]
                      ELSE Upgrade!NoDirectory]
          /\ files = [e \in {"server", "data"} |-> now]
          /\ package = IF installed THEN 1 ELSE 0
          /\ vpn = IF installed THEN Started(1, now) ELSE Down
          /\ owed = IF installed THEN {<<e, now>> : e \in Backup!Entries} ELSE {}
    /\ latest = 1 /\ cached = 0 /\ upgrading = [r \in Requests |-> Upgrade!IdleUpgrade]
    /\ candidate = 1 /\ apt = [r \in Requests |-> Service!IdleApt]
    /\ bin = [p \in Panel!Places |-> IF p = 0 THEN 1 ELSE 0]
    /\ fresh = [p \in Panel!Places |-> 0] /\ self = 0 /\ running = 1
    /\ published = 1 /\ known = 0 /\ updating = [r \in Requests |-> Panel!IdleUpdate]
    /\ installing = FALSE
    /\ archives = {[e \in Backup!Entries |-> 1]} /\ staging = Backup!Nothing /\ kept = <<>>
    /\ restoring = [r \in Requests |-> Backup!IdleRestore]
    /\ exporting = [r \in Requests |-> Backup!IdleExport]
    /\ newest = [e \in Backup!Entries |-> 2]
    /\ faults = 0 /\ ops = 0 /\ crashes = 0

-------------------------------------------------------------------------------

Idle(r) ==
    /\ upgrading[r].pc = "idle" /\ apt[r].pc = "idle" /\ updating[r].pc = "idle"
    /\ restoring[r].pc = "idle" /\ exporting[r].pc = "idle"

\* The page disables only the button that was pressed last: the other operations, other
\* pages and other callers are not held up.
Quiet == OneAtATime => \A r \in Requests : Idle(r)

Begins(r) ==
    /\ running # 0 /\ Idle(r) /\ Quiet
    /\ ops < MaxOps /\ ops' = ops + 1

Begin(r) ==
    /\ Begins(r) /\ UNCHANGED crashes
    /\ \/ Upgrade!BeginUpgrade(r) /\ UNCHANGED <<files, vpn, service, panel, backups>>
       \/ Service!BeginUpgrade(r) /\ UNCHANGED <<fs, easyrsa, panel, backups>>
       \/ Panel!BeginUpdate(r) /\ UNCHANGED <<fs, files, vpn, easyrsa, service, backups>>
       \/ /\ \E archive \in archives : Backup!BeginRestore(r, archive)
          /\ UNCHANGED <<easyrsa, candidate, apt, panel>>
       \/ Backup!BeginExport(r) /\ UNCHANGED <<easyrsa, candidate, apt, panel>>

Step(r) ==
    /\ running # 0 /\ UNCHANGED counts
    /\ \/ Upgrade!Step(r) /\ UNCHANGED <<files, vpn, service, panel, backups>>
       \/ Service!Step(r) /\ UNCHANGED <<fs, easyrsa, panel, backups>>
       \/ Panel!Step(r) /\ UNCHANGED <<fs, files, vpn, easyrsa, service, backups>>
       \/ Backup!Step(r) /\ UNCHANGED <<easyrsa, candidate, apt, panel>>

\* Requests that are one step: the service's buttons, the check for releases, a change.
Short ==
    /\ running # 0 /\ Quiet
    /\ ops < MaxOps /\ ops' = ops + 1 /\ UNCHANGED crashes
    /\ \/ /\ \E action \in {"start", "stop", "restart"} : Service!Control(action)
          /\ UNCHANGED <<fs, easyrsa, panel, backups>>
       \/ \E e \in Backup!Entries : Backup!Change(e) /\ UNCHANGED <<easyrsa, candidate, apt, panel>>
       \/ Backup!StartInstall /\ UNCHANGED <<easyrsa, candidate, apt, panel>>

\* handleVersion with check=1 asks for both releases; both are reached or neither.
Check ==
    /\ running # 0 /\ UNCHANGED counts
    /\ Upgrade!CheckRemote /\ Panel!CheckRemote
    /\ UNCHANGED <<files, vpn, service, backups>>

News ==
    /\ latest + candidate + published < MaxNews + 3
    /\ UNCHANGED counts
    /\ \/ Upgrade!Publish /\ UNCHANGED <<files, vpn, service, panel, backups>>
       \/ Service!NewPackage /\ UNCHANGED <<fs, easyrsa, panel, backups>>
       \/ Panel!Publish /\ UNCHANGED <<fs, files, vpn, easyrsa, service, backups>>

InstallEnds == Backup!EndInstall /\ UNCHANGED <<easyrsa, candidate, apt, panel, counts>>

\* handlePanelRestart, or a death of the process: every request ends where it is.
Crash ==
    /\ running # 0
    /\ crashes < MaxCrashes /\ crashes' = crashes + 1
    /\ Upgrade!Forget /\ Service!Forget /\ Panel!Forget /\ Backup!Forget
    /\ UNCHANGED <<fs, files, vpn, package, candidate, latest, bin, fresh, published, archives,
                   staging, kept, newest, owed, faults, ops>>

Next == (\E r \in Requests : Begin(r) \/ Step(r)) \/ Short \/ Check \/ News \/ InstallEnds \/ Crash

Spec == Init /\ [][Next]_vars

-------------------------------------------------------------------------------
(* Properties. *)

\* Every variable has its type, and a directory that is not there is empty.
TypeOK ==
    Upgrade!UpgradeType /\ Service!ServiceType /\ Panel!PanelType /\ Backup!BackupType

\* No PKI that has been in use is lost: it is in a directory of EasyRSA or among what the
\* restores keep (easyrsa.go on moving the PKI: "绝不能丢", it must never be lost).
PkiKept ==
    \A o \in owed : o[1] = "pki" =>
        Backup!Kept("pki", o[2]) \/ \E p \in Upgrade!Places : fs[p].pki = o[2]

\* Nor a configuration or data of the panel that a restore replaced.
FilesKept == Backup!FilesKept

\* The marker tells the version of the script beside it, after an end of the panel too.
MarkerTrue == Upgrade!MarkerTrue

\* The binary of the panel is whole, or it is absent and a whole one was put aside.
BinaryKept == Panel!BinaryKept

\* What an operation answers is so when it answers.
AnswersTrue ==
    \A r \in Requests :
        /\ Upgrade!AnswersRight(r) /\ Service!AnswersRight(r)
        /\ Panel!AnswersRight(r) /\ Backup!AnswersRight(r)

-------------------------------------------------------------------------------
(* Of these the README says when they fail. *)

\* systemd finds a panel to start ("原子替换自身": the binary replaces itself atomically).
PanelStarts == running # 0

\* An installation and a restore do not change the host together.
NoRestoreInInstall == Backup!NoRestoreInInstall

===============================================================================
