# OpenVpnTools panel: specifications and proofs

This directory models the core logic of the OpenVPN management panel (`cmd/ovpn-web`,
`internal/`, the parts of `web/` and `install.sh` that talk to it) in TLA+. TLC checks the
models on small instances; TLAPS proves every safety property that their runs check, for every plan and host,
every number of requests, users, names, pages and failures, and every bound. `PROJECT.json`
maps each definition to the lines it models.

## 1. The system

A panel process (Go, one binary, HTTP API plus embedded web page) manages one OpenVPN
server on its own host, and may act as master of other panels ("nodes"). All state is in
files: `config.yaml`, `users.json`, `nodes.json`, `cert-owners.json`, `install.json`, the
installation journal, the restore point of the DNS stub, EasyRSA's PKI. Handlers run
concurrently, one goroutine per request. There are few locks and none spans a whole
operation, so most of what can go wrong is an interleaving, a failure between two steps or
a death of the process between two effects.

| part | state | operations | what makes it hard | what makes it correct |
|---|---|---|---|---|
| installation engine (`internal/installer`) | job, journal file and its memory, the host | start, run of the plan, record/apply, rollback by the job, rollback by request, commit | crash at any instruction, failing undo, rollback request without a lock, retries | write-ahead rule, all-or-nothing, a committed installation is left alone, jobs end |
| log stream (`logbuf.go`, `handlers_install.go`, the wizard) | events per job, subscribers, connections | append, subscribe, send, reconnect, retry, roll back | dropped events, broken connections, sleeping pages, numbers that start again with each job | every event once, in order, to the end; the job never waits |
| DNS stub (`internal/dnsguard`, `handlers_dns.go`) | drop-in, `resolv.conf`, resolved, restore point | disable, revert, restore | failures, cancellation, crash between file operations | always a usable restore point; the host resolves |
| client certificates (`internal/clients`, `easyrsa`, `qrlink`) | index, two CRLs, owners, tokens | create, revoke, profile, share, download | quota and ownership checks apart from the change, scripts killed | quota, ownership, acknowledged revocations enforced, one download |
| updates (`internal/updates`, `internal/download`) | EasyRSA directories, marker, cached releases; package and unit; panel binary | check, three upgrades, start, stop, restart | renames around the PKI and the binary, damaged downloads, apt killed, crash, two at once | the PKI and the binary are never lost; answer, marker, script and service agree |
| nodes (`internal/nodes`, `install.sh join`, SSH job) | codes, node table, tokens on the child | create code, register, add, edit, delete, SSH installation | lost answers, retries, timeouts, restarts on both sides | one node per code, unique entries, acknowledged bindings kept |
| accounts (`users`, `auth`, `config`) | users, administrator, tokens | setup, login, check, edit, delete, change, restore | memory before file, two-step edits, names given again, a second process | acknowledged changes kept, only holders act for an account, one setup |
| backup (`internal/backup`) | staging and backup directories | export, restore | entry by entry, nothing excluded, nothing put back | replaced files are kept, a reported restore is one |
| store, audit, limiter, download, openvpn texts, platform, TLS, mock, page forms | - | - | small | see "not modelled" |

How they meet: the installer uses the DNS stub guard and writes the PKI that certificates
and updates use later; restore replaces the PKI (updates), the server's configuration (the
unit) and `users.json` (accounts), and restarts the unit that an upgrade of the package
restarts too; a restart of the panel, which a self-update asks for, ends everything;
`requireAuth` of accounts guards every handler; the node token in `config.yaml` is written
by a second process (`-gen-node-token`) which also carries the administrator's password
hash. `PROJECT.json` lists every component with its status, and every hazard at its line.

## 2. Modules

| module | models | uses |
|---|---|---|
| `InstallSteps` | the plan: `buildSteps` and its eleven steps, as sequences of check, record and apply items | |
| `Installer` | `engine.go`, `journal.go`, `rollback.go` over any plan | |
| `AtomicInstall` | what an installation promises: a host is original, changing or installed | |
| `MCInstaller` | plans from parameters, hosts | `Installer`, `InstallSteps` |
| `InstallerProofs` | theorems about `Installer` | `Installer`, TLAPS |
| `LogStream` | log buffers of successive jobs, event-stream handler, page | |
| `LogStreamProofs` | theorems about it | `LogStream`, TLAPS |
| `DnsStub` | stub guard and its handlers | |
| `DnsStubProofs` | theorems about it | `DnsStub`, TLAPS |
| `Certs` | certificates, CRL, owners, quota, links | |
| `CertsProofs` | theorems about it | `Certs`, TLAPS |
| `Download` | one attempt of `download.Fetch`, as operators | |
| `EasyRSAUpgrade` | `UpgradeEasyRSA` | `Download` |
| `OpenVPNUnit` | the openvpn unit: what it runs, as operators | |
| `VpnService` | `UpgradeOpenVPN` and the service's buttons | `OpenVPNUnit` |
| `PanelUpdate` | `SelfUpdate` and the start of the panel | `Download` |
| `Backups` | export and restore | `OpenVPNUnit` |
| `Maintenance` | the five above on one host and in one process | instances of the four with state |
| `MaintenanceProofs` | theorems about it | `Maintenance`, TLAPS |
| `NodeJoin` | master, child, joiner shell and SSH job | |
| `NodeJoinProofs` | theorems about it | `NodeJoin`, TLAPS |
| `Accounts` | users, tokens, administrator, restore of `users.json` | |
| `AccountsProofs` | theorems about it | `Accounts`, TLAPS |

Each machine has an `MC...` module with the symmetry sets or the plans, and one `.cfg` per question.
Definitions whose comment begins with "Variant" are forms of a definition with a plausible
bug; `PROJECT.json` pairs each with the property that refutes it.

### Installer

Code state to model state: the host files, packages, unit and DNS stub are `sys` (a value
per resource: absent, the administrator's, the installer's), iptables rules are counts in
`rules`, the journal file is `journal`, `Journal.entries` is `mem`, `Engine.job` is `job`
with the position of `run` in `phase` and `pc`, a `RollbackPending` call is `rb[q]`,
`install.json` is `saved`. Actions: `Start`; `RunCheck`, `SkipItem`, `RecordItem`,
`RecordFails`, `ApplyItem`, `ApplyFails` (one item of the plan, including the torn write of
a journal line and the effect of a command that failed half way); `Commit` and `Finish`
(journal removal and `SaveParams`); `JobUndo`, `JobUndone`; `RollbackCheck`, `RollbackLoad`,
`RollbackUndo`, `RollbackEnd`; `Crash`. The abstraction: `openvpn`/`iptables-persistent`
are one resource `pkg`, the five key files one, the rules two, and the scratch directory of
the EasyRSA archive and directories made by `MkdirAll` are left out (the code does not
journal them either). What an undo writes follows the entry's kind as `rollback.go` does,
including that `file_replaced` restores the content with the *installer's* permissions. An undo
that fails may have had its effect already, the removal of the journal may fail unnoticed, and a
sysctl file that cannot be read is recorded as empty. `InCommand` says where the panel waits for
an external command, which is where a job can hang.

### LogStream

`LogBuffer.evs` of each job is `events`, `Engine.job` is `current`, the subscriber's channel
`stream[p].chan` (`Cap` for 512), `sent` the handler's last sequence number, `wire` the
connection, `page` what the wizard shows and the `Last-Event-ID` its `EventSource` would
send. The page asks for the state (`Ask`), and the answers, `told`, are applied in any order
(`Learn`) or lost (`Lose`). Subscribing and reading the snapshot are two steps, sending each event is one, and so
is the final drain. A page may sleep and wake, lose its connection, be loaded again, start a
job, retry a failed one or roll it back; a job may be started elsewhere; the panel may be
restarted, which loses the jobs and their logs and keeps the pages and their numbers.

### DnsStub

One action per file operation, with the error path that follows it. A request carries its
`StubBackup`. `cancel` is a client that goes away: the context of
the request is cancelled and later `systemctl` calls fail, or are skipped where the code
does not look at the error. `active` is the drop-in that the running resolved has read, which
the properties compare with the files; `answer` and `before` are history.

### Maintenance

`Maintenance` owns the shared state and conjoins the actions of its parts: `fs` (the EasyRSA
directories `dir`, `new`, `old`, each with script, marker and PKI), `files` (the server's
configuration and the panel's data), `package` and `vpn` (the unit and what it was started
with), `bin`/`fresh`/`self`/`running` (the binaries `ovpn-web`, `.old`, `.old.old`, the `.new`
beside each, the one that the process was started from, its version), `staging`, `kept` and
`archives`. A request is idle or in one operation, and each rename, removal, copy, download
attempt and command of it is a step that may fail. Panel data and configurations are numbers:
`v` is a whole state, `-v` a part of one or a mixture, 0 nothing; so are binaries and packages.
A restore moves the PKI as one directory and the configuration and the data file by file: what one
file meets does not depend on the others, so one stands for each of these entries. A move across
devices is a copy and a removal and may leave a part of either.
`owed` is what was in use and must not be lost. `Crash` is the panel's restart button or a
death: every request ends where it is and systemd starts what is in place. An installation
that runs is one Boolean here, since a restore only asks whether there is one; what it does
to the host is `Installer`.

### Certs

`index` is EasyRSA's `index.txt` (position = serial), `crlPki`/`crlServer` the two copies
of the CRL, `owners` the owner file, `lock` the one mutex the manager has. A request is a
program counter through the steps of its handler; the script is external and can be killed
after its effect. A row of the index remembers who asked for it (`by`), `answered` the serials
whose owner was saved, and `peak` how many creations were in flight at a time, as history.

### NodeJoin

A join is `cmd_join` in `install.sh` on the child (`GenToken`, `Restart`, `Post`, retries,
result), its request a separate thread of the master (`Consume`, `Ping`, `Add`), which goes
on when the connection is lost. A host stands for its URL; its name is chosen apart, so that two
hosts may have one name. History variables
record what a code admitted and which hosts the administrator edited or joined again,
because properties say nothing about those.

### Accounts

A store's mutation is one step (memory, then file, under its mutex) in which the save may
fail with the memory already changed, or the process die between the two. Login, both
changes of one's own password and the edit with a new password take two steps with other
requests between. An account carries its generation (`born`, for `CreatedAt`); a token is the name
it was signed for, since the code looks at nothing else. `unsure` holds names whose last change was not acknowledged: the code
promises nothing about them until a later change is. One permission stands for the four.

## 3. Runs

| run | question | bounds |
|---|---|---|
| `MCInstaller` | does the journal cover everything an unfinished installation changed, is residue kept until all is undone, is a committed installation left alone, is it all-or-nothing? | full plan with port 53 freed; fresh host, host with packages and old files, host with an old PKI; one request; every failure but those of section 5; 1 crash (2.6 million states) |
| `MCInstallerClears` | do jobs end, does residue go, are our rules gone? (fair) | plan with the resolver step and IPv6, apt included; the same three hosts, with and without a rule of their own; 2 crashes |
| `MCInstallerEmptyJournal` | finding: residue without entries | fresh host, 1 crash |
| `MCCerts` | quota, owners file, ownership, enforced revocations and one-time links under concurrency, kills and a crash | 1 sub-user with a quota of 1 and the administrator, 2 requests, 2 names, 2 serials, 1 token; one revocation at a time; failures of build, script, copy and save, expiry, 1 crash (3.0 million states) |
| `MCDnsStub` | usable restore point; are files, link and the running resolved put back; does the host resolve? | one failure of writing, removing, restarting, clearing or cancellation; 2 crashes |
| `MCDnsStubCancel` | finding: a revert without its restart | one cancellation, no crash |
| `MCMaintenance` | is no PKI, configuration, data or binary lost, is the marker true, is what is answered so? | an installed host or an empty one with a backup; up to 3 operations, 2 releases of any kind, download attempts of 2; one failure of any step, 2 ends of the panel; one at a time (3.8 million states) |
| `MCMaintenanceCrash` | finding: the upgrade of EasyRSA after a crash deletes the PKI | as above, 1 crash, no failure, the administrator does not put the PKI back |
| `MCNodeJoin` | one node per code, unique entries, acknowledged bindings, entries that answer | 2 hosts, 2 names, 2 codes, 2 joiners, 2 tokens, one fault of nine kinds, 1 edit (1.7 million states) |
| `MCAccounts` | acknowledged accounts kept through everything, one setup | 1 user that may be created twice, 2 passwords, 2 slow requests beside the fast ones, 1 failure of five kinds, 1 crash, restore (6.4 million states) |
| `MCLogStream` | nothing skipped, repeated or of another job, complete at the end, job never blocked, the end is shown (fair) | 1 page, which may sleep; channel and connection of 2; 2 different answers about the state on their way; 2 jobs, 3 events each and the last words; 2 broken connections, lost answers or restarts (550 thousand states) |
| `MCLogStreamFull` | finding: a dropped event that wakes nobody | 1 page, channel and connection of 1, 2 events, 1 job, no fault |

Why the bounds are enough: the properties relate a step to at most two others (a crash and
its retry, two requests, an event dropped and the one after it), so one fault of each kind
plus one retry reaches each pair; a channel of two is full as soon as two events wait; two
of a name, code or host are what a confusion needs; a quota of one with two requests is the
smallest excess, and `QuotaHolds` counts it. In `MCLogStream` one page is enough
because pages share nothing but the job, which does not look at them, and two jobs because a
page confuses a job only with the one before it. In `MCAccounts` users share nothing but the
file. In `MCMaintenance` three operations are one that fails or is cut off, one that meets
what it left, and one that makes the difference visible (a restart of the service, a
restore); three states of an entry are the one in the oldest backup, the one in use and one
that it is changed to. Terminal states exist where an
environment runs out of its budget, so `CHECK_DEADLOCK FALSE` is set except for the
installer, whose engine can always be started or asked again.

Fairness. `Installer!Progress` is weak fairness of the job's goroutine and of a rollback
request where they do not wait for an external command (`InCommand`). A command is killed at its
deadline (`RunOpt.Timeout`), but `ExecRun` sets no `WaitDelay`: `cmd.Run` then waits for any child
of it that holds its output, such as a maintainer script of dpkg, for as long as that lives. So
both liveness properties of the installer have the premise `CommandsEnd`, which says that the
panel does not wait in commands for ever; the rest, polling loops and file operations, always has
a next step. `FairSpec` adds an
administrator who keeps asking for the rollback of a residue, which is the premise of
`ResidueClears` and of nothing else. `LogStream!FairSpec` is weak fairness of the handler's
goroutines (`Serve`), of the browser's connecting (`Connect`) and reading (`PageReads`), which
are disabled while the page sleeps, and of the job's two statements from its last state to the
closing of its channel (`LastWords`); the installation's own steps are *not* fair there, since a
step may hang, and neither are the page's questions about the state. `Finishes` has the premise that the page is awake for good at
last; `JobEnds` has none, and so says that a page that never reads holds nothing up.

The properties that carry the most weight: `WriteAhead`, `RecoveryInv`, `ResidueGoesClean`,
`CommittedStays` and `ImplementsAtomic` (installer), `NoGaps`/`Complete`/`Finishes` (stream),
`AckedEnforced`/`OwnersKept`/`QuotaHolds` (certificates), `Recoverable`/`RestoreReturns`/`Resolves` (DNS), `PkiKept`,
`FilesKept`, `BinaryKept` and `AnswersTrue` (maintenance), `CodeOnce`/`BoundStays`/`EntriesAnswer`
(nodes), `AckedKept`/`SetupOnce` (accounts). `AnswersTrue` is the one that ties
the parts of the host together: a reported upgrade of the package runs, a restore that says it
restarted the service did so with the restored configuration, an update of the panel is what
the next start runs, and an operation that was refused left everything as it was.

## 4. Proofs

What the proofs assume of the constants is in the modules' `ASSUME`s, which TLC evaluates on
every run; for the plan of an installation: each resource is recorded once, before the plan
changes it; a record that may be skipped announces one change, and is not of the rules; each
record is followed by its change; a rule is added once, after the record of the rules; the
server's configuration is among what is recorded. The premises below are what a theorem needs
besides: of callers (see section 5), or of what does not fail. Nothing bounds the sets of
requests, users, names, hosts, codes, pages or failures; the requests at maintenance are finite in
number, and the bound on states of an entry leaves room for the two that `Init` starts with.

| theorem | property | premises |
|---|---|---|
| `InstallerProofs!TypeCorrect` | `TypeOK`: in particular no rollback drives a rule count below zero | |
| `RecoveryHolds`, `WriteAheadHolds`, `ResidueEndsClean` | `RecoveryInv`, `WriteAhead`, `ResidueGoesClean` | `AdminWaits`, old contents can be read |
| `CommittedHolds` | `CommittedStays` | `AdminWaits`, the journal can be removed |
| `AllOrNothing` | `ImplementsAtomic`: `Installer` implements `AtomicInstall` | `AdminWaits`, old contents can be read, the journal can be removed |
| `RulesRolledBack` | `RolledBackRules` | `AdminWaits`, no undo fails |
| `LogStreamProofs!StreamsTypeCorrect`, `NothingSkipped`, `EndIsComplete` | `TypeOK`, `NoGaps`, `Complete` | `Settled` |
| `DnsStubProofs!StubTypeCorrect` | `TypeOK` | |
| `RestorePointKept` | `Recoverable` | `Careful`: callers wait, from a fresh page; writing the drop-in does not fail, or nothing else does |
| `NamesResolve` | `Resolves` | `LinksMade`: `Careful`, links can be made and put back, a restart does not fail or nothing else does; and the restore point can be saved or the panel does not die |
| `RestorePutsBack`, `RollbackPutsBack` | `RestoreReturns`, `FailedDisableClean` | `Sound`: `LinksMade`, the restore point can be saved |
| `CertsProofs!CertsTypeCorrect`, `LinksServeOnce`, `NamesOwned` | `TypeOK`, `OneShot`, `OwnNames` | |
| `RevocationsEnforced` | `AckedEnforced` | `RevokeAlone` |
| `OwnersRecorded`, `QuotaKept` | `OwnersKept`, `QuotaHolds` | the owners file can be read |
| `NodeJoinProofs!NodesTypeCorrect`, `CodesUsedOnce`, `EntriesUnique`, `BindingsKept`, `EntriesWork` | `TypeOK`, `CodeOnce`, `UniqueEntries`, `BoundStays`, `EntriesAnswer` | |
| `AccountsProofs!AccountsTypeCorrect` | `TypeOK` | |
| `OneSetup` | `SetupOnce` | `~TokenRace` |
| `AcknowledgedKept` | `AckedKept` | `RestoreAlone` |
| `MaintenanceProofs!TypesHold` | `TypeOK` | |
| `MarkersTrue` | `MarkerTrue` | `OneAtATime` |
| `BinaryIsKept` | `BinaryKept` | `OneAtATime`, `RestartsFirst` |
| `FilesAreKept` | `FilesKept` | `OneAtATime`, `~SameSecond` |
| `PkiIsKept` | `PkiKept` | `OneAtATime`, `~SameSecond`, `PutBack`, `RenameOnce` |
| `AnswersAreTrue` | `AnswersTrue` | `OneAtATime`, `RestartsFirst`, `RenameOnce` |

Each proof has one lemma per action and under it one step per conjunct that the action can
disturb. What makes the properties inductive:

- *Installer.* `WriteAhead` alone is not: after a rollback that removes the journal one must
  know that nothing is touched any more. `RecoveryInv` adds `ControlInv` (where the job and the
  requests are, and that they exclude each other); `EntriesHold` (a line holds the content the
  installation found, since a resource is untouched when it is recorded: `StepsAhead`);
  `UndoBelow` and `RequestBelow` (a rollback that has met no failure has restored everything
  above its position). For the refinement `SetUp` says that what a record before the position
  names is there or its change is yet to come, so that a plan that has been run through has
  installed everything; `RulesInv` says that no rule was added twice, and that a rollback has
  the entry of the rules still before it while one of them is left.
- *Log stream.* `StreamInv`: what is on a connection is exactly the events from the last that
  was read to the last that was sent, and then the state (`WireIs`); a handler that ended has
  sent all there are; a page's log is the job's events from 1 on. Dropped events do no harm
  because what a handler sends is read from the buffer by number.
- *DNS stub.* `StubInv` is in layers, one per premise: types; at most one request works, and a
  restore point is there from the first change until a revert has put the drop-in back; where
  `resolv.conf` points at each step; that a revert which is done for a client that stays has had
  resolved read the drop-in (`Linked`); and that the host, together with the snapshot a request
  carries and its switched flag, still tells what was found. With two failures, one of them
  of writing the drop-in, the revert of a disable fails, its error is ignored and the restore
  point is removed while the stub is off: hence the last part of `Careful`. With a second
  failing restart the revert has its error ignored in the same way: hence that of `LinksMade`.
- *Certificates.* `TokenInv`: a token is live, taken by one request or spent, and only a spent
  one has served. `CRLInv`: acknowledged serials are in both lists, and in the list a request
  has read and is about to copy. `OwnersInv`: the map that a request has read and writes back with
  its change is what the file holds, as the mutex is held from read to write. `NamesInv`: who is
  named in the file, in a map that was read, in a token or by a request past its check has had a
  certificate of the name. `QuotaInv` counts, for a user, the valid rows that are in its name or
  about to be and the creations between the check of the quota and the end of the build: with
  at most `peak` requests in these, they never exceed `CertLimit + peak - 1`: the check sees fewer
  than the limit in the file, and whatever else is counted belongs to a creation in flight, one
  row each by `UniqueInv` (one valid row per name).
- *Nodes.* `CodeInv`: a code that was consumed is gone for good and has one request at most past
  it. `UniqueInv` holds of the table in memory and of the file, as a restart loads the file.
  `AnswerInv` follows one host: one join and one request at most are at work on it, the panel
  there runs with what its file says from the moment its token is posted, and a host with an
  entry has nothing at work.
- *Accounts.* `AckInv`: memory, file and acknowledged accounts agree outside `unsure`, but
  for the file while a restore is at work on it, which then has what was read.
- *Maintenance.* `Inv` is types and, of an administrator who waits, `Right`: one request in one
  operation works (`Turn`), and each part is right. For an upgrade of EasyRSA, `Switching` tells
  where the script and the PKI that were in use are at each step, `Marking` that the script on
  its way is the release's, `Tagged` is `MarkerTrue`, and `Spared` says that what the next
  upgrade removes holds no PKI: it needs both `PutBack` and `RenameOnce`, as a death, or a rename
  back that fails as well, leaves the only PKI in `easy-rsa.new`. For an update, `Swapping` says
  which of the two places holds the running release, and `Home` that an untouched process runs
  what is in place. For a restore, `Restoring` splits the entries into those that are done, the
  one between its two moves and those to do (`Halfway`), with an empty place for each of these in
  the restore's directory unless two restores share one; `Safe` says of each state that is owed
  in which place it is found. A part is disturbed only by its own request, which the
  `...Rest` and `...Move` lemmas state once. `RenameOnce`: renames do not fail, or there is at
  most one failure; the rows of section 5 show what two do. `TypesHold` is for any number of
  operations at once; its part `Room` counts the updates that have still to move, so that no
  binary is put aside beyond the last place.

Model-checked only: liveness (`JobEnds`, `ResidueClears`, `Finishes`, which rest on ENABLED)
and the findings.

## 5. Where the code does less than it says

Four are runs that TLC refutes and findings in `PROJECT.json`: an empty journal
(`MCInstallerEmptyJournal`), the restart of resolved that a cancelled revert skips
(`MCDnsStubCancel`), the PKI lost by the upgrade after a crash
(`MCMaintenanceCrash`), and the log line that is shown late (`MCLogStreamFull`).

These are reproduced by changing constants of a run that passes:

| what happens | module and change | violated |
|---|---|---|
| a rollback request that was admitted before a new Start runs beside the new job (`engine.go:235`) | `MCInstaller`, `AdminWaits = FALSE` | `NoRollbackUnderJob`, `WriteAhead` |
| the journal cannot be removed after a success; a later rollback undoes the committed installation (`engine.go:199`) | `MCInstaller`, Faults `{"remove"}` | `CommittedStays` |
| a rollback restores a file with the permissions of the installer (`steps.go:94`) | `MCInstaller`, used hosts, Faults `{"step"}` | `RolledBackModes` |
| a rollback deletes an identical rule the administrator had (`rollback.go:201`) | `MCInstaller`, `RuleOrigins <- UserRules` | `RolledBackKeepsRules` |
| a rule that cannot be deleted is left by a "complete" rollback | `MCInstaller`, Faults `{"step", "undo"}` | `RolledBackRules` |
| once the packages are gone the unit cannot be stopped and the residue never clears (`rollback.go:221`) | `MCInstallerClears`, `Residue` without its condition on the packages | `ResidueClears` |
| a sysctl file that cannot be read is journaled as empty, and a rollback empties it (`steps_system.go:25`) | `MCInstaller`, Faults with `read` | `RecoveryInv` |
| two revocations publish the older CRL last (`clients.go:190`) | `MCCerts`, `RevokeAlone = FALSE` | `AckedEnforced` |
| an owners file that cannot be read is taken for an empty one, which the next creation saves (`clients.go:60`), and a count that fails lets a creation pass (`handlers_clients.go:58`) | `MCCerts`, Faults with `load` | `OwnersKept`, `QuotaHolds` |
| disabling from a page that is out of date overwrites the restore point (`handlers_dns.go:23`) | `MCDnsStub`, `FreshPage = FALSE` | `RestoreReturns` |
| the second save of the restore point fails, restore leaves `resolv.conf` (`handlers_dns.go:36`) | `MCDnsStub`, Faults `{"save"}` | `RestoreReturns` |
| `resolv.conf` removed and not linked again (`stub.go:103`) | `MCDnsStub`, Faults `{"symlink"}` | `FailedDisableClean`, `RestoreReturns`, `Resolves` |
| a restore whose removal of `resolv.conf` fails, with the error ignored, answers an error with the drop-in gone; the page then offers to disable, which overwrites the restore point (`stub.go:161`) | `MCDnsStub`, Faults `{"unlinkBack"}` | `RestoreReturns` |
| two maintenance operations at once: the second upgrade's removal meets the first one's PKI (`easyrsa.go:77`), restores mix in the shared staging directory (`restore.go:35`), two self-updates write one `.new` (`selfupdate.go:81`), a restore is overtaken by another operation | `MCMaintenance`, 2 requests, `OneAtATime = FALSE`, `MaxPlaces = 2`, no crash, no failure | `PkiKept`, `BinaryKept`, `AnswersTrue`, `MarkerTrue` |
| two restores within one second share a backup directory (`restore.go:97`) | `MCMaintenance`, `SameSecond = TRUE` | `FilesKept`, `PkiKept` |
| an installation starts while a backup is uploaded or restored (`handlers_backup.go:25`) | `MCMaintenance`, 2 requests, `OneAtATime = FALSE`, `InstallWaits = FALSE` | `NoRestoreInInstall` |
| a rename fails and the rename back fails too: the deferred removal takes the PKI along (`easyrsa.go:79`), a failed self-update left no binary (`selfupdate.go:92`) | `MCMaintenance`, `MaxFaults = 2` | `PkiKept`, `AnswersTrue` |
| the panel dies between the two renames of its binary and systemd finds none (`selfupdate.go:86`; the comment at line 18 calls it atomic) | `MCMaintenance`, property `PanelStarts` | `PanelStarts` |
| a second self-update before the restart replaces `.old` and reports success (`selfupdate.go:71`) | `MCMaintenance`, `RestartsFirst = FALSE`, `MaxPlaces = 2`, `MaxPanel = 3` | `AnswersTrue` |
| a job is started elsewhere while a page still follows the last one, and the page skips its first events (`handlers_install.go:70`) | `MCLogStream`, `Settled = FALSE` | `NoGaps` |
| a user change during a restore's Reload is lost (`users.go:107`) | `MCAccounts`, `RestoreAlone = FALSE` | `AckedKept` |
| `-gen-node-token` writes back a configuration without the administrator (`main.go:49`) | `MCAccounts`, `TokenRace = TRUE` | `SetupOnce` |

And these are steps of the models that contradict no property that holds, or hold a premise of one:

- A command whose children keep its output open holds the installation's job, or a rollback, in
  `cmd.Run` beyond its deadline (`run.go:37`): meanwhile both a new start and a rollback are
  refused, and only a restart of the panel helps. `CommandsEnd` excludes it.
- Two creates of a user at the limit both pass the check (`handlers_clients.go:57`): the quota is
  exceeded by one, which `QuotaHolds` allows, as it allows one for each creation in flight.
- A killed build, or a save of the owners that fails, leaves the new certificate of a name to the
  owner of the earlier one (`clients.go:162`), who may fetch its profile; so may, until the owners
  file is written, the old owner of a name that is created again, and the holder of an old link
  (`handlers_clients.go:147`). `OwnNames` allows what was once the sub-user's name, and no other.
- A revocation whose CRL generation failed cannot be repeated (`clients.go:177`) and is not
  enforced until another one succeeds; `AckedEnforced` is about those that were answered ok.
- A token names a user, not an account (`auth.go:134`): one of a deleted user works for a new
  account of that name. A name is given again in the model, and the token passes.
- A password is verified and set in two critical sections (`auth.go:149`, `auth.go:163`): a change
  by who knew only the password before an administrator's reset overwrites that reset.
- A host that joins again replaces its node token before the master refuses the second binding
  (`install.sh:269`, `nodes.go:104`): the entry of the first one no longer answers. `EntriesAnswer`
  exempts a host that was claimed again.
- A service whose state cannot be read before the upgrade of its package is not restarted after it
  (`updates.go:201`); `AnswersTrue` is about one that was seen to run.

The constants `AdminWaits`, `OneAtATime`, `RevokeAlone`, `FreshPage`, `RestoreAlone`,
`TokenRace`, `Settled`, `PutBack`, `RestartsFirst`, `InstallWaits` and
`SameSecond` exist for this: they name what the passing runs assume of callers, which the code
does not enforce. The wizard's and the certificate page's buttons wait for their answers;
`Maintenance.tsx` disables only the button that was pressed last, so `OneAtATime` there is an
administrator who waits. `PutBack` is an administrator who, after a death of the panel in the
middle of an EasyRSA upgrade, moves the PKI back before the next one.

## 6. Not modelled

- The node proxy, batch requests, online list and status: they forward or read.
- Rate limiter and audit log: no promise beyond "best effort" that a property could state.
- Port 53 diagnosis, prechecks, rendered texts, TLS certificate generation: reading and
  formatting without state.
- The steps inside `store.AtomicWriteFile`: a save is one step that happens or does not. What a
  directory that was not synced holds after a power failure is the file system's affair.
- In `Maintenance`: more than one file of the configuration and of the data (a restore replaces them
  in turn, and one file stands for all), the mirror of a download, what an installation
  does to the host while it runs (`Installer`), and the panel's memory of accounts after a
  restore (`Accounts`).
- In `LogStream`: the mutex of `LogBuffer`, under which an event is appended and offered as one
  step, and the wizard's form.
- The mock platform and the simulated modes; packaging scripts and the build.

## 7. Plan

Order of work: installer first, as everything else rests on what it leaves on the host; its
proof; then the parts that keep promises across crashes (DNS stub, EasyRSA), then those
with concurrent requests (certificates, nodes, accounts, stream), then the operations that
meet on one host (maintenance). That much is built.

Proofs were written in the same order, and cover every safety property that the passing runs
check. What is left: weaker premises where a proof assumes one failure in all
(`RenameOnce`, `LinksMade`), and what of the properties survives two maintenance operations
at once, beyond types.
