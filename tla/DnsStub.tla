-------------------------------- MODULE DnsStub --------------------------------
(***************************************************************************)
(* internal/dnsguard and its handlers: switching off the DNS stub of          *)
(* systemd-resolved through a drop-in, and putting it back from a restore       *)
(* point on disk (dnsguard-backup.json).                                        *)
(*                                                                              *)
(* Every file operation is a step of its own: the panel may die between two,    *)
(* one may fail, and requests are not serialised. The context of a request is   *)
(* its connection: once it is gone every systemctl call fails.                  *)
(***************************************************************************)
EXTENDS Naturals, FiniteSets

CONSTANTS
    Requests,   \* concurrent HTTP requests
    OneAtATime, \* callers wait for one answer before the next request
    FreshPage,  \* the disable button is offered only while there is no drop-in
    Faults,     \* which operations may fail
    MaxFaults,  \* bound on failures
    MaxCrashes  \* bound on restarts of the panel

\* The drop-in file: not there, an extra listener for VPN clients (installer), or
\* the one that switches the stub off.
DropIns == {"none", "extra", "off"}

\* /etc/resolv.conf: a link to the stub's file, to resolved's upstream file or
\* elsewhere, a plain file, or not there.
Links == {"stub", "runtime", "other", "file", "gone"}

FaultKinds == {"read", "write", "unlink", "symlink", "restart", "save",
               "unlinkBack", "clear", "cancel"}

ASSUME StubAssumption ==
    /\ OneAtATime \in BOOLEAN /\ FreshPage \in BOOLEAN
    /\ Faults \subseteq FaultKinds
    /\ MaxFaults \in Nat /\ MaxCrashes \in Nat

VARIABLES
    dropIn,  \* 99-openvpntools.conf in resolved.conf.d
    link,    \* /etc/resolv.conf
    active,  \* the drop-in that the running resolved has read
    backup,  \* the restore point on disk
    req,     \* the requests
    faults,  \* failures so far
    crashes, \* restarts so far
    before,  \* history: drop-in and link when the stub was last switched off
    answer   \* history: what the last request has answered

hostVars == <<dropIn, link, active>>
vars == <<hostVars, backup, req, faults, crashes, before, answer>>

\* StubBackup. The switched flag is set by DisableStub after the fact.
Backup == [dropIn : DropIns, link : Links, switched : BOOLEAN]
NoBackup == [dropIn |-> "none", link |-> "none", switched |-> FALSE]

IdleRequest == [pc |-> "idle", op |-> "none", b |-> NoBackup, cancelled |-> FALSE]

\* A resolved that runs with its stub, or that the installer gave an extra listener.
Init ==
    /\ dropIn \in {"none", "extra"}
    /\ link \in {"stub", "other", "file"}
    /\ active = dropIn
    /\ backup = NoBackup
    /\ req = [r \in Requests |-> IdleRequest]
    /\ faults = 0 /\ crashes = 0
    /\ before = [dropIn |-> dropIn, link |-> link]
    /\ answer = "none"

-------------------------------------------------------------------------------

At(r, at) == req[r].pc = at
GoTo(r, at) == req' = [req EXCEPT ![r].pc = at]

End(r, what) == req' = [req EXCEPT ![r] = IdleRequest] /\ answer' = what
Go(r, at) == GoTo(r, at) /\ UNCHANGED answer

Quiet == \A r \in Requests : At(r, "idle")
Available(r) == At(r, "idle") /\ (OneAtATime => Quiet)

\* An operation that may fail in this model does.
Fails(kind) == kind \in Faults /\ faults < MaxFaults /\ faults' = faults + 1

\* A client that has gone away: its systemctl calls fail from now on.
Cancel(r) ==
    /\ Fails("cancel")
    /\ ~At(r, "idle") /\ ~req[r].cancelled
    /\ req' = [req EXCEPT ![r].cancelled = TRUE]
    /\ UNCHANGED <<hostVars, backup, crashes, before, answer>>

-------------------------------------------------------------------------------
(* handleDNSStubDisable. *)

\* SnapshotStub: a plain file is not a link; a drop-in that cannot be read is recorded
\* as empty, which a revert takes for none.
Snapshot(b) ==
    \/ b = [dropIn |-> dropIn, link |-> link, switched |-> FALSE] /\ UNCHANGED faults
    \/ /\ dropIn # "none" /\ Fails("read")
       /\ b = [dropIn |-> "none", link |-> link, switched |-> FALSE]

BeginDisable(r) ==
    /\ Available(r)
    /\ FreshPage => dropIn = "none"
    /\ \E b \in Backup :
          /\ Snapshot(b)
          /\ req' = [req EXCEPT ![r] = [pc |-> "saveFirst", op |-> "disable", b |-> b,
                                        cancelled |-> FALSE]]
    /\ before' = IF backup = NoBackup THEN [dropIn |-> dropIn, link |-> link] ELSE before
    /\ answer' = "none"
    /\ UNCHANGED <<hostVars, backup, crashes>>

\* Variant: the restore point is written after the change only.
SaveFirstNot(r) ==
    /\ At(r, "saveFirst")
    /\ Go(r, "writeDropIn")
    /\ UNCHANGED <<hostVars, backup, faults, crashes, before>>

\* The restore point, before anything changes.
SaveFirst(r) ==
    /\ At(r, "saveFirst")
    /\ \/ backup' = req[r].b /\ Go(r, "writeDropIn") /\ UNCHANGED faults
       \/ Fails("save") /\ UNCHANGED backup /\ End(r, "error")
    /\ UNCHANGED <<hostVars, crashes, before>>

\* Only a link to the stub's file is switched.
ToSwitch(b) == b.link = "stub"

\* Variant: resolv.conf is never switched.
WriteDropInOnly(r) ==
    /\ At(r, "writeDropIn")
    /\ dropIn' = "off" /\ UNCHANGED faults /\ Go(r, "restart")
    /\ UNCHANGED <<link, active, backup, crashes, before>>

\* DisableStub: the unit's status first, which needs the context; then the drop-in.
WriteDropIn(r) ==
    /\ At(r, "writeDropIn")
    /\ \/ /\ ~req[r].cancelled
          /\ dropIn' = "off" /\ UNCHANGED faults
          /\ Go(r, IF ToSwitch(req[r].b) THEN "unlink" ELSE "restart")
       \/ /\ Fails("write") \/ (req[r].cancelled /\ UNCHANGED faults)
          /\ UNCHANGED dropIn /\ Go(r, "revertDropIn")
    /\ UNCHANGED <<link, active, backup, crashes, before>>

\* Removing a file that is not there fails.
Unlink(r) ==
    /\ At(r, "unlink")
    /\ \/ link # "gone" /\ link' = "gone" /\ UNCHANGED faults /\ Go(r, "symlink")
       \/ /\ Fails("unlink") \/ (link = "gone" /\ UNCHANGED faults)
          /\ UNCHANGED link /\ Go(r, "revertDropIn")
    /\ UNCHANGED <<dropIn, active, backup, crashes, before>>

\* Variant: the switch is not remembered.
SymlinkForgets(r) ==
    /\ At(r, "symlink")
    /\ link = "gone" /\ link' = "runtime" /\ Go(r, "restart")
    /\ UNCHANGED <<dropIn, active, backup, faults, crashes, before>>

\* A link where something is fails.
Symlink(r) ==
    /\ At(r, "symlink")
    /\ \/ /\ link = "gone" /\ link' = "runtime" /\ UNCHANGED <<faults, answer>>
          /\ req' = [req EXCEPT ![r].pc = "restart", ![r].b.switched = TRUE]
       \/ /\ Fails("symlink") \/ (link # "gone" /\ UNCHANGED faults)
          /\ UNCHANGED link /\ Go(r, "revertDropIn")
    /\ UNCHANGED <<dropIn, active, backup, crashes, before>>

\* systemctl restart; when it fails or is killed it may have had its effect.
Restart(r) ==
    /\ At(r, "restart")
    /\ \/ ~req[r].cancelled /\ active' = dropIn /\ UNCHANGED faults /\ Go(r, "saveSecond")
       \/ /\ Fails("restart") \/ (req[r].cancelled /\ UNCHANGED faults)
          /\ active' \in {active, dropIn} /\ Go(r, "revertDropIn")
    /\ UNCHANGED <<dropIn, link, backup, crashes, before>>

\* The restore point again, with the switched flag.
SaveSecond(r) ==
    /\ At(r, "saveSecond")
    /\ \/ backup' = req[r].b /\ UNCHANGED faults /\ End(r, "disabled")
       \/ Fails("save") /\ UNCHANGED backup /\ End(r, "error")
    /\ UNCHANGED <<hostVars, crashes, before>>

-------------------------------------------------------------------------------
(* RevertStub, of a failed disable or of a restore. *)

\* What a failing revert leads to: the disable handler ignores it.
RevertFailed(r) ==
    IF req[r].op = "disable" THEN Go(r, "clear") ELSE End(r, "error")

\* Variant: resolv.conf is put back whether it was switched or not.
RevertDropInAlways(r) ==
    /\ At(r, "revertDropIn")
    /\ dropIn' = req[r].b.dropIn /\ UNCHANGED faults /\ Go(r, "revertUnlink")
    /\ UNCHANGED <<link, active, backup, crashes, before>>

RevertDropIn(r) ==
    /\ At(r, "revertDropIn")
    /\ \/ /\ dropIn' = req[r].b.dropIn /\ UNCHANGED faults
          /\ Go(r, IF req[r].b.switched THEN "revertUnlink" ELSE "revertRestart")
       \/ Fails("write") /\ UNCHANGED dropIn /\ RevertFailed(r)
    /\ UNCHANGED <<link, active, backup, crashes, before>>

\* An error of this removal is ignored.
RevertUnlink(r) ==
    /\ At(r, "revertUnlink")
    /\ \/ link' = "gone" /\ UNCHANGED faults
       \/ Fails("unlinkBack") /\ UNCHANGED link
    /\ Go(r, "revertSymlink")
    /\ UNCHANGED <<dropIn, active, backup, crashes, before>>

RevertSymlink(r) ==
    /\ At(r, "revertSymlink")
    /\ \/ link = "gone" /\ link' = req[r].b.link /\ UNCHANGED faults /\ Go(r, "revertRestart")
       \/ /\ Fails("symlink") \/ (link # "gone" /\ UNCHANGED faults)
          /\ UNCHANGED link /\ RevertFailed(r)
    /\ UNCHANGED <<dropIn, active, backup, crashes, before>>

\* Variant: what was put back is not read by resolved.
RevertRestartNot(r) ==
    /\ At(r, "revertRestart")
    /\ Go(r, "clear")
    /\ UNCHANGED <<hostVars, backup, faults, crashes, before>>

\* Without a context the status is unknown, and there is no restart and no error;
\* a client that goes away later has the restart killed.
RevertRestart(r) ==
    /\ At(r, "revertRestart")
    /\ \/ ~req[r].cancelled /\ active' = dropIn /\ UNCHANGED faults /\ Go(r, "clear")
       \/ req[r].cancelled /\ UNCHANGED <<active, faults>> /\ Go(r, "clear")
       \/ /\ Fails("restart") \/ (req[r].cancelled /\ UNCHANGED faults)
          /\ active' \in {active, dropIn} /\ RevertFailed(r)
    /\ UNCHANGED <<dropIn, link, backup, crashes, before>>

\* ClearBackup, whose error is ignored.
Clear(r) ==
    /\ At(r, "clear")
    /\ \/ backup' = NoBackup /\ UNCHANGED faults
       \/ Fails("clear") /\ UNCHANGED backup
    /\ End(r, IF req[r].op = "disable" THEN "rolledBack" ELSE "restored")
    /\ UNCHANGED <<hostVars, crashes, before>>

\* handleDNSStubRestore.
BeginRestore(r) ==
    /\ Available(r)
    /\ backup # NoBackup
    /\ req' = [req EXCEPT ![r] = [pc |-> "revertDropIn", op |-> "restore", b |-> backup,
                                  cancelled |-> FALSE]]
    /\ answer' = "none"
    /\ UNCHANGED <<hostVars, backup, faults, crashes, before>>

-------------------------------------------------------------------------------

\* The panel dies and comes back; resolved goes on as it is.
Crash ==
    /\ crashes < MaxCrashes
    /\ crashes' = crashes + 1
    /\ req' = [r \in Requests |-> IdleRequest]
    /\ UNCHANGED <<hostVars, backup, faults, before, answer>>

Step(r) ==
    \/ SaveFirst(r) \/ WriteDropIn(r) \/ Unlink(r) \/ Symlink(r) \/ Restart(r) \/ SaveSecond(r)
    \/ RevertDropIn(r) \/ RevertUnlink(r) \/ RevertSymlink(r) \/ RevertRestart(r) \/ Clear(r)

Next ==
    \/ \E r \in Requests : BeginDisable(r) \/ BeginRestore(r) \/ Step(r) \/ Cancel(r)
    \/ Crash

Spec == Init /\ [][Next]_vars

-------------------------------------------------------------------------------
(* Properties. *)

\* Every variable has its type; a request reverts a link only when it has
\* something to link to.
TypeOK ==
    /\ dropIn \in DropIns /\ link \in Links /\ active \in DropIns
    /\ backup \in Backup \cup {NoBackup}
    /\ \A r \in Requests : req[r].b \in Backup \/ At(r, "idle")
    /\ \A r \in Requests : At(r, "revertSymlink") => req[r].b.link = "stub"
    /\ faults <= MaxFaults /\ crashes <= MaxCrashes

\* While the stub is switched off by its drop-in, the restore point on disk holds
\* the drop-in of before, after a crash too ("可一键恢复", one click restores).
Recoverable == dropIn = "off" => backup # NoBackup /\ backup.dropIn # "off"

\* Request r answers this.
Answers(r, what) == ~At(r, "idle") /\ At(r, "idle")' /\ answer' = what /\ answer # what

\* The panel has not died, or found a resolv.conf that no disable switches: a death in the
\* middle of a switch leaves a restore point that does not know of it.
Undisturbed == crashes = 0 \/ before.link \in {"other", "file"}

\* Drop-in and link are as before the first disable, and for a client that has stayed the
\* running resolved has read that drop-in again.
PutBack(r) ==
    /\ dropIn' = before.dropIn /\ link' = before.link
    /\ ~req[r].cancelled => active' = before.dropIn

\* A restore that answers ok has put back what the first disable found, for resolved too,
\* after any restart of the panel that the link allows ("可一键恢复").
RestoreReturns ==
    [][\A r \in Requests : Undisturbed /\ Answers(r, "restored") => PutBack(r)]_vars

\* A disable that answers "failed, rolled back" has, for resolved too: after a failing
\* write, removal or restart, and when its client goes away at any step (handlers_dns.go:
\* 失败时立即回滚).
FailedDisableClean ==
    [][\A r \in Requests : Undisturbed /\ Answers(r, "rolledBack") => PutBack(r)]_vars

\* resolv.conf names something that answers: resolved keeps the file it points to, and
\* runs the stub that the stub's file names.
Serves(di, ln, ac) == ln # "gone" /\ ~(ln = "stub" /\ "off" \in {di, ac})

\* The host can resolve names when a request answers that the stub is off, and when one
\* whose client has stayed answers that it is back.
Resolves ==
    [][\A r \in Requests :
          /\ Undisturbed
          /\ \/ Answers(r, "disabled")
             \/ ~req[r].cancelled /\ (Answers(r, "restored") \/ Answers(r, "rolledBack"))
          => Serves(dropIn', link', active')]_vars

\* What a revert that answers has put back is what resolved runs with (stub.go: 按备份恢复
\* drop-in 与 resolv.conf,并重启 resolved). A client that has gone away has it skipped.
RevertRestarts ==
    [][\A r \in Requests : Answers(r, "restored") \/ Answers(r, "rolledBack")
          => active' = dropIn']_vars

===============================================================================
