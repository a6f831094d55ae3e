--------------------------------- MODULE Backups ---------------------------------
(***************************************************************************)
(* handleBackup and handleRestore: the PKI, the server's configuration and the *)
(* data of the panel are written to an archive one after the other, and put     *)
(* back one after the other from a directory that all restores share. Nothing   *)
(* is put back when a restore fails; what it replaced is kept.                  *)
(*                                                                           *)
(* The PKI is a directory that is moved as a whole. The configuration and the    *)
(* data are replaced file by file, a file the archive lacks stays, and "server"   *)
(* and "data" stand for one file of each: what one file meets does not depend on  *)
(* the others. v is one state of an entry, -v a part of that or a mixture with     *)
(* others. Across devices a move is a copy and a removal: a death of the panel in   *)
(* it leaves in place what a failure leaves.                                     *)
(***************************************************************************)
EXTENDS OpenVPNUnit, Sequences

CONSTANTS
    Requests,
    InstallWaits,  \* no installation is started while a restore runs
    SameSecond,    \* two restores may get the same directory for what they replace
    MaxContent,    \* bound on the states of an entry
    Faults,
    MaxFaults

VARIABLES
    fs,          \* easy-rsa, which holds the PKI
    files,       \* the entries outside of it
    package,     \* of OpenVPN, 0: none
    vpn,         \* the unit
    installing,  \* an installation is running
    archives,    \* the archives the administrator has
    staging,     \* DataDir/restore-staging
    kept,        \* restore-backup-* directories
    restoring,   \* requests that restore
    exporting,   \* requests that make an archive
    newest,      \* entry -> the newest state it had
    owed,        \* states that were in use and that nobody changed since
    faults

Entries == {"pki", "server", "data"}

\* The order in which entries are handled.
First(todo) == IF "pki" \in todo THEN "pki" ELSE IF "server" \in todo THEN "server" ELSE "data"
Contents == -MaxContent..MaxContent
Whole == Entries \X (1..MaxContent)

Nothing == [e \in Entries |-> 0]

Part(content) == IF content > 0 THEN -content ELSE content

InPlace(e) == IF e = "pki" THEN fs["dir"].pki ELSE files[e]
Present == [e \in Entries |-> InPlace(e)]

\* Variant: the directory is taken to be there.
PutBare(e, content) ==
    IF e = "pki" THEN fs' = [fs EXCEPT !["dir"].pki = content] /\ UNCHANGED files
                 ELSE files' = [files EXCEPT ![e] = content] /\ UNCHANGED fs

\* fs and files with entry e replaced; a restore makes the directory for the PKI.
Put(e, content) ==
    IF e = "pki" THEN /\ fs' = [fs EXCEPT !["dir"].there = @ \/ content # 0,
                                          !["dir"].pki = content]
                      /\ UNCHANGED files
                 ELSE files' = [files EXCEPT ![e] = content] /\ UNCHANGED fs

IdleRestore == [pc |-> "idle", archive |-> Nothing, todo |-> {}, into |-> 0, was |-> Nothing,
                answer |-> "none", restarted |-> FALSE]
IdleExport == [pc |-> "idle", todo |-> {}, got |-> Nothing]

At(r, at) == restoring[r].pc = at
GoTo(r, at) == restoring' = [restoring EXCEPT ![r].pc = at]
Leaves(r, at, what) == restoring' = [restoring EXCEPT ![r].pc = at, ![r].answer = what]

Fails(kind) == kind \in Faults /\ faults < MaxFaults /\ faults' = faults + 1

\* A restore puts content in use.
PutInUse(e, content) == Put(e, content) /\ owed' = owed \union ({<<e, content>>} \cap Whole)

\* moveTree across devices that fails: a part was copied, or all of it, and the original is
\* there, or a part of it.
HalfOut(e, d) ==
    \E copied, left \in {Part(InPlace(e)), InPlace(e)} :
        /\ left # InPlace(e) => e = "pki" /\ copied = InPlace(e)
        /\ kept' = [kept EXCEPT ![d][e] = copied] /\ Put(e, left)

host == <<fs, files, package, vpn>>
history == <<newest, owed>>

-------------------------------------------------------------------------------
(* handleRestore. *)

\* Refused while an installation runs; then the upload is read, however long it takes.
BeginRestore(r, archive) ==
    /\ At(r, "idle")
    /\ ~installing
    /\ restoring' = [restoring EXCEPT ![r] = [IdleRestore EXCEPT !.pc = "upload",
                                                  !.archive = archive, !.was = Present]]
    /\ UNCHANGED <<host, installing, archives, staging, kept, exporting, history, faults>>

Upload(r) ==
    /\ At(r, "upload")
    /\ \/ GoTo(r, "clear") /\ UNCHANGED faults
       \/ Fails("upload") /\ Leaves(r, "answer", "refused")
    /\ UNCHANGED <<host, installing, archives, staging, kept, exporting, history>>

Clear(r) ==
    /\ At(r, "clear")
    /\ staging' = Nothing /\ GoTo(r, "unpack")
    /\ UNCHANGED <<host, installing, archives, kept, exporting, history, faults>>

\* What is unpacked meets what another restore left there.
Staged(archive) ==
    [e \in Entries |-> IF archive[e] = 0 THEN staging[e]
                       ELSE IF staging[e] \in {0, archive[e]} THEN archive[e] ELSE Part(archive[e])]

\* The whole archive is unpacked first. A PKI is refused only when it lacks ca.crt.
Unpack(r) ==
    LET archive == restoring[r].archive IN
    /\ At(r, "unpack")
    /\ staging' = Staged(archive)
    /\ \/ /\ archive # Nothing
          /\ \E d \in {Len(kept) + 1} \union {n \in {Len(kept)} : SameSecond /\ n > 0} :
                /\ kept' = IF d > Len(kept) THEN Append(kept, Nothing) ELSE kept
                /\ restoring' = [restoring EXCEPT ![r].pc = "takeOut", ![r].into = d,
                                     ![r].todo = {e \in Entries : archive[e] # 0}]
          /\ UNCHANGED faults
       \/ /\ Fails("unpack") \/ ((archive["pki"] < 0 \/ archive = Nothing) /\ UNCHANGED faults)
          /\ UNCHANGED kept /\ Leaves(r, "clean", "refused")
    /\ UNCHANGED <<host, installing, archives, exporting, history>>

\* Variant: what is replaced is removed.
TakeOutRemoves(r) ==
    LET e == First(restoring[r].todo) IN
    /\ At(r, "takeOut")
    /\ Put(e, 0) /\ GoTo(r, "putIn")
    /\ UNCHANGED <<package, vpn, installing, archives, staging, kept, exporting, history, faults>>

\* What is in place goes to the backup directory, over what is there; files are
\* looked for in the staging directory first, the PKI is not.
TakeOut(r) ==
    LET e == First(restoring[r].todo)
        d == restoring[r].into
    IN  /\ At(r, "takeOut")
        /\ \/ /\ e = "pki" \/ staging[e] # 0
              /\ IF InPlace(e) = 0 THEN UNCHANGED <<fs, files, kept>>
                 ELSE /\ Put(e, 0)
                      /\ kept' = [kept EXCEPT ![d][e] = IF e = "pki" /\ @ # 0 THEN Part(InPlace(e))
                                                        ELSE InPlace(e)]
              /\ GoTo(r, "putIn") /\ UNCHANGED faults
           \/ /\ Fails("move") \/ (e # "pki" /\ staging[e] = 0 /\ UNCHANGED faults)
              /\ UNCHANGED <<fs, files, kept>> /\ Leaves(r, "clean", "failed")
           \/ /\ InPlace(e) # 0 /\ Fails("move")
              /\ HalfOut(e, d) /\ Leaves(r, "clean", "failed")
        /\ UNCHANGED <<package, vpn, installing, archives, staging, exporting, history>>

\* What is unpacked goes in place, over a file and into a directory. A move that fails
\* may leave a part, or all of it when the removal of the source fails.
PutIn(r) ==
    LET e == First(restoring[r].todo)
        rest == restoring[r].todo \ {e}
        comes == IF e = "pki" /\ InPlace(e) # 0 THEN Part(staging[e]) ELSE staging[e]
    IN  /\ At(r, "putIn")
        /\ \/ /\ staging[e] # 0
              /\ PutInUse(e, comes) /\ staging' = [staging EXCEPT ![e] = 0]
              /\ restoring' = [restoring EXCEPT ![r].todo = rest,
                                   ![r].pc = IF rest = {} THEN "clean" ELSE "takeOut",
                                   ![r].answer = IF rest = {} THEN "restored" ELSE "none"]
              /\ UNCHANGED faults
           \/ /\ \/ /\ Fails("move")
                    /\ \E c \in {InPlace(e), Part(staging[e]), comes} : PutInUse(e, c)
                 \/ staging[e] = 0 /\ UNCHANGED <<faults, fs, files, owed>>
              /\ Leaves(r, "clean", "failed") /\ UNCHANGED staging
        /\ UNCHANGED <<package, vpn, installing, archives, kept, exporting, newest>>

\* The deferred removal of the staging directory.
Clean(r) ==
    /\ At(r, "clean")
    /\ staging' = Nothing
    /\ GoTo(r, IF restoring[r].answer = "restored" THEN "restart" ELSE "answer")
    /\ UNCHANGED <<host, installing, archives, kept, exporting, history, faults>>

\* Only when the unit is seen to exist; the answer tells whether it went well.
Restart(r) ==
    /\ At(r, "restart")
    /\ \E restarted \in BOOLEAN :
          /\ \/ /\ package # 0 /\ vpn' = Started(package, files["server"]) /\ UNCHANGED faults
                /\ restarted = vpn'.active
             \/ package # 0 /\ Fails("restart") /\ vpn' = Down /\ restarted = FALSE
             \/ /\ (package = 0 /\ UNCHANGED faults) \/ Fails("status")
                /\ UNCHANGED vpn /\ restarted = FALSE
          /\ restoring' = [restoring EXCEPT ![r].pc = "answer", ![r].restarted = restarted]
    /\ UNCHANGED <<fs, files, package, installing, archives, staging, kept, exporting, history>>

Answer(r) ==
    /\ At(r, "answer")
    /\ restoring' = [restoring EXCEPT ![r] = IdleRestore]
    /\ UNCHANGED <<host, installing, archives, staging, kept, exporting, history, faults>>

-------------------------------------------------------------------------------
(* handleBackup. *)

BeginExport(r) ==
    /\ exporting[r].pc = "idle"
    /\ exporting' = [exporting EXCEPT ![r] = [IdleExport EXCEPT !.pc = "copy", !.todo = Entries]]
    /\ UNCHANGED <<host, installing, archives, staging, kept, restoring, history, faults>>

\* An entry that is not there is left out. A file that cannot be read ends the archive
\* there, after a part of the PKI perhaps; what there is of it is closed and delivered.
Copy(r) ==
    LET e == First(exporting[r].todo)
        rest == exporting[r].todo \ {e}
        whole == [exporting[r].got EXCEPT ![e] = InPlace(e)]
        torn == [exporting[r].got EXCEPT ![e] = IF e = "pki" THEN Part(InPlace(e)) ELSE 0]
    IN  /\ exporting[r].pc = "copy"
        /\ \/ /\ IF rest = {} THEN archives' = archives \union {whole} ELSE UNCHANGED archives
              /\ exporting' = [exporting EXCEPT ![r] =
                                  IF rest = {} THEN IdleExport
                                  ELSE [pc |-> "copy", todo |-> rest, got |-> whole]]
              /\ UNCHANGED faults
           \/ /\ Fails("read") /\ InPlace(e) # 0
              /\ archives' = archives \union {torn}
              /\ exporting' = [exporting EXCEPT ![r] = IdleExport]
        /\ UNCHANGED <<host, installing, staging, kept, restoring, history>>

-------------------------------------------------------------------------------

\* A certificate is issued, a setting or a user is changed.
Change(e) ==
    /\ InPlace(e) > 0
    /\ newest[e] < MaxContent
    /\ newest' = [newest EXCEPT ![e] = @ + 1]
    /\ owed' = (owed \ {<<e, InPlace(e)>>}) \union {<<e, newest[e] + 1>>}
    /\ Put(e, newest[e] + 1)
    /\ UNCHANGED <<package, vpn, installing, archives, staging, kept, restoring, exporting, faults>>

\* An installation, of which module Installer tells more, refuses a host that has a
\* configuration; it looks at no restore.
StartInstall ==
    /\ ~installing /\ files["server"] = 0
    /\ InstallWaits => \A r \in Requests : At(r, "idle")
    /\ installing' = TRUE
    /\ UNCHANGED <<host, archives, staging, kept, restoring, exporting, history, faults>>

EndInstall ==
    /\ installing /\ installing' = FALSE
    /\ UNCHANGED <<host, archives, staging, kept, restoring, exporting, history, faults>>

Step(r) ==
    \/ Upload(r) \/ Clear(r) \/ Unpack(r) \/ TakeOut(r) \/ PutIn(r) \/ Clean(r) \/ Restart(r)
    \/ Answer(r) \/ Copy(r)

\* The directories stay as they are.
Forget ==
    /\ restoring' = [r \in Requests |-> IdleRestore]
    /\ exporting' = [r \in Requests |-> IdleExport]
    /\ installing' = FALSE

-------------------------------------------------------------------------------

BackupType ==
    /\ files \in [Entries \ {"pki"} -> Contents]
    /\ staging \in [Entries -> Contents]
    /\ \A d \in DOMAIN kept : kept[d] \in [Entries -> Contents]
    /\ archives \subseteq [Entries -> Contents]
    /\ owed \subseteq Whole

Kept(e, content) == InPlace(e) = content \/ \E d \in DOMAIN kept : kept[d][e] = content

\* What a restore replaced is in a backup directory: a configuration or panel data that
\* was in use is never lost, whatever failed ("被替换的现状先移入 restore-backup-*").
FilesKept == \A o \in owed : o[1] # "pki" => Kept(o[1], o[2])

\* A restore that succeeds put every entry of its archive in place and touched no other,
\* and the service it says it restarted runs with that; one that is refused changed
\* nothing.
AnswersRight(r) ==
    /\ At(r, "answer") /\ restoring[r].answer = "restored" =>
          /\ \A e \in Entries : InPlace(e) = IF restoring[r].archive[e] # 0
                                             THEN restoring[r].archive[e] ELSE restoring[r].was[e]
          /\ restoring[r].restarted => vpn.active /\ vpn.conf = files["server"]
    /\ At(r, "answer") /\ restoring[r].answer = "refused" => Present = restoring[r].was

\* No restore moves files while an installation runs ("安装进行中,不能执行恢复").
NoRestoreInInstall ==
    installing => \A r \in Requests : restoring[r].pc \notin {"takeOut", "putIn"}

===============================================================================
