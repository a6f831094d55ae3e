----------------------------- MODULE EasyRSAUpgrade -----------------------------
(***************************************************************************)
(* updates.UpgradeEasyRSA: the PKI, a directory inside easy-rsa, is moved to   *)
(* the directory of the new release, which then takes the place of the old one. *)
(* Every rename and removal is a step of its own.                              *)
(***************************************************************************)
EXTENDS Download

CONSTANTS
    Requests,
    PutBack,     \* before an upgrade the administrator puts back a PKI that a death of
                 \* the panel left in easy-rsa.new
    MaxVersion,  \* bound on the releases of EasyRSA; the first is the built-in one
    MaxContent,  \* bound on what the PKI may hold
    Faults,
    MaxFaults

VARIABLES
    fs,        \* easy-rsa, easy-rsa.new and easy-rsa.old
    latest,    \* the newest release
    cached,    \* Manager.latest, 0: not fetched yet
    upgrading, \* the requests
    faults

Places == {"dir", "newDir", "oldDir"}

\* Version of the script, version in the marker file and PKI; 0: not there. A script
\* that is not what was published, and half a PKI, have a minus sign.
Directory ==
    [there : BOOLEAN, script : -MaxVersion..MaxVersion, marker : 0..MaxVersion,
     pki : -MaxContent..MaxContent]

NoDirectory == [there |-> FALSE, script |-> 0, marker |-> 0, pki |-> 0]

\* was: easy-rsa when the request began.
IdleUpgrade == [pc |-> "idle", rel |-> 0, tries |-> 0, script |-> 0, was |-> NoDirectory,
                answer |-> "none"]

-------------------------------------------------------------------------------

At(r, at) == upgrading[r].pc = at
GoTo(r, at) == upgrading' = [upgrading EXCEPT ![r].pc = at]
Answers(r, at, what) == upgrading' = [upgrading EXCEPT ![r].pc = at, ![r].answer = what]

Fails(kind) == kind \in Faults /\ faults < MaxFaults /\ faults' = faults + 1

Removed(p) == fs' = [fs EXCEPT ![p] = NoDirectory]

\* rename(2) of a directory: there must be one, and none in its way.
CanMove(from, to) == fs[from].there /\ ~fs[to].there
Moved(from, to) == fs' = [fs EXCEPT ![to] = fs[from], ![from] = NoDirectory]

CanMovePki(from, to) == fs[from].pki # 0 /\ fs[to].there /\ fs[to].pki = 0
MovedPki(from, to) == fs' = [fs EXCEPT ![to].pki = fs[from].pki, ![from].pki = 0]

\* readMarker: without a marker the script is taken to be the built-in version.
Current ==
    IF fs["dir"].marker # 0 THEN fs["dir"].marker
    ELSE IF fs["dir"].script # 0 THEN 1 ELSE 0

-------------------------------------------------------------------------------

Publish ==
    /\ latest < MaxVersion
    /\ latest' = latest + 1
    /\ UNCHANGED <<fs, cached, upgrading, faults>>

\* Info with checkRemote.
CheckRemote ==
    /\ cached' = latest
    /\ UNCHANGED <<fs, latest, upgrading, faults>>

\* The cached release, if any; an equal version is refused, and so is a release without
\* the archive or its digest.
BeginUpgrade(r) ==
    /\ At(r, "idle")
    /\ PutBack => fs["newDir"].pki = 0
    /\ fs["dir"].script # 0
    /\ cached' = IF cached = 0 THEN latest ELSE cached
    /\ \/ /\ cached' # Current
          /\ upgrading' = [upgrading EXCEPT ![r] = [IdleUpgrade EXCEPT
                              !.pc = "fetch", !.rel = cached', !.was = fs["dir"]]]
       \/ UNCHANGED upgrading
    /\ UNCHANGED <<fs, latest, faults>>

\* Nothing was touched when the download fails.
Fetch(r) ==
    /\ At(r, "fetch")
    /\ \E meets \in Meetings :
          LET n == upgrading[r].tries + 1 IN
          upgrading' = CASE AfterAttempt(meets, n) = "got" ->
                              [upgrading EXCEPT ![r].pc = "clearNew", ![r].tries = 0,
                                                ![r].script = Body(meets, upgrading[r].rel)]
                         [] AfterAttempt(meets, n) = "again" -> [upgrading EXCEPT ![r].tries = n]
                         [] OTHER -> [upgrading EXCEPT ![r].pc = "answer", ![r].answer = "failed"]
    /\ UNCHANGED <<fs, latest, cached, faults>>

ClearNew(r) ==
    /\ At(r, "clearNew")
    /\ Removed("newDir") /\ GoTo(r, "clearOld")
    /\ UNCHANGED <<latest, cached, faults>>

ClearOld(r) ==
    /\ At(r, "clearOld")
    /\ Removed("oldDir") /\ GoTo(r, "extract")
    /\ UNCHANGED <<latest, cached, faults>>

\* ExtractTarGz and bash -n: a failure leaves what was extracted.
Extract(r) ==
    /\ At(r, "extract")
    /\ fs' = [fs EXCEPT !["newDir"].there = TRUE, !["newDir"].script = upgrading[r].script]
    /\ \/ GoTo(r, "movePki") /\ UNCHANGED faults
       \/ Fails("extract") /\ Answers(r, "cleanup", "failed")
    /\ UNCHANGED <<latest, cached>>

MovePki(r) ==
    /\ At(r, "movePki")
    /\ \/ /\ CanMovePki("dir", "newDir") /\ MovedPki("dir", "newDir")
          /\ GoTo(r, "moveDir") /\ UNCHANGED faults
       \/ /\ Fails("rename") \/ (~CanMovePki("dir", "newDir") /\ UNCHANGED faults)
          /\ UNCHANGED fs /\ Answers(r, "cleanup", "failed")
    /\ UNCHANGED <<latest, cached>>

MoveDir(r) ==
    /\ At(r, "moveDir")
    /\ \/ /\ CanMove("dir", "oldDir") /\ Moved("dir", "oldDir")
          /\ GoTo(r, "enable") /\ UNCHANGED faults
       \/ /\ Fails("rename") \/ (~CanMove("dir", "oldDir") /\ UNCHANGED faults)
          /\ UNCHANGED fs /\ GoTo(r, "pkiBack")
    /\ UNCHANGED <<latest, cached>>

EnableNew(r) ==
    /\ At(r, "enable")
    /\ \/ /\ CanMove("newDir", "dir") /\ Moved("newDir", "dir")
          /\ GoTo(r, "marker") /\ UNCHANGED faults
       \/ /\ Fails("rename") \/ (~CanMove("newDir", "dir") /\ UNCHANGED faults)
          /\ UNCHANGED fs /\ GoTo(r, "dirBack")
    /\ UNCHANGED <<latest, cached>>

\* Errors of the two renames back are ignored.
DirBack(r) ==
    /\ At(r, "dirBack")
    /\ \/ CanMove("oldDir", "dir") /\ Moved("oldDir", "dir") /\ UNCHANGED faults
       \/ /\ Fails("rename") \/ (~CanMove("oldDir", "dir") /\ UNCHANGED faults)
          /\ UNCHANGED fs
    /\ GoTo(r, "pkiBack")
    /\ UNCHANGED <<latest, cached>>

\* Variant: the PKI is left where it was taken.
PkiBackNot(r) ==
    /\ At(r, "pkiBack")
    /\ Answers(r, "cleanup", "failed")
    /\ UNCHANGED <<fs, latest, cached, faults>>

PkiBack(r) ==
    /\ At(r, "pkiBack")
    /\ \/ CanMovePki("newDir", "dir") /\ MovedPki("newDir", "dir") /\ UNCHANGED faults
       \/ /\ Fails("rename") \/ (~CanMovePki("newDir", "dir") /\ UNCHANGED faults)
          /\ UNCHANGED fs
    /\ Answers(r, "cleanup", "failed")
    /\ UNCHANGED <<latest, cached>>

\* Variant: the marker names the newest release.
WriteMarkerLatest(r) ==
    /\ At(r, "marker")
    /\ fs' = [fs EXCEPT !["dir"].there = TRUE, !["dir"].marker = latest]
    /\ GoTo(r, "removeOld")
    /\ UNCHANGED <<latest, cached, faults>>

\* A failure is only logged.
WriteMarker(r) ==
    /\ At(r, "marker")
    /\ \/ /\ fs' = [fs EXCEPT !["dir"].there = TRUE, !["dir"].marker = upgrading[r].rel]
          /\ UNCHANGED faults
       \/ Fails("marker") /\ UNCHANGED fs
    /\ GoTo(r, "removeOld")
    /\ UNCHANGED <<latest, cached>>

RemoveOld(r) ==
    /\ At(r, "removeOld")
    /\ Removed("oldDir") /\ Answers(r, "cleanup", "upgraded")
    /\ UNCHANGED <<latest, cached, faults>>

\* The deferred RemoveAll(newDir) of every exit.
CleanUp(r) ==
    /\ At(r, "cleanup")
    /\ Removed("newDir") /\ GoTo(r, "answer")
    /\ UNCHANGED <<latest, cached, faults>>

Answer(r) ==
    /\ At(r, "answer")
    /\ upgrading' = [upgrading EXCEPT ![r] = IdleUpgrade]
    /\ UNCHANGED <<fs, latest, cached, faults>>

Step(r) ==
    \/ Fetch(r) \/ ClearNew(r) \/ ClearOld(r) \/ Extract(r) \/ MovePki(r) \/ MoveDir(r)
    \/ EnableNew(r) \/ DirBack(r) \/ PkiBack(r) \/ WriteMarker(r) \/ RemoveOld(r) \/ CleanUp(r)
    \/ Answer(r)

\* The requests and the release cache are memory.
Forget ==
    /\ upgrading' = [r \in Requests |-> IdleUpgrade]
    /\ cached' = 0

-------------------------------------------------------------------------------

\* A directory that is not there is empty.
UpgradeType ==
    /\ fs \in [Places -> Directory]
    /\ \A p \in Places : ~fs[p].there => fs[p] = NoDirectory
    /\ latest \in 1..MaxVersion /\ cached \in 0..latest

\* The marker tells the version of the script beside it, after a death of the panel too.
MarkerTrue == \A p \in Places : fs[p].marker \in {0, fs[p].script}

\* An upgrade that answers leaves the PKI it found in use, and either the new script
\* or exactly what it found ("已回退旧版本").
AnswersRight(r) ==
    /\ At(r, "answer") /\ upgrading[r].answer = "upgraded" =>
          fs["dir"].script = upgrading[r].rel /\ fs["dir"].pki = upgrading[r].was.pki
    /\ At(r, "answer") /\ upgrading[r].answer = "failed" => fs["dir"] = upgrading[r].was

===============================================================================
