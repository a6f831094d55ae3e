--------------------------- MODULE MaintenanceProofs ---------------------------
(***************************************************************************)
(* Proofs about Maintenance for every number of requests, releases and failures *)
(* and every bound: types always; and, for an administrator who waits for each    *)
(* answer, true markers, a binary that is kept, files and PKI that are not lost     *)
(* and answers that are so.                                                          *)
(***************************************************************************)
EXTENDS Maintenance, TLAPS, FiniteSetTheorems, SequenceTheorems

-------------------------------------------------------------------------------
(* Types. *)

UpgradePcs == {"idle", "fetch", "clearNew", "clearOld", "extract", "movePki", "moveDir", "enable",
               "dirBack", "pkiBack", "marker", "removeOld", "cleanup", "answer"}

UpgradeRecord ==
    [pc : UpgradePcs, rel : 0..MaxVersion, tries : Int, script : -MaxVersion..MaxVersion,
     was : Upgrade!Directory, answer : {"none", "failed", "upgraded"}]

DirType ==
    /\ fs \in [Upgrade!Places -> Upgrade!Directory]
    /\ \A p \in Upgrade!Places : ~fs[p].there => fs[p] = Upgrade!NoDirectory

UpgradesType ==
    /\ upgrading \in [Requests -> UpgradeRecord]
    /\ latest \in 1..MaxVersion /\ cached \in 0..latest

FaultType == faults \in Nat

LEMMA Constants ==
    /\ MaxVersion \in Nat /\ 1 <= MaxVersion /\ MaxPackage \in Nat /\ 1 <= MaxPackage
    /\ MaxPanel \in Nat /\ 1 <= MaxPanel /\ MaxContent \in Nat /\ 2 <= MaxContent
    /\ MaxPlaces \in Nat /\ 1 <= MaxPlaces /\ MaxFaults \in Nat
    /\ IsFiniteSet(Requests)
BY MaintenanceAssumption

LEMMA Counted ==
    ASSUME FaultType, NEW kind,
           \/ Upgrade!Fails(kind) \/ Service!Fails(kind) \/ Panel!Fails(kind) \/ Backup!Fails(kind)
    PROVE  FaultType' /\ faults' = faults + 1 /\ kind \in Faults /\ faults < MaxFaults
BY Constants DEF FaultType, Upgrade!Fails, Service!Fails, Panel!Fails, Backup!Fails

-------------------------------------------------------------------------------
(* The three directories. *)

LEMMA NoDirectoryFine ==
    /\ Upgrade!NoDirectory \in Upgrade!Directory /\ ~Upgrade!NoDirectory.there
    /\ Upgrade!NoDirectory.script = 0 /\ Upgrade!NoDirectory.marker = 0
    /\ Upgrade!NoDirectory.pki = 0
BY Constants DEF Upgrade!NoDirectory, Upgrade!Directory

LEMMA SameDirectory ==
    ASSUME NEW d \in Upgrade!Directory, NEW w \in Upgrade!Directory,
           d.there = w.there, d.script = w.script, d.marker = w.marker, d.pki = w.pki
    PROVE  d = w
BY DEF Upgrade!Directory

LEMMA RemovedFine ==
    ASSUME DirType, NEW p \in Upgrade!Places, Upgrade!Removed(p)
    PROVE  /\ DirType' /\ fs'[p] = Upgrade!NoDirectory
           /\ \A q \in Upgrade!Places \ {p} : fs'[q] = fs[q]
BY NoDirectoryFine DEF DirType, Upgrade!Removed

LEMMA MovedFine ==
    ASSUME DirType, NEW from \in Upgrade!Places, NEW to \in Upgrade!Places, from # to,
           Upgrade!Moved(from, to)
    PROVE  /\ DirType' /\ fs'[to] = fs[from] /\ fs'[from] = Upgrade!NoDirectory
           /\ \A q \in Upgrade!Places \ {from, to} : fs'[q] = fs[q]
BY NoDirectoryFine DEF DirType, Upgrade!Moved

LEMMA MovedPkiFine ==
    ASSUME DirType, NEW from \in Upgrade!Places, NEW to \in Upgrade!Places, from # to,
           Upgrade!CanMovePki(from, to), Upgrade!MovedPki(from, to)
    PROVE  /\ DirType' /\ fs'[to].pki = fs[from].pki /\ fs'[from].pki = 0
           /\ \A q \in {from, to} : /\ fs'[q].there = fs[q].there
                                    /\ fs'[q].script = fs[q].script
                                    /\ fs'[q].marker = fs[q].marker
           /\ \A q \in Upgrade!Places \ {from, to} : fs'[q] = fs[q]
<1>1. /\ fs \in [Upgrade!Places -> Upgrade!Directory]
      /\ fs[from].there /\ fs[to].there
  BY NoDirectoryFine DEF DirType, Upgrade!CanMovePki
<1> DEFINE a == [fs[to] EXCEPT !.pki = fs[from].pki]
           b == [fs[from] EXCEPT !.pki = 0]
<1>2. /\ a \in Upgrade!Directory /\ a.there /\ a.there = fs[to].there /\ a.pki = fs[from].pki
      /\ a.script = fs[to].script /\ a.marker = fs[to].marker
  BY <1>1 DEF Upgrade!Directory
<1>3. /\ b \in Upgrade!Directory /\ b.there /\ b.there = fs[from].there /\ b.pki = 0
      /\ b.script = fs[from].script /\ b.marker = fs[from].marker
  <2>1. 0 \in -MaxContent..MaxContent /\ fs[from] \in Upgrade!Directory
    BY <1>1, Constants
  <2> QED BY <1>1, <2>1 DEF Upgrade!Directory
<1>4. fs' = [fs EXCEPT ![to] = a, ![from] = b]
  BY <1>1 DEF Upgrade!MovedPki
<1> HIDE DEF a, b
<1>5. /\ fs' \in [Upgrade!Places -> Upgrade!Directory] /\ fs'[to] = a /\ fs'[from] = b
      /\ \A q \in Upgrade!Places \ {from, to} : fs'[q] = fs[q]
  BY <1>1, <1>2, <1>3, <1>4
<1>6. \A q \in Upgrade!Places : ~fs'[q].there => fs'[q] = Upgrade!NoDirectory
  BY <1>2, <1>3, <1>5 DEF DirType
<1>7. DirType'
  BY <1>5, <1>6 DEF DirType
<1> QED BY <1>1, <1>2, <1>3, <1>5, <1>7

\* A record whose program counter moves, or that takes an answer.
LEMMA UpgradeMoves ==
    ASSUME UpgradesType, NEW r \in Requests, NEW at \in UpgradePcs,
           NEW what \in {"none", "failed", "upgraded"},
           \/ Upgrade!GoTo(r, at) /\ what = upgrading[r].answer
           \/ Upgrade!Answers(r, at, what)
    PROVE  \E x \in UpgradeRecord :
              /\ upgrading' = [upgrading EXCEPT ![r] = x]
              /\ x.pc = at /\ x.answer = what /\ x.rel = upgrading[r].rel
              /\ x.script = upgrading[r].script /\ x.was = upgrading[r].was
<1> DEFINE x == [upgrading[r] EXCEPT !.pc = at, !.answer = what]
<1>1. upgrading[r] \in UpgradeRecord
  BY DEF UpgradesType
<1>2. /\ x \in UpgradeRecord /\ x.pc = at /\ x.answer = what /\ x.rel = upgrading[r].rel
      /\ x.script = upgrading[r].script /\ x.was = upgrading[r].was
  BY <1>1 DEF UpgradeRecord
<1>3. upgrading' = [upgrading EXCEPT ![r] = x]
  <2>1. CASE Upgrade!GoTo(r, at) /\ what = upgrading[r].answer
    <3>1. x = [upgrading[r] EXCEPT !.pc = at]
      BY <1>1, <2>1 DEF UpgradeRecord
    <3> QED BY <2>1, <3>1 DEF Upgrade!GoTo, UpgradesType
  <2>2. CASE Upgrade!Answers(r, at, what)
    BY <2>2 DEF Upgrade!Answers, UpgradesType
  <2> QED BY <2>1, <2>2
<1> QED BY <1>2, <1>3

-------------------------------------------------------------------------------
(* The upgrade of EasyRSA: what a request x relies on, when the directories are f and  *)
(* there were fl failures.                                                              *)

\* Renames do not fail, or one failure of any kind is all there is.
RenameOnce == "rename" \notin Faults \/ MaxFaults <= 1

Tagged(f) == \A p \in Upgrade!Places : f[p].marker \in {0, f[p].script}

\* The script in easy-rsa.new is the release's, and later the one in use.
Marking(x, f) ==
    /\ x.pc \in {"clearNew", "clearOld", "extract"} => x.script = x.rel
    /\ x.pc \in {"clearOld", "extract"} => f["newDir"] = Upgrade!NoDirectory
    /\ x.pc \in {"movePki", "moveDir", "enable"} => f["newDir"].script = x.rel
    /\ x.pc \in {"marker", "removeOld"} => f["dir"].script = x.rel
    /\ x.pc \in {"cleanup", "answer"} /\ x.answer = "upgraded" => f["dir"].script = x.rel

\* A directory without its PKI.
Stripped(d, w) == /\ d.there = w.there /\ d.script = w.script /\ d.marker = w.marker
                  /\ d.pki = 0

\* Where what was in use is until the request answers.
Switching(x, f, fl) ==
    /\ x.pc # "idle" => x.was.there
    /\ x.pc \in {"fetch", "clearNew", "clearOld", "extract", "movePki"} => f["dir"] = x.was
    /\ x.pc \in {"extract", "movePki", "moveDir"} => f["oldDir"] = Upgrade!NoDirectory
    /\ x.pc \in {"clearOld", "extract"} => f["newDir"] = Upgrade!NoDirectory
    /\ x.pc = "movePki" => f["newDir"].there /\ f["newDir"].pki = 0
    /\ x.pc \in {"moveDir", "pkiBack"} => Stripped(f["dir"], x.was)
    /\ x.pc \in {"enable", "dirBack"} =>
          f["dir"] = Upgrade!NoDirectory /\ Stripped(f["oldDir"], x.was)
    /\ x.pc \in {"moveDir", "enable", "dirBack", "pkiBack"} =>
          f["newDir"].there /\ f["newDir"].pki = x.was.pki /\ x.was.pki # 0
    /\ x.pc \in {"dirBack", "pkiBack"} => fl >= 1
    /\ x.pc \in {"marker", "removeOld"} =>
          f["dir"].there /\ f["dir"].pki = x.was.pki /\ f["newDir"] = Upgrade!NoDirectory
    /\ x.pc = "cleanup" => f["newDir"].pki = 0
    /\ x.pc \in {"cleanup", "answer"} =>
          /\ x.answer \in {"failed", "upgraded"}
          /\ x.answer = "failed" => f["dir"] = x.was
          /\ x.answer = "upgraded" => f["dir"].pki = x.was.pki

\* What is removed holds no PKI.
Spared(x, f) ==
    /\ f["oldDir"].pki = 0
    /\ x.pc \in {"fetch", "clearNew"} => f["newDir"].pki = 0

PkiIn(f, v) == \E p \in Upgrade!Places : f[p].pki = v

Advances(r, x) ==
    LET now == upgrading[r] IN
    /\ x \in UpgradeRecord /\ upgrading' = [upgrading EXCEPT ![r] = x]
    /\ DirType' /\ FaultType'
    /\ Marking(now, fs) /\ Tagged(fs) => Marking(x, fs') /\ Tagged(fs')
    /\ RenameOnce /\ Switching(now, fs, faults) => Switching(x, fs', faults')
    /\ RenameOnce /\ Switching(now, fs, faults) /\ Spared(now, fs) =>
          /\ Spared(x, fs')
          /\ \A v \in Int \ {0} : PkiIn(fs, v) => PkiIn(fs', v)

LEMMA AnswerAdvances ==
    ASSUME DirType, UpgradesType, FaultType, NEW r \in Requests, Upgrade!Answer(r)
    PROVE  \E x : Advances(r, x)
<1> DEFINE x == Upgrade!IdleUpgrade
<1>1. /\ x.pc = "idle" /\ x \in UpgradeRecord
  BY Constants, NoDirectoryFine DEF Upgrade!IdleUpgrade, UpgradeRecord, UpgradePcs
<1>2. /\ upgrading' = [upgrading EXCEPT ![r] = x] /\ UNCHANGED <<fs, faults>>
  BY DEF Upgrade!Answer
<1> HIDE DEF x
<1>3. DirType' /\ FaultType'
  BY <1>2 DEF DirType, FaultType
<1> QED BY <1>1, <1>2, <1>3 DEF Advances, Marking, Switching, Spared

LEMMA FetchAdvances ==
    ASSUME DirType, UpgradesType, FaultType, NEW r \in Requests, Upgrade!Fetch(r)
    PROVE  \E x : Advances(r, x)
<1>0. upgrading[r] \in UpgradeRecord /\ upgrading[r].pc = "fetch" /\ UNCHANGED <<fs, faults>>
  BY DEF UpgradesType, Upgrade!Fetch, Upgrade!At
<1>1. PICK x \in UpgradeRecord :
         /\ upgrading' = [upgrading EXCEPT ![r] = x]
         /\ x.was = upgrading[r].was
         /\ \/ x.pc = "clearNew" /\ x.script = x.rel
            \/ x.pc = "fetch"
            \/ x.pc = "answer" /\ x.answer = "failed"
  <2>1. PICK meets \in Upgrade!Meetings :
           LET n == upgrading[r].tries + 1 IN
           upgrading' = CASE Upgrade!AfterAttempt(meets, n) = "got" ->
                              [upgrading EXCEPT ![r].pc = "clearNew", ![r].tries = 0,
                                  ![r].script = Upgrade!Body(meets, upgrading[r].rel)]
                         [] Upgrade!AfterAttempt(meets, n) = "again" ->
                              [upgrading EXCEPT ![r].tries = n]
                         [] OTHER ->
                              [upgrading EXCEPT ![r].pc = "answer", ![r].answer = "failed"]
    BY DEF Upgrade!Fetch
  <2> DEFINE n == upgrading[r].tries + 1
             script == Upgrade!Body(meets, upgrading[r].rel)
             got == [upgrading[r] EXCEPT !.pc = "clearNew", !.tries = 0, !.script = script]
             again == [upgrading[r] EXCEPT !.tries = n]
             gone == [upgrading[r] EXCEPT !.pc = "answer", !.answer = "failed"]
  <2>2. CASE Upgrade!AfterAttempt(meets, n) = "got"
    <3>1. script = upgrading[r].rel /\ script \in -MaxVersion..MaxVersion
      BY <1>0, <2>2, Constants
         DEF Upgrade!AfterAttempt, Upgrade!LeavesFile, Upgrade!Body, UpgradeRecord
    <3>2. upgrading' = [upgrading EXCEPT ![r] = got]
      BY <2>1, <2>2 DEF UpgradesType
    <3> HIDE DEF script
    <3>3. got \in UpgradeRecord
      <4>1. script \in -MaxVersion..MaxVersion /\ 0 \in Int /\ "clearNew" \in UpgradePcs
        BY <3>1 DEF UpgradePcs
      <4> QED BY <1>0, <4>1 DEF UpgradeRecord
    <3>4. /\ got.was = upgrading[r].was /\ got.pc = "clearNew" /\ got.script = script
          /\ got.rel = upgrading[r].rel
      BY <1>0 DEF UpgradeRecord
    <3> QED BY <3>1, <3>2, <3>3, <3>4
  <2>3. CASE Upgrade!AfterAttempt(meets, n) = "again"
    <3>1. upgrading' = [upgrading EXCEPT ![r] = again]
      BY <2>1, <2>3 DEF UpgradesType
    <3>2. again \in UpgradeRecord /\ again.was = upgrading[r].was /\ again.pc = "fetch"
      BY <1>0 DEF UpgradeRecord
    <3> QED BY <3>1, <3>2
  <2>4. CASE Upgrade!AfterAttempt(meets, n) \notin {"got", "again"}
    <3>1. upgrading' = [upgrading EXCEPT ![r] = gone]
      BY <2>1, <2>4 DEF UpgradesType
    <3>2. /\ gone \in UpgradeRecord /\ gone.was = upgrading[r].was
          /\ gone.pc = "answer" /\ gone.answer = "failed"
      BY <1>0 DEF UpgradeRecord, UpgradePcs
    <3> QED BY <3>1, <3>2
  <2> QED BY <2>2, <2>3, <2>4
<1>2. DirType' /\ FaultType'
  BY <1>0 DEF DirType, FaultType
<1> QED BY <1>0, <1>1, <1>2 DEF Advances, Marking, Switching, Spared

\* The three directories.
LEMMA ThreePlaces ==
    /\ Upgrade!Places = {"dir", "newDir", "oldDir"}
    /\ \A p \in Upgrade!Places : p = "dir" \/ p = "newDir" \/ p = "oldDir"
BY DEF Upgrade!Places

\* Nothing but the request moves.
LEMMA StaysAdvances ==
    ASSUME DirType, UpgradesType, FaultType', NEW r \in Requests, UNCHANGED fs,
           NEW x \in UpgradeRecord, upgrading' = [upgrading EXCEPT ![r] = x],
           Marking(upgrading[r], fs) => Marking(x, fs),
           RenameOnce /\ Switching(upgrading[r], fs, faults) => Switching(x, fs, faults'),
           x.pc \notin {"fetch", "clearNew"}
    PROVE  Advances(r, x)
<1>1. DirType'
  BY DEF DirType
<1> QED BY <1>1 DEF Advances, Spared

LEMMA ClearNewAdvances ==
    ASSUME DirType, UpgradesType, FaultType, NEW r \in Requests, Upgrade!ClearNew(r)
    PROVE  \E x : Advances(r, x)
<1>0. /\ upgrading[r] \in UpgradeRecord /\ upgrading[r].pc = "clearNew" /\ UNCHANGED faults
      /\ Upgrade!Removed("newDir") /\ Upgrade!GoTo(r, "clearOld")
  BY DEF UpgradesType, Upgrade!ClearNew, Upgrade!At
<1>1. PICK x \in UpgradeRecord :
         /\ upgrading' = [upgrading EXCEPT ![r] = x]
         /\ x.pc = "clearOld" /\ x.rel = upgrading[r].rel
         /\ x.script = upgrading[r].script /\ x.was = upgrading[r].was
  <2>1. "clearOld" \in UpgradePcs /\ upgrading[r].answer \in {"none", "failed", "upgraded"}
    BY <1>0 DEF UpgradePcs, UpgradeRecord
  <2> QED BY <1>0, <2>1, UpgradeMoves
<1>2. /\ DirType' /\ FaultType' /\ fs'["newDir"] = Upgrade!NoDirectory
      /\ fs'["dir"] = fs["dir"] /\ fs'["oldDir"] = fs["oldDir"]
  BY <1>0, RemovedFine, ThreePlaces DEF FaultType
<1>3. Marking(upgrading[r], fs) /\ Tagged(fs) => Marking(x, fs') /\ Tagged(fs')
  BY <1>0, <1>1, <1>2, ThreePlaces, NoDirectoryFine DEF Marking, Tagged
<1>4. Switching(upgrading[r], fs, faults) => Switching(x, fs', faults')
  BY <1>0, <1>1, <1>2 DEF Switching
<1>5. Spared(upgrading[r], fs) =>
         /\ Spared(x, fs')
         /\ \A v \in Int \ {0} : PkiIn(fs, v) => PkiIn(fs', v)
  BY <1>0, <1>1, <1>2, ThreePlaces DEF Spared, PkiIn
<1> QED BY <1>1, <1>2, <1>3, <1>4, <1>5 DEF Advances

LEMMA ClearOldAdvances ==
    ASSUME DirType, UpgradesType, FaultType, NEW r \in Requests, Upgrade!ClearOld(r)
    PROVE  \E x : Advances(r, x)
<1>0. /\ upgrading[r] \in UpgradeRecord /\ upgrading[r].pc = "clearOld" /\ UNCHANGED faults
      /\ Upgrade!Removed("oldDir") /\ Upgrade!GoTo(r, "extract")
  BY DEF UpgradesType, Upgrade!ClearOld, Upgrade!At
<1>1. PICK x \in UpgradeRecord :
         /\ upgrading' = [upgrading EXCEPT ![r] = x]
         /\ x.pc = "extract" /\ x.rel = upgrading[r].rel
         /\ x.script = upgrading[r].script /\ x.was = upgrading[r].was
  <2>1. "extract" \in UpgradePcs /\ upgrading[r].answer \in {"none", "failed", "upgraded"}
    BY <1>0 DEF UpgradePcs, UpgradeRecord
  <2> QED BY <1>0, <2>1, UpgradeMoves
<1>2. /\ DirType' /\ FaultType' /\ fs'["oldDir"] = Upgrade!NoDirectory
      /\ fs'["dir"] = fs["dir"] /\ fs'["newDir"] = fs["newDir"]
  BY <1>0, RemovedFine, ThreePlaces DEF FaultType
<1>3. Marking(upgrading[r], fs) /\ Tagged(fs) => Marking(x, fs') /\ Tagged(fs')
  BY <1>0, <1>1, <1>2, ThreePlaces, NoDirectoryFine DEF Marking, Tagged
<1>4. Switching(upgrading[r], fs, faults) => Switching(x, fs', faults')
  BY <1>0, <1>1, <1>2 DEF Switching
<1>5. Spared(upgrading[r], fs) =>
         /\ Spared(x, fs')
         /\ \A v \in Int \ {0} : PkiIn(fs, v) => PkiIn(fs', v)
  BY <1>0, <1>1, <1>2, ThreePlaces, NoDirectoryFine DEF Spared, PkiIn
<1> QED BY <1>1, <1>2, <1>3, <1>4, <1>5 DEF Advances

LEMMA ExtractAdvances ==
    ASSUME DirType, UpgradesType, FaultType, NEW r \in Requests, Upgrade!Extract(r)
    PROVE  \E x : Advances(r, x)
<1> DEFINE d == [fs["newDir"] EXCEPT !.there = TRUE, !.script = upgrading[r].script]
<1>0. /\ upgrading[r] \in UpgradeRecord /\ upgrading[r].pc = "extract"
      /\ fs["newDir"] \in Upgrade!Directory
      /\ upgrading[r].script \in -MaxVersion..MaxVersion
      /\ upgrading[r].answer \in {"none", "failed", "upgraded"}
  BY ThreePlaces DEF DirType, UpgradesType, UpgradeRecord, Upgrade!Extract, Upgrade!At
<1>1. /\ d \in Upgrade!Directory /\ d.there /\ d.script = upgrading[r].script
      /\ d.marker = fs["newDir"].marker /\ d.pki = fs["newDir"].pki
  BY <1>0 DEF Upgrade!Directory
<1>2. fs' = [fs EXCEPT !["newDir"] = d]
  BY ThreePlaces DEF DirType, Upgrade!Extract
<1> HIDE DEF d
<1>3. /\ DirType' /\ fs'["newDir"] = d /\ fs'["dir"] = fs["dir"] /\ fs'["oldDir"] = fs["oldDir"]
  BY <1>1, <1>2, ThreePlaces DEF DirType
<1>4. PICK x \in UpgradeRecord :
         /\ upgrading' = [upgrading EXCEPT ![r] = x]
         /\ x.rel = upgrading[r].rel
         /\ x.script = upgrading[r].script /\ x.was = upgrading[r].was
         /\ \/ x.pc = "movePki" /\ faults' = faults
            \/ x.pc = "cleanup" /\ x.answer = "failed" /\ Upgrade!Fails("extract")
  <2>1. {"movePki", "cleanup"} \subseteq UpgradePcs /\ "failed" \in {"none", "failed", "upgraded"}
    BY DEF UpgradePcs
  <2>2. CASE Upgrade!GoTo(r, "movePki") /\ UNCHANGED faults
    BY <1>0, <2>1, <2>2, UpgradeMoves
  <2>3. CASE Upgrade!Fails("extract") /\ Upgrade!Answers(r, "cleanup", "failed")
    BY <1>0, <2>1, <2>3, UpgradeMoves
  <2> QED BY <2>2, <2>3 DEF Upgrade!Extract
<1>5. FaultType'
  BY <1>4, Counted DEF FaultType
<1>6. Marking(upgrading[r], fs) /\ Tagged(fs) => Marking(x, fs') /\ Tagged(fs')
  BY <1>0, <1>1, <1>3, <1>4, ThreePlaces, NoDirectoryFine DEF Marking, Tagged
<1>7. Switching(upgrading[r], fs, faults) => Switching(x, fs', faults')
  BY <1>0, <1>1, <1>3, <1>4, NoDirectoryFine DEF Switching
<1>8. Spared(upgrading[r], fs) =>
         /\ Spared(x, fs')
         /\ \A v \in Int \ {0} : PkiIn(fs, v) => PkiIn(fs', v)
  BY <1>0, <1>1, <1>3, <1>4, ThreePlaces DEF Spared, PkiIn
<1> QED BY <1>3, <1>4, <1>5, <1>6, <1>7, <1>8 DEF Advances

LEMMA MovePkiAdvances ==
    ASSUME DirType, UpgradesType, FaultType, NEW r \in Requests, Upgrade!MovePki(r)
    PROVE  \E x : Advances(r, x)
<1>0. /\ upgrading[r] \in UpgradeRecord /\ upgrading[r].pc = "movePki"
      /\ upgrading[r].answer \in {"none", "failed", "upgraded"}
  BY DEF UpgradesType, UpgradeRecord, Upgrade!MovePki, Upgrade!At
<1>1. {"moveDir", "cleanup"} \subseteq UpgradePcs /\ "failed" \in {"none", "failed", "upgraded"}
  BY DEF UpgradePcs
<1>2. CASE /\ Upgrade!CanMovePki("dir", "newDir") /\ Upgrade!MovedPki("dir", "newDir")
           /\ Upgrade!GoTo(r, "moveDir") /\ UNCHANGED faults
  <2>1. PICK x \in UpgradeRecord :
           /\ upgrading' = [upgrading EXCEPT ![r] = x]
           /\ x.pc = "moveDir" /\ x.rel = upgrading[r].rel
           /\ x.script = upgrading[r].script /\ x.was = upgrading[r].was
    BY <1>0, <1>1, <1>2, UpgradeMoves
  <2>2. /\ DirType' /\ FaultType'
        /\ fs'["newDir"].pki = fs["dir"].pki /\ fs'["dir"].pki = 0
        /\ fs'["oldDir"] = fs["oldDir"]
        /\ \A q \in {"dir", "newDir"} : /\ fs'[q].there = fs[q].there
                                        /\ fs'[q].script = fs[q].script
                                        /\ fs'[q].marker = fs[q].marker
    BY <1>2, MovedPkiFine, ThreePlaces DEF FaultType
  <2>3. fs["newDir"].pki = 0 /\ fs["dir"].pki # 0 /\ fs["newDir"].there
    BY <1>2 DEF Upgrade!CanMovePki
  <2>4. Marking(upgrading[r], fs) /\ Tagged(fs) => Marking(x, fs') /\ Tagged(fs')
    BY <1>0, <2>1, <2>2, ThreePlaces DEF Marking, Tagged
  <2>5. Switching(upgrading[r], fs, faults) => Switching(x, fs', faults')
    BY <1>0, <2>1, <2>2, <2>3 DEF Switching, Stripped
  <2>6. Spared(upgrading[r], fs) =>
           /\ Spared(x, fs')
           /\ \A v \in Int \ {0} : PkiIn(fs, v) => PkiIn(fs', v)
    BY <1>0, <2>1, <2>2, <2>3, ThreePlaces DEF Spared, PkiIn
  <2> QED BY <2>1, <2>2, <2>4, <2>5, <2>6 DEF Advances
<1>3. CASE /\ \/ Upgrade!Fails("rename")
              \/ ~Upgrade!CanMovePki("dir", "newDir") /\ UNCHANGED faults
           /\ UNCHANGED fs /\ Upgrade!Answers(r, "cleanup", "failed")
  <2>1. PICK x \in UpgradeRecord :
           /\ upgrading' = [upgrading EXCEPT ![r] = x]
           /\ x.pc = "cleanup" /\ x.answer = "failed" /\ x.was = upgrading[r].was
    BY <1>0, <1>1, <1>3, UpgradeMoves
  <2>2. FaultType'
    BY <1>3, Counted DEF FaultType
  <2>3. Marking(x, fs)
    BY <2>1 DEF Marking
  <2>4. Switching(upgrading[r], fs, faults) => Switching(x, fs, faults')
    BY <1>0, <2>1 DEF Switching
  <2> QED BY <1>3, <2>1, <2>2, <2>3, <2>4, StaysAdvances
<1> QED BY <1>2, <1>3 DEF Upgrade!MovePki

LEMMA MoveDirAdvances ==
    ASSUME DirType, UpgradesType, FaultType, NEW r \in Requests, Upgrade!MoveDir(r)
    PROVE  \E x : Advances(r, x)
<1>0. /\ upgrading[r] \in UpgradeRecord /\ upgrading[r].pc = "moveDir"
      /\ upgrading[r].answer \in {"none", "failed", "upgraded"}
  BY DEF UpgradesType, UpgradeRecord, Upgrade!MoveDir, Upgrade!At
<1>1. {"enable", "pkiBack"} \subseteq UpgradePcs
  BY DEF UpgradePcs
<1>2. CASE /\ Upgrade!CanMove("dir", "oldDir") /\ Upgrade!Moved("dir", "oldDir")
           /\ Upgrade!GoTo(r, "enable") /\ UNCHANGED faults
  <2>1. PICK x \in UpgradeRecord :
           /\ upgrading' = [upgrading EXCEPT ![r] = x]
           /\ x.pc = "enable" /\ x.rel = upgrading[r].rel
           /\ x.script = upgrading[r].script /\ x.was = upgrading[r].was
    BY <1>0, <1>1, <1>2, UpgradeMoves
  <2>2. /\ DirType' /\ FaultType' /\ fs'["oldDir"] = fs["dir"]
        /\ fs'["dir"] = Upgrade!NoDirectory /\ fs'["newDir"] = fs["newDir"]
    BY <1>2, MovedFine, ThreePlaces DEF FaultType
  <2>3. Marking(upgrading[r], fs) /\ Tagged(fs) => Marking(x, fs') /\ Tagged(fs')
    BY <1>0, <2>1, <2>2, ThreePlaces, NoDirectoryFine DEF Marking, Tagged
  <2>4. Switching(upgrading[r], fs, faults) => Switching(x, fs', faults')
    BY <1>0, <2>1, <2>2 DEF Switching
  <2>5. Switching(upgrading[r], fs, faults) /\ Spared(upgrading[r], fs) =>
           /\ Spared(x, fs')
           /\ \A v \in Int \ {0} : PkiIn(fs, v) => PkiIn(fs', v)
    BY <1>0, <2>1, <2>2, ThreePlaces, NoDirectoryFine DEF Spared, PkiIn, Switching, Stripped
  <2> QED BY <2>1, <2>2, <2>3, <2>4, <2>5 DEF Advances
<1>3. CASE /\ \/ Upgrade!Fails("rename")
              \/ ~Upgrade!CanMove("dir", "oldDir") /\ UNCHANGED faults
           /\ UNCHANGED fs /\ Upgrade!GoTo(r, "pkiBack")
  <2>1. PICK x \in UpgradeRecord :
           /\ upgrading' = [upgrading EXCEPT ![r] = x]
           /\ x.pc = "pkiBack" /\ x.was = upgrading[r].was
    BY <1>0, <1>1, <1>3, UpgradeMoves
  <2>2. FaultType'
    BY <1>3, Counted DEF FaultType
  <2>3. Marking(x, fs)
    BY <2>1 DEF Marking
  <2>4. Switching(upgrading[r], fs, faults) => faults' >= 1
    <3>1. Switching(upgrading[r], fs, faults) => Upgrade!CanMove("dir", "oldDir")
      BY <1>0, NoDirectoryFine DEF Switching, Stripped, Upgrade!CanMove
    <3>2. Upgrade!Fails("rename") => faults' >= 1
      BY Counted DEF FaultType
    <3> QED BY <1>3, <3>1, <3>2
  <2>5. Switching(upgrading[r], fs, faults) => Switching(x, fs, faults')
    BY <1>0, <2>1, <2>4 DEF Switching
  <2> QED BY <1>3, <2>1, <2>2, <2>3, <2>5, StaysAdvances
<1> QED BY <1>2, <1>3 DEF Upgrade!MoveDir

LEMMA EnableNewAdvances ==
    ASSUME DirType, UpgradesType, FaultType, NEW r \in Requests, Upgrade!EnableNew(r)
    PROVE  \E x : Advances(r, x)
<1>0. /\ upgrading[r] \in UpgradeRecord /\ upgrading[r].pc = "enable"
      /\ upgrading[r].answer \in {"none", "failed", "upgraded"}
  BY DEF UpgradesType, UpgradeRecord, Upgrade!EnableNew, Upgrade!At
<1>1. {"marker", "dirBack"} \subseteq UpgradePcs
  BY DEF UpgradePcs
<1>2. CASE /\ Upgrade!CanMove("newDir", "dir") /\ Upgrade!Moved("newDir", "dir")
           /\ Upgrade!GoTo(r, "marker") /\ UNCHANGED faults
  <2>1. PICK x \in UpgradeRecord :
           /\ upgrading' = [upgrading EXCEPT ![r] = x]
           /\ x.pc = "marker" /\ x.rel = upgrading[r].rel
           /\ x.script = upgrading[r].script /\ x.was = upgrading[r].was
    BY <1>0, <1>1, <1>2, UpgradeMoves
  <2>2. /\ DirType' /\ FaultType' /\ fs'["dir"] = fs["newDir"]
        /\ fs'["newDir"] = Upgrade!NoDirectory /\ fs'["oldDir"] = fs["oldDir"]
    BY <1>2, MovedFine, ThreePlaces DEF FaultType
  <2>3. Marking(upgrading[r], fs) /\ Tagged(fs) => Marking(x, fs') /\ Tagged(fs')
    BY <1>0, <2>1, <2>2, ThreePlaces, NoDirectoryFine DEF Marking, Tagged
  <2>4. Switching(upgrading[r], fs, faults) => Switching(x, fs', faults')
    BY <1>0, <2>1, <2>2 DEF Switching
  <2>5. Switching(upgrading[r], fs, faults) /\ Spared(upgrading[r], fs) =>
           /\ Spared(x, fs')
           /\ \A v \in Int \ {0} : PkiIn(fs, v) => PkiIn(fs', v)
    BY <1>0, <2>1, <2>2, ThreePlaces, NoDirectoryFine DEF Spared, PkiIn, Switching
  <2> QED BY <2>1, <2>2, <2>3, <2>4, <2>5 DEF Advances
<1>3. CASE /\ \/ Upgrade!Fails("rename")
              \/ ~Upgrade!CanMove("newDir", "dir") /\ UNCHANGED faults
           /\ UNCHANGED fs /\ Upgrade!GoTo(r, "dirBack")
  <2>1. PICK x \in UpgradeRecord :
           /\ upgrading' = [upgrading EXCEPT ![r] = x]
           /\ x.pc = "dirBack" /\ x.was = upgrading[r].was
    BY <1>0, <1>1, <1>3, UpgradeMoves
  <2>2. FaultType'
    BY <1>3, Counted DEF FaultType
  <2>3. Marking(x, fs)
    BY <2>1 DEF Marking
  <2>4. Switching(upgrading[r], fs, faults) => faults' >= 1
    <3>1. Switching(upgrading[r], fs, faults) => Upgrade!CanMove("newDir", "dir")
      BY <1>0, NoDirectoryFine DEF Switching, Upgrade!CanMove
    <3>2. Upgrade!Fails("rename") => faults' >= 1
      BY Counted DEF FaultType
    <3> QED BY <1>3, <3>1, <3>2
  <2>5. Switching(upgrading[r], fs, faults) => Switching(x, fs, faults')
    BY <1>0, <2>1, <2>4 DEF Switching
  <2> QED BY <1>3, <2>1, <2>2, <2>3, <2>5, StaysAdvances
<1> QED BY <1>2, <1>3 DEF Upgrade!EnableNew

\* After a rename that failed no other one does.
LEMMA OneRename ==
    ASSUME FaultType, RenameOnce, faults >= 1
    PROVE  ~Upgrade!Fails("rename") /\ ~Panel!Fails("rename")
BY Constants DEF FaultType, RenameOnce, Upgrade!Fails, Panel!Fails

LEMMA DirBackAdvances ==
    ASSUME DirType, UpgradesType, FaultType, NEW r \in Requests, Upgrade!DirBack(r)
    PROVE  \E x : Advances(r, x)
<1>0. /\ upgrading[r] \in UpgradeRecord /\ upgrading[r].pc = "dirBack"
      /\ upgrading[r].answer \in {"none", "failed", "upgraded"}
      /\ Upgrade!GoTo(r, "pkiBack") /\ "pkiBack" \in UpgradePcs
  BY DEF UpgradesType, UpgradeRecord, Upgrade!DirBack, Upgrade!At, UpgradePcs
<1>1. PICK x \in UpgradeRecord :
         /\ upgrading' = [upgrading EXCEPT ![r] = x]
         /\ x.pc = "pkiBack" /\ x.was = upgrading[r].was
  BY <1>0, UpgradeMoves
<1>2. CASE /\ Upgrade!CanMove("oldDir", "dir") /\ Upgrade!Moved("oldDir", "dir")
           /\ UNCHANGED faults
  <2>2. /\ DirType' /\ FaultType' /\ fs'["dir"] = fs["oldDir"]
        /\ fs'["oldDir"] = Upgrade!NoDirectory /\ fs'["newDir"] = fs["newDir"]
    BY <1>2, MovedFine, ThreePlaces DEF FaultType
  <2>3. Tagged(fs) => Marking(x, fs') /\ Tagged(fs')
    BY <1>0, <1>1, <2>2, ThreePlaces, NoDirectoryFine DEF Marking, Tagged
  <2>4. Switching(upgrading[r], fs, faults) => Switching(x, fs', faults')
    BY <1>0, <1>1, <1>2, <2>2 DEF Switching
  <2>5. Switching(upgrading[r], fs, faults) /\ Spared(upgrading[r], fs) =>
           /\ Spared(x, fs')
           /\ \A v \in Int \ {0} : PkiIn(fs, v) => PkiIn(fs', v)
    BY <1>0, <1>1, <2>2, ThreePlaces, NoDirectoryFine DEF Spared, PkiIn, Switching
  <2> QED BY <1>1, <2>2, <2>3, <2>4, <2>5 DEF Advances
<1>3. CASE /\ \/ Upgrade!Fails("rename")
              \/ ~Upgrade!CanMove("oldDir", "dir") /\ UNCHANGED faults
           /\ UNCHANGED fs
  <2>1. FaultType'
    BY <1>3, Counted DEF FaultType
  <2>2. Marking(x, fs)
    BY <1>1 DEF Marking
  <2>3. RenameOnce => ~Switching(upgrading[r], fs, faults)
    <3>1. Switching(upgrading[r], fs, faults) => Upgrade!CanMove("oldDir", "dir") /\ faults >= 1
      BY <1>0, NoDirectoryFine DEF Switching, Stripped, Upgrade!CanMove
    <3> QED BY <1>3, <3>1, OneRename
  <2> QED BY <1>1, <1>3, <2>1, <2>2, <2>3, StaysAdvances
<1> QED BY <1>2, <1>3 DEF Upgrade!DirBack

LEMMA PkiBackAdvances ==
    ASSUME DirType, UpgradesType, FaultType, NEW r \in Requests, Upgrade!PkiBack(r)
    PROVE  \E x : Advances(r, x)
<1>0. /\ upgrading[r] \in UpgradeRecord /\ upgrading[r].pc = "pkiBack"
      /\ upgrading[r].was \in Upgrade!Directory
      /\ Upgrade!Answers(r, "cleanup", "failed") /\ "cleanup" \in UpgradePcs
  BY DEF UpgradesType, UpgradeRecord, Upgrade!PkiBack, Upgrade!At, UpgradePcs
<1>1. PICK x \in UpgradeRecord :
         /\ upgrading' = [upgrading EXCEPT ![r] = x]
         /\ x.pc = "cleanup" /\ x.answer = "failed" /\ x.was = upgrading[r].was
  BY <1>0, UpgradeMoves
<1>2. CASE /\ Upgrade!CanMovePki("newDir", "dir") /\ Upgrade!MovedPki("newDir", "dir")
           /\ UNCHANGED faults
  <2>2. /\ DirType' /\ FaultType'
        /\ fs'["dir"].pki = fs["newDir"].pki /\ fs'["newDir"].pki = 0
        /\ fs'["oldDir"] = fs["oldDir"]
        /\ \A q \in {"dir", "newDir"} : /\ fs'[q].there = fs[q].there
                                        /\ fs'[q].script = fs[q].script
                                        /\ fs'[q].marker = fs[q].marker
    BY <1>2, MovedPkiFine, ThreePlaces DEF FaultType
  <2>3. fs["dir"].pki = 0 /\ fs'["dir"] \in Upgrade!Directory
    BY <1>2, <2>2, ThreePlaces DEF Upgrade!CanMovePki, DirType
  <2>4. Tagged(fs) => Marking(x, fs') /\ Tagged(fs')
    BY <1>0, <1>1, <2>2, ThreePlaces DEF Marking, Tagged
  <2>5. Switching(upgrading[r], fs, faults) => fs'["dir"] = upgrading[r].was
    <3> SUFFICES ASSUME Switching(upgrading[r], fs, faults)
                 PROVE  fs'["dir"] = upgrading[r].was
      OBVIOUS
    <3>1. Stripped(fs["dir"], upgrading[r].was) /\ fs["newDir"].pki = upgrading[r].was.pki
      BY <1>0 DEF Switching
    <3>2. /\ fs'["dir"].there = upgrading[r].was.there
          /\ fs'["dir"].script = upgrading[r].was.script
          /\ fs'["dir"].marker = upgrading[r].was.marker
          /\ fs'["dir"].pki = upgrading[r].was.pki
      BY <2>2, <3>1 DEF Stripped
    <3> QED BY <1>0, <2>3, <3>2, SameDirectory
  <2>6. Switching(upgrading[r], fs, faults) => Switching(x, fs', faults')
    BY <1>0, <1>1, <2>2, <2>5 DEF Switching
  <2>7. Spared(upgrading[r], fs) =>
           /\ Spared(x, fs')
           /\ \A v \in Int \ {0} : PkiIn(fs, v) => PkiIn(fs', v)
    BY <1>0, <1>1, <2>2, <2>3, ThreePlaces DEF Spared, PkiIn
  <2> QED BY <1>1, <2>2, <2>4, <2>6, <2>7 DEF Advances
<1>3. CASE /\ \/ Upgrade!Fails("rename")
              \/ ~Upgrade!CanMovePki("newDir", "dir") /\ UNCHANGED faults
           /\ UNCHANGED fs
  <2>1. FaultType'
    BY <1>3, Counted DEF FaultType
  <2>2. Marking(x, fs)
    BY <1>1 DEF Marking
  <2>3. RenameOnce => ~Switching(upgrading[r], fs, faults)
    <3>1. Switching(upgrading[r], fs, faults) =>
             Upgrade!CanMovePki("newDir", "dir") /\ faults >= 1
      BY <1>0, NoDirectoryFine DEF Switching, Stripped, Upgrade!CanMovePki
    <3> QED BY <1>3, <3>1, OneRename
  <2> QED BY <1>1, <1>3, <2>1, <2>2, <2>3, StaysAdvances
<1> QED BY <1>2, <1>3 DEF Upgrade!PkiBack

LEMMA WriteMarkerAdvances ==
    ASSUME DirType, UpgradesType, FaultType, NEW r \in Requests, Upgrade!WriteMarker(r)
    PROVE  \E x : Advances(r, x)
<1>0. /\ upgrading[r] \in UpgradeRecord /\ upgrading[r].pc = "marker"
      /\ upgrading[r].rel \in 0..MaxVersion
      /\ upgrading[r].answer \in {"none", "failed", "upgraded"}
      /\ Upgrade!GoTo(r, "removeOld") /\ "removeOld" \in UpgradePcs
      /\ fs["dir"] \in Upgrade!Directory
  BY ThreePlaces
     DEF DirType, UpgradesType, UpgradeRecord, Upgrade!WriteMarker, Upgrade!At, UpgradePcs
<1>1. PICK x \in UpgradeRecord :
         /\ upgrading' = [upgrading EXCEPT ![r] = x]
         /\ x.pc = "removeOld" /\ x.rel = upgrading[r].rel /\ x.was = upgrading[r].was
  BY <1>0, UpgradeMoves
<1>2. CASE /\ fs' = [fs EXCEPT !["dir"].there = TRUE, !["dir"].marker = upgrading[r].rel]
           /\ UNCHANGED faults
  <2> DEFINE d == [fs["dir"] EXCEPT !.there = TRUE, !.marker = upgrading[r].rel]
  <2>1. /\ d \in Upgrade!Directory /\ d.there /\ d.script = fs["dir"].script
        /\ d.marker = upgrading[r].rel /\ d.pki = fs["dir"].pki
    BY <1>0 DEF Upgrade!Directory
  <2>2. fs' = [fs EXCEPT !["dir"] = d]
    BY <1>2, ThreePlaces DEF DirType
  <2> HIDE DEF d
  <2>3. /\ DirType' /\ FaultType' /\ fs'["dir"] = d /\ fs'["newDir"] = fs["newDir"]
        /\ fs'["oldDir"] = fs["oldDir"]
    BY <1>2, <2>1, <2>2, ThreePlaces DEF DirType, FaultType
  <2>4. Marking(upgrading[r], fs) /\ Tagged(fs) => Marking(x, fs') /\ Tagged(fs')
    BY <1>0, <1>1, <2>1, <2>3, ThreePlaces DEF Marking, Tagged
  <2>5. Switching(upgrading[r], fs, faults) => Switching(x, fs', faults')
    BY <1>0, <1>1, <2>1, <2>3 DEF Switching
  <2>6. Spared(upgrading[r], fs) =>
           /\ Spared(x, fs')
           /\ \A v \in Int \ {0} : PkiIn(fs, v) => PkiIn(fs', v)
    BY <1>1, <2>1, <2>3, ThreePlaces DEF Spared, PkiIn
  <2> QED BY <1>1, <2>3, <2>4, <2>5, <2>6 DEF Advances
<1>3. CASE Upgrade!Fails("marker") /\ UNCHANGED fs
  <2>1. FaultType'
    BY <1>3, Counted
  <2>2. Marking(upgrading[r], fs) => Marking(x, fs)
    BY <1>0, <1>1 DEF Marking
  <2>3. Switching(upgrading[r], fs, faults) => Switching(x, fs, faults')
    BY <1>0, <1>1 DEF Switching
  <2> QED BY <1>1, <1>3, <2>1, <2>2, <2>3, StaysAdvances
<1> QED BY <1>2, <1>3 DEF Upgrade!WriteMarker

LEMMA RemoveOldAdvances ==
    ASSUME DirType, UpgradesType, FaultType, NEW r \in Requests, Upgrade!RemoveOld(r)
    PROVE  \E x : Advances(r, x)
<1>0. /\ upgrading[r] \in UpgradeRecord /\ upgrading[r].pc = "removeOld" /\ UNCHANGED faults
      /\ Upgrade!Removed("oldDir") /\ Upgrade!Answers(r, "cleanup", "upgraded")
      /\ "cleanup" \in UpgradePcs
  BY DEF UpgradesType, Upgrade!RemoveOld, Upgrade!At, UpgradePcs
<1>1. PICK x \in UpgradeRecord :
         /\ upgrading' = [upgrading EXCEPT ![r] = x]
         /\ x.pc = "cleanup" /\ x.answer = "upgraded" /\ x.rel = upgrading[r].rel
         /\ x.was = upgrading[r].was
  BY <1>0, UpgradeMoves
<1>2. /\ DirType' /\ FaultType' /\ fs'["oldDir"] = Upgrade!NoDirectory
      /\ fs'["dir"] = fs["dir"] /\ fs'["newDir"] = fs["newDir"]
  BY <1>0, RemovedFine, ThreePlaces DEF FaultType
<1>3. Marking(upgrading[r], fs) /\ Tagged(fs) => Marking(x, fs') /\ Tagged(fs')
  BY <1>0, <1>1, <1>2, ThreePlaces, NoDirectoryFine DEF Marking, Tagged
<1>4. Switching(upgrading[r], fs, faults) => Switching(x, fs', faults')
  BY <1>0, <1>1, <1>2, NoDirectoryFine DEF Switching
<1>5. Spared(upgrading[r], fs) =>
         /\ Spared(x, fs')
         /\ \A v \in Int \ {0} : PkiIn(fs, v) => PkiIn(fs', v)
  BY <1>0, <1>1, <1>2, ThreePlaces, NoDirectoryFine DEF Spared, PkiIn
<1> QED BY <1>1, <1>2, <1>3, <1>4, <1>5 DEF Advances

LEMMA CleanUpAdvances ==
    ASSUME DirType, UpgradesType, FaultType, NEW r \in Requests, Upgrade!CleanUp(r)
    PROVE  \E x : Advances(r, x)
<1>0. /\ upgrading[r] \in UpgradeRecord /\ upgrading[r].pc = "cleanup" /\ UNCHANGED faults
      /\ Upgrade!Removed("newDir") /\ Upgrade!GoTo(r, "answer")
      /\ "answer" \in UpgradePcs /\ upgrading[r].answer \in {"none", "failed", "upgraded"}
  BY DEF UpgradesType, UpgradeRecord, Upgrade!CleanUp, Upgrade!At, UpgradePcs
<1>1. PICK x \in UpgradeRecord :
         /\ upgrading' = [upgrading EXCEPT ![r] = x]
         /\ x.pc = "answer" /\ x.answer = upgrading[r].answer /\ x.rel = upgrading[r].rel
         /\ x.was = upgrading[r].was
  BY <1>0, UpgradeMoves
<1>2. /\ DirType' /\ FaultType' /\ fs'["newDir"] = Upgrade!NoDirectory
      /\ fs'["dir"] = fs["dir"] /\ fs'["oldDir"] = fs["oldDir"]
  BY <1>0, RemovedFine, ThreePlaces DEF FaultType
<1>3. Marking(upgrading[r], fs) /\ Tagged(fs) => Marking(x, fs') /\ Tagged(fs')
  BY <1>0, <1>1, <1>2, ThreePlaces, NoDirectoryFine DEF Marking, Tagged
<1>4. Switching(upgrading[r], fs, faults) => Switching(x, fs', faults')
  BY <1>0, <1>1, <1>2 DEF Switching
<1>5. Switching(upgrading[r], fs, faults) /\ Spared(upgrading[r], fs) =>
         /\ Spared(x, fs')
         /\ \A v \in Int \ {0} : PkiIn(fs, v) => PkiIn(fs', v)
  BY <1>0, <1>1, <1>2, ThreePlaces, NoDirectoryFine DEF Spared, PkiIn, Switching
<1> QED BY <1>1, <1>2, <1>3, <1>4, <1>5 DEF Advances

LEMMA UpgradeAdvances ==
    ASSUME DirType, UpgradesType, FaultType, NEW r \in Requests, Upgrade!Step(r)
    PROVE  /\ UpgradesType' /\ upgrading[r].pc # "idle" /\ UNCHANGED <<latest, cached>>
           /\ \E x : Advances(r, x)
<1>1. \E x : Advances(r, x)
  BY AnswerAdvances, FetchAdvances, ClearNewAdvances, ClearOldAdvances, ExtractAdvances,
     MovePkiAdvances, MoveDirAdvances, EnableNewAdvances, DirBackAdvances, PkiBackAdvances,
     WriteMarkerAdvances, RemoveOldAdvances, CleanUpAdvances
     DEF Upgrade!Step
<1>2. upgrading[r].pc # "idle" /\ UNCHANGED <<latest, cached>>
  BY DEF Upgrade!Step, Upgrade!At, Upgrade!Answer, Upgrade!Fetch, Upgrade!ClearNew,
         Upgrade!ClearOld, Upgrade!Extract, Upgrade!MovePki, Upgrade!MoveDir, Upgrade!EnableNew,
         Upgrade!DirBack, Upgrade!PkiBack, Upgrade!WriteMarker, Upgrade!RemoveOld,
         Upgrade!CleanUp
<1> QED BY <1>1, <1>2 DEF Advances, UpgradesType

LEMMA UpgradeBegins ==
    ASSUME DirType, UpgradesType, FaultType, NEW r \in Requests, Upgrade!BeginUpgrade(r)
    PROVE  /\ UpgradesType' /\ UNCHANGED <<fs, faults>>
           /\ \/ UNCHANGED upgrading
              \/ \E x \in UpgradeRecord :
                    /\ upgrading' = [upgrading EXCEPT ![r] = x]
                    /\ Marking(x, fs) /\ Switching(x, fs, faults)
                    /\ PutBack /\ fs["oldDir"].pki = 0 => Spared(x, fs)
<1> DEFINE x == [Upgrade!IdleUpgrade EXCEPT !.pc = "fetch", !.rel = cached', !.was = fs["dir"]]
<1>1. /\ UNCHANGED <<fs, latest, faults>> /\ fs["dir"] \in Upgrade!Directory
      /\ fs["dir"].there
      /\ PutBack => fs["newDir"].pki = 0
  BY ThreePlaces, NoDirectoryFine DEF DirType, Upgrade!BeginUpgrade
<1>2. cached' \in 0..latest /\ cached' \in 0..MaxVersion
  BY Constants DEF Upgrade!BeginUpgrade, UpgradesType
<1>3. /\ x \in UpgradeRecord /\ x.pc = "fetch" /\ x.was = fs["dir"]
  <2>1. Upgrade!IdleUpgrade \in UpgradeRecord
    BY Constants, NoDirectoryFine DEF Upgrade!IdleUpgrade, UpgradeRecord, UpgradePcs
  <2>2. "fetch" \in UpgradePcs
    BY DEF UpgradePcs
  <2> QED BY <1>1, <1>2, <2>1, <2>2 DEF UpgradeRecord
<1>4. UNCHANGED upgrading \/ upgrading' = [upgrading EXCEPT ![r] = x]
  BY DEF Upgrade!BeginUpgrade
<1> HIDE DEF x
<1>5. Marking(x, fs) /\ Switching(x, fs, faults)
  BY <1>1, <1>3 DEF Marking, Switching
<1>6. PutBack /\ fs["oldDir"].pki = 0 => Spared(x, fs)
  BY <1>1, <1>3 DEF Spared
<1>7. UpgradesType'
  BY <1>1, <1>2, <1>3, <1>4 DEF UpgradesType
<1> QED BY <1>1, <1>3, <1>4, <1>5, <1>6, <1>7

-------------------------------------------------------------------------------
(* The service. *)

AptRecord == [pc : {"idle", "install", "restart", "answer"}, was : BOOLEAN,
              answer : {"none", "failed", "upgraded"}]

Units == [active : BOOLEAN, run : Int, conf : Int]

ServicesType ==
    /\ apt \in [Requests -> AptRecord]
    /\ package \in -MaxPackage..MaxPackage /\ candidate \in 1..MaxPackage
    /\ vpn \in Units /\ (vpn.active => vpn.run > 0 /\ vpn.conf > 0 /\ package # 0)

FilesType == files \in [Backup!Entries \ {"pki"} -> Backup!Contents]

\* A service that was running is restarted, and what is answered is so.
Serving(x) ==
    /\ x.pc = "restart" => x.was
    /\ x.pc = "answer" /\ x.answer = "upgraded" /\ x.was => vpn.active /\ vpn.run = package

\* Every part starts the same unit.
LEMMA OneUnit ==
    /\ \A p, c : Service!Started(p, c) = Started(p, c) /\ Backup!Started(p, c) = Started(p, c)
    /\ Service!Down = Down /\ Backup!Down = Down
BY DEF Service!Started, Backup!Started, Started, Service!Down, Backup!Down, Down

LEMMA StartedFine ==
    ASSUME ServicesType, FilesType, NEW p \in Int, p = package
    PROVE  /\ Started(p, files["server"]) \in Units
           /\ Started(p, files["server"]).active =>
                 /\ Started(p, files["server"]).run = p /\ p > 0
                 /\ Started(p, files["server"]).conf = files["server"]
                 /\ files["server"] > 0
           /\ Down \in Units /\ ~Down.active
<1>1. files["server"] \in Int
  BY Constants DEF FilesType, Backup!Entries, Backup!Contents
<1> QED BY <1>1 DEF Started, Down, Units

LEMMA ServiceAnswers ==
    ASSUME NEW r \in Requests, apt \in [Requests -> AptRecord],
           NEW what \in {"none", "failed", "upgraded"}, Service!Answers(r, what)
    PROVE  \E x \in AptRecord :
              /\ apt' = [apt EXCEPT ![r] = x]
              /\ x.pc = "answer" /\ x.answer = what /\ x.was = apt[r].was
<1> DEFINE x == [apt[r] EXCEPT !.pc = "answer", !.answer = what]
<1>1. x \in AptRecord /\ x.pc = "answer" /\ x.answer = what /\ x.was = apt[r].was
  BY DEF AptRecord
<1>2. apt' = [apt EXCEPT ![r] = x]
  BY DEF Service!Answers
<1> QED BY <1>1, <1>2

LEMMA ServiceSteps ==
    ASSUME ServicesType, FilesType, FaultType, NEW r \in Requests, Service!Step(r)
    PROVE  /\ ServicesType' /\ FilesType' /\ FaultType' /\ UNCHANGED files
           /\ apt[r].pc # "idle"
           /\ \E x \in AptRecord :
                 apt' = [apt EXCEPT ![r] = x] /\ (Serving(apt[r]) => Serving(x)')
<1>0. /\ apt \in [Requests -> AptRecord] /\ apt[r] \in AptRecord /\ package \in Int
      /\ candidate \in Int /\ package \in -MaxPackage..MaxPackage /\ candidate \in 1..MaxPackage
      /\ vpn \in Units
  BY Constants DEF ServicesType
<1>1. ASSUME Service!Install(r)
      PROVE  /\ ServicesType' /\ FilesType' /\ FaultType' /\ UNCHANGED files
             /\ apt[r].pc # "idle"
             /\ \E x \in AptRecord :
                   apt' = [apt EXCEPT ![r] = x] /\ (Serving(apt[r]) => Serving(x)')
  <2>1. apt[r].pc = "install" /\ UNCHANGED <<candidate, vpn, files>>
    BY <1>1 DEF Service!Install, Service!At
  <2>2. \E x \in AptRecord :
           /\ apt' = [apt EXCEPT ![r] = x] /\ x.was = apt[r].was
           /\ \/ x.pc = "restart" /\ x.was
              \/ x.pc = "answer" /\ x.answer = "failed"
              \/ x.pc = "answer" /\ ~x.was
    <3>1. CASE apt[r].was /\ apt' = [apt EXCEPT ![r].pc = "restart"]
      <4> DEFINE x == [apt[r] EXCEPT !.pc = "restart"]
      <4>1. x \in AptRecord /\ x.was = apt[r].was /\ x.pc = "restart"
        BY <1>0 DEF AptRecord
      <4> QED BY <1>0, <3>1, <4>1
    <3>2. CASE ~apt[r].was /\ Service!Answers(r, "upgraded")
      <4>1. \E x \in AptRecord :
              /\ apt' = [apt EXCEPT ![r] = x]
              /\ x.pc = "answer" /\ x.answer = "upgraded" /\ x.was = apt[r].was
        BY <1>0, <3>2, ServiceAnswers
      <4> QED BY <3>2, <4>1
    <3>3. CASE Service!Answers(r, "failed")
      <4>1. \E x \in AptRecord :
              /\ apt' = [apt EXCEPT ![r] = x]
              /\ x.pc = "answer" /\ x.answer = "failed" /\ x.was = apt[r].was
        BY <1>0, <3>3, ServiceAnswers
      <4> QED BY <4>1
    <3> QED BY <1>1, <3>1, <3>2, <3>3 DEF Service!Install
  <2>3. /\ package' \in {package, candidate, 0, -candidate}
        /\ package' \in -MaxPackage..MaxPackage /\ (package # 0 => package' # 0)
    BY <1>0, <1>1, Constants DEF Service!Install
  <2>4. FaultType'
    BY <1>1, Counted DEF Service!Install, FaultType
  <2>5. ServicesType' /\ FilesType'
    BY <1>0, <2>1, <2>2, <2>3 DEF ServicesType, FilesType
  <2> QED BY <2>1, <2>2, <2>4, <2>5 DEF Serving
<1>2. ASSUME Service!Restart(r)
      PROVE  /\ ServicesType' /\ FilesType' /\ FaultType' /\ UNCHANGED files
             /\ apt[r].pc # "idle"
             /\ \E x \in AptRecord :
                   apt' = [apt EXCEPT ![r] = x] /\ (Serving(apt[r]) => Serving(x)')
  <2>1. apt[r].pc = "restart" /\ UNCHANGED <<package, candidate, files>>
    BY <1>2 DEF Service!Restart, Service!At
  <2>2. /\ vpn' \in Units
        /\ vpn'.active => vpn'.run > 0 /\ vpn'.conf > 0 /\ package # 0
    <3>1. vpn' = Started(package, files["server"]) \/ vpn' = vpn
      BY <1>2, OneUnit DEF Service!Restart
    <3>2. CASE vpn' = Started(package, files["server"])
      BY <1>0, <3>2, StartedFine
    <3>3. CASE vpn' = vpn
      BY <3>3 DEF ServicesType
    <3> QED BY <3>1, <3>2, <3>3
  <2>3. \E x \in AptRecord :
           /\ apt' = [apt EXCEPT ![r] = x] /\ x.pc = "answer"
           /\ x.answer = "upgraded" => vpn'.active /\ vpn'.run = package
    <3>1. CASE vpn' = Started(package, files["server"]) /\ vpn'.active
      <4>1. vpn'.run = package
        BY <1>0, <3>1, StartedFine
      <4>2. Service!Answers(r, "upgraded") \/ Service!Answers(r, "failed")
        BY <1>2, <3>1 DEF Service!Restart
      <4>3. \E what \in {"none", "failed", "upgraded"} : \E x \in AptRecord :
               apt' = [apt EXCEPT ![r] = x] /\ x.pc = "answer"
        BY <1>0, <4>2, ServiceAnswers
      <4> QED BY <3>1, <4>1, <4>3
    <3>2. CASE Service!Answers(r, "failed")
      <4>1. \E x \in AptRecord :
               /\ apt' = [apt EXCEPT ![r] = x] /\ x.pc = "answer" /\ x.answer = "failed"
        BY <1>0, <3>2, ServiceAnswers
      <4> QED BY <4>1
    <3>3. \/ vpn' = Started(package, files["server"]) /\ vpn'.active
          \/ Service!Answers(r, "failed")
      <4>1. \/ /\ vpn' = Started(package, files["server"])
               /\ Service!Answers(r, IF vpn'.active THEN "upgraded" ELSE "failed")
            \/ Service!Answers(r, "failed")
        BY <1>2, OneUnit DEF Service!Restart
      <4> QED BY <4>1
    <3> QED BY <3>1, <3>2, <3>3
  <2>4. FaultType'
    BY <1>2, Counted DEF Service!Restart, FaultType
  <2>5. ServicesType' /\ FilesType'
    BY <1>0, <2>1, <2>2, <2>3 DEF ServicesType, FilesType
  <2> QED BY <2>1, <2>3, <2>4, <2>5 DEF Serving
<1>3. ASSUME Service!Answer(r)
      PROVE  /\ ServicesType' /\ FilesType' /\ FaultType' /\ UNCHANGED files
             /\ apt[r].pc # "idle"
             /\ \E x \in AptRecord :
                   apt' = [apt EXCEPT ![r] = x] /\ (Serving(apt[r]) => Serving(x)')
  <2>1. Service!IdleApt \in AptRecord /\ Service!IdleApt.pc = "idle"
    BY DEF Service!IdleApt, AptRecord
  <2>2. /\ apt[r].pc = "answer" /\ UNCHANGED <<package, candidate, vpn, files, faults>>
        /\ apt' = [apt EXCEPT ![r] = Service!IdleApt]
    BY <1>3 DEF Service!Answer, Service!At
  <2> QED BY <2>1, <2>2 DEF Serving, ServicesType, FilesType, FaultType
<1> QED BY <1>1, <1>2, <1>3 DEF Service!Step

LEMMA ServiceBegins ==
    ASSUME ServicesType, FaultType, NEW r \in Requests, Service!BeginUpgrade(r)
    PROVE  /\ ServicesType' /\ FaultType' /\ UNCHANGED <<files, vpn, package>>
           /\ \E x \in AptRecord :
                 apt' = [apt EXCEPT ![r] = x] /\ x.pc = "install" /\ Serving(x)'
<1>1. PICK was \in BOOLEAN :
         /\ UNCHANGED faults \/ Service!Fails("status")
         /\ apt' = [apt EXCEPT ![r] = [pc |-> "install", was |-> was, answer |-> "none"]]
  BY DEF Service!BeginUpgrade
<1> DEFINE x == [pc |-> "install", was |-> was, answer |-> "none"]
<1>2. x \in AptRecord /\ x.pc = "install"
  BY DEF AptRecord
<1>3. apt' = [apt EXCEPT ![r] = x] /\ UNCHANGED <<package, candidate, vpn, files>>
  BY <1>1 DEF Service!BeginUpgrade
<1>4. FaultType'
  BY <1>1, Counted DEF FaultType
<1> HIDE DEF x
<1> QED BY <1>2, <1>3, <1>4 DEF ServicesType, Serving

LEMMA ServiceControlled ==
    ASSUME ServicesType, FilesType, NEW action \in {"start", "stop", "restart"},
           Service!Control(action)
    PROVE  ServicesType' /\ UNCHANGED <<files, apt, package, faults>>
<1>1. UNCHANGED <<package, candidate, apt, files, faults>> /\ package # 0
  BY DEF Service!Control
<1>2. vpn' \in {vpn, Down, Started(package, files["server"])}
  <2>1. CASE action = "start"
    BY <2>1, OneUnit DEF Service!Control
  <2>2. CASE action = "stop"
    BY <2>2, OneUnit DEF Service!Control
  <2>3. CASE action = "restart"
    BY <2>3, OneUnit DEF Service!Control
  <2> QED BY <2>1, <2>2, <2>3
<1>3. package \in Int
  BY Constants DEF ServicesType
<1>4. vpn' \in Units /\ (vpn'.active => vpn'.run > 0 /\ vpn'.conf > 0)
  BY <1>2, <1>3, StartedFine DEF ServicesType
<1> QED BY <1>1, <1>4 DEF ServicesType

LEMMA ServicePackaged ==
    ASSUME ServicesType, Service!NewPackage
    PROVE  ServicesType' /\ UNCHANGED <<files, apt, package, vpn, faults>>
<1>1. candidate' \in 1..MaxPackage /\ UNCHANGED <<files, apt, package, vpn, faults>>
  BY Constants DEF Service!NewPackage, ServicesType
<1> QED BY <1>1 DEF ServicesType

-------------------------------------------------------------------------------
(* The update of the panel. *)

UpdatePcs == {"idle", "fetch", "create", "copy", "removeOld", "moveAway", "moveNew", "back",
              "answer"}

UpdateRecord ==
    [pc : UpdatePcs, rel : 0..MaxPanel, tries : Int, body : Panel!Binaries, at : Panel!Places,
     was : Panel!Binaries, answer : {"none", "failed", "updated"}]

\* Requests that may still move the binary of the process a place further.
ToMove == {"fetch", "create", "copy", "removeOld", "moveAway"}
Waiting(u) == {s \in Requests : u[s].pc \in ToMove}

\* There is a place for each of them.
Room(u, at) ==
    /\ at + Cardinality(Waiting(u)) <= MaxPlaces
    /\ \A s \in Requests :
          u[s].pc \in {"copy", "removeOld", "moveAway", "moveNew", "back"} => u[s].at < MaxPlaces

PanelsType ==
    /\ updating \in [Requests -> UpdateRecord]
    /\ bin \in [Panel!Places -> Panel!Binaries] /\ fresh \in [Panel!Places -> Panel!Binaries]
    /\ self \in Panel!Places /\ running \in 0..MaxPanel
    /\ published \in 1..MaxPanel /\ known \in 0..published
    /\ Room(updating, self)

\* How far the update x is, when nobody else updates.
Swapping(x) ==
    /\ x.pc \in ToMove =>
          self = 0 /\ bin[0] = running /\ running = x.was /\ running > 0 /\ x.rel > 0
    /\ x.pc \in {"create", "copy"} => x.body = x.rel
    /\ x.pc \in {"copy", "removeOld", "moveAway", "moveNew", "back"} => x.at = 0 /\ x.rel > 0
    /\ x.pc = "copy" => fresh[0] = -x.rel
    /\ x.pc \in {"removeOld", "moveAway", "moveNew", "back"} => fresh[0] = x.rel
    /\ x.pc \in {"moveNew", "back"} =>
          bin[0] = 0 /\ bin[1] = running /\ running = x.was /\ running > 0 /\ self = 1
    /\ x.pc = "back" => faults >= 1
    /\ x.pc = "answer" =>
          /\ x.answer \in {"failed", "updated"}
          /\ x.answer = "updated" => bin[0] = x.rel /\ bin[1] = running
          /\ RenameOnce /\ x.answer = "failed" => bin[0] = x.was

\* What runs is what systemd would start, unless it was put aside since.
Home == running # 0 /\ self = 0 => bin[0] = running

LEMMA PlacesFine ==
    /\ 0 \in Panel!Places /\ 1 \in Panel!Places /\ Panel!Places \subseteq Nat
    /\ \A p \in Panel!Places : p < MaxPlaces => p + 1 \in Panel!Places
    /\ 0 \in Panel!Binaries /\ Panel!Binaries \subseteq Int
    /\ \A v \in 0..MaxPanel : v \in Panel!Binaries /\ -v \in Panel!Binaries
BY Constants DEF Panel!Places, Panel!Binaries

LEMMA WaitingFinite ==
    ASSUME NEW u
    PROVE  IsFiniteSet(Waiting(u)) /\ Cardinality(Waiting(u)) \in Nat
BY Constants, FS_Subset, FS_CardinalityType DEF Waiting

LEMMA RoomKept ==
    ASSUME PanelsType, NEW r \in Requests, NEW x \in UpdateRecord,
           updating' = [updating EXCEPT ![r] = x], self' \in Panel!Places,
           x.pc \in {"copy", "removeOld", "moveAway", "moveNew", "back"} => x.at < MaxPlaces,
           \/ self' <= self /\ (x.pc \in ToMove => updating[r].pc \in ToMove)
           \/ self' = self + 1 /\ updating[r].pc \in ToMove /\ x.pc \notin ToMove
    PROVE  Room(updating', self')
<1> DEFINE w == Waiting(updating)
           n == Waiting(updating')
<1>0. /\ IsFiniteSet(w) /\ IsFiniteSet(n) /\ Cardinality(w) \in Nat /\ Cardinality(n) \in Nat
      /\ self \in Nat /\ self' \in Nat /\ MaxPlaces \in Nat
      /\ self + Cardinality(w) <= MaxPlaces
      /\ updating \in [Requests -> UpdateRecord]
  BY WaitingFinite, PlacesFine, Constants DEF PanelsType, Room
<1>1. \A s \in Requests \ {r} : updating'[s] = updating[s]
  BY <1>0
<1>2. updating'[r] = x
  BY <1>0
<1>3. self' + Cardinality(n) <= MaxPlaces
  <2>1. CASE self' <= self /\ (x.pc \in ToMove => updating[r].pc \in ToMove)
    <3>1. n \subseteq w
      BY <1>1, <1>2, <2>1 DEF Waiting
    <3>2. Cardinality(n) <= Cardinality(w)
      BY <1>0, <3>1, FS_Subset
    <3> HIDE DEF n, w
    <3> QED BY <1>0, <2>1, <3>2
  <2>2. CASE self' = self + 1 /\ updating[r].pc \in ToMove /\ x.pc \notin ToMove
    <3>1. n = w \ {r} /\ r \in w
      BY <1>1, <1>2, <2>2 DEF Waiting
    <3>2. Cardinality(n) = Cardinality(w) - 1
      BY <1>0, <3>1, FS_RemoveElement
    <3> HIDE DEF n, w
    <3> QED BY <1>0, <2>2, <3>2
  <2> QED BY <2>1, <2>2
<1>4. \A s \in Requests :
         updating'[s].pc \in {"copy", "removeOld", "moveAway", "moveNew", "back"} =>
         updating'[s].at < MaxPlaces
  BY <1>1, <1>2 DEF PanelsType, Room
<1> QED BY <1>3, <1>4 DEF Room

Alone(r) == \A s \in Requests \ {r} : updating[s].pc = "idle"

Swaps(r, x) ==
    /\ x \in UpdateRecord /\ updating' = [updating EXCEPT ![r] = x]
    /\ PanelsType' /\ FaultType'
    /\ Alone(r) /\ Swapping(updating[r]) /\ Home /\ BinaryKept =>
          Swapping(x)' /\ Home' /\ BinaryKept'

LEMMA UpdateMoves ==
    ASSUME updating \in [Requests -> UpdateRecord], NEW r \in Requests, NEW at \in UpdatePcs,
           NEW what \in {"none", "failed", "updated"},
           \/ Panel!GoTo(r, at) /\ what = updating[r].answer
           \/ Panel!Answers(r, what) /\ at = "answer"
    PROVE  \E x \in UpdateRecord :
              /\ updating' = [updating EXCEPT ![r] = x]
              /\ x.pc = at /\ x.answer = what /\ x.rel = updating[r].rel
              /\ x.body = updating[r].body /\ x.at = updating[r].at /\ x.was = updating[r].was
<1> DEFINE x == [updating[r] EXCEPT !.pc = at, !.answer = what]
<1>1. updating[r] \in UpdateRecord
  OBVIOUS
<1>2. /\ x \in UpdateRecord /\ x.pc = at /\ x.answer = what /\ x.rel = updating[r].rel
      /\ x.body = updating[r].body /\ x.at = updating[r].at /\ x.was = updating[r].was
  BY <1>1 DEF UpdateRecord
<1>3. updating' = [updating EXCEPT ![r] = x]
  <2>1. CASE Panel!GoTo(r, at) /\ what = updating[r].answer
    <3>1. x = [updating[r] EXCEPT !.pc = at]
      BY <1>1, <2>1 DEF UpdateRecord
    <3> QED BY <2>1, <3>1 DEF Panel!GoTo
  <2>2. CASE Panel!Answers(r, what) /\ at = "answer"
    BY <2>2 DEF Panel!Answers
  <2> QED BY <2>1, <2>2
<1> QED BY <1>2, <1>3

LEMMA UpdateFetchSwaps ==
    ASSUME PanelsType, FaultType, NEW r \in Requests, Panel!Fetch(r)
    PROVE  \E x : Swaps(r, x)
<1>0. /\ updating[r] \in UpdateRecord /\ updating[r].pc = "fetch"
      /\ updating \in [Requests -> UpdateRecord]
      /\ UNCHANGED <<bin, fresh, self, running, published, known, faults>>
  BY DEF PanelsType, Panel!Fetch, Panel!At
<1>1. PICK x \in UpdateRecord :
         /\ updating' = [updating EXCEPT ![r] = x]
         /\ x.was = updating[r].was /\ x.rel = updating[r].rel
         /\ \/ x.pc = "create" /\ x.body = x.rel
            \/ x.pc = "fetch"
            \/ x.pc = "answer" /\ x.answer = "failed"
  <2>1. PICK meets \in Panel!Meetings :
           LET n == updating[r].tries + 1 IN
           updating' = CASE Panel!AfterAttempt(meets, n) = "got" ->
                              [updating EXCEPT ![r].pc = "create", ![r].tries = 0,
                                  ![r].body = Panel!Body(meets, updating[r].rel)]
                         [] Panel!AfterAttempt(meets, n) = "again" ->
                              [updating EXCEPT ![r].tries = n]
                         [] OTHER ->
                              [updating EXCEPT ![r].pc = "answer", ![r].answer = "failed"]
    BY DEF Panel!Fetch
  <2> DEFINE n == updating[r].tries + 1
             body == Panel!Body(meets, updating[r].rel)
             got == [updating[r] EXCEPT !.pc = "create", !.tries = 0, !.body = body]
             again == [updating[r] EXCEPT !.tries = n]
             gone == [updating[r] EXCEPT !.pc = "answer", !.answer = "failed"]
  <2>2. CASE Panel!AfterAttempt(meets, n) = "got"
    <3>1. body = updating[r].rel /\ body \in Panel!Binaries
      BY <1>0, <2>2, PlacesFine
         DEF Panel!AfterAttempt, Panel!LeavesFile, Panel!Body, UpdateRecord
    <3>2. updating' = [updating EXCEPT ![r] = got]
      BY <1>0, <2>1, <2>2
    <3> HIDE DEF body
    <3>3. got \in UpdateRecord
      <4>1. 0 \in Int /\ "create" \in UpdatePcs
        BY DEF UpdatePcs
      <4> QED BY <1>0, <3>1, <4>1 DEF UpdateRecord
    <3>4. /\ got.was = updating[r].was /\ got.pc = "create" /\ got.body = body
          /\ got.rel = updating[r].rel
      BY <1>0 DEF UpdateRecord
    <3> QED BY <3>1, <3>2, <3>3, <3>4
  <2>3. CASE Panel!AfterAttempt(meets, n) = "again"
    <3>1. updating' = [updating EXCEPT ![r] = again]
      BY <1>0, <2>1, <2>3
    <3>2. /\ again \in UpdateRecord /\ again.was = updating[r].was /\ again.pc = "fetch"
          /\ again.rel = updating[r].rel
      BY <1>0 DEF UpdateRecord
    <3> QED BY <3>1, <3>2
  <2>4. CASE Panel!AfterAttempt(meets, n) \notin {"got", "again"}
    <3>1. updating' = [updating EXCEPT ![r] = gone]
      BY <1>0, <2>1, <2>4
    <3>2. /\ gone \in UpdateRecord /\ gone.was = updating[r].was
          /\ gone.pc = "answer" /\ gone.answer = "failed" /\ gone.rel = updating[r].rel
      BY <1>0 DEF UpdateRecord, UpdatePcs
    <3> QED BY <3>1, <3>2
  <2> QED BY <2>2, <2>3, <2>4
<1>2. Room(updating', self')
  <2>1. self' \in Panel!Places /\ self' <= self
    BY <1>0, PlacesFine DEF PanelsType
  <2> QED BY <1>0, <1>1, <2>1, RoomKept DEF ToMove
<1>3. PanelsType' /\ FaultType'
  BY <1>0, <1>1, <1>2 DEF PanelsType, FaultType
<1>4. Swapping(updating[r]) /\ Home /\ BinaryKept => Swapping(x)' /\ Home' /\ BinaryKept'
  BY <1>0, <1>1 DEF Swapping, Home, BinaryKept, Panel!BinaryKept, ToMove
<1> QED BY <1>1, <1>3, <1>4 DEF Swaps

LEMMA CreateSwaps ==
    ASSUME PanelsType, FaultType, NEW r \in Requests, Panel!Create(r)
    PROVE  \E x : Swaps(r, x)
<1>0. /\ updating[r] \in UpdateRecord /\ updating[r].pc = "create"
      /\ updating \in [Requests -> UpdateRecord]
      /\ fresh' = [fresh EXCEPT ![self] = -updating[r].rel]
      /\ UNCHANGED <<bin, self, running, published, known, faults>>
      /\ self \in Panel!Places /\ updating[r].rel \in 0..MaxPanel
      /\ -updating[r].rel \in Panel!Binaries
  BY PlacesFine DEF PanelsType, Panel!Create, Panel!At, UpdateRecord
<1>1. PICK x \in UpdateRecord :
         /\ updating' = [updating EXCEPT ![r] = x]
         /\ x.pc = "copy" /\ x.at = self /\ x.was = updating[r].was
         /\ x.rel = updating[r].rel /\ x.body = updating[r].body
  <2> DEFINE z == [updating[r] EXCEPT !.pc = "copy", !.at = self]
  <2>1. /\ z \in UpdateRecord /\ z.pc = "copy" /\ z.at = self /\ z.was = updating[r].was
        /\ z.rel = updating[r].rel /\ z.body = updating[r].body
    BY <1>0 DEF UpdateRecord, UpdatePcs
  <2>2. updating' = [updating EXCEPT ![r] = z]
    BY <1>0 DEF Panel!Create
  <2> QED BY <2>1, <2>2
<1>3. self < MaxPlaces
  <2>1. r \in Waiting(updating) /\ self + Cardinality(Waiting(updating)) <= MaxPlaces
    BY <1>0 DEF Waiting, ToMove, PanelsType, Room
  <2>2. Cardinality(Waiting(updating)) # 0
    BY <2>1, WaitingFinite, FS_EmptySet
  <2> QED BY <1>0, <2>1, <2>2, WaitingFinite, PlacesFine, Constants
<1>4. Room(updating', self')
  <2>1. self' \in Panel!Places /\ self' <= self
    BY <1>0, PlacesFine
  <2> QED BY <1>0, <1>1, <1>3, <2>1, RoomKept DEF ToMove
<1>5. PanelsType' /\ FaultType'
  BY <1>0, <1>1, <1>4 DEF PanelsType, FaultType
<1>6. ASSUME Swapping(updating[r]), Home, BinaryKept
      PROVE  Swapping(x)' /\ Home' /\ BinaryKept'
  <2>1. /\ self = 0 /\ bin[0] = running /\ running = x.was /\ running > 0 /\ x.rel > 0
        /\ x.body = x.rel
    BY <1>0, <1>1, <1>6 DEF Swapping, ToMove
  <2>2. fresh'[0] = -x.rel
    BY <1>0, <1>1, <2>1 DEF PanelsType
  <2> QED BY <1>0, <1>1, <1>6, <2>1, <2>2
          DEF Swapping, Home, BinaryKept, Panel!BinaryKept, ToMove
<1> QED BY <1>1, <1>5, <1>6 DEF Swaps

LEMMA CopySwaps ==
    ASSUME PanelsType, FaultType, NEW r \in Requests, Panel!Copy(r)
    PROVE  \E x : Swaps(r, x)
<1> DEFINE at == updating[r].at
           now == IF \A s \in Requests \ {r} : ~(Panel!At(s, "copy") /\ updating[s].at = at)
                  THEN updating[r].body ELSE -updating[r].rel
<1>0. /\ updating[r] \in UpdateRecord /\ updating[r].pc = "copy"
      /\ updating \in [Requests -> UpdateRecord]
      /\ UNCHANGED <<self, running, published, known>>
      /\ self \in Panel!Places /\ at \in Panel!Places /\ updating[r].rel \in 0..MaxPanel
      /\ now \in Panel!Binaries /\ at < MaxPlaces
  BY PlacesFine DEF PanelsType, Panel!Copy, Panel!At, UpdateRecord, Room
<1>1. self' <= self /\ self' \in Panel!Places
  BY <1>0, PlacesFine
<1>2. CASE /\ fresh' = IF fresh[at] # 0 THEN [fresh EXCEPT ![at] = now] ELSE fresh
           /\ bin' = IF fresh[at] = 0 /\ bin[at] = -updating[r].rel
                     THEN [bin EXCEPT ![at] = now] ELSE bin
           /\ Panel!GoTo(r, "removeOld") /\ UNCHANGED faults
  <2>1. PICK x \in UpdateRecord :
           /\ updating' = [updating EXCEPT ![r] = x]
           /\ x.pc = "removeOld" /\ x.rel = updating[r].rel
           /\ x.at = at /\ x.was = updating[r].was
    <3>1. "removeOld" \in UpdatePcs /\ updating[r].answer \in {"none", "failed", "updated"}
      BY <1>0 DEF UpdatePcs, UpdateRecord
    <3> QED BY <1>0, <1>2, <3>1, UpdateMoves
  <2>2. Room(updating', self')
    BY <1>0, <1>1, <2>1, RoomKept DEF ToMove
  <2>3. /\ bin' \in [Panel!Places -> Panel!Binaries]
        /\ fresh' \in [Panel!Places -> Panel!Binaries]
    <3> HIDE DEF now
    <3> QED BY <1>0, <1>2 DEF PanelsType
  <2>4. PanelsType' /\ FaultType'
    BY <1>0, <1>2, <2>1, <2>2, <2>3 DEF PanelsType, FaultType
  <2>5. ASSUME Alone(r), Swapping(updating[r]), Home, BinaryKept
        PROVE  Swapping(x)' /\ Home' /\ BinaryKept'
    <3>1. /\ at = 0 /\ fresh[0] = -x.rel /\ x.rel > 0 /\ updating[r].body = x.rel
          /\ self = 0 /\ bin[0] = running /\ running = x.was /\ running > 0
      BY <1>0, <2>1, <2>5 DEF Swapping, ToMove
    <3>2. now = x.rel
      BY <1>0, <2>5, <3>1 DEF Alone, Panel!At
    <3> HIDE DEF now
    <3>3. fresh[0] # 0
      BY <1>0, <2>1, <3>1
    <3>4. fresh'[0] = x.rel /\ bin' = bin
      BY <1>0, <1>2, <3>1, <3>2, <3>3 DEF PanelsType
    <3> HIDE DEF at
    <3> QED BY <1>0, <2>1, <2>5, <3>1, <3>4
            DEF Swapping, Home, BinaryKept, Panel!BinaryKept, ToMove
  <2> QED BY <2>1, <2>4, <2>5 DEF Swaps
<1>3. CASE Panel!Fails("copy") /\ Panel!Answers(r, "failed") /\ UNCHANGED <<bin, fresh>>
  <2>1. PICK x \in UpdateRecord :
           /\ updating' = [updating EXCEPT ![r] = x]
           /\ x.pc = "answer" /\ x.answer = "failed" /\ x.was = updating[r].was
    <3>1. "answer" \in UpdatePcs
      BY DEF UpdatePcs
    <3> QED BY <1>0, <1>3, <3>1, UpdateMoves
  <2>2. Room(updating', self')
    BY <1>1, <2>1, RoomKept DEF ToMove
  <2>3. PanelsType' /\ FaultType'
    BY <1>0, <1>3, <2>1, <2>2, Counted DEF PanelsType
  <2>4. Swapping(updating[r]) /\ Home /\ BinaryKept => Swapping(x)' /\ Home' /\ BinaryKept'
    <3> HIDE DEF at
    <3> QED BY <1>0, <1>3, <2>1 DEF Swapping, Home, BinaryKept, Panel!BinaryKept, ToMove
  <2> QED BY <2>1, <2>3, <2>4 DEF Swaps
<1> QED BY <1>2, <1>3 DEF Panel!Copy

LEMMA UpdateRemoveOldSwaps ==
    ASSUME PanelsType, FaultType, NEW r \in Requests, Panel!RemoveOld(r)
    PROVE  \E x : Swaps(r, x)
<1>0. /\ updating[r] \in UpdateRecord /\ updating[r].pc = "removeOld"
      /\ updating \in [Requests -> UpdateRecord] /\ Panel!GoTo(r, "moveAway")
      /\ UNCHANGED <<fresh, self, running, published, known, faults>>
      /\ bin' = [bin EXCEPT ![updating[r].at + 1] = 0]
      /\ self \in Panel!Places /\ updating[r].at < MaxPlaces
  BY DEF PanelsType, Panel!RemoveOld, Panel!At, Room
<1>1. PICK x \in UpdateRecord :
         /\ updating' = [updating EXCEPT ![r] = x]
         /\ x.pc = "moveAway" /\ x.rel = updating[r].rel
         /\ x.at = updating[r].at /\ x.was = updating[r].was
  <2>1. "moveAway" \in UpdatePcs /\ updating[r].answer \in {"none", "failed", "updated"}
    BY <1>0 DEF UpdatePcs, UpdateRecord
  <2> QED BY <1>0, <2>1, UpdateMoves
<1>2. Room(updating', self')
  <2>1. self' <= self /\ self' \in Panel!Places
    BY <1>0, PlacesFine
  <2> QED BY <1>0, <1>1, <2>1, RoomKept DEF ToMove
<1>3. PanelsType' /\ FaultType'
  BY <1>0, <1>1, <1>2, PlacesFine DEF PanelsType, FaultType
<1>4. ASSUME Swapping(updating[r]), Home, BinaryKept
      PROVE  Swapping(x)' /\ Home' /\ BinaryKept'
  <2>1. /\ self = 0 /\ bin[0] = running /\ running = x.was /\ running > 0 /\ x.rel > 0
        /\ x.at = 0 /\ fresh[0] = x.rel
    BY <1>0, <1>1, <1>4 DEF Swapping, ToMove
  <2>2. bin'[0] = bin[0]
    BY <1>0, <1>1, <2>1, PlacesFine DEF PanelsType
  <2> QED BY <1>0, <1>1, <2>1, <2>2 DEF Swapping, Home, BinaryKept, Panel!BinaryKept, ToMove
<1> QED BY <1>1, <1>3, <1>4 DEF Swaps

LEMMA MoveAwaySwaps ==
    ASSUME PanelsType, FaultType, NEW r \in Requests, Panel!MoveAway(r)
    PROVE  \E x : Swaps(r, x)
<1> DEFINE at == updating[r].at
<1>0. /\ updating[r] \in UpdateRecord /\ updating[r].pc = "moveAway"
      /\ updating \in [Requests -> UpdateRecord]
      /\ UNCHANGED <<running, published, known>>
      /\ self \in Panel!Places /\ at \in Panel!Places /\ at < MaxPlaces
  BY DEF PanelsType, Panel!MoveAway, Panel!At, Room, UpdateRecord
<1>1. at + 1 \in Panel!Places /\ at # at + 1 /\ at \in Nat /\ self \in Nat
  <2> HIDE DEF at
  <2>1. at \in Nat /\ self \in Nat
    BY <1>0, PlacesFine
  <2> QED BY <1>0, <2>1, Constants DEF Panel!Places
<1>2. CASE /\ bin[at] # 0
           /\ bin' = [bin EXCEPT ![at] = 0, ![at + 1] = bin[at]]
           /\ self' = IF self = at THEN at + 1 ELSE self
           /\ Panel!GoTo(r, "moveNew") /\ UNCHANGED <<fresh, faults>>
  <2>1. PICK x \in UpdateRecord :
           /\ updating' = [updating EXCEPT ![r] = x]
           /\ x.pc = "moveNew" /\ x.rel = updating[r].rel
           /\ x.at = at /\ x.was = updating[r].was
    <3>1. "moveNew" \in UpdatePcs /\ updating[r].answer \in {"none", "failed", "updated"}
      BY <1>0 DEF UpdatePcs, UpdateRecord
    <3> QED BY <1>0, <1>2, <3>1, UpdateMoves
  <2>2. Room(updating', self')
    <3>1. /\ self' \in Panel!Places
          /\ self' <= self \/ self' = self + 1
      BY <1>0, <1>1, <1>2
    <3> QED BY <1>0, <2>1, <3>1, RoomKept DEF ToMove
  <2>3. bin' \in [Panel!Places -> Panel!Binaries] /\ self' \in Panel!Places
    BY <1>0, <1>1, <1>2, PlacesFine DEF PanelsType
  <2>4. PanelsType' /\ FaultType'
    BY <1>0, <1>2, <2>1, <2>2, <2>3 DEF PanelsType, FaultType
  <2>5. ASSUME Swapping(updating[r]), Home, BinaryKept
        PROVE  Swapping(x)' /\ Home' /\ BinaryKept'
    <3>1. /\ self = 0 /\ bin[0] = running /\ running = x.was /\ running > 0 /\ x.rel > 0
          /\ at = 0 /\ fresh[0] = x.rel
      BY <1>0, <2>1, <2>5 DEF Swapping, ToMove
    <3>2. bin'[0] = 0 /\ bin'[1] = bin[0] /\ self' = 1 /\ 1 # 0
      BY <1>1, <1>2, <3>1, PlacesFine DEF PanelsType
    <3> HIDE DEF at
    <3> QED BY <1>0, <1>2, <2>1, <3>1, <3>2
            DEF Swapping, Home, BinaryKept, Panel!BinaryKept, ToMove
  <2> QED BY <2>1, <2>4, <2>5 DEF Swaps
<1>3. CASE /\ \/ Panel!Fails("rename")
              \/ bin[at] = 0 /\ UNCHANGED faults
           /\ fresh' = [fresh EXCEPT ![at] = 0]
           /\ Panel!Answers(r, "failed") /\ UNCHANGED <<bin, self>>
  <2>1. PICK x \in UpdateRecord :
           /\ updating' = [updating EXCEPT ![r] = x]
           /\ x.pc = "answer" /\ x.answer = "failed" /\ x.was = updating[r].was
    <3>1. "answer" \in UpdatePcs
      BY DEF UpdatePcs
    <3> QED BY <1>0, <1>3, <3>1, UpdateMoves
  <2>2. Room(updating', self')
    <3>1. self' <= self /\ self' \in Panel!Places
      BY <1>0, <1>1, <1>3
    <3> QED BY <2>1, <3>1, RoomKept DEF ToMove
  <2>3. FaultType'
    BY <1>3, Counted DEF FaultType
  <2>4. PanelsType'
    BY <1>0, <1>3, <2>1, <2>2, PlacesFine DEF PanelsType
  <2>5. Swapping(updating[r]) /\ Home /\ BinaryKept => Swapping(x)' /\ Home' /\ BinaryKept'
    <3> HIDE DEF at
    <3> QED BY <1>0, <1>3, <2>1 DEF Swapping, Home, BinaryKept, Panel!BinaryKept, ToMove
  <2> QED BY <2>1, <2>3, <2>4, <2>5 DEF Swaps
<1> QED BY <1>2, <1>3 DEF Panel!MoveAway

LEMMA MoveNewSwaps ==
    ASSUME PanelsType, FaultType, NEW r \in Requests, Panel!MoveNew(r)
    PROVE  \E x : Swaps(r, x)
<1> DEFINE at == updating[r].at
<1>0. /\ updating[r] \in UpdateRecord /\ updating[r].pc = "moveNew"
      /\ updating \in [Requests -> UpdateRecord]
      /\ UNCHANGED <<self, running, published, known>>
      /\ self \in Panel!Places /\ self' \in Panel!Places /\ self' <= self
      /\ at \in Panel!Places /\ at < MaxPlaces
  BY PlacesFine DEF PanelsType, Panel!MoveNew, Panel!At, Room, UpdateRecord
<1>1. "answer" \in UpdatePcs /\ "back" \in UpdatePcs
      /\ updating[r].answer \in {"none", "failed", "updated"}
  BY <1>0 DEF UpdatePcs, UpdateRecord
<1>2. CASE /\ fresh[at] # 0
           /\ bin' = [bin EXCEPT ![at] = fresh[at]] /\ fresh' = [fresh EXCEPT ![at] = 0]
           /\ Panel!Answers(r, "updated") /\ UNCHANGED faults
  <2>1. PICK x \in UpdateRecord :
           /\ updating' = [updating EXCEPT ![r] = x]
           /\ x.pc = "answer" /\ x.answer = "updated" /\ x.rel = updating[r].rel
    BY <1>0, <1>1, <1>2, UpdateMoves
  <2>2. Room(updating', self')
    BY <1>0, <2>1, RoomKept DEF ToMove
  <2>3. /\ bin' \in [Panel!Places -> Panel!Binaries]
        /\ fresh' \in [Panel!Places -> Panel!Binaries]
    BY <1>0, <1>2, PlacesFine DEF PanelsType
  <2>4. PanelsType' /\ FaultType'
    BY <1>0, <1>2, <2>1, <2>2, <2>3 DEF PanelsType, FaultType
  <2>5. ASSUME Swapping(updating[r]), Home, BinaryKept
        PROVE  Swapping(x)' /\ Home' /\ BinaryKept'
    <3>1. /\ self = 1 /\ bin[1] = running /\ x.rel > 0 /\ at = 0 /\ fresh[0] = x.rel
      BY <1>0, <2>1, <2>5 DEF Swapping
    <3>2. bin'[0] = x.rel /\ bin'[1] = running
      BY <1>2, <3>1, PlacesFine DEF PanelsType
    <3> HIDE DEF at
    <3> QED BY <1>0, <2>1, <3>1, <3>2
            DEF Swapping, Home, BinaryKept, Panel!BinaryKept, ToMove
  <2> QED BY <2>1, <2>4, <2>5 DEF Swaps
<1>3. CASE /\ \/ Panel!Fails("rename")
              \/ fresh[at] = 0 /\ UNCHANGED faults
           /\ Panel!GoTo(r, "back") /\ UNCHANGED <<bin, fresh>>
  <2>1. PICK x \in UpdateRecord :
           /\ updating' = [updating EXCEPT ![r] = x]
           /\ x.pc = "back" /\ x.rel = updating[r].rel
           /\ x.at = at /\ x.was = updating[r].was
    BY <1>0, <1>1, <1>3, UpdateMoves
  <2>2. Room(updating', self')
    BY <1>0, <2>1, RoomKept DEF ToMove
  <2>3. FaultType'
    BY <1>3, Counted DEF FaultType
  <2>4. PanelsType'
    BY <1>0, <1>3, <2>1, <2>2 DEF PanelsType
  <2>5. ASSUME Swapping(updating[r]), Home, BinaryKept
        PROVE  Swapping(x)' /\ Home' /\ BinaryKept'
    <3>1. at = 0 /\ fresh[0] = x.rel /\ x.rel > 0
      BY <1>0, <2>1, <2>5 DEF Swapping
    <3>2. faults' >= 1
      BY <1>3, <3>1, Counted DEF FaultType
    <3> HIDE DEF at
    <3> QED BY <1>0, <1>3, <2>1, <2>5, <3>1, <3>2
            DEF Swapping, Home, BinaryKept, Panel!BinaryKept, ToMove
  <2> QED BY <2>1, <2>3, <2>4, <2>5 DEF Swaps
<1> QED BY <1>2, <1>3 DEF Panel!MoveNew

LEMMA BackSwaps ==
    ASSUME PanelsType, FaultType, NEW r \in Requests, Panel!Back(r)
    PROVE  \E x : Swaps(r, x)
<1> DEFINE at == updating[r].at
<1>0. /\ updating[r] \in UpdateRecord /\ updating[r].pc = "back"
      /\ updating \in [Requests -> UpdateRecord] /\ Panel!Answers(r, "failed")
      /\ UNCHANGED <<fresh, running, published, known>>
      /\ self \in Panel!Places /\ at \in Panel!Places /\ at < MaxPlaces
  BY DEF PanelsType, Panel!Back, Panel!At, Room, UpdateRecord
<1>1. at + 1 \in Panel!Places /\ at # at + 1 /\ at \in Nat /\ self \in Nat
  <2> HIDE DEF at
  <2>1. at \in Nat /\ self \in Nat
    BY <1>0, PlacesFine
  <2> QED BY <1>0, <2>1, Constants DEF Panel!Places
<1>2. PICK x \in UpdateRecord :
         /\ updating' = [updating EXCEPT ![r] = x]
         /\ x.pc = "answer" /\ x.answer = "failed" /\ x.was = updating[r].was
  <2>1. "answer" \in UpdatePcs
    BY DEF UpdatePcs
  <2> QED BY <1>0, <2>1, UpdateMoves
<1>3. CASE /\ bin[at + 1] # 0
           /\ bin' = [bin EXCEPT ![at] = bin[at + 1], ![at + 1] = 0]
           /\ self' = IF self = at + 1 THEN at ELSE self
           /\ UNCHANGED faults
  <2>1. self' \in Panel!Places /\ self' <= self
    BY <1>0, <1>1, <1>3
  <2>2. Room(updating', self')
    BY <1>2, <2>1, RoomKept DEF ToMove
  <2>3. bin' \in [Panel!Places -> Panel!Binaries]
    BY <1>0, <1>1, <1>3, PlacesFine DEF PanelsType
  <2>4. PanelsType' /\ FaultType'
    BY <1>0, <1>2, <1>3, <2>1, <2>2, <2>3 DEF PanelsType, FaultType
  <2>5. ASSUME Swapping(updating[r]), Home, BinaryKept
        PROVE  Swapping(x)' /\ Home' /\ BinaryKept'
    <3>1. at = 0 /\ bin[1] = running /\ running = x.was /\ running > 0
      BY <1>0, <1>2, <2>5 DEF Swapping
    <3>2. bin'[0] = running
      BY <1>3, <3>1, PlacesFine DEF PanelsType
    <3> HIDE DEF at
    <3> QED BY <1>0, <1>2, <3>1, <3>2
            DEF Swapping, Home, BinaryKept, Panel!BinaryKept, ToMove
  <2> QED BY <1>2, <2>4, <2>5 DEF Swaps
<1>4. CASE /\ \/ Panel!Fails("rename")
              \/ bin[at + 1] = 0 /\ UNCHANGED faults
           /\ UNCHANGED <<bin, self>>
  <2>1. self' \in Panel!Places /\ self' <= self
    BY <1>0, <1>1, <1>4
  <2>2. Room(updating', self')
    BY <1>2, <2>1, RoomKept DEF ToMove
  <2>3. FaultType'
    BY <1>4, Counted DEF FaultType
  <2>4. PanelsType'
    BY <1>0, <1>2, <1>4, <2>2 DEF PanelsType
  <2>5. ASSUME Swapping(updating[r]), Home, BinaryKept
        PROVE  Swapping(x)' /\ Home' /\ BinaryKept'
    <3>1. at = 0 /\ bin[1] = running /\ running > 0 /\ faults >= 1
      BY <1>0, <2>5 DEF Swapping
    <3>2. ~RenameOnce
      BY <1>4, <3>1, OneRename
    <3> HIDE DEF at
    <3> QED BY <1>0, <1>2, <1>4, <2>5, <3>2
            DEF Swapping, Home, BinaryKept, Panel!BinaryKept, ToMove
  <2> QED BY <1>2, <2>3, <2>4, <2>5 DEF Swaps
<1> QED BY <1>3, <1>4 DEF Panel!Back

LEMMA UpdateAnswerSwaps ==
    ASSUME PanelsType, FaultType, NEW r \in Requests, Panel!Answer(r)
    PROVE  \E x : Swaps(r, x)
<1>0. /\ updating \in [Requests -> UpdateRecord] /\ updating[r].pc = "answer"
      /\ UNCHANGED <<bin, fresh, self, running, published, known, faults>>
      /\ self' \in Panel!Places /\ self' <= self
  BY PlacesFine DEF PanelsType, Panel!Answer, Panel!At
<1>1. PICK x \in UpdateRecord : x.pc = "idle" /\ updating' = [updating EXCEPT ![r] = x]
  <2>1. Panel!IdleUpdate \in UpdateRecord /\ Panel!IdleUpdate.pc = "idle"
    BY PlacesFine, Constants DEF Panel!IdleUpdate, UpdateRecord, UpdatePcs
  <2> QED BY <2>1 DEF Panel!Answer
<1>2. Room(updating', self')
  BY <1>0, <1>1, RoomKept DEF ToMove
<1>3. PanelsType' /\ FaultType'
  BY <1>0, <1>1, <1>2 DEF PanelsType, FaultType
<1> QED BY <1>0, <1>1, <1>3 DEF Swaps, Swapping, Home, BinaryKept, Panel!BinaryKept, ToMove

LEMMA PanelSwaps ==
    ASSUME PanelsType, FaultType, NEW r \in Requests, Panel!Step(r)
    PROVE  /\ updating[r].pc # "idle" /\ UNCHANGED <<published, running>>
           /\ \E x : Swaps(r, x)
<1>1. \E x : Swaps(r, x)
  BY UpdateFetchSwaps, CreateSwaps, CopySwaps, UpdateRemoveOldSwaps, MoveAwaySwaps,
     MoveNewSwaps, BackSwaps, UpdateAnswerSwaps
     DEF Panel!Step
<1>2. updating[r].pc # "idle" /\ UNCHANGED <<published, running>>
  BY DEF Panel!Step, Panel!At, Panel!Answer, Panel!Fetch, Panel!Create, Panel!Copy,
         Panel!RemoveOld, Panel!MoveAway, Panel!MoveNew, Panel!Back
<1> QED BY <1>1, <1>2

\* The panel's updates count as every module does.
LEMMA OneCount == \A S : Panel!Cardinality(S) = Cardinality(S)
BY DEF Panel!Cardinality, Cardinality

LEMMA PanelBegins ==
    ASSUME PanelsType, NEW r \in Requests, Panel!BeginUpdate(r)
    PROVE  /\ PanelsType' /\ UNCHANGED <<bin, fresh, self, running, faults>>
           /\ \/ UNCHANGED updating
              \/ \E x \in UpdateRecord :
                    /\ updating' = [updating EXCEPT ![r] = x]
                    /\ RestartsFirst /\ running # 0 /\ Home => Swapping(x)'
<1> DEFINE busy == {s \in Requests : ~Panel!At(s, "idle")}
<1>1. /\ UNCHANGED <<bin, fresh, self, running, published, faults>>
      /\ updating \in [Requests -> UpdateRecord]
      /\ self + Cardinality(busy) < MaxPlaces /\ self \in Nat
      /\ bin[0] \in Panel!Binaries /\ published \in Int
      /\ (RestartsFirst => self = 0)
  <2>1. /\ UNCHANGED <<bin, fresh, self, running, published, faults>>
        /\ self + Cardinality(busy) < MaxPlaces /\ (RestartsFirst => self = 0)
    BY OneCount DEF Panel!BeginUpdate
  <2>2. /\ updating \in [Requests -> UpdateRecord] /\ self \in Nat
        /\ bin[0] \in Panel!Binaries /\ published \in Int
    BY PlacesFine, Constants DEF PanelsType
  <2> QED BY <2>1, <2>2
<1>2. known' \in 0..published /\ known' \in 0..MaxPanel
  BY Constants DEF Panel!BeginUpdate, PanelsType
<1>3. \/ UNCHANGED updating
      \/ \E x \in UpdateRecord :
            /\ updating' = [updating EXCEPT ![r] = x]
            /\ x.pc = "fetch" /\ x.was = bin[0] /\ x.rel = known' /\ known' > running
  <2> DEFINE z == [Panel!IdleUpdate EXCEPT !.pc = "fetch", !.rel = known', !.was = bin[0]]
  <2>1. UNCHANGED updating \/ (updating' = [updating EXCEPT ![r] = z] /\ known' > running)
    BY DEF Panel!BeginUpdate, Panel!Newer
  <2>2. Panel!IdleUpdate \in UpdateRecord
    BY PlacesFine, Constants DEF Panel!IdleUpdate, UpdateRecord, UpdatePcs
  <2>3. "fetch" \in UpdatePcs
    BY DEF UpdatePcs
  <2>4. z \in UpdateRecord /\ z.pc = "fetch" /\ z.was = bin[0] /\ z.rel = known'
    BY <1>1, <1>2, <2>2, <2>3 DEF UpdateRecord
  <2> QED BY <2>1, <2>4
<1>4. Room(updating', self')
  <2>1. CASE UNCHANGED updating
    BY <1>1, <2>1 DEF PanelsType
  <2>2. CASE ~UNCHANGED updating
    <3>1. PICK x \in UpdateRecord : updating' = [updating EXCEPT ![r] = x] /\ x.pc = "fetch"
      BY <1>3, <2>2
    <3>2. Waiting(updating') \subseteq busy \union {r}
      BY <1>1, <3>1 DEF Waiting, ToMove, Panel!At
    <3>3. IsFiniteSet(busy) /\ Cardinality(busy) \in Nat
      BY Constants, FS_Subset, FS_CardinalityType
    <3>4. /\ IsFiniteSet(busy \union {r})
          /\ Cardinality(busy \union {r}) <= Cardinality(busy) + 1
      <4> HIDE DEF busy
      <4>1. /\ IsFiniteSet(busy \union {r})
            /\ Cardinality(busy \union {r}) =
                  IF r \in busy THEN Cardinality(busy) ELSE Cardinality(busy) + 1
        BY <3>3, FS_AddElement
      <4> QED BY <3>3, <4>1
    <3>5. Cardinality(Waiting(updating')) <= Cardinality(busy \union {r})
      BY <3>2, <3>4, FS_Subset
    <3>6. /\ Cardinality(Waiting(updating')) \in Nat
          /\ Cardinality(busy \union {r}) \in Nat
      BY <3>4, WaitingFinite, FS_CardinalityType
    <3>7. self' + Cardinality(Waiting(updating')) <= MaxPlaces
      <4> HIDE DEF busy
      <4> QED BY <1>1, <3>3, <3>4, <3>5, <3>6, Constants
    <3>8. \A s \in Requests :
             updating'[s].pc \in {"copy", "removeOld", "moveAway", "moveNew", "back"} =>
             updating'[s].at < MaxPlaces
      BY <1>1, <3>1 DEF PanelsType, Room
    <3> QED BY <3>7, <3>8 DEF Room
  <2> QED BY <2>1, <2>2
<1>5. PanelsType'
  BY <1>1, <1>2, <1>3, <1>4 DEF PanelsType
<1>6. ASSUME NEW x \in UpdateRecord, x.pc = "fetch", x.was = bin[0], x.rel = known',
             known' > running, RestartsFirst, running # 0, Home
      PROVE  Swapping(x)'
  <2>1. running > 0 /\ known' > 0
    BY <1>2, <1>6, Constants DEF PanelsType
  <2> QED BY <1>1, <1>6, <2>1 DEF Swapping, Home, ToMove
<1> QED BY <1>1, <1>3, <1>5, <1>6

LEMMA PanelPublished ==
    ASSUME PanelsType, Panel!Publish
    PROVE  PanelsType' /\ UNCHANGED <<bin, fresh, self, running, updating, faults>>
<1>1. published' \in 1..MaxPanel /\ known' \in 0..published'
      /\ UNCHANGED <<bin, fresh, self, running, updating, faults>>
  BY Constants DEF Panel!Publish, PanelsType
<1> QED BY <1>1 DEF PanelsType

LEMMA PanelChecked ==
    ASSUME PanelsType, Panel!CheckRemote
    PROVE  PanelsType' /\ UNCHANGED <<bin, fresh, self, running, updating, faults>>
<1>1. known' \in 0..published'
      /\ UNCHANGED <<bin, fresh, self, running, published, updating, faults>>
  BY Constants DEF Panel!CheckRemote, PanelsType
<1> QED BY <1>1 DEF PanelsType

LEMMA UpgradePublished ==
    ASSUME UpgradesType, Upgrade!Publish \/ Upgrade!CheckRemote
    PROVE  UpgradesType' /\ UNCHANGED <<fs, upgrading, faults>>
<1>1. latest' \in 1..MaxVersion /\ cached' \in 0..latest' /\ UNCHANGED <<fs, upgrading, faults>>
  BY Constants DEF Upgrade!Publish, Upgrade!CheckRemote, UpgradesType
<1> QED BY <1>1 DEF UpgradesType

-------------------------------------------------------------------------------
(* Backup and restore. *)

Holdings == [Backup!Entries -> Backup!Contents]

RestorePcs == {"idle", "upload", "clear", "unpack", "takeOut", "putIn", "clean", "restart",
               "answer"}

RestoreRecord ==
    [pc : RestorePcs, archive : Holdings, todo : SUBSET Backup!Entries, into : Nat,
     was : Holdings, answer : {"none", "refused", "failed", "restored"}, restarted : BOOLEAN]

ExportRecord == [pc : {"idle", "copy"}, todo : SUBSET Backup!Entries, got : Holdings]

BackupsType ==
    /\ restoring \in [Requests -> RestoreRecord] /\ exporting \in [Requests -> ExportRecord]
    /\ staging \in Holdings /\ kept \in Seq(Holdings) /\ archives \subseteq Holdings
    /\ owed \subseteq Backup!Whole /\ newest \in [Backup!Entries -> 0..MaxContent]

\* The entries that are still as they were, and the others as they are to be.
Halfway(x, e) ==
    Backup!InPlace(e) = IF x.archive[e] = 0 \/ e \in x.todo THEN x.was[e] ELSE x.archive[e]

\* The restore x, when nobody else restores.
Restoring(x) ==
    /\ x.pc \in {"upload", "clear", "unpack"} =>
          x.answer = "none" /\ \A e \in Backup!Entries : Backup!InPlace(e) = x.was[e]
    /\ x.pc = "unpack" => \A e \in Backup!Entries : staging[e] = 0
    /\ x.pc \in {"takeOut", "putIn"} =>
          /\ x.todo # {} /\ x.into \in DOMAIN kept /\ x.answer = "none"
          /\ \A e \in Backup!Entries : staging[e] = IF e \in x.todo THEN x.archive[e] ELSE 0
    /\ x.pc = "takeOut" =>
          /\ \A e \in Backup!Entries : Halfway(x, e)
          /\ ~SameSecond => \A e \in x.todo : kept[x.into][e] = 0
    /\ x.pc = "putIn" =>
          /\ Backup!InPlace(Backup!First(x.todo)) = 0
          /\ \A e \in Backup!Entries \ {Backup!First(x.todo)} :
                Halfway(x, e) /\ (~SameSecond /\ e \in x.todo => kept[x.into][e] = 0)
    /\ x.pc \in {"clean", "restart", "answer"} =>
          /\ x.answer = "restored" =>
                \A e \in Backup!Entries :
                   Backup!InPlace(e) = IF x.archive[e] # 0 THEN x.archive[e] ELSE x.was[e]
          /\ x.answer = "refused" => \A e \in Backup!Entries : Backup!InPlace(e) = x.was[e]
    /\ x.pc = "answer" /\ x.answer = "restored" /\ x.restarted =>
          vpn.active /\ vpn.conf = files["server"]

\* Where a state of an entry can be found.
Found(e, v) ==
    \/ Backup!InPlace(e) = v \/ \E d \in DOMAIN kept : kept[d][e] = v
    \/ e = "pki" /\ (fs["newDir"].pki = v \/ fs["oldDir"].pki = v)

Safe(e) == \A v \in 1..MaxContent : <<e, v>> \in owed => Found(e, v)

LEMMA EntriesFine ==
    /\ Backup!Entries = {"pki", "server", "data"}
    /\ Backup!Entries \ {"pki"} = {"server", "data"}
    /\ \A todo \in SUBSET Backup!Entries :
          /\ Backup!First(todo) \in Backup!Entries
          /\ todo # {} => Backup!First(todo) \in todo
    /\ 0 \in Backup!Contents /\ Backup!Contents \subseteq Int
    /\ \A v \in Backup!Contents : Backup!Part(v) \in Backup!Contents
    /\ \A v \in 0..MaxContent : v \in Backup!Contents
    /\ Backup!Nothing \in Holdings /\ \A e \in Backup!Entries : Backup!Nothing[e] = 0
<1>1. /\ 0 \in Backup!Contents /\ Backup!Contents \subseteq Int
      /\ \A v \in Backup!Contents : Backup!Part(v) \in Backup!Contents
      /\ \A v \in 0..MaxContent : v \in Backup!Contents
  BY Constants DEF Backup!Contents, Backup!Part
<1> QED BY <1>1 DEF Backup!Entries, Backup!First, Backup!Nothing, Holdings

LEMMA InPlaceFine ==
    ASSUME DirType, FilesType
    PROVE  /\ \A e \in Backup!Entries : Backup!InPlace(e) \in Backup!Contents
           /\ Backup!Present \in Holdings
           /\ \A e \in Backup!Entries : Backup!Present[e] = Backup!InPlace(e)
<1>1. \A e \in Backup!Entries : Backup!InPlace(e) \in Backup!Contents
  BY EntriesFine, ThreePlaces
     DEF DirType, FilesType, Backup!InPlace, Backup!Contents, Upgrade!Directory
<1> QED BY <1>1 DEF Backup!Present, Holdings

LEMMA PutFine ==
    ASSUME DirType, FilesType, NEW e \in Backup!Entries, NEW c \in Backup!Contents,
           Backup!Put(e, c)
    PROVE  /\ DirType' /\ FilesType' /\ Backup!InPlace(e)' = c
           /\ \A o \in Backup!Entries \ {e} : Backup!InPlace(o)' = Backup!InPlace(o)
           /\ fs'["newDir"] = fs["newDir"] /\ fs'["oldDir"] = fs["oldDir"]
           /\ fs'["dir"].script = fs["dir"].script /\ fs'["dir"].marker = fs["dir"].marker
<1>1. CASE e = "pki"
  <2> DEFINE d == [fs["dir"] EXCEPT !.there = @ \/ c # 0, !.pki = c]
  <2>1. /\ fs["dir"] \in Upgrade!Directory /\ fs \in [Upgrade!Places -> Upgrade!Directory]
        /\ c \in -MaxContent..MaxContent
    BY ThreePlaces DEF DirType, Backup!Contents
  <2>2. /\ d \in Upgrade!Directory /\ d.script = fs["dir"].script /\ d.pki = c
        /\ d.marker = fs["dir"].marker /\ (d.there <=> fs["dir"].there \/ c # 0)
    BY <2>1 DEF Upgrade!Directory
  <2>3. fs' = [fs EXCEPT !["dir"] = d] /\ UNCHANGED files
    BY <1>1, <2>1, ThreePlaces DEF Backup!Put
  <2> HIDE DEF d
  <2>4. /\ fs'["dir"] = d /\ fs'["newDir"] = fs["newDir"] /\ fs'["oldDir"] = fs["oldDir"]
        /\ fs' \in [Upgrade!Places -> Upgrade!Directory]
    BY <2>1, <2>2, <2>3, ThreePlaces
  <2>5. ~d.there => d = Upgrade!NoDirectory
    <3> SUFFICES ASSUME ~d.there PROVE d = Upgrade!NoDirectory
      OBVIOUS
    <3>1. fs["dir"] = Upgrade!NoDirectory /\ c = 0
      BY <2>2, ThreePlaces DEF DirType
    <3>2. /\ d.there \in BOOLEAN /\ Upgrade!NoDirectory.there \in BOOLEAN
          /\ ~d.there /\ ~Upgrade!NoDirectory.there
      BY <2>2, NoDirectoryFine DEF Upgrade!Directory
    <3>3. /\ d.there = Upgrade!NoDirectory.there /\ d.script = Upgrade!NoDirectory.script
          /\ d.marker = Upgrade!NoDirectory.marker /\ d.pki = Upgrade!NoDirectory.pki
      BY <2>2, <3>1, <3>2, NoDirectoryFine
    <3> QED BY <2>2, <3>3, NoDirectoryFine, SameDirectory
  <2>6. DirType' /\ FilesType'
    BY <2>3, <2>4, <2>5, ThreePlaces DEF DirType, FilesType
  <2> QED BY <1>1, <2>2, <2>3, <2>4, <2>6 DEF Backup!InPlace
<1>2. CASE e # "pki"
  <2>1. files' = [files EXCEPT ![e] = c] /\ UNCHANGED fs
    BY <1>2 DEF Backup!Put
  <2> QED BY <1>2, <2>1, EntriesFine DEF DirType, FilesType, Backup!InPlace
<1> QED BY <1>1, <1>2

LEMMA RestoreMoves ==
    ASSUME restoring \in [Requests -> RestoreRecord], NEW r \in Requests, NEW at \in RestorePcs,
           NEW what \in {"none", "refused", "failed", "restored"},
           \/ Backup!GoTo(r, at) /\ what = restoring[r].answer
           \/ Backup!Leaves(r, at, what)
    PROVE  \E x \in RestoreRecord :
              /\ restoring' = [restoring EXCEPT ![r] = x]
              /\ x.pc = at /\ x.answer = what /\ x.archive = restoring[r].archive
              /\ x.todo = restoring[r].todo /\ x.into = restoring[r].into
              /\ x.was = restoring[r].was
<1> DEFINE x == [restoring[r] EXCEPT !.pc = at, !.answer = what]
<1>1. restoring[r] \in RestoreRecord
  OBVIOUS
<1>2. /\ x \in RestoreRecord /\ x.pc = at /\ x.answer = what
      /\ x.archive = restoring[r].archive /\ x.todo = restoring[r].todo
      /\ x.into = restoring[r].into /\ x.was = restoring[r].was
  BY <1>1 DEF RestoreRecord
<1>3. restoring' = [restoring EXCEPT ![r] = x]
  <2>1. CASE Backup!GoTo(r, at) /\ what = restoring[r].answer
    <3>1. x = [restoring[r] EXCEPT !.pc = at]
      BY <1>1, <2>1 DEF RestoreRecord
    <3> QED BY <2>1, <3>1 DEF Backup!GoTo
  <2>2. CASE Backup!Leaves(r, at, what)
    BY <2>2 DEF Backup!Leaves
  <2> QED BY <2>1, <2>2
<1> QED BY <1>2, <1>3

\* What no restore touches.
Untouched ==
    /\ fs'["newDir"] = fs["newDir"] /\ fs'["oldDir"] = fs["oldDir"]
    /\ fs'["dir"].script = fs["dir"].script /\ fs'["dir"].marker = fs["dir"].marker

Restores(r, x) ==
    /\ x \in RestoreRecord /\ restoring' = [restoring EXCEPT ![r] = x]
    /\ DirType' /\ FilesType' /\ FaultType' /\ BackupsType' /\ Untouched
    /\ Restoring(restoring[r]) => Restoring(x)'
    /\ ~SameSecond /\ Restoring(restoring[r]) => \A e \in Backup!Entries : Safe(e) => Safe(e)'

LEMMA StaysSafe ==
    ASSUME UNCHANGED <<fs, files, kept, owed>>
    PROVE  /\ \A e : Backup!InPlace(e)' = Backup!InPlace(e)
           /\ \A e \in Backup!Entries : Safe(e) => Safe(e)'
<1>1. \A e : Backup!InPlace(e)' = Backup!InPlace(e)
  BY DEF Backup!InPlace
<1> QED BY <1>1 DEF Safe, Found

\* Nothing moves but the request and what is staged.
LEMMA StaysRestores ==
    ASSUME DirType, FilesType, FaultType', BackupsType, NEW r \in Requests,
           UNCHANGED <<fs, files, kept, owed, archives, newest, exporting>>,
           staging' \in Holdings,
           NEW x \in RestoreRecord, restoring' = [restoring EXCEPT ![r] = x],
           Restoring(restoring[r]) => Restoring(x)'
    PROVE  Restores(r, x)
<1>1. DirType' /\ FilesType' /\ BackupsType' /\ Untouched
  BY DEF DirType, FilesType, BackupsType, Untouched
<1> QED BY <1>1, StaysSafe DEF Restores

LEMMA UploadRestores ==
    ASSUME DirType, FilesType, FaultType, BackupsType, NEW r \in Requests, Backup!Upload(r)
    PROVE  \E x : Restores(r, x)
<1>0. /\ restoring[r] \in RestoreRecord /\ restoring[r].pc = "upload"
      /\ restoring \in [Requests -> RestoreRecord] /\ staging' \in Holdings
      /\ UNCHANGED <<fs, files, kept, owed, archives, newest, exporting, staging>>
      /\ "clear" \in RestorePcs /\ "answer" \in RestorePcs
      /\ restoring[r].answer \in {"none", "refused", "failed", "restored"}
  BY DEF BackupsType, Backup!Upload, Backup!At, Backup!host, Backup!history, RestorePcs,
         RestoreRecord
<1>1. FaultType'
  BY Counted DEF Backup!Upload, FaultType
<1>2. PICK x \in RestoreRecord :
         /\ restoring' = [restoring EXCEPT ![r] = x]
         /\ x.was = restoring[r].was
         /\ \/ x.pc = "clear" /\ x.answer = restoring[r].answer
            \/ x.pc = "answer" /\ x.answer = "refused"
  <2>1. CASE Backup!GoTo(r, "clear")
    BY <1>0, <2>1, RestoreMoves
  <2>2. CASE Backup!Leaves(r, "answer", "refused")
    BY <1>0, <2>2, RestoreMoves
  <2> QED BY <2>1, <2>2 DEF Backup!Upload
<1>3. Restoring(restoring[r]) => Restoring(x)'
  BY <1>0, <1>2, StaysSafe DEF Restoring
<1> QED BY <1>0, <1>1, <1>2, <1>3, StaysRestores

LEMMA ClearRestores ==
    ASSUME DirType, FilesType, FaultType, BackupsType, NEW r \in Requests, Backup!Clear(r)
    PROVE  \E x : Restores(r, x)
<1>0. /\ restoring[r] \in RestoreRecord /\ restoring[r].pc = "clear"
      /\ restoring \in [Requests -> RestoreRecord]
      /\ staging' = Backup!Nothing /\ Backup!GoTo(r, "unpack")
      /\ UNCHANGED <<fs, files, kept, owed, archives, newest, exporting, faults>>
      /\ "unpack" \in RestorePcs
      /\ restoring[r].answer \in {"none", "refused", "failed", "restored"}
  BY DEF BackupsType, Backup!Clear, Backup!At, Backup!host, Backup!history, RestorePcs,
         RestoreRecord
<1>1. FaultType'
  BY <1>0 DEF FaultType
<1>2. PICK x \in RestoreRecord :
         /\ restoring' = [restoring EXCEPT ![r] = x]
         /\ x.was = restoring[r].was /\ x.pc = "unpack" /\ x.answer = restoring[r].answer
  BY <1>0, RestoreMoves
<1>3. Restoring(restoring[r]) => Restoring(x)'
  BY <1>0, <1>2, StaysSafe, EntriesFine DEF Restoring
<1>4. staging' \in Holdings
  BY <1>0, EntriesFine
<1> QED BY <1>0, <1>1, <1>2, <1>3, <1>4, StaysRestores

LEMMA UnpackRestores ==
    ASSUME DirType, FilesType, FaultType, BackupsType, NEW r \in Requests, Backup!Unpack(r)
    PROVE  \E x : Restores(r, x)
<1> DEFINE archive == restoring[r].archive
           todo == {e \in Backup!Entries : archive[e] # 0}
<1>0. /\ restoring[r] \in RestoreRecord /\ restoring[r].pc = "unpack"
      /\ restoring \in [Requests -> RestoreRecord] /\ archive \in Holdings
      /\ UNCHANGED <<fs, files, owed, archives, newest, exporting>>
      /\ staging' = Backup!Staged(archive) /\ kept \in Seq(Holdings)
      /\ staging \in Holdings
  BY DEF BackupsType, Backup!Unpack, Backup!At, Backup!host, Backup!history, RestoreRecord
<1>1. /\ staging' \in Holdings
      /\ (\A e \in Backup!Entries : staging[e] = 0) =>
            \A e \in Backup!Entries : staging'[e] = archive[e]
  <2> HIDE DEF archive
  <2>1. \A e \in Backup!Entries :
           (IF archive[e] = 0 THEN staging[e]
            ELSE IF staging[e] \in {0, archive[e]} THEN archive[e]
                 ELSE Backup!Part(archive[e]))
           \in Backup!Contents
    <3> TAKE e \in Backup!Entries
    <3>1. staging[e] \in Backup!Contents /\ archive[e] \in Backup!Contents
      BY <1>0 DEF Holdings
    <3>2. Backup!Part(archive[e]) \in Backup!Contents
      BY <3>1, EntriesFine
    <3> QED BY <3>1, <3>2
  <2> QED BY <1>0, <2>1 DEF Backup!Staged, Holdings
<1>2. CASE /\ archive # Backup!Nothing /\ UNCHANGED faults
           /\ \E d \in {Len(kept) + 1} \union {n \in {Len(kept)} : SameSecond /\ n > 0} :
                 /\ kept' = IF d > Len(kept) THEN Append(kept, Backup!Nothing) ELSE kept
                 /\ restoring' = [restoring EXCEPT ![r].pc = "takeOut", ![r].into = d,
                                      ![r].todo = todo]
  <2>1. PICK d \in {Len(kept) + 1} \union {n \in {Len(kept)} : SameSecond /\ n > 0} :
           /\ kept' = IF d > Len(kept) THEN Append(kept, Backup!Nothing) ELSE kept
           /\ restoring' = [restoring EXCEPT ![r].pc = "takeOut", ![r].into = d,
                                ![r].todo = todo]
    BY <1>2
  <2>2. d \in Nat /\ Len(kept) \in Nat /\ d \in 1..(Len(kept) + 1) /\ d >= Len(kept)
        /\ (~SameSecond => d = Len(kept) + 1)
    BY <1>0, LenProperties
  <2>3. /\ kept' \in Seq(Holdings) /\ d \in DOMAIN kept'
        /\ ~SameSecond => kept'[d] = Backup!Nothing
        /\ \A n \in DOMAIN kept : n \in DOMAIN kept' /\ kept'[n] = kept[n]
    <3>1. CASE d > Len(kept)
      <4>1. kept' = Append(kept, Backup!Nothing) /\ d = Len(kept) + 1
        BY <2>1, <2>2, <3>1
      <4> QED BY <1>0, <2>2, <4>1, EntriesFine, AppendProperties, LenProperties
    <3>2. CASE d = Len(kept)
      <4>1. kept' = kept /\ SameSecond
        BY <2>1, <2>2, <3>2
      <4> QED BY <1>0, <2>2, <3>2, <4>1, LenProperties
    <3> QED BY <2>2, <3>1, <3>2
  <2>4. PICK x \in RestoreRecord :
           /\ restoring' = [restoring EXCEPT ![r] = x]
           /\ x.pc = "takeOut" /\ x.into = d /\ x.todo = todo /\ x.archive = archive
           /\ x.was = restoring[r].was /\ x.answer = restoring[r].answer
    <3> DEFINE z == [restoring[r] EXCEPT !.pc = "takeOut", !.into = d, !.todo = todo]
    <3>1. "takeOut" \in RestorePcs /\ todo \in SUBSET Backup!Entries
      BY DEF RestorePcs
    <3>2. /\ z \in RestoreRecord /\ z.pc = "takeOut" /\ z.into = d /\ z.todo = todo
          /\ z.archive = archive /\ z.was = restoring[r].was /\ z.answer = restoring[r].answer
      <4> HIDE DEF todo
      <4> QED BY <1>0, <2>2, <3>1 DEF RestoreRecord
    <3>3. restoring' = [restoring EXCEPT ![r] = z]
      BY <1>0, <2>1
    <3> QED BY <3>2, <3>3
  <2>5. todo # {}
    <3>1. ASSUME todo = {} PROVE FALSE
      <4>1. \A e \in Backup!Entries : archive[e] = 0
        BY <3>1
      <4>2. archive = Backup!Nothing
        <5> HIDE DEF archive
        <5> QED BY <1>0, <4>1 DEF Holdings, Backup!Nothing
      <4> QED BY <1>2, <4>2
    <3> QED BY <3>1
  <2>6. ASSUME Restoring(restoring[r]) PROVE Restoring(x)'
    <3>1. \A e \in Backup!Entries : staging'[e] = archive[e]
      BY <1>0, <1>1, <2>6 DEF Restoring
    <3>2. \A e \in Backup!Entries : Backup!InPlace(e)' = x.was[e]
      BY <1>0, <2>4, <2>6 DEF Restoring, Backup!InPlace
    <3>3. ~SameSecond => \A e \in x.todo : kept'[x.into][e] = 0
      BY <2>3, <2>4, EntriesFine
    <3>4. \A e \in Backup!Entries : e \in x.todo \/ x.archive[e] = 0
      BY <2>4
    <3>5. \A e \in Backup!Entries : staging'[e] = IF e \in x.todo THEN x.archive[e] ELSE 0
      BY <2>4, <3>1
    <3>6. x.todo # {} /\ x.into \in DOMAIN kept' /\ x.answer = "none"
      BY <1>0, <2>3, <2>4, <2>5, <2>6 DEF Restoring
    <3> HIDE DEF archive, todo
    <3> QED BY <2>4, <3>2, <3>3, <3>4, <3>5, <3>6 DEF Restoring, Halfway
  <2>7. ASSUME NEW e \in Backup!Entries, Safe(e) PROVE Safe(e)'
    BY <1>0, <2>3, <2>7 DEF Safe, Found, Backup!InPlace
  <2>8. DirType' /\ FilesType' /\ FaultType' /\ BackupsType' /\ Untouched
    <3> HIDE DEF archive, todo
    <3> QED BY <1>0, <1>1, <1>2, <2>3, <2>4
            DEF DirType, FilesType, FaultType, BackupsType, Untouched
  <2> QED BY <2>4, <2>6, <2>7, <2>8 DEF Restores
<1>3. CASE /\ \/ Backup!Fails("unpack")
              \/ UNCHANGED faults
           /\ UNCHANGED kept /\ Backup!Leaves(r, "clean", "refused")
  <2>1. PICK x \in RestoreRecord :
           /\ restoring' = [restoring EXCEPT ![r] = x]
           /\ x.was = restoring[r].was /\ x.pc = "clean" /\ x.answer = "refused"
    <3>1. "clean" \in RestorePcs
      BY DEF RestorePcs
    <3> QED BY <1>0, <1>3, <3>1, RestoreMoves
  <2>2. FaultType'
    BY <1>3, Counted DEF FaultType
  <2>3. Restoring(restoring[r]) => Restoring(x)'
    BY <1>0, <1>3, <2>1, StaysSafe DEF Restoring
  <2> QED BY <1>0, <1>1, <1>3, <2>1, <2>2, <2>3, StaysRestores
<1> QED BY <1>2, <1>3 DEF Backup!Unpack

LEMMA HoldingReplaced ==
    ASSUME NEW s \in Seq(Holdings), NEW d \in Nat, NEW e \in Backup!Entries,
           NEW w \in Backup!Contents
    PROVE  LET t == [s EXCEPT ![d] = [s[d] EXCEPT ![e] = w]] IN
           /\ t \in Seq(Holdings) /\ DOMAIN t = DOMAIN s
           /\ \A n \in DOMAIN s : \A o \in Backup!Entries :
                 t[n][o] = IF n = d /\ o = e THEN w ELSE s[n][o]
<1> DEFINE t == [s EXCEPT ![d] = [s[d] EXCEPT ![e] = w]]
<1>1. DOMAIN s = 1..Len(s) /\ Len(s) \in Nat /\ s \in [1..Len(s) -> Holdings]
  BY LenProperties
<1>2. CASE d \in 1..Len(s)
  <2> DEFINE h == [s[d] EXCEPT ![e] = w]
  <2>1. h \in Holdings /\ h[e] = w /\ \A o \in Backup!Entries \ {e} : h[o] = s[d][o]
    BY <1>1, <1>2 DEF Holdings
  <2> HIDE DEF h
  <2>2. t = [s EXCEPT ![d] = h]
    BY DEF h
  <2>3. t \in [1..Len(s) -> Holdings] /\ t[d] = h /\ \A n \in 1..Len(s) \ {d} : t[n] = s[n]
    BY <1>1, <1>2, <2>1, <2>2
  <2> HIDE DEF t
  <2>4. t \in Seq(Holdings)
    BY <1>1, <2>3
  <2>5. DOMAIN t = 1..Len(s)
    BY <2>3
  <2>6. \A n \in 1..Len(s) : \A o \in Backup!Entries :
           t[n][o] = IF n = d /\ o = e THEN w ELSE s[n][o]
    <3> SUFFICES ASSUME NEW n \in 1..Len(s), NEW o \in Backup!Entries
                 PROVE  t[n][o] = IF n = d /\ o = e THEN w ELSE s[n][o]
      OBVIOUS
    <3>1. CASE n = d /\ o = e
      <4>1. t[n] = h /\ h[o] = w
        BY <2>1, <2>3, <3>1
      <4> QED BY <3>1, <4>1
    <3>2. CASE n = d /\ o # e
      <4>1. t[n] = h /\ h[o] = s[d][o]
        BY <2>1, <2>3, <3>2
      <4> QED BY <3>2, <4>1
    <3>3. CASE n # d
      BY <2>3, <3>3
    <3> QED BY <3>1, <3>2, <3>3
  <2> QED BY <1>1, <2>4, <2>5, <2>6 DEF t
<1>3. CASE d \notin 1..Len(s)
  <2>1. t = s
    BY <1>1, <1>3
  <2> QED BY <1>1, <1>3, <2>1
<1> QED BY <1>2, <1>3

LEMMA SafeKept ==
    ASSUME NEW e \in Backup!Entries,
           \A v \in 1..MaxContent : <<e, v>> \in owed' => <<e, v>> \in owed \/ Found(e, v)',
           \A v \in 1..MaxContent : Found(e, v) => Found(e, v)'
    PROVE  Safe(e) => Safe(e)'
BY DEF Safe

LEMMA TakeOutRestores ==
    ASSUME DirType, FilesType, FaultType, BackupsType, NEW r \in Requests, Backup!TakeOut(r)
    PROVE  \E x : Restores(r, x)
<1>0. /\ restoring[r] \in RestoreRecord /\ restoring[r].pc = "takeOut"
      /\ restoring \in [Requests -> RestoreRecord] /\ restoring[r].into \in Nat
      /\ UNCHANGED <<owed, archives, newest, exporting, staging>>
      /\ kept \in Seq(Holdings) /\ staging' \in Holdings
      /\ "putIn" \in RestorePcs /\ "clean" \in RestorePcs
      /\ restoring[r].answer \in {"none", "refused", "failed", "restored"}
      /\ restoring[r].todo \in SUBSET Backup!Entries
  BY DEF BackupsType, Backup!TakeOut, Backup!At, Backup!history, RestoreRecord, RestorePcs
<1>1. PICK e \in Backup!Entries :
         /\ e = Backup!First(restoring[r].todo)
         /\ restoring[r].todo # {} => e \in restoring[r].todo
  BY <1>0, EntriesFine
<1>4. PICK d \in Nat : d = restoring[r].into
  BY <1>0
<1>2. CASE /\ IF Backup!InPlace(e) = 0 THEN UNCHANGED <<fs, files, kept>>
              ELSE /\ Backup!Put(e, 0)
                   /\ kept' = [kept EXCEPT ![d][e] = IF e = "pki" /\ @ # 0
                                                     THEN Backup!Part(Backup!InPlace(e))
                                                     ELSE Backup!InPlace(e)]
           /\ Backup!GoTo(r, "putIn") /\ UNCHANGED faults
  <2>1. PICK x \in RestoreRecord :
           /\ restoring' = [restoring EXCEPT ![r] = x]
           /\ x.pc = "putIn" /\ x.answer = restoring[r].answer
           /\ x.archive = restoring[r].archive /\ x.todo = restoring[r].todo
           /\ x.into = d /\ x.was = restoring[r].was
    BY <1>0, <1>4, <1>2, RestoreMoves
  <2>2. /\ DirType' /\ FilesType' /\ Backup!InPlace(e)' = 0 /\ Untouched
        /\ \A o \in Backup!Entries \ {e} : Backup!InPlace(o)' = Backup!InPlace(o)
    <3>1. CASE Backup!InPlace(e) = 0
      <4>1. UNCHANGED <<fs, files>>
        BY <1>2, <3>1
      <4> QED BY <3>1, <4>1 DEF DirType, FilesType, Untouched, Backup!InPlace
    <3>2. CASE Backup!InPlace(e) # 0
      <4>1. Backup!Put(e, 0) /\ 0 \in Backup!Contents
        BY <1>2, <3>2, EntriesFine
      <4> QED BY <1>1, <4>1, PutFine DEF Untouched
    <3> QED BY <3>1, <3>2
  <2>3. /\ kept' \in Seq(Holdings) /\ DOMAIN kept' = DOMAIN kept
        /\ \A n \in DOMAIN kept : \A o \in Backup!Entries :
              n # d \/ o # e => kept'[n][o] = kept[n][o]
        /\ d \in DOMAIN kept /\ kept[d][e] = 0 => kept'[d][e] = Backup!InPlace(e)
    <3>1. CASE Backup!InPlace(e) = 0
      BY <1>0, <1>2, <3>1
    <3>2. CASE Backup!InPlace(e) # 0
      <4> DEFINE w == IF e = "pki" /\ kept[d][e] # 0 THEN Backup!Part(Backup!InPlace(e))
                      ELSE Backup!InPlace(e)
      <4>1. Backup!InPlace(e) \in Backup!Contents
        BY <1>1, InPlaceFine
      <4>2. w \in Backup!Contents
        BY <4>1, EntriesFine
      <4>3. kept' = [kept EXCEPT ![d] = [kept[d] EXCEPT ![e] = w]]
        BY <1>2, <3>2
      <4>4. kept[d][e] = 0 => w = Backup!InPlace(e)
        OBVIOUS
      <4> HIDE DEF w
      <4>5. /\ kept' \in Seq(Holdings) /\ DOMAIN kept' = DOMAIN kept
            /\ \A n \in DOMAIN kept : \A o \in Backup!Entries :
                  kept'[n][o] = IF n = d /\ o = e THEN w ELSE kept[n][o]
        BY <1>0, <4>2, <4>3, HoldingReplaced
      <4> QED BY <4>4, <4>5
    <3> QED BY <3>1, <3>2
  <2>4. ASSUME Restoring(restoring[r]) PROVE Restoring(x)'
    <3>1. /\ x.todo # {} /\ x.into \in DOMAIN kept' /\ x.answer = "none"
          /\ \A o \in Backup!Entries : staging'[o] = IF o \in x.todo THEN x.archive[o] ELSE 0
      BY <1>1, <1>4, <1>0, <2>1, <2>3, <2>4 DEF Restoring
    <3>2. Backup!First(x.todo) = e
      BY <1>1, <2>1
    <3>3. \A o \in Backup!Entries \ {e} : Halfway(x, o)'
      BY <1>1, <1>4, <1>0, <2>1, <2>2, <2>4 DEF Restoring, Halfway
    <3>4. \A o \in Backup!Entries \ {e} : ~SameSecond /\ o \in x.todo => kept'[x.into][o] = 0
      BY <1>1, <1>4, <1>0, <2>1, <2>3, <2>4, <3>1 DEF Restoring
    <3> QED BY <2>1, <2>2, <3>1, <3>2, <3>3, <3>4 DEF Restoring
  <2>5. ASSUME ~SameSecond, Restoring(restoring[r]), NEW o \in Backup!Entries
        PROVE  Safe(o) => Safe(o)'
    <3>1. d \in DOMAIN kept /\ kept[d][e] = 0
      BY <1>1, <1>4, <1>0, <2>5 DEF Restoring
    <3>2. ASSUME NEW v \in 1..MaxContent, Found(o, v) PROVE Found(o, v)'
      <4>0. v # 0
        BY Constants
      <4>1. CASE o = "pki" /\ (fs["newDir"].pki = v \/ fs["oldDir"].pki = v)
        BY <2>2, <4>1 DEF Found, Untouched
      <4>2. CASE \E n \in DOMAIN kept : kept[n][o] = v
        BY <2>3, <3>1, <4>0, <4>2 DEF Found
      <4>3. CASE Backup!InPlace(o) = v
        BY <2>2, <2>3, <3>1, <4>3 DEF Found
      <4> QED BY <3>2, <4>1, <4>2, <4>3 DEF Found
    <3> QED BY <1>0, <3>2, SafeKept
  <2>6. FaultType' /\ BackupsType'
    BY <1>0, <1>2, <2>1, <2>3 DEF FaultType, BackupsType
  <2> QED BY <2>1, <2>2, <2>4, <2>5, <2>6 DEF Restores
<1>3. CASE /\ \/ Backup!Fails("move")
              \/ UNCHANGED faults
           /\ UNCHANGED <<fs, files, kept>> /\ Backup!Leaves(r, "clean", "failed")
  <2>1. PICK x \in RestoreRecord :
           /\ restoring' = [restoring EXCEPT ![r] = x]
           /\ x.pc = "clean" /\ x.answer = "failed"
    BY <1>0, <1>3, RestoreMoves
  <2>2. FaultType'
    BY <1>3, Counted DEF FaultType
  <2>3. Restoring(x)'
    BY <2>1 DEF Restoring
  <2> QED BY <1>0, <1>3, <2>1, <2>2, <2>3, StaysRestores
<1>5. CASE /\ Backup!InPlace(e) # 0 /\ Backup!Fails("move")
           /\ Backup!HalfOut(e, d) /\ Backup!Leaves(r, "clean", "failed")
  <2>1. PICK x \in RestoreRecord :
           /\ restoring' = [restoring EXCEPT ![r] = x]
           /\ x.pc = "clean" /\ x.answer = "failed"
    BY <1>0, <1>5, RestoreMoves
  <2>2. FaultType' /\ Restoring(x)'
    BY <1>5, <2>1, Counted DEF FaultType, Restoring
  <2>3. /\ Backup!InPlace(e) \in Backup!Contents
        /\ Backup!Part(Backup!InPlace(e)) \in Backup!Contents
    BY InPlaceFine, EntriesFine
  <2>4. PICK copied \in Backup!Contents, left \in Backup!Contents :
           /\ left # Backup!InPlace(e) => copied = Backup!InPlace(e)
           /\ kept' = [kept EXCEPT ![d][e] = copied] /\ Backup!Put(e, left)
    <3>1. PICK copied \in {Backup!Part(Backup!InPlace(e)), Backup!InPlace(e)},
               left \in {Backup!Part(Backup!InPlace(e)), Backup!InPlace(e)} :
             /\ left # Backup!InPlace(e) => copied = Backup!InPlace(e)
             /\ kept' = [kept EXCEPT ![d][e] = copied] /\ Backup!Put(e, left)
      BY <1>5 DEF Backup!HalfOut
    <3> QED BY <2>3, <3>1
  <2>5. /\ DirType' /\ FilesType' /\ Backup!InPlace(e)' = left /\ Untouched
        /\ \A o \in Backup!Entries \ {e} : Backup!InPlace(o)' = Backup!InPlace(o)
    BY <1>1, <2>4, PutFine DEF Untouched
  <2>6. /\ kept' \in Seq(Holdings) /\ DOMAIN kept' = DOMAIN kept
        /\ \A n \in DOMAIN kept : \A o \in Backup!Entries :
              kept'[n][o] = IF n = d /\ o = e THEN copied ELSE kept[n][o]
    <3>1. kept' = [kept EXCEPT ![d] = [kept[d] EXCEPT ![e] = copied]]
      BY <2>4
    <3> QED BY <1>0, <2>4, <3>1, HoldingReplaced
  <2>7. ASSUME ~SameSecond, Restoring(restoring[r]), NEW o \in Backup!Entries
        PROVE  Safe(o) => Safe(o)'
    <3>1. d \in DOMAIN kept /\ kept[d][e] = 0
      BY <1>1, <1>4, <1>0, <2>7 DEF Restoring
    <3>2. ASSUME NEW v \in 1..MaxContent, Found(o, v) PROVE Found(o, v)'
      <4>0. v # 0
        BY Constants
      <4>1. CASE o = "pki" /\ (fs["newDir"].pki = v \/ fs["oldDir"].pki = v)
        BY <2>5, <4>1 DEF Found, Untouched
      <4>2. CASE \E n \in DOMAIN kept : kept[n][o] = v
        BY <2>6, <3>1, <4>0, <4>2 DEF Found
      <4>3. CASE Backup!InPlace(o) = v
        <5>1. CASE o = e
          <6>1. left = v \/ copied = v
            BY <2>4, <4>3, <5>1
          <6> QED BY <2>5, <2>6, <3>1, <5>1, <6>1 DEF Found
        <5>2. CASE o # e
          BY <2>5, <4>3, <5>2 DEF Found
        <5> QED BY <5>1, <5>2
      <4> QED BY <3>2, <4>1, <4>2, <4>3 DEF Found
    <3> QED BY <1>0, <3>2, SafeKept
  <2>8. BackupsType'
    BY <1>0, <2>1, <2>6 DEF BackupsType
  <2> QED BY <2>1, <2>2, <2>5, <2>7, <2>8 DEF Restores
<1> QED BY <1>1, <1>4, <1>2, <1>3, <1>5 DEF Backup!TakeOut

LEMMA PutInRestores ==
    ASSUME DirType, FilesType, FaultType, BackupsType, NEW r \in Requests, Backup!PutIn(r)
    PROVE  \E x : Restores(r, x)
<1>0. /\ restoring[r] \in RestoreRecord /\ restoring[r].pc = "putIn"
      /\ restoring \in [Requests -> RestoreRecord]
      /\ UNCHANGED <<kept, archives, newest, exporting>>
      /\ staging \in Holdings
      /\ "clean" \in RestorePcs /\ "takeOut" \in RestorePcs
      /\ restoring[r].answer \in {"none", "refused", "failed", "restored"}
      /\ restoring[r].todo \in SUBSET Backup!Entries
  BY DEF BackupsType, Backup!PutIn, Backup!At, RestoreRecord, RestorePcs
<1>1. PICK e \in Backup!Entries :
         /\ e = Backup!First(restoring[r].todo)
         /\ restoring[r].todo # {} => e \in restoring[r].todo
  BY <1>0, EntriesFine
<1>2. PICK rest \in SUBSET Backup!Entries : rest = restoring[r].todo \ {e}
  BY <1>0
<1>3. PICK comes \in Backup!Contents :
         comes = IF e = "pki" /\ Backup!InPlace(e) # 0 THEN Backup!Part(staging[e])
                 ELSE staging[e]
  <2>1. staging[e] \in Backup!Contents
    BY <1>0 DEF Holdings
  <2> QED BY <2>1, EntriesFine
<1>4. CASE /\ staging[e] # 0
           /\ Backup!PutInUse(e, comes) /\ staging' = [staging EXCEPT ![e] = 0]
           /\ restoring' = [restoring EXCEPT ![r].todo = rest,
                                ![r].pc = IF rest = {} THEN "clean" ELSE "takeOut",
                                ![r].answer = IF rest = {} THEN "restored" ELSE "none"]
           /\ UNCHANGED faults
  <2>1. PICK x \in RestoreRecord :
           /\ restoring' = [restoring EXCEPT ![r] = x]
           /\ x.pc = (IF rest = {} THEN "clean" ELSE "takeOut") /\ x.todo = rest
           /\ x.answer = (IF rest = {} THEN "restored" ELSE "none")
           /\ x.archive = restoring[r].archive
           /\ x.into = restoring[r].into /\ x.was = restoring[r].was
    <3> DEFINE pc == IF rest = {} THEN "clean" ELSE "takeOut"
               answer == IF rest = {} THEN "restored" ELSE "none"
               z == [restoring[r] EXCEPT !.todo = rest, !.pc = pc, !.answer = answer]
    <3>1. pc \in RestorePcs /\ answer \in {"none", "refused", "failed", "restored"}
      BY <1>0
    <3>2. restoring' = [restoring EXCEPT ![r] = z]
      BY <1>0, <1>4
    <3>3. /\ z \in RestoreRecord /\ z.todo = rest /\ z.pc = pc /\ z.answer = answer
          /\ z.archive = restoring[r].archive
          /\ z.into = restoring[r].into /\ z.was = restoring[r].was
      <4> HIDE DEF pc, answer
      <4> QED BY <1>0, <3>1 DEF RestoreRecord
    <3> QED BY <3>2, <3>3
  <2>2. /\ DirType' /\ FilesType' /\ Backup!InPlace(e)' = comes /\ Untouched
        /\ \A o \in Backup!Entries \ {e} : Backup!InPlace(o)' = Backup!InPlace(o)
    BY <1>4, PutFine DEF Untouched, Backup!PutInUse
  <2>3. /\ staging' \in Holdings /\ staging'[e] = 0
        /\ \A o \in Backup!Entries \ {e} : staging'[o] = staging[o]
    BY <1>0, <1>4, EntriesFine DEF Holdings
  <2>4. ASSUME Restoring(restoring[r]) PROVE Restoring(x)'
    <3>1. /\ e \in restoring[r].todo /\ restoring[r].into \in DOMAIN kept
          /\ Backup!InPlace(e) = 0
          /\ \A o \in Backup!Entries :
                staging[o] = IF o \in restoring[r].todo THEN x.archive[o] ELSE 0
          /\ \A o \in Backup!Entries \ {e} :
                /\ Halfway(restoring[r], o)
                /\ ~SameSecond /\ o \in restoring[r].todo => kept[restoring[r].into][o] = 0
      BY <1>0, <1>1, <2>1, <2>4 DEF Restoring
    <3>2. comes = x.archive[e] /\ x.archive[e] # 0
      BY <1>3, <1>4, <3>1
    <3>3. \A o \in Backup!Entries : Halfway(x, o)'
      <4>1. Halfway(x, e)'
        BY <1>2, <2>1, <2>2, <3>2 DEF Halfway
      <4>2. \A o \in Backup!Entries \ {e} : Halfway(x, o)'
        BY <1>2, <2>1, <2>2, <3>1 DEF Halfway
      <4> QED BY <4>1, <4>2
    <3>4. CASE rest = {}
      <4>1. \A o \in Backup!Entries :
               Backup!InPlace(o)' = IF x.archive[o] # 0 THEN x.archive[o] ELSE x.was[o]
        BY <2>1, <3>3, <3>4 DEF Halfway
      <4> QED BY <2>1, <3>4, <4>1 DEF Restoring
    <3>5. CASE rest # {}
      <4>1. \A o \in Backup!Entries : staging'[o] = IF o \in x.todo THEN x.archive[o] ELSE 0
        BY <1>2, <2>1, <2>3, <3>1
      <4>2. ~SameSecond => \A o \in x.todo : kept'[x.into][o] = 0
        BY <1>0, <1>2, <2>1, <3>1
      <4>3. x.pc = "takeOut" /\ x.answer = "none" /\ x.todo # {} /\ x.into \in DOMAIN kept'
        BY <1>0, <2>1, <3>1, <3>5
      <4> QED BY <3>3, <4>1, <4>2, <4>3 DEF Restoring
    <3> QED BY <3>4, <3>5
  <2>5. ASSUME Restoring(restoring[r]), NEW o \in Backup!Entries
        PROVE  Safe(o) => Safe(o)'
    <3>1. Backup!InPlace(e) = 0
      BY <1>0, <1>1, <2>5 DEF Restoring
    <3>2. ASSUME NEW v \in 1..MaxContent, Found(o, v) PROVE Found(o, v)'
      <4>0. v # 0
        BY Constants
      <4>1. CASE Backup!InPlace(o) = v
        BY <2>2, <3>1, <4>0, <4>1 DEF Found
      <4>2. CASE Backup!InPlace(o) # v
        BY <1>0, <2>2, <3>2, <4>2 DEF Found, Untouched
      <4> QED BY <4>1, <4>2
    <3>3. ASSUME NEW v \in 1..MaxContent, <<o, v>> \in owed', <<o, v>> \notin owed
          PROVE  Found(o, v)'
      <4>1. o = e /\ v = comes
        BY <1>4, <3>3 DEF Backup!PutInUse
      <4> QED BY <2>2, <4>1 DEF Found
    <3> QED BY <3>2, <3>3, SafeKept
  <2>6. FaultType' /\ BackupsType'
    <3>1. owed' \subseteq Backup!Whole
      BY <1>4 DEF BackupsType, Backup!PutInUse
    <3>2. restoring' \in [Requests -> RestoreRecord]
      BY <1>0, <2>1
    <3>3. FaultType'
      BY <1>4 DEF FaultType
    <3>4. UNCHANGED <<kept, archives, newest, exporting>>
      BY <1>0
    <3> QED BY <2>3, <3>1, <3>2, <3>3, <3>4 DEF BackupsType
  <2> QED BY <2>1, <2>2, <2>4, <2>5, <2>6 DEF Restores
<1>5. CASE /\ \/ /\ Backup!Fails("move")
                 /\ \E c \in {Backup!InPlace(e), Backup!Part(staging[e]), comes} :
                       Backup!PutInUse(e, c)
              \/ staging[e] = 0 /\ UNCHANGED <<faults, fs, files, owed>>
           /\ Backup!Leaves(r, "clean", "failed") /\ UNCHANGED staging
  <2>1. PICK x \in RestoreRecord :
           /\ restoring' = [restoring EXCEPT ![r] = x]
           /\ x.pc = "clean" /\ x.answer = "failed"
    BY <1>0, <1>5, RestoreMoves
  <2>2. FaultType'
    BY <1>5, Counted DEF FaultType
  <2>3. Restoring(x)'
    BY <2>1 DEF Restoring
  <2>4. /\ DirType' /\ FilesType' /\ Untouched
        /\ \A o \in Backup!Entries \ {e} : Backup!InPlace(o)' = Backup!InPlace(o)
        /\ owed' \subseteq Backup!Whole
        /\ \A p \in owed' : p \in owed \/ (p = <<e, p[2]>> /\ Backup!InPlace(e)' = p[2])
    <3>1. CASE UNCHANGED <<fs, files, owed>>
      BY <3>1, StaysSafe DEF DirType, FilesType, Untouched, Backup!InPlace, BackupsType
    <3>2. CASE \E c \in {Backup!InPlace(e), Backup!Part(staging[e]), comes} :
                  Backup!PutInUse(e, c)
      <4>1. PICK c \in {Backup!InPlace(e), Backup!Part(staging[e]), comes} :
               Backup!PutInUse(e, c)
        BY <3>2
      <4>2. staging[e] \in Backup!Contents /\ Backup!InPlace(e) \in Backup!Contents
        BY <1>0, InPlaceFine DEF Holdings
      <4>3. c \in Backup!Contents /\ Backup!Put(e, c)
        BY <4>1, <4>2, EntriesFine DEF Backup!PutInUse
      <4>4. owed' = owed \union ({<<e, c>>} \cap Backup!Whole)
        BY <4>1 DEF Backup!PutInUse
      <4> QED BY <4>3, <4>4, PutFine DEF Untouched, BackupsType
    <3> QED BY <1>5, <3>1, <3>2
  <2>5. ASSUME Restoring(restoring[r]), NEW o \in Backup!Entries
        PROVE  Safe(o) => Safe(o)'
    <3>1. Backup!InPlace(e) = 0
      BY <1>0, <1>1, <2>5 DEF Restoring
    <3>2. ASSUME NEW v \in 1..MaxContent, Found(o, v) PROVE Found(o, v)'
      <4>0. v # 0
        BY Constants
      <4>1. CASE Backup!InPlace(o) = v
        BY <2>4, <3>1, <4>0, <4>1 DEF Found
      <4>2. CASE Backup!InPlace(o) # v
        BY <1>0, <2>4, <3>2, <4>2 DEF Found, Untouched
      <4> QED BY <4>1, <4>2
    <3>3. ASSUME NEW v \in 1..MaxContent, <<o, v>> \in owed', <<o, v>> \notin owed
          PROVE  Found(o, v)'
      <4>1. o = e /\ Backup!InPlace(e)' = v
        BY <2>4, <3>3
      <4> QED BY <4>1 DEF Found
    <3> QED BY <3>2, <3>3, SafeKept
  <2>6. BackupsType'
    BY <1>0, <1>5, <2>1, <2>4 DEF BackupsType
  <2> QED BY <2>1, <2>2, <2>3, <2>4, <2>5, <2>6 DEF Restores
<1> QED BY <1>1, <1>2, <1>3, <1>4, <1>5 DEF Backup!PutIn

LEMMA CleanRestores ==
    ASSUME DirType, FilesType, FaultType, BackupsType, NEW r \in Requests, Backup!Clean(r)
    PROVE  \E x : Restores(r, x)
<1>0. /\ restoring[r] \in RestoreRecord /\ restoring[r].pc = "clean"
      /\ restoring \in [Requests -> RestoreRecord]
      /\ UNCHANGED <<fs, files, kept, owed, archives, newest, exporting, faults>>
      /\ staging' \in Holdings
      /\ "restart" \in RestorePcs /\ "answer" \in RestorePcs
      /\ restoring[r].answer \in {"none", "refused", "failed", "restored"}
  BY EntriesFine
     DEF BackupsType, Backup!Clean, Backup!At, Backup!host, Backup!history, RestorePcs,
         RestoreRecord
<1>1. PICK x \in RestoreRecord :
         /\ restoring' = [restoring EXCEPT ![r] = x]
         /\ x.pc = (IF restoring[r].answer = "restored" THEN "restart" ELSE "answer")
         /\ x.answer = restoring[r].answer /\ x.archive = restoring[r].archive
         /\ x.was = restoring[r].was
  <2> DEFINE at == IF restoring[r].answer = "restored" THEN "restart" ELSE "answer"
  <2>1. at \in RestorePcs /\ Backup!GoTo(r, at)
    BY <1>0 DEF Backup!Clean
  <2> HIDE DEF at
  <2>2. \E x \in RestoreRecord :
           /\ restoring' = [restoring EXCEPT ![r] = x]
           /\ x.pc = at /\ x.answer = restoring[r].answer
           /\ x.archive = restoring[r].archive /\ x.todo = restoring[r].todo
           /\ x.into = restoring[r].into /\ x.was = restoring[r].was
    BY <1>0, <2>1, RestoreMoves
  <2> QED BY <2>2 DEF at
<1>2. ASSUME Restoring(restoring[r]) PROVE Restoring(x)'
  <2>1. \A e \in Backup!Entries : Backup!InPlace(e)' = Backup!InPlace(e)
    BY <1>0, StaysSafe
  <2>2. x.pc = "answer" => x.answer # "restored"
    BY <1>1
  <2>3. /\ x.answer = "restored" =>
              \A e \in Backup!Entries :
                 Backup!InPlace(e)' = IF x.archive[e] # 0 THEN x.archive[e] ELSE x.was[e]
        /\ x.answer = "refused" => \A e \in Backup!Entries : Backup!InPlace(e)' = x.was[e]
    BY <1>0, <1>1, <1>2, <2>1 DEF Restoring
  <2> QED BY <1>1, <2>2, <2>3 DEF Restoring
<1>3. FaultType'
  BY <1>0 DEF FaultType
<1> QED BY <1>0, <1>1, <1>2, <1>3, StaysRestores

LEMMA RestartRestores ==
    ASSUME DirType, FilesType, FaultType, BackupsType, ServicesType, UNCHANGED <<candidate, apt>>,
           NEW r \in Requests, Backup!Restart(r)
    PROVE  ServicesType' /\ UNCHANGED package /\ \E x : Restores(r, x)
<1>0. /\ restoring[r] \in RestoreRecord /\ restoring[r].pc = "restart"
      /\ restoring \in [Requests -> RestoreRecord]
      /\ UNCHANGED <<fs, files, package, kept, owed, archives, newest, exporting, staging>>
      /\ staging' \in Holdings /\ package \in Int
  BY Constants
     DEF BackupsType, ServicesType, Backup!Restart, Backup!At, Backup!history, RestoreRecord
<1>6. PICK restarted \in BOOLEAN :
         /\ \/ package # 0 /\ vpn' = Backup!Started(package, files["server"])
               /\ UNCHANGED faults /\ restarted = vpn'.active
            \/ package # 0 /\ Backup!Fails("restart") /\ vpn' = Backup!Down
               /\ restarted = FALSE
            \/ /\ (package = 0 /\ UNCHANGED faults) \/ Backup!Fails("status")
               /\ UNCHANGED vpn /\ restarted = FALSE
         /\ restoring' = [restoring EXCEPT ![r].pc = "answer", ![r].restarted = restarted]
  BY DEF Backup!Restart
<1>1. /\ vpn' \in Units
      /\ vpn'.active => vpn'.run > 0 /\ vpn'.conf > 0 /\ package # 0
      /\ restarted => vpn'.active /\ vpn'.conf = files["server"]
  <2>1. CASE vpn' = vpn /\ ~restarted
    BY <2>1 DEF ServicesType
  <2>2. CASE /\ vpn' = Started(package, files["server"]) /\ restarted = vpn'.active
             /\ package # 0
    BY <1>0, <2>2, StartedFine
  <2>3. CASE vpn' = Down /\ ~restarted
    BY <1>0, <2>3, StartedFine
  <2> QED BY <1>6, <2>1, <2>2, <2>3, OneUnit
<1>2. ServicesType'
  BY <1>0, <1>1 DEF ServicesType
<1>3. PICK x \in RestoreRecord :
         /\ restoring' = [restoring EXCEPT ![r] = x]
         /\ x.pc = "answer" /\ x.restarted = restarted
         /\ x.answer = restoring[r].answer /\ x.archive = restoring[r].archive
         /\ x.was = restoring[r].was
  <2> DEFINE z == [restoring[r] EXCEPT !.pc = "answer", !.restarted = restarted]
  <2>1. "answer" \in RestorePcs
    BY DEF RestorePcs
  <2>2. /\ z \in RestoreRecord /\ z.pc = "answer" /\ z.restarted = restarted
        /\ z.answer = restoring[r].answer /\ z.archive = restoring[r].archive
        /\ z.was = restoring[r].was
    BY <1>0, <2>1 DEF RestoreRecord
  <2>3. restoring' = [restoring EXCEPT ![r] = z]
    BY <1>0, <1>6
  <2> QED BY <2>2, <2>3
<1>4. FaultType'
  BY <1>6, Counted DEF FaultType
<1>5. ASSUME Restoring(restoring[r]) PROVE Restoring(x)'
  <2>1. \A e \in Backup!Entries : Backup!InPlace(e)' = Backup!InPlace(e)
    BY <1>0, StaysSafe
  <2>2. x.restarted => vpn'.active /\ vpn'.conf = files'["server"]
    BY <1>0, <1>1, <1>3
  <2>3. /\ x.answer = "restored" =>
              \A e \in Backup!Entries :
                 Backup!InPlace(e)' = IF x.archive[e] # 0 THEN x.archive[e] ELSE x.was[e]
        /\ x.answer = "refused" => \A e \in Backup!Entries : Backup!InPlace(e)' = x.was[e]
    BY <1>0, <1>3, <1>5, <2>1 DEF Restoring
  <2> QED BY <1>3, <2>2, <2>3 DEF Restoring
<1> QED BY <1>0, <1>2, <1>3, <1>4, <1>5, StaysRestores

LEMMA RestoreAnswerRestores ==
    ASSUME DirType, FilesType, FaultType, BackupsType, NEW r \in Requests, Backup!Answer(r)
    PROVE  \E x : Restores(r, x)
<1>0. /\ restoring \in [Requests -> RestoreRecord]
      /\ UNCHANGED <<fs, files, kept, owed, archives, newest, exporting, staging, faults>>
      /\ staging' \in Holdings
      /\ restoring' = [restoring EXCEPT ![r] = Backup!IdleRestore]
  BY DEF BackupsType, Backup!Answer, Backup!At, Backup!host, Backup!history
<1>1. Backup!IdleRestore \in RestoreRecord /\ Backup!IdleRestore.pc = "idle"
  BY EntriesFine DEF Backup!IdleRestore, RestoreRecord, RestorePcs
<1>2. PICK x \in RestoreRecord : x.pc = "idle" /\ restoring' = [restoring EXCEPT ![r] = x]
  BY <1>0, <1>1
<1>3. Restoring(x)' /\ FaultType'
  BY <1>0, <1>2 DEF Restoring, FaultType
<1> QED BY <1>0, <1>2, <1>3, StaysRestores

LEMMA CopyExports ==
    ASSUME DirType, FilesType, FaultType, BackupsType, NEW r \in Requests, Backup!Copy(r)
    PROVE  /\ FaultType' /\ BackupsType' /\ exporting[r].pc # "idle"
           /\ UNCHANGED <<fs, files, package, vpn, staging, kept, restoring, newest, owed>>
           /\ \E x \in ExportRecord : exporting' = [exporting EXCEPT ![r] = x]
<1> DEFINE e == Backup!First(exporting[r].todo)
           rest == exporting[r].todo \ {e}
           whole == [exporting[r].got EXCEPT ![e] = Backup!InPlace(e)]
           torn == [exporting[r].got EXCEPT ![e] = IF e = "pki"
                                                   THEN Backup!Part(Backup!InPlace(e)) ELSE 0]
           next == [pc |-> "copy", todo |-> rest, got |-> whole]
<1>0. /\ exporting[r] \in ExportRecord /\ exporting \in [Requests -> ExportRecord]
      /\ exporting[r].pc = "copy" /\ archives \subseteq Holdings
      /\ exporting[r].todo \in SUBSET Backup!Entries /\ exporting[r].got \in Holdings
      /\ UNCHANGED <<fs, files, package, vpn, staging, kept, restoring, newest, owed>>
  BY DEF BackupsType, Backup!Copy, Backup!host, Backup!history, ExportRecord
<1>1. e \in Backup!Entries
  BY <1>0, EntriesFine
<1>2. whole \in Holdings /\ torn \in Holdings
  <2>1. /\ Backup!InPlace(e) \in Backup!Contents /\ 0 \in Backup!Contents
        /\ Backup!Part(Backup!InPlace(e)) \in Backup!Contents
    BY <1>1, InPlaceFine, EntriesFine
  <2> HIDE DEF e
  <2> QED BY <1>0, <1>1, <2>1 DEF Holdings
<1>3. Backup!IdleExport \in ExportRecord /\ next \in ExportRecord
  <2>1. Backup!IdleExport \in ExportRecord
    BY EntriesFine DEF Backup!IdleExport, ExportRecord
  <2>2. rest \in SUBSET Backup!Entries
    BY <1>0
  <2> HIDE DEF rest, whole
  <2> QED BY <1>2, <2>1, <2>2 DEF ExportRecord
<1>4. /\ archives' \in {archives, archives \union {whole}, archives \union {torn}}
      /\ \/ exporting' = [exporting EXCEPT ![r] = Backup!IdleExport]
         \/ exporting' = [exporting EXCEPT ![r] = next]
  BY DEF Backup!Copy
<1>5. FaultType'
  BY Counted DEF Backup!Copy, FaultType
<1> HIDE DEF next, whole, torn, rest, e
<1>6. archives' \subseteq Holdings
  BY <1>0, <1>2, <1>4
<1>7. PICK x \in ExportRecord : exporting' = [exporting EXCEPT ![r] = x]
  BY <1>3, <1>4
<1> QED BY <1>0, <1>5, <1>6, <1>7 DEF BackupsType

LEMMA BackupRestores ==
    ASSUME DirType, FilesType, FaultType, BackupsType, ServicesType, UNCHANGED <<candidate, apt>>,
           NEW r \in Requests, Backup!Step(r)
    PROVE  /\ ServicesType' /\ UNCHANGED package
           /\ \/ /\ restoring[r].pc # "idle" /\ UNCHANGED exporting
                 /\ \E x : Restores(r, x)
              \/ /\ exporting[r].pc # "idle" /\ FaultType' /\ BackupsType'
                 /\ UNCHANGED <<fs, files, vpn, kept, restoring, owed>>
                 /\ \E x \in ExportRecord : exporting' = [exporting EXCEPT ![r] = x]
<1> DEFINE Moves == restoring[r].pc # "idle" /\ UNCHANGED exporting /\ \E x : Restores(r, x)
<1>1. CASE \/ Backup!Upload(r) \/ Backup!Clear(r) \/ Backup!Unpack(r) \/ Backup!TakeOut(r)
           \/ Backup!PutIn(r) \/ Backup!Clean(r) \/ Backup!Answer(r)
  <2>1. restoring[r].pc # "idle" /\ UNCHANGED <<exporting, package, vpn>>
    BY <1>1
       DEF Backup!Upload, Backup!Clear, Backup!Unpack, Backup!TakeOut, Backup!PutIn,
           Backup!Clean, Backup!Answer, Backup!At, Backup!host
  <2>2. \E x : Restores(r, x)
    BY <1>1, UploadRestores, ClearRestores, UnpackRestores, TakeOutRestores, PutInRestores,
       CleanRestores, RestoreAnswerRestores
  <2>3. ServicesType'
    BY <2>1 DEF ServicesType
  <2> QED BY <2>1, <2>2, <2>3
<1>2. CASE Backup!Restart(r)
  <2>1. restoring[r].pc # "idle" /\ UNCHANGED exporting
    BY <1>2 DEF Backup!Restart, Backup!At
  <2> QED BY <1>2, <2>1, RestartRestores
<1>3. CASE Backup!Copy(r)
  <2>1. ServicesType'
    BY <1>3, CopyExports DEF ServicesType
  <2> QED BY <1>3, <2>1, CopyExports
<1> QED BY <1>1, <1>2, <1>3 DEF Backup!Step

LEMMA RestoreBegins ==
    ASSUME DirType, FilesType, BackupsType, ServicesType, UNCHANGED <<candidate, apt>>,
           NEW r \in Requests, NEW archive \in archives, Backup!BeginRestore(r, archive)
    PROVE  /\ BackupsType' /\ ServicesType'
           /\ UNCHANGED <<fs, files, package, vpn, kept, exporting, owed, faults>>
           /\ \E x \in RestoreRecord :
                 restoring' = [restoring EXCEPT ![r] = x] /\ Restoring(x)'
<1>0. /\ UNCHANGED <<fs, files, package, vpn, staging, kept, archives, exporting, newest, owed,
                     faults>>
      /\ restoring \in [Requests -> RestoreRecord] /\ archive \in Holdings
  BY DEF BackupsType, Backup!BeginRestore, Backup!host, Backup!history
<1>1. PICK x \in RestoreRecord :
         /\ restoring' = [restoring EXCEPT ![r] = x]
         /\ x.pc = "upload" /\ x.answer = "none" /\ x.was = Backup!Present
  <2> DEFINE z == [Backup!IdleRestore EXCEPT !.pc = "upload", !.archive = archive,
                                             !.was = Backup!Present]
  <2>1. Backup!IdleRestore \in RestoreRecord /\ Backup!IdleRestore.answer = "none"
    BY EntriesFine DEF Backup!IdleRestore, RestoreRecord, RestorePcs
  <2>2. "upload" \in RestorePcs /\ Backup!Present \in Holdings
    BY InPlaceFine DEF RestorePcs
  <2>3. z \in RestoreRecord /\ z.pc = "upload" /\ z.answer = "none" /\ z.was = Backup!Present
    BY <1>0, <2>1, <2>2 DEF RestoreRecord
  <2>4. restoring' = [restoring EXCEPT ![r] = z]
    BY DEF Backup!BeginRestore
  <2> QED BY <2>3, <2>4
<1>2. \A e \in Backup!Entries : Backup!InPlace(e)' = x.was[e]
  BY <1>0, <1>1, StaysSafe, InPlaceFine
<1>3. Restoring(x)'
  BY <1>1, <1>2 DEF Restoring
<1>4. BackupsType' /\ ServicesType'
  BY <1>0, <1>1 DEF BackupsType, ServicesType
<1> QED BY <1>0, <1>1, <1>3, <1>4

LEMMA ExportBegins ==
    ASSUME BackupsType, ServicesType, UNCHANGED <<candidate, apt>>,
           NEW r \in Requests, Backup!BeginExport(r)
    PROVE  /\ BackupsType' /\ ServicesType'
           /\ UNCHANGED <<fs, files, package, vpn, kept, restoring, owed, faults>>
           /\ \E x \in ExportRecord : exporting' = [exporting EXCEPT ![r] = x]
<1> DEFINE z == [Backup!IdleExport EXCEPT !.pc = "copy", !.todo = Backup!Entries]
<1>0. /\ UNCHANGED <<fs, files, package, vpn, staging, kept, archives, restoring, newest, owed,
                     faults>>
      /\ exporting \in [Requests -> ExportRecord]
      /\ exporting' = [exporting EXCEPT ![r] = z]
  BY DEF BackupsType, Backup!BeginExport, Backup!host, Backup!history
<1>1. Backup!IdleExport \in ExportRecord
  BY EntriesFine DEF Backup!IdleExport, ExportRecord
<1>2. z \in ExportRecord
  BY <1>1 DEF ExportRecord
<1> HIDE DEF z
<1> QED BY <1>0, <1>2 DEF BackupsType, ServicesType

LEMMA Changed ==
    ASSUME DirType, FilesType, BackupsType, ServicesType, UNCHANGED <<candidate, apt>>,
           NEW e \in Backup!Entries, Backup!Change(e)
    PROVE  /\ DirType' /\ FilesType' /\ BackupsType' /\ ServicesType' /\ Untouched
           /\ UNCHANGED <<package, vpn, restoring, exporting, faults>>
           /\ \A o \in Backup!Entries : Safe(o) => Safe(o)'
<1>0. /\ UNCHANGED <<package, vpn, archives, staging, kept, restoring, exporting, faults>>
      /\ newest[e] \in 0..MaxContent /\ newest[e] < MaxContent
      /\ newest \in [Backup!Entries -> 0..MaxContent] /\ owed \subseteq Backup!Whole
  BY DEF BackupsType, Backup!Change
<1>1. PICK c \in 1..MaxContent :
         /\ c = newest[e] + 1 /\ c \in Backup!Contents
         /\ newest' = [newest EXCEPT ![e] = c] /\ Backup!Put(e, c)
         /\ owed' = (owed \ {<<e, Backup!InPlace(e)>>}) \union {<<e, c>>}
  <2>1. newest[e] + 1 \in 1..MaxContent /\ newest[e] + 1 \in Backup!Contents
    BY <1>0, Constants DEF Backup!Contents
  <2> QED BY <1>0, <2>1 DEF Backup!Change
<1>2. /\ DirType' /\ FilesType' /\ Backup!InPlace(e)' = c /\ Untouched
      /\ \A o \in Backup!Entries \ {e} : Backup!InPlace(o)' = Backup!InPlace(o)
  BY <1>1, PutFine DEF Untouched
<1>3. BackupsType' /\ ServicesType'
  <2>1. <<e, c>> \in Backup!Whole
    BY <1>1 DEF Backup!Whole
  <2>2. owed' \subseteq Backup!Whole /\ newest' \in [Backup!Entries -> 0..MaxContent]
    BY <1>0, <1>1, <2>1
  <2> QED BY <1>0, <2>2 DEF BackupsType, ServicesType
<1>4. ASSUME NEW o \in Backup!Entries, Safe(o) PROVE Safe(o)'
  <2> SUFFICES ASSUME NEW v \in 1..MaxContent, <<o, v>> \in owed' PROVE Found(o, v)'
    BY DEF Safe
  <2>1. CASE o = e /\ v = c
    BY <1>2, <2>1 DEF Found
  <2>2. CASE ~(o = e /\ v = c)
    <3>1. <<o, v>> \in owed /\ (o = e => v # Backup!InPlace(e))
      BY <1>1, <2>2
    <3>2. Found(o, v)
      BY <1>4, <3>1 DEF Safe
    <3> QED BY <1>0, <1>2, <3>1, <3>2 DEF Found, Untouched
  <2> QED BY <2>1, <2>2
<1> QED BY <1>0, <1>2, <1>3, <1>4

-------------------------------------------------------------------------------
(* The invariant. *)

Types ==
    /\ DirType /\ UpgradesType /\ FaultType /\ ServicesType /\ FilesType /\ PanelsType
    /\ BackupsType

\* Nothing is under way but, perhaps, operation w of request q.
Turn(w, q) ==
    \A s \in Requests :
        /\ upgrading[s].pc = "idle" \/ (w = "easyrsa" /\ s = q)
        /\ apt[s].pc = "idle" \/ (w = "service" /\ s = q)
        /\ updating[s].pc = "idle" \/ (w = "panel" /\ s = q)
        /\ restoring[s].pc = "idle" \/ (w = "restore" /\ s = q)
        /\ exporting[s].pc = "idle" \/ (w = "export" /\ s = q)

\* The PKI is spared when no two failures meet and what a death left is put back.
Careful == RenameOnce /\ PutBack

UpgradesRight ==
    /\ Tagged(fs) /\ (Careful => fs["oldDir"].pki = 0)
    /\ \A r \in Requests :
          /\ Marking(upgrading[r], fs)
          /\ RenameOnce => Switching(upgrading[r], fs, faults)
          /\ Careful => Spared(upgrading[r], fs)

ServiceRight == \A r \in Requests : Serving(apt[r])

PanelRight ==
    RestartsFirst => Home /\ BinaryKept /\ \A r \in Requests : Swapping(updating[r])

RestoresRight == \A r \in Requests : Restoring(restoring[r])

AllSafe == ~SameSecond => Safe("server") /\ Safe("data") /\ (Careful => Safe("pki"))

Right ==
    /\ \E w, q : Turn(w, q)
    /\ UpgradesRight /\ ServiceRight /\ PanelRight /\ RestoresRight /\ AllSafe

Inv == Types /\ (OneAtATime => Right)

\* A part that rests is right, and so is one of which a request moves as it should.
LEMMA UpgradesRest ==
    ASSUME \A s \in Requests : upgrading'[s].pc = "idle",
           Tagged(fs'), Careful => fs'["oldDir"].pki = 0
    PROVE  UpgradesRight'
BY DEF UpgradesRight, Marking, Switching, Spared

LEMMA UpgradesMove ==
    ASSUME UpgradesType, NEW r \in Requests, NEW x, upgrading' = [upgrading EXCEPT ![r] = x],
           \A s \in Requests \ {r} : upgrading[s].pc = "idle",
           Tagged(fs'), Careful => fs'["oldDir"].pki = 0, Marking(x, fs'),
           RenameOnce => Switching(x, fs', faults'), Careful => Spared(x, fs')
    PROVE  UpgradesRight'
<1>1. upgrading'[r] = x /\ \A s \in Requests \ {r} : upgrading'[s].pc = "idle"
  BY DEF UpgradesType
<1>2. \A s \in Requests : s = r \/ upgrading'[s].pc = "idle"
  BY <1>1
<1> SUFFICES ASSUME NEW s \in Requests
             PROVE  /\ Marking(upgrading'[s], fs')
                    /\ RenameOnce => Switching(upgrading'[s], fs', faults')
                    /\ Careful => Spared(upgrading'[s], fs')
  BY DEF UpgradesRight
<1>3. CASE s = r
  BY <1>1, <1>3
<1>4. CASE s # r
  BY <1>2, <1>4 DEF Marking, Switching, Spared
<1> QED BY <1>3, <1>4

LEMMA ServiceRests ==
    ASSUME \A s \in Requests : apt'[s].pc = "idle"
    PROVE  ServiceRight'
BY DEF ServiceRight, Serving

LEMMA ServiceMoves ==
    ASSUME apt \in [Requests -> AptRecord], NEW r \in Requests, NEW x,
           apt' = [apt EXCEPT ![r] = x], Serving(x)',
           \A s \in Requests \ {r} : apt[s].pc = "idle"
    PROVE  ServiceRight'
BY DEF ServiceRight, Serving

LEMMA PanelRests ==
    ASSUME \A s \in Requests : updating'[s].pc = "idle", RestartsFirst => Home' /\ BinaryKept'
    PROVE  PanelRight'
BY DEF PanelRight, Swapping, ToMove

LEMMA PanelMoves ==
    ASSUME PanelsType, NEW r \in Requests, NEW x, updating' = [updating EXCEPT ![r] = x],
           RestartsFirst => Home' /\ BinaryKept' /\ Swapping(x)',
           \A s \in Requests \ {r} : updating[s].pc = "idle"
    PROVE  PanelRight'
<1>1. updating'[r] = x /\ \A s \in Requests \ {r} : updating'[s].pc = "idle"
  BY DEF PanelsType
<1> SUFFICES ASSUME RestartsFirst, NEW s \in Requests PROVE Swapping(updating[s])'
  BY DEF PanelRight
<1>2. CASE s = r
  BY <1>1, <1>2 DEF Swapping
<1>3. CASE s # r
  BY <1>1, <1>3 DEF Swapping, ToMove
<1> QED BY <1>2, <1>3

LEMMA RestoresRest ==
    ASSUME \A s \in Requests : restoring'[s].pc = "idle"
    PROVE  RestoresRight'
BY DEF RestoresRight, Restoring

LEMMA RestoresMove ==
    ASSUME BackupsType, NEW r \in Requests, NEW x, restoring' = [restoring EXCEPT ![r] = x],
           Restoring(x)', \A s \in Requests \ {r} : restoring[s].pc = "idle"
    PROVE  RestoresRight'
<1>1. restoring'[r] = x /\ \A s \in Requests \ {r} : restoring'[s].pc = "idle"
  BY DEF BackupsType
<1> SUFFICES ASSUME NEW s \in Requests PROVE Restoring(restoring[s])'
  BY DEF RestoresRight
<1>2. CASE s = r
  BY <1>1, <1>2 DEF Restoring, Halfway, Backup!InPlace
<1>3. CASE s # r
  BY <1>1, <1>3 DEF Restoring
<1> QED BY <1>2, <1>3

\* The directories, the files and what is kept stay.
LEMMA SafeStays ==
    ASSUME UNCHANGED <<fs, files, kept, owed>>, AllSafe
    PROVE  AllSafe'
BY StaysSafe, EntriesFine DEF AllSafe

LEMMA UpgradeKeepsInv ==
    ASSUME Inv, NEW r \in Requests, Upgrade!Step(r),
           UNCHANGED <<files, vpn, service, panel, backups>>
    PROVE  Inv'
<1>0. Types /\ UNCHANGED <<files, vpn, package, candidate, apt, bin, fresh, self, running,
                           published, known, updating, installing, archives, staging, kept,
                           restoring, exporting, newest, owed>>
  BY DEF Inv, service, panel, backups
<1>1. UpgradesType' /\ upgrading[r].pc # "idle" /\ UNCHANGED <<latest, cached>>
  BY <1>0, UpgradeAdvances DEF Types
<1>2. PICK x : Advances(r, x)
  BY <1>0, UpgradeAdvances DEF Types
<1>3. Types'
  <2>1. ServicesType' /\ FilesType' /\ PanelsType' /\ BackupsType'
    BY <1>0 DEF Types, ServicesType, FilesType, PanelsType, BackupsType
  <2> QED BY <1>1, <1>2, <2>1 DEF Types, Advances
<1>4. ASSUME OneAtATime PROVE Right'
  <2>1. Right /\ upgrading' = [upgrading EXCEPT ![r] = x] /\ UpgradesType
    BY <1>0, <1>2, <1>4 DEF Inv, Advances, Types
  <2>2. Turn("easyrsa", r)
    BY <1>1, <2>1 DEF Right, Turn
  <2>3. /\ \A s \in Requests \ {r} : upgrading[s].pc = "idle"
        /\ \A s \in Requests : /\ apt'[s].pc = "idle" /\ updating'[s].pc = "idle"
                               /\ restoring'[s].pc = "idle" /\ exporting'[s].pc = "idle"
    BY <1>0, <2>2 DEF Turn
  <2>4. Turn("easyrsa", r)'
    BY <2>1, <2>3 DEF Turn, UpgradesType
  <2>5. /\ Marking(upgrading[r], fs) /\ Tagged(fs)
        /\ RenameOnce => Switching(upgrading[r], fs, faults)
        /\ Careful => Spared(upgrading[r], fs) /\ RenameOnce
    BY <2>1 DEF Right, UpgradesRight, Careful
  <2>6. /\ Marking(x, fs') /\ Tagged(fs')
        /\ RenameOnce => Switching(x, fs', faults')
        /\ Careful => Spared(x, fs') /\ \A v \in Int \ {0} : PkiIn(fs, v) => PkiIn(fs', v)
    BY <1>2, <2>5 DEF Advances
  <2>7. UpgradesRight'
    BY <2>1, <2>3, <2>6, UpgradesMove DEF Spared
  <2>8. ServiceRight' /\ RestoresRight'
    BY <2>3, ServiceRests, RestoresRest
  <2>9. PanelRight'
    BY <1>0, <2>1, <2>3, PanelRests DEF Right, PanelRight, Home, BinaryKept, Panel!BinaryKept
  <2>10. AllSafe'
    <3> SUFFICES ASSUME ~SameSecond
                 PROVE  Safe("server")' /\ Safe("data")' /\ (Careful => Safe("pki")')
      BY DEF AllSafe
    <3>1. Safe("server") /\ Safe("data") /\ (Careful => Safe("pki"))
      BY <2>1 DEF Right, AllSafe
    <3>2. Safe("server")' /\ Safe("data")'
      BY <1>0, <3>1 DEF Safe, Found, Backup!InPlace
    <3>3. ASSUME Careful, NEW v \in 1..MaxContent, Found("pki", v) PROVE Found("pki", v)'
      <4>1. v \in Int \ {0}
        BY Constants
      <4>2. (\E d \in DOMAIN kept : kept[d]["pki"] = v) \/ PkiIn(fs, v)
        BY <3>3, ThreePlaces DEF Found, PkiIn, Backup!InPlace
      <4>3. PkiIn(fs, v) => PkiIn(fs', v)
        BY <2>6, <3>3, <4>1
      <4> QED BY <1>0, <4>2, <4>3, ThreePlaces DEF Found, PkiIn, Backup!InPlace
    <3>4. Careful => Safe("pki")'
      BY <1>0, <3>1, <3>3 DEF Safe
    <3> QED BY <3>2, <3>4
  <2> QED BY <2>4, <2>7, <2>8, <2>9, <2>10 DEF Right
<1> QED BY <1>3, <1>4 DEF Inv

\* The directories and the requests that upgrade EasyRSA stay.
LEMMA UpgradesStay ==
    ASSUME UNCHANGED <<fs, upgrading>>, \A s \in Requests : upgrading'[s].pc = "idle",
           UpgradesRight
    PROVE  UpgradesRight'
BY UpgradesRest DEF UpgradesRight

LEMMA ServiceKeepsInv ==
    ASSUME Inv, NEW r \in Requests, Service!Step(r), UNCHANGED <<fs, easyrsa, panel, backups>>
    PROVE  Inv'
<1>0. Types /\ UNCHANGED <<fs, latest, cached, upgrading, bin, fresh, self, running, published,
                           known, updating, installing, archives, staging, kept, restoring,
                           exporting, newest, owed>>
  BY DEF Inv, easyrsa, panel, backups
<1>1. ServicesType' /\ FilesType' /\ FaultType' /\ UNCHANGED files /\ apt[r].pc # "idle"
  BY <1>0, ServiceSteps DEF Types
<1>2. PICK x \in AptRecord :
         apt' = [apt EXCEPT ![r] = x] /\ (Serving(apt[r]) => Serving(x)')
  BY <1>0, ServiceSteps DEF Types
<1>3. Types'
  <2>1. DirType' /\ UpgradesType' /\ PanelsType' /\ BackupsType'
    BY <1>0 DEF Types, DirType, UpgradesType, PanelsType, BackupsType
  <2> QED BY <1>1, <2>1 DEF Types
<1>4. ASSUME OneAtATime PROVE Right'
  <2>1. Right /\ apt \in [Requests -> AptRecord]
    BY <1>0, <1>4 DEF Inv, Types, ServicesType
  <2>2. Turn("service", r)
    BY <1>1, <2>1 DEF Right, Turn
  <2>3. /\ \A s \in Requests \ {r} : apt[s].pc = "idle"
        /\ \A s \in Requests : /\ upgrading'[s].pc = "idle" /\ updating'[s].pc = "idle"
                               /\ restoring'[s].pc = "idle" /\ exporting'[s].pc = "idle"
    BY <1>0, <2>2 DEF Turn
  <2>4. Turn("service", r)'
    BY <1>2, <2>1, <2>3 DEF Turn
  <2>5. ServiceRight'
    BY <1>2, <2>1, <2>3, ServiceMoves DEF Right, ServiceRight
  <2>6. UpgradesRight' /\ RestoresRight'
    BY <1>0, <2>1, <2>3, UpgradesStay, RestoresRest DEF Right
  <2>7. PanelRight'
    BY <1>0, <2>1, <2>3, PanelRests DEF Right, PanelRight, Home, BinaryKept, Panel!BinaryKept
  <2>8. AllSafe'
    BY <1>0, <1>1, <2>1, SafeStays DEF Right
  <2> QED BY <2>4, <2>5, <2>6, <2>7, <2>8 DEF Right
<1> QED BY <1>3, <1>4 DEF Inv

LEMMA PanelKeepsInv ==
    ASSUME Inv, NEW r \in Requests, Panel!Step(r),
           UNCHANGED <<fs, files, vpn, easyrsa, service, backups>>
    PROVE  Inv'
<1>0. Types /\ UNCHANGED <<fs, files, vpn, latest, cached, upgrading, package, candidate, apt,
                           installing, archives, staging, kept, restoring, exporting, newest,
                           owed>>
  BY DEF Inv, easyrsa, service, backups
<1>1. updating[r].pc # "idle" /\ PanelsType
  BY <1>0, PanelSwaps DEF Types
<1>2. PICK x : Swaps(r, x)
  BY <1>0, PanelSwaps DEF Types
<1>3. Types'
  <2>1. DirType' /\ UpgradesType' /\ ServicesType' /\ FilesType' /\ BackupsType'
    BY <1>0 DEF Types, DirType, UpgradesType, ServicesType, FilesType, BackupsType
  <2> QED BY <1>2, <2>1 DEF Types, Swaps
<1>4. ASSUME OneAtATime PROVE Right'
  <2>1. Right /\ updating' = [updating EXCEPT ![r] = x]
    BY <1>2, <1>4 DEF Inv, Swaps
  <2>2. Turn("panel", r)
    BY <1>1, <2>1 DEF Right, Turn
  <2>3. /\ \A s \in Requests \ {r} : updating[s].pc = "idle"
        /\ \A s \in Requests : /\ upgrading'[s].pc = "idle" /\ apt'[s].pc = "idle"
                               /\ restoring'[s].pc = "idle" /\ exporting'[s].pc = "idle"
    BY <1>0, <2>2 DEF Turn
  <2>4. Turn("panel", r)'
    BY <1>1, <2>1, <2>3 DEF Turn, PanelsType
  <2>5. RestartsFirst => Home' /\ BinaryKept' /\ Swapping(x)'
    BY <1>2, <2>1, <2>3 DEF Swaps, Alone, Right, PanelRight
  <2>6. PanelRight'
    BY <1>1, <2>1, <2>3, <2>5, PanelMoves
  <2>7. UpgradesRight' /\ RestoresRight' /\ ServiceRight'
    BY <1>0, <2>1, <2>3, UpgradesStay, RestoresRest, ServiceRests DEF Right
  <2>8. AllSafe'
    BY <1>0, <2>1, SafeStays DEF Right
  <2> QED BY <2>4, <2>6, <2>7, <2>8 DEF Right
<1> QED BY <1>3, <1>4 DEF Inv

\* What a restore or a change leaves of the directories.
LEMMA UntouchedRight ==
    ASSUME Untouched, \A s \in Requests : upgrading[s].pc = "idle", UNCHANGED upgrading,
           UpgradesRight
    PROVE  UpgradesRight'
<1>1. Tagged(fs') /\ (Careful => fs'["oldDir"].pki = 0)
  BY ThreePlaces DEF Untouched, UpgradesRight, Tagged
<1> QED BY <1>1, UpgradesRest

LEMMA BackupKeepsInv ==
    ASSUME Inv, NEW r \in Requests, Backup!Step(r), UNCHANGED <<easyrsa, candidate, apt, panel>>
    PROVE  Inv'
<1>0. Types /\ UNCHANGED <<latest, cached, upgrading, candidate, apt, bin, fresh, self, running,
                           published, known, updating>>
  BY DEF Inv, easyrsa, panel
<1>1. UpgradesType' /\ PanelsType'
  BY <1>0 DEF Types, UpgradesType, PanelsType
<1>2. ServicesType'
  BY <1>0, BackupRestores DEF Types
<1>3. CASE /\ restoring[r].pc # "idle" /\ UNCHANGED exporting
           /\ \E x : Restores(r, x)
  <2>0. PICK x : Restores(r, x)
    BY <1>3
  <2>1. Types'
    BY <1>1, <1>2, <2>0 DEF Types, Restores
  <2>2. ASSUME OneAtATime PROVE Right'
    <3>1. /\ Right /\ restoring' = [restoring EXCEPT ![r] = x] /\ BackupsType
      BY <1>0, <2>0, <2>2 DEF Inv, Types, Restores
    <3>2. Turn("restore", r)
      BY <1>3, <3>1 DEF Right, Turn
    <3>3. /\ \A s \in Requests \ {r} : restoring[s].pc = "idle"
          /\ \A s \in Requests : /\ upgrading'[s].pc = "idle" /\ apt'[s].pc = "idle"
                                 /\ updating'[s].pc = "idle" /\ exporting'[s].pc = "idle"
      BY <1>0, <1>3, <3>2 DEF Turn
    <3>4. Turn("restore", r)'
      BY <3>1, <3>3 DEF Turn, BackupsType
    <3>5. Restoring(restoring[r])
      BY <3>1 DEF Right, RestoresRight
    <3>6. RestoresRight'
      BY <2>0, <3>1, <3>3, <3>5, RestoresMove DEF Restores
    <3>7. UpgradesRight'
      BY <1>0, <2>0, <3>1, <3>3, UntouchedRight DEF Right, Restores
    <3>8. ServiceRight'
      BY <3>3, ServiceRests
    <3>9. PanelRight'
      BY <1>0, <3>1, <3>3, PanelRests DEF Right, PanelRight, Home, BinaryKept, Panel!BinaryKept
    <3>10. AllSafe'
      BY <2>0, <3>1, <3>5, EntriesFine DEF Restores, Right, AllSafe
    <3> QED BY <3>4, <3>6, <3>7, <3>8, <3>9, <3>10 DEF Right
  <2> QED BY <2>1, <2>2 DEF Inv
<1>4. CASE /\ exporting[r].pc # "idle" /\ FaultType' /\ BackupsType'
           /\ UNCHANGED <<fs, files, vpn, kept, restoring, owed>>
           /\ \E x \in ExportRecord : exporting' = [exporting EXCEPT ![r] = x]
  <2>1. Types'
    <3>1. DirType' /\ FilesType'
      BY <1>0, <1>4 DEF Types, DirType, FilesType
    <3> QED BY <1>1, <1>2, <1>4, <3>1 DEF Types
  <2>2. ASSUME OneAtATime PROVE Right'
    <3>1. Right /\ exporting \in [Requests -> ExportRecord]
      BY <1>0, <2>2 DEF Inv, Types, BackupsType
    <3>2. Turn("export", r)
      BY <1>4, <3>1 DEF Right, Turn
    <3>3. /\ \A s \in Requests \ {r} : exporting'[s].pc = "idle"
          /\ \A s \in Requests : /\ upgrading'[s].pc = "idle" /\ apt'[s].pc = "idle"
                                 /\ updating'[s].pc = "idle" /\ restoring'[s].pc = "idle"
      BY <1>0, <1>4, <3>1, <3>2 DEF Turn
    <3>4. Turn("export", r)'
      BY <3>3 DEF Turn
    <3>5. UpgradesRight' /\ RestoresRight' /\ ServiceRight'
      BY <1>0, <1>4, <3>1, <3>3, UpgradesStay, RestoresRest, ServiceRests DEF Right
    <3>6. PanelRight'
      BY <1>0, <3>1, <3>3, PanelRests DEF Right, PanelRight, Home, BinaryKept, Panel!BinaryKept
    <3>7. AllSafe'
      BY <1>4, <3>1, SafeStays DEF Right
    <3> QED BY <3>4, <3>5, <3>6, <3>7 DEF Right
  <2> QED BY <2>1, <2>2 DEF Inv
<1> QED BY <1>0, <1>3, <1>4, BackupRestores DEF Types

\* Nothing at all is under way.
AllIdle ==
    \A s \in Requests :
        /\ upgrading[s].pc = "idle" /\ apt[s].pc = "idle" /\ updating[s].pc = "idle"
        /\ restoring[s].pc = "idle" /\ exporting[s].pc = "idle"

LEMMA QuietIdle ==
    ASSUME OneAtATime, Quiet
    PROVE  AllIdle
BY DEF Quiet, Idle, AllIdle

LEMMA UpgradeBeginKeepsInv ==
    ASSUME Inv, NEW r \in Requests, OneAtATime => AllIdle, Upgrade!BeginUpgrade(r),
           UNCHANGED <<files, vpn, service, panel, backups>>
    PROVE  Inv'
<1>0. Types /\ UNCHANGED <<files, vpn, package, candidate, apt, bin, fresh, self, running,
                           published, known, updating, installing, archives, staging, kept,
                           restoring, exporting, newest, owed>>
  BY DEF Inv, service, panel, backups
<1>1. UpgradesType' /\ UNCHANGED <<fs, faults>>
  BY <1>0, UpgradeBegins DEF Types
<1>2. \/ UNCHANGED upgrading
      \/ \E x \in UpgradeRecord :
            /\ upgrading' = [upgrading EXCEPT ![r] = x]
            /\ Marking(x, fs) /\ Switching(x, fs, faults)
            /\ PutBack /\ fs["oldDir"].pki = 0 => Spared(x, fs)
  BY <1>0, UpgradeBegins DEF Types
<1>3. Types'
  <2>1. /\ DirType' /\ FaultType' /\ ServicesType' /\ FilesType' /\ PanelsType'
        /\ BackupsType'
    BY <1>0, <1>1
       DEF Types, DirType, FaultType, ServicesType, FilesType, PanelsType, BackupsType
  <2> QED BY <1>1, <2>1 DEF Types
<1>4. ASSUME OneAtATime PROVE Right'
  <2>1. Right /\ AllIdle /\ UpgradesType
    BY <1>0, <1>4 DEF Inv, Types
  <2>2. /\ \A s \in Requests : upgrading[s].pc = "idle"
        /\ \A s \in Requests : /\ apt'[s].pc = "idle" /\ updating'[s].pc = "idle"
                               /\ restoring'[s].pc = "idle" /\ exporting'[s].pc = "idle"
    BY <1>0, <2>1 DEF AllIdle
  <2>3. Turn("easyrsa", r)'
    BY <1>2, <2>1, <2>2 DEF Turn, UpgradesType
  <2>4. Tagged(fs') /\ (Careful => fs'["oldDir"].pki = 0)
    BY <1>1, <2>1 DEF Right, UpgradesRight
  <2>5. UpgradesRight'
    <3>1. CASE UNCHANGED upgrading
      BY <1>1, <2>1, <2>2, <3>1, UpgradesStay DEF Right
    <3>2. ASSUME NEW x \in UpgradeRecord, upgrading' = [upgrading EXCEPT ![r] = x],
                 Marking(x, fs), Switching(x, fs, faults),
                 PutBack /\ fs["oldDir"].pki = 0 => Spared(x, fs)
          PROVE  UpgradesRight'
      <4>1. /\ Marking(x, fs') /\ Switching(x, fs', faults')
            /\ (Careful => Spared(x, fs'))
        BY <1>1, <2>4, <3>2 DEF Careful
      <4> QED BY <2>1, <2>2, <2>4, <3>2, <4>1, UpgradesMove
    <3> QED BY <1>2, <3>1, <3>2
  <2>6. ServiceRight' /\ RestoresRight'
    BY <2>2, ServiceRests, RestoresRest
  <2>7. PanelRight'
    BY <1>0, <2>1, <2>2, PanelRests DEF Right, PanelRight, Home, BinaryKept, Panel!BinaryKept
  <2>8. AllSafe'
    BY <1>0, <1>1, <2>1, SafeStays DEF Right
  <2> QED BY <2>3, <2>5, <2>6, <2>7, <2>8 DEF Right
<1> QED BY <1>3, <1>4 DEF Inv

LEMMA ServiceBeginKeepsInv ==
    ASSUME Inv, NEW r \in Requests, OneAtATime => AllIdle, Service!BeginUpgrade(r),
           UNCHANGED <<fs, easyrsa, panel, backups>>
    PROVE  Inv'
<1>0. Types /\ UNCHANGED <<fs, latest, cached, upgrading, bin, fresh, self, running, published,
                           known, updating, installing, archives, staging, kept, restoring,
                           exporting, newest, owed>>
  BY DEF Inv, easyrsa, panel, backups
<1>1. ServicesType' /\ FaultType' /\ UNCHANGED <<files, vpn, package>>
  BY <1>0, ServiceBegins DEF Types
<1>2. PICK x \in AptRecord : apt' = [apt EXCEPT ![r] = x] /\ Serving(x)'
  BY <1>0, ServiceBegins DEF Types
<1>3. Types'
  <2>1. DirType' /\ UpgradesType' /\ PanelsType' /\ BackupsType' /\ FilesType'
    BY <1>0, <1>1
       DEF Types, DirType, UpgradesType, PanelsType, BackupsType, FilesType
  <2> QED BY <1>1, <2>1 DEF Types
<1>4. ASSUME OneAtATime PROVE Right'
  <2>1. Right /\ AllIdle /\ apt \in [Requests -> AptRecord]
    BY <1>0, <1>4 DEF Inv, Types, ServicesType
  <2>2. /\ \A s \in Requests : apt[s].pc = "idle"
        /\ \A s \in Requests : /\ upgrading'[s].pc = "idle" /\ updating'[s].pc = "idle"
                               /\ restoring'[s].pc = "idle" /\ exporting'[s].pc = "idle"
    BY <1>0, <2>1 DEF AllIdle
  <2>3. Turn("service", r)'
    BY <1>2, <2>1, <2>2 DEF Turn
  <2>4. ServiceRight'
    BY <1>2, <2>1, <2>2, ServiceMoves
  <2>5. UpgradesRight' /\ RestoresRight'
    BY <1>0, <2>1, <2>2, UpgradesStay, RestoresRest DEF Right
  <2>6. PanelRight'
    BY <1>0, <2>1, <2>2, PanelRests DEF Right, PanelRight, Home, BinaryKept, Panel!BinaryKept
  <2>7. AllSafe'
    BY <1>0, <1>1, <2>1, SafeStays DEF Right
  <2> QED BY <2>3, <2>4, <2>5, <2>6, <2>7 DEF Right
<1> QED BY <1>3, <1>4 DEF Inv

LEMMA PanelBeginKeepsInv ==
    ASSUME Inv, NEW r \in Requests, OneAtATime => AllIdle, running # 0, Panel!BeginUpdate(r),
           UNCHANGED <<fs, files, vpn, easyrsa, service, backups>>
    PROVE  Inv'
<1>0. Types /\ UNCHANGED <<fs, files, vpn, latest, cached, upgrading, package, candidate, apt,
                           installing, archives, staging, kept, restoring, exporting, newest,
                           owed>>
  BY DEF Inv, easyrsa, service, backups
<1>1. PanelsType /\ PanelsType' /\ UNCHANGED <<bin, fresh, self, running, faults>>
  BY <1>0, PanelBegins DEF Types
<1>2. \/ UNCHANGED updating
      \/ \E x \in UpdateRecord :
            /\ updating' = [updating EXCEPT ![r] = x]
            /\ RestartsFirst /\ running # 0 /\ Home => Swapping(x)'
  BY <1>0, PanelBegins DEF Types
<1>3. Types'
  <2>1. DirType' /\ UpgradesType' /\ ServicesType' /\ FilesType' /\ BackupsType' /\ FaultType'
    BY <1>0, <1>1
       DEF Types, DirType, UpgradesType, ServicesType, FilesType, BackupsType, FaultType
  <2> QED BY <1>1, <2>1 DEF Types
<1>4. ASSUME OneAtATime PROVE Right'
  <2>1. Right /\ AllIdle
    BY <1>4 DEF Inv
  <2>2. /\ \A s \in Requests : updating[s].pc = "idle"
        /\ \A s \in Requests : /\ upgrading'[s].pc = "idle" /\ apt'[s].pc = "idle"
                               /\ restoring'[s].pc = "idle" /\ exporting'[s].pc = "idle"
    BY <1>0, <2>1 DEF AllIdle
  <2>3. Turn("panel", r)'
    BY <1>1, <1>2, <2>2 DEF Turn, PanelsType
  <2>4. RestartsFirst => Home /\ Home' /\ BinaryKept'
    BY <1>1, <2>1 DEF Right, PanelRight, Home, BinaryKept, Panel!BinaryKept
  <2>5. PanelRight'
    <3>1. CASE UNCHANGED updating
      BY <2>2, <2>4, <3>1, PanelRests
    <3>2. CASE \E x \in UpdateRecord :
                  /\ updating' = [updating EXCEPT ![r] = x]
                  /\ RestartsFirst /\ running # 0 /\ Home => Swapping(x)'
      BY <1>1, <2>2, <2>4, <3>2, PanelMoves
    <3> QED BY <1>2, <3>1, <3>2
  <2>6. UpgradesRight' /\ RestoresRight' /\ ServiceRight'
    BY <1>0, <2>1, <2>2, UpgradesStay, RestoresRest, ServiceRests DEF Right
  <2>7. AllSafe'
    BY <1>0, <2>1, SafeStays DEF Right
  <2> QED BY <2>3, <2>5, <2>6, <2>7 DEF Right
<1> QED BY <1>3, <1>4 DEF Inv

LEMMA BackupBeginKeepsInv ==
    ASSUME Inv, NEW r \in Requests, OneAtATime => AllIdle,
           \/ \E archive \in archives : Backup!BeginRestore(r, archive)
           \/ Backup!BeginExport(r),
           UNCHANGED <<easyrsa, candidate, apt, panel>>
    PROVE  Inv'
<1>0. Types /\ UNCHANGED <<latest, cached, upgrading, candidate, apt, bin, fresh, self, running,
                           published, known, updating>>
  BY DEF Inv, easyrsa, panel
<1>1. /\ BackupsType' /\ ServicesType' /\ UNCHANGED <<fs, files, package, vpn, kept, owed, faults>>
      /\ \/ /\ UNCHANGED exporting
            /\ \E x \in RestoreRecord :
                  restoring' = [restoring EXCEPT ![r] = x] /\ Restoring(x)'
         \/ /\ UNCHANGED restoring
            /\ \E x \in ExportRecord : exporting' = [exporting EXCEPT ![r] = x]
  BY <1>0, RestoreBegins, ExportBegins DEF Types
<1>2. Types'
  <2>1. DirType' /\ UpgradesType' /\ PanelsType' /\ FilesType' /\ FaultType'
    BY <1>0, <1>1 DEF Types, DirType, UpgradesType, PanelsType, FilesType, FaultType
  <2> QED BY <1>1, <2>1 DEF Types
<1>3. ASSUME OneAtATime PROVE Right'
  <2>1. Right /\ AllIdle /\ BackupsType
    BY <1>0, <1>3 DEF Inv, Types
  <2>2. /\ \A s \in Requests : restoring[s].pc = "idle" /\ exporting[s].pc = "idle"
        /\ \A s \in Requests : /\ upgrading'[s].pc = "idle" /\ apt'[s].pc = "idle"
                               /\ updating'[s].pc = "idle"
    BY <1>0, <2>1 DEF AllIdle
  <2>3. RestoresRight' /\ (Turn("restore", r)' \/ Turn("export", r)')
    <3>1. CASE /\ UNCHANGED exporting
               /\ \E x \in RestoreRecord :
                     restoring' = [restoring EXCEPT ![r] = x] /\ Restoring(x)'
      <4>1. RestoresRight'
        BY <2>1, <2>2, <3>1, RestoresMove
      <4>2. Turn("restore", r)'
        BY <2>1, <2>2, <3>1 DEF Turn, BackupsType
      <4> QED BY <4>1, <4>2
    <3>2. CASE /\ UNCHANGED restoring
               /\ \E x \in ExportRecord : exporting' = [exporting EXCEPT ![r] = x]
      <4>1. RestoresRight'
        BY <2>2, <3>2, RestoresRest
      <4>2. Turn("export", r)'
        BY <2>1, <2>2, <3>2 DEF Turn, BackupsType
      <4> QED BY <4>1, <4>2
    <3> QED BY <1>1, <3>1, <3>2
  <2>4. UpgradesRight' /\ ServiceRight'
    BY <1>0, <1>1, <2>1, <2>2, UpgradesStay, ServiceRests DEF Right
  <2>5. PanelRight'
    BY <1>0, <2>1, <2>2, PanelRests DEF Right, PanelRight, Home, BinaryKept, Panel!BinaryKept
  <2>6. AllSafe'
    BY <1>1, <2>1, SafeStays DEF Right
  <2> QED BY <2>3, <2>4, <2>5, <2>6 DEF Right
<1> QED BY <1>2, <1>3 DEF Inv

\* A request of one step, which begins when nothing is under way.
LEMMA ShortKeepsInv ==
    ASSUME Inv, OneAtATime => AllIdle, Types',
           UNCHANGED <<upgrading, apt, updating, restoring, exporting, bin, self, running>>,
           Untouched, AllSafe => AllSafe'
    PROVE  Inv'
<1>1. ASSUME OneAtATime PROVE Right'
  <2>1. Right /\ AllIdle
    BY <1>1 DEF Inv
  <2>2. \A s \in Requests :
           /\ upgrading'[s].pc = "idle" /\ apt'[s].pc = "idle" /\ updating'[s].pc = "idle"
           /\ restoring'[s].pc = "idle" /\ exporting'[s].pc = "idle"
    BY <2>1 DEF AllIdle
  <2>3. \E w, q : Turn(w, q)'
    BY <2>2 DEF Turn
  <2>4. UpgradesRight'
    BY <2>1, UntouchedRight DEF Right, AllIdle
  <2>5. ServiceRight' /\ RestoresRight'
    BY <2>2, ServiceRests, RestoresRest
  <2>6. PanelRight'
    BY <2>1, <2>2, PanelRests DEF Right, PanelRight, Home, BinaryKept, Panel!BinaryKept
  <2> QED BY <2>1, <2>3, <2>4, <2>5, <2>6 DEF Right
<1> QED BY <1>1 DEF Inv

\* What no property is about, like a release that comes out.
LEMMA StillKeepsInv ==
    ASSUME Inv, Types',
           UNCHANGED <<upgrading, apt, updating, restoring, exporting, fs, files, vpn, package,
                       faults, bin, fresh, self, running, staging, kept, owed>>
    PROVE  Inv'
<1>1. ASSUME Right PROVE Right'
  <2>1. \E w, q : Turn(w, q)'
    BY <1>1 DEF Right, Turn
  <2>2. UpgradesRight'
    BY <1>1 DEF Right, UpgradesRight
  <2>3. ServiceRight'
    BY <1>1 DEF Right, ServiceRight, Serving
  <2>4. PanelRight'
    BY <1>1 DEF Right, PanelRight, Swapping, Home, BinaryKept, Panel!BinaryKept
  <2>5. RestoresRight'
    BY <1>1 DEF Right, RestoresRight, Restoring, Halfway, Backup!InPlace
  <2>6. AllSafe'
    BY <1>1, SafeStays DEF Right
  <2> QED BY <2>1, <2>2, <2>3, <2>4, <2>5, <2>6 DEF Right
<1> QED BY <1>1 DEF Inv

LEMMA CrashKeepsInv ==
    ASSUME Inv, Crash
    PROVE  Inv'
<1>0. /\ Types
      /\ UNCHANGED <<fs, files, package, candidate, latest, bin, fresh, published, archives,
                     staging, kept, newest, owed, faults>>
  BY DEF Inv, Crash
<1>1. /\ upgrading' = [r \in Requests |-> Upgrade!IdleUpgrade] /\ cached' = 0
      /\ apt' = [r \in Requests |-> Service!IdleApt]
      /\ running' = (IF bin[0] > 0 THEN bin[0] ELSE 0) /\ self' = 0 /\ known' = 0
      /\ updating' = [r \in Requests |-> Panel!IdleUpdate]
      /\ restoring' = [r \in Requests |-> Backup!IdleRestore]
      /\ exporting' = [r \in Requests |-> Backup!IdleExport]
  BY DEF Crash, Upgrade!Forget, Service!Forget, Panel!Forget, Backup!Forget
<1>2. /\ Upgrade!IdleUpgrade \in UpgradeRecord /\ Service!IdleApt \in AptRecord
      /\ Panel!IdleUpdate \in UpdateRecord /\ Backup!IdleRestore \in RestoreRecord
      /\ Backup!IdleExport \in ExportRecord
  <2>1. Upgrade!IdleUpgrade \in UpgradeRecord
    BY Constants, NoDirectoryFine DEF Upgrade!IdleUpgrade, UpgradeRecord, UpgradePcs
  <2>2. Service!IdleApt \in AptRecord
    BY DEF Service!IdleApt, AptRecord
  <2>3. Panel!IdleUpdate \in UpdateRecord
    BY PlacesFine, Constants DEF Panel!IdleUpdate, UpdateRecord, UpdatePcs
  <2>4. Backup!IdleRestore \in RestoreRecord /\ Backup!IdleExport \in ExportRecord
    BY EntriesFine
       DEF Backup!IdleRestore, Backup!IdleExport, RestoreRecord, ExportRecord, RestorePcs
  <2> QED BY <2>1, <2>2, <2>3, <2>4
<1>3. /\ \A s \in Requests : upgrading'[s].pc = "idle" /\ apt'[s].pc = "idle"
      /\ \A s \in Requests : updating'[s].pc = "idle" /\ restoring'[s].pc = "idle"
      /\ \A s \in Requests : exporting'[s].pc = "idle"
  BY <1>1
     DEF Upgrade!IdleUpgrade, Service!IdleApt, Panel!IdleUpdate, Backup!IdleRestore,
         Backup!IdleExport
<1>4. Types'
  <2>1. DirType' /\ FilesType' /\ FaultType'
    BY <1>0 DEF Types, DirType, FilesType, FaultType
  <2>2. UpgradesType'
    BY <1>0, <1>1, <1>2, Constants DEF Types, UpgradesType
  <2>3. ServicesType'
    <3>1. vpn' = vpn
      BY DEF Crash
    <3> QED BY <1>0, <1>1, <1>2, <3>1 DEF Types, ServicesType
  <2>4. BackupsType'
    BY <1>0, <1>1, <1>2 DEF Types, BackupsType
  <2>5. PanelsType'
    <3>1. Waiting(updating') = {}
      BY <1>3 DEF Waiting, ToMove
    <3>2. Room(updating', self')
      BY <1>1, <1>3, <3>1, FS_EmptySet, Constants DEF Room
    <3>3. running' \in 0..MaxPanel /\ self' \in Panel!Places
      BY <1>0, <1>1, PlacesFine, Constants DEF Types, PanelsType, Panel!Binaries
    <3>4. known' \in 0..published' /\ published' \in 1..MaxPanel
      BY <1>0, <1>1, Constants DEF Types, PanelsType
    <3> QED BY <1>0, <1>1, <1>2, <3>2, <3>3, <3>4 DEF Types, PanelsType
  <2> QED BY <2>1, <2>2, <2>3, <2>4, <2>5 DEF Types
<1>5. ASSUME OneAtATime PROVE Right'
  <2>1. Right
    BY <1>5 DEF Inv
  <2>2. \E w, q : Turn(w, q)'
    BY <1>3 DEF Turn
  <2>3. UpgradesRight'
    BY <1>0, <1>3, <2>1, UpgradesRest DEF Right, UpgradesRight
  <2>4. ServiceRight' /\ RestoresRight'
    BY <1>3, ServiceRests, RestoresRest
  <2>5. PanelRight'
    BY <1>0, <1>1, <1>3, <2>1, PanelRests
       DEF Right, PanelRight, Home, BinaryKept, Panel!BinaryKept
  <2>6. AllSafe'
    BY <1>0, <2>1, SafeStays DEF Right
  <2> QED BY <2>2, <2>3, <2>4, <2>5, <2>6 DEF Right
<1> QED BY <1>4, <1>5 DEF Inv

LEMMA InitInv == Init => Inv
<1> SUFFICES ASSUME Init PROVE Inv
  OBVIOUS
<1>1. PICK installed \in BOOLEAN :
         LET now == IF installed THEN 2 ELSE 0 IN
         /\ fs = [p \in Upgrade!Places |->
                     IF installed /\ p = "dir"
                     THEN [there |-> TRUE, script |-> 1, marker |-> 0, pki |-> now]
                     ELSE Upgrade!NoDirectory]
         /\ files = [e \in {"server", "data"} |-> now]
         /\ package = IF installed THEN 1 ELSE 0
         /\ vpn = IF installed THEN Started(1, now) ELSE Down
         /\ owed = IF installed THEN {<<e, now>> : e \in Backup!Entries} ELSE {}
  BY DEF Init
<1>2. PICK now \in {0, 2} : now = IF installed THEN 2 ELSE 0
  OBVIOUS
<1>3. /\ fs["dir"] = (IF installed THEN [there |-> TRUE, script |-> 1, marker |-> 0, pki |-> now]
                      ELSE Upgrade!NoDirectory)
      /\ fs["newDir"] = Upgrade!NoDirectory /\ fs["oldDir"] = Upgrade!NoDirectory
      /\ fs = [p \in Upgrade!Places |-> fs[p]]
  BY <1>1, <1>2, ThreePlaces
<1>4. /\ upgrading = [r \in Requests |-> Upgrade!IdleUpgrade] /\ latest = 1 /\ cached = 0
      /\ apt = [r \in Requests |-> Service!IdleApt] /\ candidate = 1
      /\ bin = [p \in Panel!Places |-> IF p = 0 THEN 1 ELSE 0]
      /\ fresh = [p \in Panel!Places |-> 0] /\ self = 0 /\ running = 1
      /\ published = 1 /\ known = 0 /\ updating = [r \in Requests |-> Panel!IdleUpdate]
      /\ archives = {[e \in Backup!Entries |-> 1]} /\ staging = Backup!Nothing /\ kept = <<>>
      /\ restoring = [r \in Requests |-> Backup!IdleRestore]
      /\ exporting = [r \in Requests |-> Backup!IdleExport]
      /\ newest = [e \in Backup!Entries |-> 2] /\ faults = 0
  BY DEF Init
<1>5. \A s \in Requests :
         /\ upgrading[s].pc = "idle" /\ apt[s].pc = "idle" /\ updating[s].pc = "idle"
         /\ restoring[s].pc = "idle" /\ exporting[s].pc = "idle"
  BY <1>4
     DEF Upgrade!IdleUpgrade, Service!IdleApt, Panel!IdleUpdate, Backup!IdleRestore,
         Backup!IdleExport
<1>6. DirType /\ FilesType /\ FaultType
  <2>1. [there |-> TRUE, script |-> 1, marker |-> 0, pki |-> now] \in Upgrade!Directory
    BY Constants DEF Upgrade!Directory
  <2>2. \A p \in Upgrade!Places : fs[p] \in Upgrade!Directory
    BY <1>3, <2>1, ThreePlaces, NoDirectoryFine
  <2>3. fs \in [Upgrade!Places -> Upgrade!Directory]
    BY <1>3, <2>2
  <2>4. \A p \in Upgrade!Places : ~fs[p].there => fs[p] = Upgrade!NoDirectory
    BY <1>3, ThreePlaces
  <2>5. FilesType
    BY <1>1, <1>2, Constants, EntriesFine DEF FilesType, Backup!Contents
  <2> QED BY <1>4, <2>3, <2>4, <2>5 DEF DirType, FaultType
<1>7. UpgradesType
  <2>1. Upgrade!IdleUpgrade \in UpgradeRecord
    BY Constants, NoDirectoryFine DEF Upgrade!IdleUpgrade, UpgradeRecord, UpgradePcs
  <2> QED BY <1>4, <2>1, Constants DEF UpgradesType
<1>8. ServicesType
  <2>1. Service!IdleApt \in AptRecord
    BY DEF Service!IdleApt, AptRecord
  <2>2. vpn \in Units /\ (vpn.active => vpn.run > 0 /\ vpn.conf > 0 /\ package # 0)
    BY <1>1, <1>2 DEF Units, Started, Down
  <2>3. package \in -MaxPackage..MaxPackage /\ candidate \in 1..MaxPackage
    BY <1>1, <1>4, Constants
  <2> QED BY <1>4, <2>1, <2>2, <2>3 DEF ServicesType
<1>9. PanelsType
  <2>1. Panel!IdleUpdate \in UpdateRecord
    BY PlacesFine, Constants DEF Panel!IdleUpdate, UpdateRecord, UpdatePcs
  <2>2. Waiting(updating) = {}
    BY <1>5 DEF Waiting, ToMove
  <2>3. Room(updating, self)
    <3>1. Cardinality(Waiting(updating)) = 0 /\ self = 0
      BY <1>4, <2>2, FS_EmptySet
    <3>2. self + Cardinality(Waiting(updating)) <= MaxPlaces
      BY <3>1, Constants
    <3> QED BY <1>5, <3>2 DEF Room
  <2>4. 1 \in Panel!Binaries /\ 0 \in Panel!Binaries
    BY PlacesFine, Constants
  <2>5. /\ bin \in [Panel!Places -> Panel!Binaries]
        /\ fresh \in [Panel!Places -> Panel!Binaries]
    BY <1>4, <2>4
  <2> QED BY <1>4, <2>1, <2>3, <2>5, PlacesFine, Constants DEF PanelsType
<1>10. BackupsType
  <2>1. Backup!IdleRestore \in RestoreRecord /\ Backup!IdleExport \in ExportRecord
    BY EntriesFine
       DEF Backup!IdleRestore, Backup!IdleExport, RestoreRecord, ExportRecord, RestorePcs
  <2>2. [e \in Backup!Entries |-> 1] \in Holdings
    BY Constants, EntriesFine DEF Holdings
  <2>3. owed \subseteq Backup!Whole
    BY <1>1, <1>2, Constants DEF Backup!Whole
  <2>4. newest \in [Backup!Entries -> 0..MaxContent]
    BY <1>4, Constants
  <2> QED BY <1>4, <2>1, <2>2, <2>3, <2>4, EntriesFine DEF BackupsType
<1>11. Right
  <2>1. \E w, q : Turn(w, q)
    BY <1>5 DEF Turn
  <2>2. UpgradesRight
    <3>1. Tagged(fs) /\ fs["oldDir"].pki = 0
      BY <1>3, ThreePlaces, NoDirectoryFine DEF Tagged
    <3> QED BY <1>5, <3>1 DEF UpgradesRight, Marking, Switching, Spared
  <2>3. ServiceRight
    BY <1>5 DEF ServiceRight, Serving
  <2>4. PanelRight
    BY <1>4, <1>5, PlacesFine DEF PanelRight, Swapping, Home, BinaryKept, Panel!BinaryKept, ToMove
  <2>5. RestoresRight
    BY <1>5 DEF RestoresRight, Restoring
  <2>6. AllSafe
    <3> SUFFICES ASSUME NEW e \in Backup!Entries, NEW v \in 1..MaxContent, <<e, v>> \in owed
                 PROVE  Found(e, v)
      BY EntriesFine DEF AllSafe, Safe
    <3>1. installed /\ v = now
      BY <1>1, <1>2
    <3>2. Backup!InPlace(e) = now
      BY <1>1, <1>2, <1>3, <3>1, EntriesFine DEF Backup!InPlace
    <3> QED BY <3>1, <3>2 DEF Found
  <2> QED BY <2>1, <2>2, <2>3, <2>4, <2>5, <2>6 DEF Right
<1> QED BY <1>6, <1>7, <1>8, <1>9, <1>10, <1>11 DEF Inv, Types

LEMMA NextKeepsInv == Inv /\ [Next]_vars => Inv'
<1> SUFFICES ASSUME Inv, [Next]_vars PROVE Inv'
  OBVIOUS
<1>0. Types
  BY DEF Inv
<1>1. ASSUME NEW r \in Requests, Begin(r) PROVE Inv'
  <2>1. running # 0 /\ (OneAtATime => AllIdle)
    BY <1>1, QuietIdle DEF Begin, Begins
  <2>2. CASE Upgrade!BeginUpgrade(r) /\ UNCHANGED <<files, vpn, service, panel, backups>>
    BY <2>1, <2>2, UpgradeBeginKeepsInv
  <2>3. CASE Service!BeginUpgrade(r) /\ UNCHANGED <<fs, easyrsa, panel, backups>>
    BY <2>1, <2>3, ServiceBeginKeepsInv
  <2>4. CASE Panel!BeginUpdate(r) /\ UNCHANGED <<fs, files, vpn, easyrsa, service, backups>>
    BY <2>1, <2>4, PanelBeginKeepsInv
  <2>5. CASE /\ \/ \E archive \in archives : Backup!BeginRestore(r, archive)
                \/ Backup!BeginExport(r)
             /\ UNCHANGED <<easyrsa, candidate, apt, panel>>
    BY <2>1, <2>5, BackupBeginKeepsInv
  <2> QED BY <1>1, <2>2, <2>3, <2>4, <2>5 DEF Begin
<1>2. ASSUME NEW r \in Requests, Step(r) PROVE Inv'
  BY <1>2, UpgradeKeepsInv, ServiceKeepsInv, PanelKeepsInv, BackupKeepsInv DEF Step
<1>3. CASE Short
  <2>1. OneAtATime => AllIdle
    BY <1>3, QuietIdle DEF Short
  <2>2. ASSUME NEW action \in {"start", "stop", "restart"}, Service!Control(action),
               UNCHANGED <<fs, easyrsa, panel, backups>>
        PROVE  Inv'
    <3>1. ServicesType' /\ UNCHANGED <<files, apt, package, faults>>
      BY <1>0, <2>2, ServiceControlled DEF Types
    <3>2. /\ UNCHANGED <<fs, latest, cached, upgrading, bin, fresh, self, running, published,
                         known, updating, restoring, exporting, archives, staging, kept, owed,
                         newest>>
      BY <2>2 DEF easyrsa, panel, backups
    <3>3. Types'
      BY <1>0, <3>1, <3>2
         DEF Types, DirType, UpgradesType, FaultType, FilesType, PanelsType, BackupsType
    <3>4. Untouched /\ (AllSafe => AllSafe')
      BY <3>1, <3>2, StaysSafe, EntriesFine DEF Untouched, AllSafe
    <3> QED BY <2>1, <3>1, <3>2, <3>3, <3>4, ShortKeepsInv
  <2>3. ASSUME NEW e \in Backup!Entries, Backup!Change(e),
               UNCHANGED <<easyrsa, candidate, apt, panel>>
        PROVE  Inv'
    <3>1. UNCHANGED <<latest, cached, upgrading, bin, fresh, self, running, published, known,
                      updating, candidate, apt>>
      BY <2>3 DEF easyrsa, panel
    <3>2. /\ DirType' /\ FilesType' /\ BackupsType' /\ ServicesType' /\ Untouched
          /\ UNCHANGED <<package, vpn, restoring, exporting, faults>>
          /\ \A o \in Backup!Entries : Safe(o) => Safe(o)'
      BY <1>0, <2>3, <3>1, Changed DEF Types
    <3>3. Types'
      BY <1>0, <3>1, <3>2 DEF Types, UpgradesType, FaultType, PanelsType
    <3>4. AllSafe => AllSafe'
      BY <3>2, EntriesFine DEF AllSafe
    <3> QED BY <2>1, <3>1, <3>2, <3>3, <3>4, ShortKeepsInv
  <2>4. CASE Backup!StartInstall /\ UNCHANGED <<easyrsa, candidate, apt, panel>>
    <3>1. UNCHANGED <<fs, files, vpn, package, faults, latest, cached, upgrading, candidate, apt,
                      bin, fresh, self, running, published, known, updating, archives, staging,
                      kept, restoring, exporting, newest, owed>>
      BY <2>4 DEF easyrsa, panel, Backup!StartInstall, Backup!host, Backup!history
    <3>2. Types'
      BY <1>0, <3>1 DEF Types, DirType, UpgradesType, FaultType, ServicesType, FilesType,
                        PanelsType, BackupsType
    <3> QED BY <3>1, <3>2, StillKeepsInv
  <2> QED BY <1>3, <2>2, <2>3, <2>4 DEF Short
<1>4. CASE Check
  <2>1. /\ Upgrade!CheckRemote /\ Panel!CheckRemote
        /\ UNCHANGED <<files, vpn, package, candidate, apt, archives, staging, kept, restoring,
                       exporting, newest, owed>>
    BY <1>4 DEF Check, service, backups
  <2>2. /\ UpgradesType' /\ PanelsType'
        /\ UNCHANGED <<fs, upgrading, faults, bin, fresh, self, running, updating>>
    BY <1>0, <2>1, UpgradePublished, PanelChecked DEF Types
  <2>3. Types'
    BY <1>0, <2>1, <2>2
       DEF Types, DirType, FaultType, ServicesType, FilesType, BackupsType
  <2> QED BY <2>1, <2>2, <2>3, StillKeepsInv
<1>5. CASE News
  <2>1. CASE Upgrade!Publish /\ UNCHANGED <<files, vpn, service, panel, backups>>
    <3>1. UpgradesType' /\ UNCHANGED <<fs, upgrading, faults>>
      BY <1>0, <2>1, UpgradePublished DEF Types
    <3>2. UNCHANGED <<files, vpn, package, candidate, apt, bin, fresh, self, running, published,
                      known, updating, archives, staging, kept, restoring, exporting, newest,
                      owed>>
      BY <2>1 DEF service, panel, backups
    <3>3. Types'
      BY <1>0, <3>1, <3>2
         DEF Types, DirType, FaultType, ServicesType, FilesType, PanelsType, BackupsType
    <3> QED BY <3>1, <3>2, <3>3, StillKeepsInv
  <2>2. CASE Service!NewPackage /\ UNCHANGED <<fs, easyrsa, panel, backups>>
    <3>1. ServicesType' /\ UNCHANGED <<files, apt, package, vpn, faults>>
      BY <1>0, <2>2, ServicePackaged DEF Types
    <3>2. UNCHANGED <<fs, latest, cached, upgrading, bin, fresh, self, running, published,
                      known, updating, archives, staging, kept, restoring, exporting, newest,
                      owed>>
      BY <2>2 DEF easyrsa, panel, backups
    <3>3. Types'
      BY <1>0, <3>1, <3>2
         DEF Types, DirType, UpgradesType, FaultType, FilesType, PanelsType, BackupsType
    <3> QED BY <3>1, <3>2, <3>3, StillKeepsInv
  <2>3. CASE Panel!Publish /\ UNCHANGED <<fs, files, vpn, easyrsa, service, backups>>
    <3>1. PanelsType' /\ UNCHANGED <<bin, fresh, self, running, updating, faults>>
      BY <1>0, <2>3, PanelPublished DEF Types
    <3>2. UNCHANGED <<fs, files, vpn, latest, cached, upgrading, package, candidate, apt,
                      archives, staging, kept, restoring, exporting, newest, owed>>
      BY <2>3 DEF easyrsa, service, backups
    <3>3. Types'
      BY <1>0, <3>1, <3>2
         DEF Types, DirType, UpgradesType, FaultType, ServicesType, FilesType, BackupsType
    <3> QED BY <3>1, <3>2, <3>3, StillKeepsInv
  <2> QED BY <1>5, <2>1, <2>2, <2>3 DEF News
<1>6. CASE InstallEnds \/ UNCHANGED vars
  <2>1. UNCHANGED <<fs, files, vpn, package, faults, latest, cached, upgrading, candidate, apt,
                    bin, fresh, self, running, published, known, updating, archives, staging,
                    kept, restoring, exporting, newest, owed>>
    BY <1>6 DEF InstallEnds, vars, easyrsa, service, panel, backups, Backup!EndInstall,
                Backup!host, Backup!history
  <2>2. Types'
    BY <1>0, <2>1 DEF Types, DirType, UpgradesType, FaultType, ServicesType, FilesType,
                      PanelsType, BackupsType
  <2> QED BY <2>1, <2>2, StillKeepsInv
<1>7. CASE Crash
  BY <1>7, CrashKeepsInv
<1> QED BY <1>1, <1>2, <1>3, <1>4, <1>5, <1>6, <1>7 DEF Next

LEMMA InvHolds == Spec => []Inv
BY InitInv, NextKeepsInv, PTL DEF Spec

-------------------------------------------------------------------------------
(* Theorems. *)

\* Whatever is asked for together, whatever fails and whenever the panel dies: the
\* directories, versions, units, binaries and archives are what their types say, and a
\* directory of EasyRSA that is not there is empty.
THEOREM TypesHold == Spec => []TypeOK
<1>1. Inv => TypeOK
  <2> SUFFICES ASSUME Types PROVE TypeOK
    BY DEF Inv
  <2>1. Upgrade!UpgradeType
    BY DEF Types, DirType, UpgradesType, Upgrade!UpgradeType
  <2>2. Service!ServiceType
    BY DEF Types, ServicesType, Service!ServiceType
  <2>3. Panel!PanelType
    BY DEF Types, PanelsType, Panel!PanelType
  <2>4. Backup!BackupType
    <3>1. kept \in [1..Len(kept) -> Holdings] /\ DOMAIN kept = 1..Len(kept)
      BY LenProperties DEF Types, BackupsType
    <3> QED BY <3>1 DEF Types, FilesType, BackupsType, Backup!BackupType, Holdings
  <2> QED BY <2>1, <2>2, <2>3, <2>4 DEF TypeOK
<1> QED BY <1>1, InvHolds, PTL

\* One operation at a time: a marker in any of the three directories tells the version of
\* the script beside it, wherever an upgrade or the panel ended, and whatever restores put
\* around it. EasyRSA's Current reads nothing else.
THEOREM MarkersTrue ==
    ASSUME OneAtATime
    PROVE  Spec => []MarkerTrue
<1>1. Inv => MarkerTrue
  BY DEF Inv, Right, UpgradesRight, Tagged, MarkerTrue, Upgrade!MarkerTrue
<1> QED BY <1>1, InvHolds, PTL

\* One operation at a time, and a restart after each update: a whole binary of the panel is
\* in place, or aside with nothing in its place, however often renames fail and whenever
\* the panel dies.
THEOREM BinaryIsKept ==
    ASSUME OneAtATime, RestartsFirst
    PROVE  Spec => []BinaryKept
<1>1. Inv => BinaryKept
  BY DEF Inv, Right, PanelRight
<1> QED BY <1>1, InvHolds, PTL

\* One operation at a time, and restores in different seconds: a configuration or data of
\* the panel that were in use are in place or in the directory of a restore, after any
\* failures of restores and any deaths between the moves.
THEOREM FilesAreKept ==
    ASSUME OneAtATime, ~SameSecond
    PROVE  Spec => []FilesKept
<1>1. ASSUME Inv PROVE FilesKept
  <2> SUFFICES ASSUME NEW o \in owed, o[1] # "pki"
               PROVE  Backup!Kept(o[1], o[2])
    BY DEF FilesKept, Backup!FilesKept
  <2>1. PICK e \in Backup!Entries, v \in 1..MaxContent : o = <<e, v>>
    BY <1>1 DEF Inv, Types, BackupsType, Backup!Whole
  <2>2. e \in {"server", "data"} /\ <<e, v>> \in owed /\ o[1] = e /\ o[2] = v
    BY <2>1, EntriesFine
  <2>3. Found(e, v)
    BY <1>1, <2>2 DEF Inv, Right, AllSafe, Safe
  <2> QED BY <2>2, <2>3 DEF Found, Backup!Kept
<1> QED BY <1>1, InvHolds, PTL

\* If besides renames do not fail, or nothing fails but once, and the administrator puts
\* back a PKI that a death left in easy-rsa.new before he upgrades again, no PKI that was
\* in use is lost: an upgrade removes no directory that holds the only one.
THEOREM PkiIsKept ==
    ASSUME OneAtATime, ~SameSecond, RenameOnce, PutBack
    PROVE  Spec => []PkiKept
<1>1. ASSUME Inv PROVE PkiKept
  <2> SUFFICES ASSUME NEW o \in owed, o[1] = "pki"
               PROVE  \/ Backup!Kept("pki", o[2])
                      \/ \E p \in Upgrade!Places : fs[p].pki = o[2]
    BY DEF PkiKept
  <2>1. PICK e \in Backup!Entries, v \in 1..MaxContent : o = <<e, v>>
    BY <1>1 DEF Inv, Types, BackupsType, Backup!Whole
  <2>2. <<"pki", v>> \in owed /\ o[2] = v
    BY <2>1
  <2>3. Found("pki", v)
    BY <1>1, <2>2 DEF Inv, Right, AllSafe, Safe, Careful
  <2> QED BY <2>2, <2>3, ThreePlaces DEF Found, Backup!Kept
<1> QED BY <1>1, InvHolds, PTL

\* One operation at a time, a restart after each update, and renames that do not fail or
\* one failure in all: what an operation answers is so. An upgrade that answers success has its script
\* and the PKI in place and one that answers failure has undone everything, an update
\* likewise, a service that ran goes on with the new package, a restore put back what its
\* archive holds or, refused, touched nothing.
THEOREM AnswersAreTrue ==
    ASSUME OneAtATime, RestartsFirst, RenameOnce
    PROVE  Spec => []AnswersTrue
<1>1. ASSUME Inv PROVE AnswersTrue
  <2> SUFFICES ASSUME NEW r \in Requests
               PROVE  /\ Upgrade!AnswersRight(r) /\ Service!AnswersRight(r)
                      /\ Panel!AnswersRight(r) /\ Backup!AnswersRight(r)
    BY DEF AnswersTrue
  <2>0. Types /\ Right
    BY <1>1 DEF Inv
  <2>1. Upgrade!AnswersRight(r)
    BY <2>0 DEF Right, UpgradesRight, Marking, Switching, Upgrade!AnswersRight, Upgrade!At
  <2>2. Service!AnswersRight(r)
    BY <2>0 DEF Right, ServiceRight, Serving, Service!AnswersRight, Service!At
  <2>3. Panel!AnswersRight(r)
    <3>1. 1 \in Panel!Places \ {0}
      BY PlacesFine
    <3>2. Swapping(updating[r])
      BY <2>0 DEF Right, PanelRight
    <3> QED BY <3>1, <3>2 DEF Swapping, Panel!AnswersRight, Panel!At
  <2>4. Backup!AnswersRight(r)
    <3>1. Restoring(restoring[r]) /\ restoring[r] \in RestoreRecord
      BY <2>0 DEF Types, BackupsType, Right, RestoresRight
    <3>2. ASSUME \A e \in Backup!Entries : Backup!InPlace(e) = restoring[r].was[e]
          PROVE  Backup!Present = restoring[r].was
      BY <3>1, <3>2 DEF Backup!Present, RestoreRecord, Holdings
    <3> QED BY <3>1, <3>2 DEF Restoring, Backup!AnswersRight, Backup!At
  <2> QED BY <2>1, <2>2, <2>3, <2>4
<1> QED BY <1>1, InvHolds, PTL

===============================================================================
