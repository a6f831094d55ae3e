----------------------------- MODULE DnsStubProofs -----------------------------
(***************************************************************************)
(* Proofs about DnsStub for every set of requests: types, the restore point    *)
(* that is on disk while the stub is off, and what a host is left with when a    *)
(* request has answered.                                                          *)
(***************************************************************************)
EXTENDS DnsStub, TLAPS

-------------------------------------------------------------------------------
(* What the results are proved under.                                              *)

\* Callers wait, the button is offered without a drop-in only, and the file of the drop-in
\* can be written, or nothing else fails.
Careful == OneAtATime /\ FreshPage /\ ("write" \notin Faults \/ MaxFaults <= 1)

\* Links can be made and put back, and a revert is not the second to meet a failing restart.
LinksMade ==
    /\ Careful /\ {"symlink", "unlinkBack"} \cap Faults = {}
    /\ "restart" \notin Faults \/ MaxFaults <= 1

\* And the restore point can be saved.
Sound == Careful /\ LinksMade /\ "save" \notin Faults

-------------------------------------------------------------------------------
(* The invariant: of a request x at work, and of the host (drop-in di, link ln), the  *)
(* restore point bk, the failures fl and the history bf.                               *)

Pcs == {"saveFirst", "writeDropIn", "unlink", "symlink", "restart", "saveSecond",
        "revertDropIn", "revertUnlink", "revertSymlink", "revertRestart", "clear"}
Undoing == {"revertDropIn", "revertUnlink", "revertSymlink", "revertRestart", "clear"}

RequestRecord == [pc : Pcs, op : {"disable", "restore"}, b : Backup, cancelled : BOOLEAN]

\* Only a link to the stub's file is ever switched.
Shape(x) ==
    /\ x \in RequestRecord
    /\ x.op = "restore" => x.pc \in Undoing
    /\ x.b.switched => x.b.link = "stub"
    /\ x.pc \in {"unlink", "symlink"} => x.b.link = "stub"
    /\ x.pc \in {"revertUnlink", "revertSymlink"} => x.b.switched

\* The restore point is there before anything changes; a disable that is undone has met its
\* one failure already.
Guarded(x, di, ln, bk, fl) ==
    /\ x.b.dropIn # "off"
    /\ x.pc # "saveFirst" => bk # NoBackup
    /\ x.op = "disable" /\ x.pc \in Undoing => fl >= 1
    /\ x.cancelled => fl >= 1
    /\ x.pc \in {"saveFirst", "writeDropIn", "unlink"} => ln = x.b.link
    /\ x.pc = "symlink" => ln = "gone"
    /\ x.pc \in Undoing \ {"revertDropIn"} => di # "off"

GuardRest(di, bk) == bk.dropIn # "off" /\ (di = "off" => bk # NoBackup)

\* resolv.conf is there, but between its removal and the new link, and not the stub's file
\* once the drop-in is to take effect.
Resolving(x, di, ln) ==
    /\ x.pc \in {"saveFirst", "writeDropIn"} => ln # "gone" /\ di # "off"
    /\ x.pc \in {"restart", "saveSecond"} => ln \notin {"gone", "stub"}
    /\ x.pc = "revertDropIn" => ln # "gone" /\ (x.op = "restore" => ~(di = "off" /\ ln = "stub"))
    /\ x.pc \in {"revertUnlink", "revertRestart", "clear"} => ln # "gone"

ResolveRest(di, ln) == ln # "gone" /\ ~(di = "off" /\ ln = "stub")

Found(b, bf) == b.dropIn = bf.dropIn /\ b.link = bf.link
Kept(b, di, ln) ==
    /\ ~b.switched => ln = b.link
    /\ di # "off" => di = b.dropIn /\ ln = b.link

\* What is to be put back is what was found, and the switched flag says whether the link is
\* to be put back too.
Returning(x, di, ln, bk, bf) ==
    /\ Found(x.b, bf)
    /\ bk # NoBackup => Found(bk, bf)
    /\ x.op = "restore" => x.b = bk
    /\ x.pc \in {"saveFirst", "writeDropIn", "unlink", "symlink"} => ~x.b.switched
    /\ x.pc \in {"saveFirst", "writeDropIn"} => di = x.b.dropIn /\ ln = x.b.link
    /\ x.pc = "unlink" => di = "off" /\ ln = x.b.link
    /\ x.pc = "symlink" => di = "off" /\ ln = "gone"
    /\ x.pc \in {"restart", "saveSecond"} => di = "off" /\ (~x.b.switched => ln = x.b.link)
    /\ x.pc = "revertDropIn" => /\ ~x.b.switched => ln = x.b.link
                                /\ di # "off" => di = x.b.dropIn
                                /\ x.op = "restore" => Kept(x.b, di, ln)
    /\ x.pc = "revertUnlink" => di = x.b.dropIn
    /\ x.pc = "revertSymlink" => di = x.b.dropIn /\ ln = "gone"
    /\ x.pc \in {"revertRestart", "clear"} => di = x.b.dropIn /\ ln = x.b.link

ReturnRest(di, ln, bk, bf) == bk # NoBackup => Found(bk, bf) /\ Kept(bk, di, ln)

\* A revert that puts a link back has removed the other, and one that is done for a client
\* that stays has had resolved read the drop-in.
Linked(x, di, ln, ac) ==
    /\ x.pc = "revertSymlink" => ln = "gone"
    /\ x.pc = "clear" /\ ~x.cancelled => ac = di

\* Undisturbed, of the restarts cr.
Calm(cr, bf) == cr = 0 \/ bf.link \in {"other", "file"}

HostFine(di, ln, ac, bk, fl) ==
    /\ di \in DropIns /\ ln \in Links /\ ac \in DropIns
    /\ bk \in Backup \cup {NoBackup} /\ (bk.switched => bk.link = "stub")
    /\ fl \in Nat /\ fl <= MaxFaults

Typed ==
    /\ HostFine(dropIn, link, active, backup, faults)
    /\ crashes \in Nat /\ crashes <= MaxCrashes
    /\ DOMAIN req = Requests /\ req = [r \in Requests |-> req[r]]
    /\ \A r \in Requests : req[r] = IdleRequest \/ Shape(req[r])

Alone == \A p, q \in Requests : ~At(p, "idle") /\ ~At(q, "idle") => p = q

StubInv ==
    /\ Typed
    /\ Careful =>
          /\ Alone /\ GuardRest(dropIn, backup)
          /\ \A r \in Requests : ~At(r, "idle") => Guarded(req[r], dropIn, link, backup, faults)
    /\ LinksMade =>
          \A r \in Requests : ~At(r, "idle") => Linked(req[r], dropIn, link, active)
    /\ LinksMade /\ crashes = 0 =>
          /\ Quiet => ResolveRest(dropIn, link)
          /\ \A r \in Requests : ~At(r, "idle") => Resolving(req[r], dropIn, link)
    /\ Sound /\ Calm(crashes, before) =>
          /\ Quiet => ReturnRest(dropIn, link, backup, before)
          /\ \A r \in Requests : ~At(r, "idle") => Returning(req[r], dropIn, link, backup, before)

\* One request moves, and becomes x.
LEMMA Moved ==
    ASSUME StubInv, NEW r \in Requests, ~At(r, "idle") \/ (OneAtATime => Quiet),
           NEW x, req' = [req EXCEPT ![r] = x], UNCHANGED crashes,
           x = IdleRequest \/ Shape(x),
           HostFine(dropIn', link', active', backup', faults'),
           Careful => /\ GuardRest(dropIn', backup')
                      /\ x.pc # "idle" => Guarded(x, dropIn', link', backup', faults'),
           LinksMade => /\ x.pc = "revertSymlink" => link' = "gone"
                        /\ x.pc = "clear" /\ ~x.cancelled => active' = dropIn',
           LinksMade /\ crashes = 0 => IF x.pc = "idle" THEN ResolveRest(dropIn', link')
                                       ELSE Resolving(x, dropIn', link'),
           Sound /\ Calm(crashes, before') => IF x.pc = "idle" THEN ReturnRest(dropIn', link', backup', before')
                                   ELSE Returning(x, dropIn', link', backup', before')
    PROVE  StubInv'
<1>1. /\ req'[r] = x /\ \A q \in Requests \ {r} : req'[q] = req[q]
      /\ DOMAIN req' = Requests /\ req' = [q \in Requests |-> req'[q]]
  BY DEF StubInv, Typed
<1>2. Typed'
  BY <1>1 DEF StubInv, Typed
<1>3. ASSUME Careful
      PROVE  /\ \A q \in Requests \ {r} : At(q, "idle") /\ At(q, "idle")'
             /\ x.pc = "idle" <=> Quiet'
  <2>1. Alone /\ OneAtATime
    BY <1>3 DEF StubInv, Careful
  <2>2. \A q \in Requests \ {r} : At(q, "idle")
    BY <2>1 DEF Alone, Quiet
  <2> QED BY <1>1, <2>2 DEF At, Quiet
<1>4. ASSUME Careful
      PROVE  /\ Alone' /\ GuardRest(dropIn', backup')
             /\ \A q \in Requests : ~At(q, "idle")' => Guarded(req'[q], dropIn', link', backup', faults')
  BY <1>1, <1>3, <1>4 DEF Alone, At
<1>5. ASSUME LinksMade, crashes' = 0
      PROVE  /\ Quiet' => ResolveRest(dropIn', link')
             /\ \A q \in Requests : ~At(q, "idle")' => Resolving(req'[q], dropIn', link')
  BY <1>1, <1>3, <1>5 DEF LinksMade, At
<1>6. ASSUME Sound, Calm(crashes', before')
      PROVE  /\ Quiet' => ReturnRest(dropIn', link', backup', before')
             /\ \A q \in Requests : ~At(q, "idle")' =>
                   Returning(req'[q], dropIn', link', backup', before')
  BY <1>1, <1>3, <1>6 DEF Sound, At
<1>7. ASSUME LinksMade
      PROVE  \A q \in Requests : ~At(q, "idle")' => Linked(req'[q], dropIn', link', active')
  BY <1>1, <1>3, <1>7 DEF LinksMade, At, Linked
<1> QED BY <1>2, <1>4, <1>5, <1>6, <1>7 DEF StubInv

\* What every step of a request at work finds.
LEMMA Here ==
    ASSUME StubInv, NEW r \in Requests, ~At(r, "idle")
    PROVE  /\ Shape(req[r]) /\ HostFine(dropIn, link, active, backup, faults)
           /\ Careful => GuardRest(dropIn, backup) /\ Guarded(req[r], dropIn, link, backup, faults)
           /\ LinksMade => Linked(req[r], dropIn, link, active)
           /\ LinksMade /\ crashes = 0 => Resolving(req[r], dropIn, link)
           /\ Sound /\ Calm(crashes, before) => Returning(req[r], dropIn, link, backup, before)
BY DEF StubInv, Typed, At, IdleRequest

\* On to the next operation.
LEMMA Going ==
    ASSUME StubInv, NEW r \in Requests, ~At(r, "idle"), NEW at \in Pcs, GoTo(r, at)
    PROVE  \E x \in RequestRecord :
              /\ req' = [req EXCEPT ![r] = x] /\ x.pc = at /\ x.op = req[r].op
              /\ x.b = req[r].b /\ x.cancelled = req[r].cancelled
<1> DEFINE x == [req[r] EXCEPT !.pc = at]
<1>1. req[r] \in RequestRecord /\ DOMAIN req = Requests
  BY Here DEF Shape, StubInv, Typed
<1>2. /\ x \in RequestRecord /\ x.pc = at /\ x.op = req[r].op
      /\ x.b = req[r].b /\ x.cancelled = req[r].cancelled
  BY <1>1 DEF RequestRecord
<1>3. req' = [req EXCEPT ![r] = x]
  BY <1>1 DEF GoTo
<1> QED BY <1>2, <1>3

\* A failure is counted.
LEMMA Counted ==
    ASSUME NEW kind, Fails(kind), faults \in Nat
    PROVE  /\ faults' = faults + 1 /\ faults' \in Nat /\ faults' <= MaxFaults /\ faults' >= 1
           /\ kind \in Faults /\ faults < MaxFaults
BY StubAssumption DEF Fails
-------------------------------------------------------------------------------
(* The actions. *)

LEMMA Step_BeginDisable ==
    ASSUME StubInv, NEW r \in Requests, BeginDisable(r)
    PROVE  StubInv'
<1>0. /\ HostFine(dropIn, link, active, backup, faults) /\ (OneAtATime => Quiet)
      /\ FreshPage => dropIn = "none"
      /\ before' = IF backup = NoBackup THEN [dropIn |-> dropIn, link |-> link] ELSE before
      /\ UNCHANGED <<dropIn, link, active, backup, crashes>>
  BY DEF BeginDisable, StubInv, Typed, Available, hostVars
<1>1. PICK b \in Backup :
         /\ Snapshot(b)
         /\ req' = [req EXCEPT ![r] = [pc |-> "saveFirst", op |-> "disable", b |-> b,
                                       cancelled |-> FALSE]]
  BY DEF BeginDisable
<1>2. /\ HostFine(dropIn, link, active, backup, faults')
      /\ b.link = link /\ ~b.switched /\ faults <= faults'
      /\ dropIn = "none" => b.dropIn = dropIn
  BY <1>0, <1>1, Counted DEF Snapshot, HostFine
<1> DEFINE x == [pc |-> "saveFirst", op |-> "disable", b |-> b, cancelled |-> FALSE]
<1>3. /\ x \in RequestRecord /\ x.pc = "saveFirst" /\ x.op = "disable" /\ x.b = b
      /\ ~x.cancelled /\ req' = [req EXCEPT ![r] = x]
  BY <1>1 DEF RequestRecord, Pcs
<1> HIDE DEF x
<1>4. Shape(x)
  BY <1>2, <1>3 DEF Shape
<1>5. Careful => /\ GuardRest(dropIn, backup) /\ dropIn = "none" /\ Quiet
                 /\ Guarded(x, dropIn, link, backup, faults')
  BY <1>0, <1>2, <1>3 DEF StubInv, Careful, Guarded, GuardRest, Undoing
<1>6. LinksMade /\ crashes = 0 => Resolving(x, dropIn, link)
  BY <1>3, <1>5 DEF LinksMade, StubInv, ResolveRest, Resolving
<1>7. Sound /\ Calm(crashes, before') => Returning(x, dropIn, link, backup, before')
  <2> SUFFICES ASSUME Sound, Calm(crashes, before') PROVE Returning(x, dropIn, link, backup, before')
    OBVIOUS
  <2>1. dropIn = "none" /\ b.dropIn = dropIn /\ Quiet
    BY <1>2, <1>5 DEF Sound
  <2>2. Found(b, before') /\ (backup # NoBackup => Found(backup, before'))
    <3>1. CASE backup = NoBackup
      BY <1>0, <1>2, <2>1, <3>1 DEF Found
    <3>2. CASE backup # NoBackup
      <4>1. before' = before /\ ReturnRest(dropIn, link, backup, before)
        BY <1>0, <2>1, <3>2 DEF StubInv
      <4> QED BY <1>2, <2>1, <3>2, <4>1 DEF ReturnRest, Found, Kept
    <3> QED BY <3>1, <3>2
  <2> QED BY <1>2, <1>3, <2>1, <2>2 DEF Returning
<1> QED BY <1>0, <1>2, <1>3, <1>4, <1>5, <1>6, <1>7, Moved

LEMMA Step_BeginRestore ==
    ASSUME StubInv, NEW r \in Requests, BeginRestore(r)
    PROVE  StubInv'
<1> DEFINE x == [pc |-> "revertDropIn", op |-> "restore", b |-> backup, cancelled |-> FALSE]
<1>0. /\ HostFine(dropIn, link, active, backup, faults) /\ (OneAtATime => Quiet)
      /\ req' = [req EXCEPT ![r] = x] /\ backup # NoBackup
      /\ UNCHANGED <<dropIn, link, active, backup, faults, crashes, before>>
  BY DEF BeginRestore, StubInv, Typed, Available, hostVars
<1>1. backup \in Backup /\ (backup.switched => backup.link = "stub")
  BY <1>0 DEF HostFine
<1>2. /\ x \in RequestRecord /\ x.pc = "revertDropIn" /\ x.op = "restore" /\ x.b = backup
      /\ ~x.cancelled
  BY <1>1 DEF RequestRecord, Pcs
<1> HIDE DEF x
<1>3. Shape(x)
  BY <1>1, <1>2 DEF Shape, Undoing
<1>4. Careful => /\ GuardRest(dropIn, backup) /\ Quiet
                 /\ Guarded(x, dropIn, link, backup, faults)
  BY <1>0, <1>2 DEF StubInv, Careful, Guarded, GuardRest, Undoing
<1>5. LinksMade /\ crashes = 0 => Resolving(x, dropIn, link)
  BY <1>2, <1>4 DEF LinksMade, StubInv, ResolveRest, Resolving
<1>6. Sound /\ Calm(crashes, before) => Returning(x, dropIn, link, backup, before)
  BY <1>0, <1>2, <1>4 DEF Sound, StubInv, ReturnRest, Kept, Returning
<1> QED BY <1>0, <1>2, <1>3, <1>4, <1>5, <1>6, Moved

LEMMA Step_Cancel ==
    ASSUME StubInv, NEW r \in Requests, Cancel(r)
    PROVE  StubInv'
<1> DEFINE x == [req[r] EXCEPT !.cancelled = TRUE]
<1>0. /\ ~At(r, "idle") /\ req' = [req EXCEPT ![r].cancelled = TRUE] /\ Fails("cancel")
      /\ UNCHANGED <<dropIn, link, active, backup, crashes, before>>
  BY DEF Cancel, hostVars
<1>1. /\ req[r] \in RequestRecord /\ req' = [req EXCEPT ![r] = x]
      /\ HostFine(dropIn, link, active, backup, faults)
  BY <1>0, Here DEF Shape, StubInv, Typed
<1>2. /\ x \in RequestRecord /\ x.pc = req[r].pc /\ x.op = req[r].op /\ x.b = req[r].b
      /\ x.cancelled
  BY <1>1 DEF RequestRecord
<1> HIDE DEF x
<1>3. faults' \in Nat /\ faults' <= MaxFaults /\ faults' >= 1
  BY <1>0, <1>1, Counted DEF HostFine
<1>4. Shape(x) /\ HostFine(dropIn, link, active, backup, faults') /\ x.pc # "idle"
  BY <1>0, <1>1, <1>2, <1>3, Here DEF Shape, HostFine, At
<1>5. Careful => GuardRest(dropIn, backup) /\ Guarded(x, dropIn, link, backup, faults')
  BY <1>0, <1>2, <1>3, Here DEF Guarded
<1>6. LinksMade /\ crashes = 0 => Resolving(x, dropIn, link)
  BY <1>0, <1>2, Here DEF Resolving
<1>7. Sound /\ Calm(crashes, before) => Returning(x, dropIn, link, backup, before)
  BY <1>0, <1>2, Here DEF Returning
<1>8. LinksMade => /\ x.pc = "revertSymlink" => link = "gone"
                   /\ x.pc = "clear" /\ ~x.cancelled => active = dropIn
  BY <1>0, <1>2, Here DEF Linked
<1> QED BY <1>0, <1>1, <1>4, <1>5, <1>6, <1>7, <1>8, Moved

\* A request that ends leaves the host at rest.
LEMMA Ended ==
    ASSUME StubInv, NEW r \in Requests, ~At(r, "idle"), NEW what, End(r, what), UNCHANGED crashes,
           HostFine(dropIn', link', active', backup', faults'),
           Careful => GuardRest(dropIn', backup'),
           LinksMade /\ crashes = 0 => ResolveRest(dropIn', link'),
           Sound /\ Calm(crashes, before') => ReturnRest(dropIn', link', backup', before')
    PROVE  StubInv'
<1>1. IdleRequest.pc = "idle" /\ req' = [req EXCEPT ![r] = IdleRequest]
  BY DEF IdleRequest, End
<1> QED BY <1>1, Moved

LEMMA Step_SaveFirst ==
    ASSUME StubInv, NEW r \in Requests, SaveFirst(r)
    PROVE  StubInv'
<1>0. /\ req[r].pc = "saveFirst" /\ ~At(r, "idle")
      /\ UNCHANGED <<dropIn, link, active, crashes, before>>
  BY DEF SaveFirst, At, hostVars
<1>h. /\ Shape(req[r]) /\ HostFine(dropIn, link, active, backup, faults)
      /\ Careful => GuardRest(dropIn, backup) /\ Guarded(req[r], dropIn, link, backup, faults)
      /\ LinksMade /\ crashes = 0 => Resolving(req[r], dropIn, link)
      /\ Sound /\ Calm(crashes, before) => Returning(req[r], dropIn, link, backup, before)
  BY <1>0, Here
<1>1. CASE backup' = req[r].b /\ Go(r, "writeDropIn") /\ UNCHANGED faults
  <2>1. PICK x \in RequestRecord :
           /\ req' = [req EXCEPT ![r] = x] /\ x.pc = "writeDropIn" /\ x.op = req[r].op
           /\ x.b = req[r].b /\ x.cancelled = req[r].cancelled
    BY <1>0, <1>1, Going DEF Go, Pcs
  <2>2. /\ req[r].b \in Backup /\ backup' # NoBackup
        /\ Shape(x) /\ HostFine(dropIn, link, active, backup', faults)
    BY <1>0, <1>h, <1>1, <2>1 DEF Shape, Undoing, RequestRecord, HostFine, NoBackup, Backup, Links
  <2>3. Careful => GuardRest(dropIn, backup') /\ Guarded(x, dropIn, link, backup', faults)
    BY <1>0, <1>1, <1>h, <2>1, <2>2 DEF Guarded, GuardRest, Undoing
  <2>4. LinksMade /\ crashes = 0 => Resolving(x, dropIn, link)
    BY <1>0, <1>h, <2>1 DEF Resolving
  <2>5. Sound /\ Calm(crashes, before) => Returning(x, dropIn, link, backup', before)
    BY <1>0, <1>1, <1>h, <2>1 DEF Returning
  <2> QED BY <1>0, <1>1, <2>1, <2>2, <2>3, <2>4, <2>5, Moved
<1>2. CASE Fails("save") /\ UNCHANGED backup /\ End(r, "error")
  <2>1. /\ HostFine(dropIn, link, active, backup, faults') /\ "save" \in Faults
    BY <1>h, <1>2, Counted DEF HostFine
  <2>2. LinksMade /\ crashes = 0 => ResolveRest(dropIn, link)
    BY <1>0, <1>h DEF Resolving, ResolveRest
  <2> QED BY <1>0, <1>h, <1>2, <2>1, <2>2, Ended DEF Sound
<1> QED BY <1>1, <1>2 DEF SaveFirst

LEMMA Step_WriteDropIn ==
    ASSUME StubInv, NEW r \in Requests, WriteDropIn(r)
    PROVE  StubInv'
<1>0. /\ req[r].pc = "writeDropIn" /\ ~At(r, "idle")
      /\ UNCHANGED <<link, active, backup, crashes, before>>
  BY DEF WriteDropIn, At
<1>h. /\ Shape(req[r]) /\ HostFine(dropIn, link, active, backup, faults)
      /\ Careful => GuardRest(dropIn, backup) /\ Guarded(req[r], dropIn, link, backup, faults)
      /\ LinksMade /\ crashes = 0 => Resolving(req[r], dropIn, link)
      /\ Sound /\ Calm(crashes, before) => Returning(req[r], dropIn, link, backup, before)
  BY <1>0, Here
<1>1. CASE /\ ~req[r].cancelled /\ dropIn' = "off" /\ UNCHANGED faults
           /\ Go(r, IF ToSwitch(req[r].b) THEN "unlink" ELSE "restart")
  <2> DEFINE at == IF ToSwitch(req[r].b) THEN "unlink" ELSE "restart"
  <2>1. PICK x \in RequestRecord :
           /\ req' = [req EXCEPT ![r] = x] /\ x.pc = at /\ x.op = req[r].op
           /\ x.b = req[r].b /\ x.cancelled = req[r].cancelled
    BY <1>0, <1>1, Going DEF Go, Pcs
  <2>2. /\ at \in {"unlink", "restart"} /\ (at = "unlink" <=> x.b.link = "stub")
        /\ Shape(x) /\ HostFine(dropIn', link, active, backup, faults)
    BY <1>0, <1>h, <1>1, <2>1 DEF Shape, Undoing, HostFine, DropIns, ToSwitch
  <2> HIDE DEF at
  <2>3. Careful => GuardRest(dropIn', backup) /\ Guarded(x, dropIn', link, backup, faults)
    BY <1>0, <1>h, <2>1, <2>2 DEF Guarded, GuardRest, Undoing
  <2>4. LinksMade /\ crashes = 0 => Resolving(x, dropIn', link)
    BY <1>0, <1>h, <2>1, <2>2 DEF LinksMade, Guarded, Resolving
  <2>5. Sound /\ Calm(crashes, before) => Returning(x, dropIn', link, backup, before)
    BY <1>0, <1>1, <1>h, <2>1, <2>2 DEF Returning
  <2>6. x.pc # "idle"
    BY <2>1, <2>2
  <2> QED BY <1>0, <1>1, <2>1, <2>2, <2>3, <2>4, <2>5, <2>6, Moved
<1>2. CASE /\ Fails("write") \/ (req[r].cancelled /\ UNCHANGED faults)
           /\ UNCHANGED dropIn /\ Go(r, "revertDropIn")
  <2>1. PICK x \in RequestRecord :
           /\ req' = [req EXCEPT ![r] = x] /\ x.pc = "revertDropIn" /\ x.op = req[r].op
           /\ x.b = req[r].b /\ x.cancelled = req[r].cancelled
    BY <1>0, <1>2, Going DEF Go, Pcs
  <2>2. /\ HostFine(dropIn, link, active, backup, faults') /\ faults <= faults'
        /\ faults' >= 1 \/ req[r].cancelled
    BY <1>h, <1>2, Counted DEF HostFine
  <2>3. Shape(x)
    BY <1>0, <1>h, <2>1 DEF Shape, Undoing
  <2>4. Careful => GuardRest(dropIn, backup) /\ Guarded(x, dropIn, link, backup, faults')
    <3>1. Careful => faults' >= 1
      BY <1>h, <2>2 DEF Guarded, HostFine
    <3> QED BY <1>0, <1>h, <2>1, <3>1 DEF Guarded, Undoing
  <2>5. LinksMade /\ crashes = 0 => Resolving(x, dropIn, link)
    BY <1>0, <1>h, <2>1 DEF Resolving
  <2>6. Sound /\ Calm(crashes, before) => Returning(x, dropIn, link, backup, before)
    BY <1>0, <1>h, <2>1 DEF Returning, Kept
  <2> QED BY <1>0, <1>2, <2>1, <2>2, <2>3, <2>4, <2>5, <2>6, Moved
<1> QED BY <1>1, <1>2 DEF WriteDropIn

\* A disable that cannot go on is undone, with the host as it is.
LEMMA Undone ==
    ASSUME StubInv, NEW r \in Requests, ~At(r, "idle"), Go(r, "revertDropIn"),
           UNCHANGED <<dropIn, link, backup, crashes, before>>, active' \in DropIns,
           HostFine(dropIn, link, active, backup, faults'), faults <= faults',
           Careful => faults' >= 1,
           LinksMade /\ crashes = 0 => link # "gone" /\ req[r].op # "restore",
           Sound /\ Calm(crashes, before) => /\ ~req[r].b.switched => link = req[r].b.link
                                   /\ req[r].op # "restore",
           req[r].pc \in {"unlink", "symlink", "restart"}
    PROVE  StubInv'
<1>h. /\ Shape(req[r]) /\ HostFine(dropIn, link, active, backup, faults)
      /\ Careful => GuardRest(dropIn, backup) /\ Guarded(req[r], dropIn, link, backup, faults)
      /\ Sound /\ Calm(crashes, before) => Returning(req[r], dropIn, link, backup, before)
  BY Here
<1>1. PICK x \in RequestRecord :
         /\ req' = [req EXCEPT ![r] = x] /\ x.pc = "revertDropIn" /\ x.op = req[r].op
         /\ x.b = req[r].b /\ x.cancelled = req[r].cancelled
  BY Going DEF Go, Pcs
<1>2. Shape(x)
  BY <1>h, <1>1 DEF Shape, Undoing
<1>3. Careful => GuardRest(dropIn, backup) /\ Guarded(x, dropIn, link, backup, faults')
  BY <1>h, <1>1 DEF Guarded, Undoing
<1>4. LinksMade /\ crashes = 0 => Resolving(x, dropIn, link)
  BY <1>1 DEF Resolving
<1>5. Sound /\ Calm(crashes, before) => Returning(x, dropIn, link, backup, before)
  BY <1>h, <1>1 DEF Returning
<1>6. HostFine(dropIn, link, active', backup, faults') /\ x.pc # "idle"
  BY <1>1 DEF HostFine
<1> QED BY <1>1, <1>2, <1>3, <1>4, <1>5, <1>6, Moved

LEMMA Step_Unlink ==
    ASSUME StubInv, NEW r \in Requests, Unlink(r)
    PROVE  StubInv'
<1>0. /\ req[r].pc = "unlink" /\ ~At(r, "idle")
      /\ UNCHANGED <<dropIn, active, backup, crashes, before>>
  BY DEF Unlink, At
<1>h. /\ Shape(req[r]) /\ HostFine(dropIn, link, active, backup, faults)
      /\ Careful => GuardRest(dropIn, backup) /\ Guarded(req[r], dropIn, link, backup, faults)
      /\ Sound /\ Calm(crashes, before) => Returning(req[r], dropIn, link, backup, before)
  BY <1>0, Here
<1>s. Careful => link = "stub"
  BY <1>0, <1>h DEF Guarded, Shape
<1>1. CASE link # "gone" /\ link' = "gone" /\ UNCHANGED faults /\ Go(r, "symlink")
  <2>1. PICK x \in RequestRecord :
           /\ req' = [req EXCEPT ![r] = x] /\ x.pc = "symlink" /\ x.op = req[r].op
           /\ x.b = req[r].b /\ x.cancelled = req[r].cancelled
    BY <1>0, <1>1, Going DEF Go, Pcs
  <2>2. Shape(x) /\ HostFine(dropIn, link', active, backup, faults)
    BY <1>0, <1>h, <1>1, <2>1 DEF Shape, Undoing, HostFine, Links
  <2>3. Careful => GuardRest(dropIn, backup) /\ Guarded(x, dropIn, link', backup, faults)
    BY <1>0, <1>h, <1>1, <2>1 DEF Guarded, Undoing
  <2>4. LinksMade /\ crashes = 0 => Resolving(x, dropIn, link')
    BY <2>1 DEF Resolving
  <2>5. Sound /\ Calm(crashes, before) => Returning(x, dropIn, link', backup, before)
    BY <1>0, <1>h, <1>1, <2>1 DEF Returning
  <2> QED BY <1>0, <1>1, <2>1, <2>2, <2>3, <2>4, <2>5, Moved
<1>2. CASE /\ Fails("unlink") \/ (link = "gone" /\ UNCHANGED faults)
           /\ UNCHANGED link /\ Go(r, "revertDropIn")
  <2>1. HostFine(dropIn, link, active, backup, faults') /\ faults <= faults'
    BY <1>h, <1>2, Counted DEF HostFine
  <2>2. Careful => Fails("unlink") /\ faults' >= 1 /\ "unlink" \in Faults
    BY <1>h, <1>s, <1>2, Counted DEF HostFine
  <2>3. req[r].op # "restore"
    BY <1>0, <1>h DEF Shape, Undoing
  <2>4. LinksMade /\ crashes = 0 => link # "gone" /\ req[r].op # "restore"
    BY <1>s, <2>3 DEF LinksMade
  <2>5. Sound /\ Calm(crashes, before) =>
           (~req[r].b.switched => link = req[r].b.link) /\ req[r].op # "restore"
    BY <1>0, <1>h, <2>3 DEF Returning
  <2>6. active' \in DropIns
    BY <1>0, <1>h DEF HostFine
  <2> QED BY <1>0, <1>2, <2>1, <2>2, <2>4, <2>5, <2>6, Undone
<1> QED BY <1>1, <1>2 DEF Unlink

LEMMA Step_Symlink ==
    ASSUME StubInv, NEW r \in Requests, Symlink(r)
    PROVE  StubInv'
<1>0. /\ req[r].pc = "symlink" /\ ~At(r, "idle")
      /\ UNCHANGED <<dropIn, active, backup, crashes, before>>
  BY DEF Symlink, At
<1>h. /\ Shape(req[r]) /\ HostFine(dropIn, link, active, backup, faults)
      /\ Careful => GuardRest(dropIn, backup) /\ Guarded(req[r], dropIn, link, backup, faults)
      /\ Sound /\ Calm(crashes, before) => Returning(req[r], dropIn, link, backup, before)
  BY <1>0, Here
<1>1. CASE /\ link = "gone" /\ link' = "runtime" /\ UNCHANGED <<faults, answer>>
           /\ req' = [req EXCEPT ![r].pc = "restart", ![r].b.switched = TRUE]
  <2> DEFINE b == [req[r].b EXCEPT !.switched = TRUE]
             x == [req[r] EXCEPT !.pc = "restart", !.b = b]
  <2>1. req' = [req EXCEPT ![r] = x]
    BY <1>1 DEF StubInv, Typed
  <2>2. req[r] \in RequestRecord /\ req[r].b \in Backup
    BY <1>h DEF Shape, RequestRecord
  <2>3. b \in Backup /\ b.dropIn = req[r].b.dropIn /\ b.link = req[r].b.link /\ b.switched
    BY <2>2 DEF Backup
  <2> HIDE DEF b
  <2>4. /\ x \in RequestRecord /\ x.pc = "restart" /\ x.op = req[r].op /\ x.b = b
        /\ x.cancelled = req[r].cancelled
    BY <2>2, <2>3 DEF RequestRecord, Pcs
  <2> HIDE DEF x
  <2>5. Shape(x) /\ HostFine(dropIn, link', active, backup, faults)
    BY <1>0, <1>h, <1>1, <2>3, <2>4 DEF Shape, Undoing, HostFine, Links
  <2>6. Careful => GuardRest(dropIn, backup) /\ Guarded(x, dropIn, link', backup, faults)
    BY <1>0, <1>h, <2>3, <2>4 DEF Guarded, Undoing
  <2>7. LinksMade /\ crashes = 0 => Resolving(x, dropIn, link')
    BY <1>1, <2>4 DEF Resolving
  <2>8. Sound /\ Calm(crashes, before) => Returning(x, dropIn, link', backup, before)
    <3>1. Sound /\ Calm(crashes, before) => dropIn = "off"
      BY <1>0, <1>h DEF Returning
    <3> QED BY <1>0, <1>h, <2>3, <2>4, <2>5, <3>1 DEF Returning, Found, Shape, Undoing
  <2> QED BY <1>0, <1>1, <2>1, <2>4, <2>5, <2>6, <2>7, <2>8, Moved
<1>2. CASE /\ Fails("symlink") \/ (link # "gone" /\ UNCHANGED faults)
           /\ UNCHANGED link /\ Go(r, "revertDropIn")
  <2>1. HostFine(dropIn, link, active, backup, faults') /\ faults <= faults'
    BY <1>h, <1>2, Counted DEF HostFine
  <2>2. Careful => link = "gone"
    BY <1>0, <1>h DEF Guarded
  <2>3. Careful => faults' >= 1 /\ "symlink" \in Faults
    BY <1>h, <1>2, <2>2, Counted DEF HostFine
  <2> QED BY <1>0, <1>h, <1>2, <2>1, <2>3, Undone DEF LinksMade, Sound, HostFine
<1> QED BY <1>1, <1>2 DEF Symlink

LEMMA Step_Restart ==
    ASSUME StubInv, NEW r \in Requests, Restart(r)
    PROVE  StubInv'
<1>0. /\ req[r].pc = "restart" /\ ~At(r, "idle")
      /\ UNCHANGED <<dropIn, link, backup, crashes, before>>
  BY DEF Restart, At
<1>h. /\ Shape(req[r]) /\ HostFine(dropIn, link, active, backup, faults)
      /\ Careful => GuardRest(dropIn, backup) /\ Guarded(req[r], dropIn, link, backup, faults)
      /\ LinksMade /\ crashes = 0 => Resolving(req[r], dropIn, link)
      /\ Sound /\ Calm(crashes, before) => Returning(req[r], dropIn, link, backup, before)
  BY <1>0, Here
<1>1. CASE ~req[r].cancelled /\ active' = dropIn /\ UNCHANGED faults /\ Go(r, "saveSecond")
  <2>1. PICK x \in RequestRecord :
           /\ req' = [req EXCEPT ![r] = x] /\ x.pc = "saveSecond" /\ x.op = req[r].op
           /\ x.b = req[r].b /\ x.cancelled = req[r].cancelled
    BY <1>0, <1>1, Going DEF Go, Pcs
  <2>2. Shape(x) /\ HostFine(dropIn, link, active', backup, faults)
    BY <1>0, <1>h, <1>1, <2>1 DEF Shape, Undoing, HostFine
  <2>3. Careful => GuardRest(dropIn, backup) /\ Guarded(x, dropIn, link, backup, faults)
    BY <1>0, <1>h, <2>1 DEF Guarded, Undoing
  <2>4. LinksMade /\ crashes = 0 => Resolving(x, dropIn, link)
    BY <1>0, <1>h, <2>1 DEF Resolving
  <2>5. Sound /\ Calm(crashes, before) => Returning(x, dropIn, link, backup, before)
    BY <1>0, <1>h, <2>1 DEF Returning
  <2> QED BY <1>0, <1>1, <2>1, <2>2, <2>3, <2>4, <2>5, Moved
<1>2. CASE /\ Fails("restart") \/ (req[r].cancelled /\ UNCHANGED faults)
           /\ active' \in {active, dropIn} /\ Go(r, "revertDropIn")
  <2>1. HostFine(dropIn, link, active, backup, faults') /\ faults <= faults' /\ active' \in DropIns
    BY <1>h, <1>2, Counted DEF HostFine
  <2>2. Careful => faults' >= 1
    BY <1>h, <1>2, Counted DEF HostFine, Guarded
  <2>3. req[r].op # "restore"
    BY <1>0, <1>h DEF Shape, Undoing
  <2>4. LinksMade /\ crashes = 0 => link # "gone"
    BY <1>0, <1>h DEF Resolving
  <2>5. Sound /\ Calm(crashes, before) => (~req[r].b.switched => link = req[r].b.link)
    BY <1>0, <1>h DEF Returning
  <2> QED BY <1>0, <1>2, <2>1, <2>2, <2>3, <2>4, <2>5, Undone
<1> QED BY <1>1, <1>2 DEF Restart

LEMMA Step_SaveSecond ==
    ASSUME StubInv, NEW r \in Requests, SaveSecond(r)
    PROVE  StubInv'
<1>0. /\ req[r].pc = "saveSecond" /\ ~At(r, "idle")
      /\ UNCHANGED <<dropIn, link, active, crashes, before>>
  BY DEF SaveSecond, At, hostVars
<1>h. /\ Shape(req[r]) /\ HostFine(dropIn, link, active, backup, faults)
      /\ Careful => GuardRest(dropIn, backup) /\ Guarded(req[r], dropIn, link, backup, faults)
      /\ LinksMade /\ crashes = 0 => Resolving(req[r], dropIn, link)
      /\ Sound /\ Calm(crashes, before) => Returning(req[r], dropIn, link, backup, before)
  BY <1>0, Here
<1>1. LinksMade /\ crashes = 0 => ResolveRest(dropIn, link)
  BY <1>0, <1>h DEF Resolving, ResolveRest
<1>2. CASE backup' = req[r].b /\ UNCHANGED faults /\ End(r, "disabled")
  <2>1. req[r].b \in Backup /\ HostFine(dropIn, link, active, backup', faults)
    BY <1>h, <1>2 DEF Shape, RequestRecord, HostFine
  <2>2. backup' # NoBackup
    BY <1>2, <2>1 DEF NoBackup, Backup, Links
  <2>3. Careful => GuardRest(dropIn, backup')
    BY <1>h, <1>2, <2>2 DEF Guarded, GuardRest
  <2>4. Sound /\ Calm(crashes, before) => ReturnRest(dropIn, link, backup', before)
    BY <1>0, <1>h, <1>2 DEF Returning, ReturnRest, Kept
  <2> QED BY <1>0, <1>1, <1>2, <2>1, <2>3, <2>4, Ended
<1>3. CASE Fails("save") /\ UNCHANGED backup /\ End(r, "error")
  <2>1. HostFine(dropIn, link, active, backup, faults') /\ "save" \in Faults
    BY <1>h, <1>3, Counted DEF HostFine
  <2> QED BY <1>0, <1>h, <1>1, <1>3, <2>1, Ended DEF Sound
<1> QED BY <1>2, <1>3 DEF SaveSecond

\* A revert that fails: of a disable it is as good as done, a restore answers with an error.
LEMMA Failed ==
    ASSUME StubInv, NEW r \in Requests, ~At(r, "idle"), req[r].pc \in Undoing, RevertFailed(r),
           UNCHANGED <<dropIn, link, backup, crashes, before>>, active' \in DropIns,
           HostFine(dropIn, link, active, backup, faults'), faults <= faults',
           Careful => (req[r].op = "disable" => dropIn # "off"),
           LinksMade => (req[r].op = "disable" /\ ~req[r].cancelled => active' = dropIn),
           LinksMade /\ crashes = 0 => ResolveRest(dropIn, link),
           Sound /\ Calm(crashes, before) =>
               /\ req[r].op = "disable" => dropIn = req[r].b.dropIn /\ link = req[r].b.link
               /\ req[r].op = "restore" => Kept(req[r].b, dropIn, link)
    PROVE  StubInv'
<1>h. /\ Shape(req[r]) /\ HostFine(dropIn, link, active, backup, faults)
      /\ Careful => GuardRest(dropIn, backup) /\ Guarded(req[r], dropIn, link, backup, faults)
      /\ Sound /\ Calm(crashes, before) => Returning(req[r], dropIn, link, backup, before)
  BY Here
<1>f. HostFine(dropIn, link, active', backup, faults')
  BY DEF HostFine
<1>1. CASE req[r].op = "disable"
  <2>1. PICK x \in RequestRecord :
           /\ req' = [req EXCEPT ![r] = x] /\ x.pc = "clear" /\ x.op = req[r].op
           /\ x.b = req[r].b /\ x.cancelled = req[r].cancelled
    BY <1>1, Going DEF RevertFailed, Go, Pcs
  <2>2. Shape(x)
    BY <1>h, <1>1, <2>1 DEF Shape, Undoing
  <2>3. Careful => GuardRest(dropIn, backup) /\ Guarded(x, dropIn, link, backup, faults')
    <3>1. Careful => faults' >= 1
      BY <1>h, <1>1 DEF Guarded, HostFine
    <3>2. req[r].pc # "saveFirst"
      BY DEF Undoing
    <3> QED BY <1>h, <1>1, <2>1, <3>1, <3>2 DEF Guarded, Undoing
  <2>4. LinksMade /\ crashes = 0 => Resolving(x, dropIn, link)
    BY <2>1 DEF Resolving, ResolveRest
  <2>5. Sound /\ Calm(crashes, before) => Returning(x, dropIn, link, backup, before)
    BY <1>h, <1>1, <2>1 DEF Returning
  <2>6. LinksMade => (~x.cancelled => active' = dropIn)
    BY <1>1, <2>1
  <2> QED BY <1>f, <2>1, <2>2, <2>3, <2>4, <2>5, <2>6, Moved
<1>2. CASE req[r].op = "restore"
  <2>1. End(r, "error")
    BY <1>2 DEF RevertFailed
  <2>2. Sound /\ Calm(crashes, before) => ReturnRest(dropIn, link, backup, before)
    BY <1>h, <1>2 DEF Returning, ReturnRest
  <2> QED BY <1>f, <1>h, <2>1, <2>2, Ended
<1>3. req[r].op \in {"disable", "restore"}
  BY <1>h DEF Shape, RequestRecord
<1> QED BY <1>1, <1>2, <1>3

LEMMA Step_RevertDropIn ==
    ASSUME StubInv, NEW r \in Requests, RevertDropIn(r)
    PROVE  StubInv'
<1>0. /\ req[r].pc = "revertDropIn" /\ ~At(r, "idle")
      /\ UNCHANGED <<link, active, backup, crashes, before>>
  BY DEF RevertDropIn, At
<1>h. /\ Shape(req[r]) /\ HostFine(dropIn, link, active, backup, faults)
      /\ Careful => GuardRest(dropIn, backup) /\ Guarded(req[r], dropIn, link, backup, faults)
      /\ LinksMade /\ crashes = 0 => Resolving(req[r], dropIn, link)
      /\ Sound /\ Calm(crashes, before) => Returning(req[r], dropIn, link, backup, before)
  BY <1>0, Here
<1>1. CASE /\ dropIn' = req[r].b.dropIn /\ UNCHANGED faults
           /\ Go(r, IF req[r].b.switched THEN "revertUnlink" ELSE "revertRestart")
  <2> DEFINE at == IF req[r].b.switched THEN "revertUnlink" ELSE "revertRestart"
  <2>1. PICK x \in RequestRecord :
           /\ req' = [req EXCEPT ![r] = x] /\ x.pc = at /\ x.op = req[r].op
           /\ x.b = req[r].b /\ x.cancelled = req[r].cancelled
    BY <1>0, <1>1, Going DEF Go, Pcs
  <2>2. /\ at \in {"revertUnlink", "revertRestart"} /\ (at = "revertUnlink" <=> x.b.switched)
        /\ dropIn' = x.b.dropIn /\ dropIn' \in DropIns
    BY <1>h, <1>1, <2>1 DEF Shape, RequestRecord, Backup
  <2> HIDE DEF at
  <2>3. Shape(x) /\ HostFine(dropIn', link, active, backup, faults)
    BY <1>0, <1>h, <1>1, <2>1, <2>2 DEF Shape, Undoing, HostFine
  <2>4. Careful => GuardRest(dropIn', backup) /\ Guarded(x, dropIn', link, backup, faults)
    BY <1>0, <1>h, <2>1, <2>2 DEF Guarded, GuardRest, Undoing
  <2>5. LinksMade /\ crashes = 0 => Resolving(x, dropIn', link)
    BY <1>0, <1>h, <2>1, <2>2 DEF Resolving
  <2>6. Sound /\ Calm(crashes, before) => Returning(x, dropIn', link, backup, before)
    BY <1>0, <1>h, <2>1, <2>2 DEF Returning
  <2>7. x.pc \notin {"idle", "revertSymlink", "clear"}
    BY <2>1, <2>2
  <2> QED BY <1>0, <1>1, <2>1, <2>3, <2>4, <2>5, <2>6, <2>7, Moved
<1>2. CASE Fails("write") /\ UNCHANGED dropIn /\ RevertFailed(r)
  <2>1. /\ HostFine(dropIn, link, active, backup, faults') /\ faults <= faults'
        /\ "write" \in Faults /\ faults \in Nat /\ faults < MaxFaults
    BY <1>h, <1>2, Counted DEF HostFine
  <2>2. Careful => req[r].op # "disable"
    <3> SUFFICES ASSUME Careful, req[r].op = "disable" PROVE FALSE
      OBVIOUS
    <3>1. faults >= 1
      BY <1>0, <1>h DEF Guarded, Undoing
    <3>2. MaxFaults <= 1 /\ MaxFaults \in Nat
      BY <2>1, StubAssumption DEF Careful
    <3> QED BY <2>1, <3>1, <3>2
  <2>3. req[r].op \in {"disable", "restore"}
    BY <1>h DEF Shape, RequestRecord
  <2>4. LinksMade /\ crashes = 0 => ResolveRest(dropIn, link)
    BY <1>0, <1>h, <2>2, <2>3 DEF LinksMade, Resolving, ResolveRest
  <2>5. Sound /\ Calm(crashes, before) => Kept(req[r].b, dropIn, link)
    BY <1>0, <1>h, <2>2, <2>3 DEF Sound, Returning
  <2>6. req[r].pc \in Undoing /\ active' \in DropIns
    BY <1>0, <1>h DEF Undoing, HostFine
  <2>7. LinksMade \/ Sound => req[r].op # "disable"
    BY <2>2 DEF LinksMade, Sound
  <2> QED BY <1>0, <1>2, <2>1, <2>2, <2>4, <2>5, <2>6, <2>7, Failed
<1> QED BY <1>1, <1>2 DEF RevertDropIn

LEMMA Step_RevertUnlink ==
    ASSUME StubInv, NEW r \in Requests, RevertUnlink(r)
    PROVE  StubInv'
<1>0. /\ req[r].pc = "revertUnlink" /\ ~At(r, "idle") /\ Go(r, "revertSymlink")
      /\ UNCHANGED <<dropIn, active, backup, crashes, before>>
  BY DEF RevertUnlink, At
<1>h. /\ Shape(req[r]) /\ HostFine(dropIn, link, active, backup, faults)
      /\ Careful => GuardRest(dropIn, backup) /\ Guarded(req[r], dropIn, link, backup, faults)
      /\ Sound /\ Calm(crashes, before) => Returning(req[r], dropIn, link, backup, before)
  BY <1>0, Here
<1>1. PICK x \in RequestRecord :
         /\ req' = [req EXCEPT ![r] = x] /\ x.pc = "revertSymlink" /\ x.op = req[r].op
         /\ x.b = req[r].b /\ x.cancelled = req[r].cancelled
  BY <1>0, Going DEF Go, Pcs
<1>2. /\ HostFine(dropIn, link', active, backup, faults') /\ faults <= faults'
      /\ link' = "gone" \/ "unlinkBack" \in Faults
  BY <1>h, Counted DEF RevertUnlink, HostFine, Links
<1>3. Shape(x) /\ x.pc # "idle"
  BY <1>0, <1>h, <1>1 DEF Shape, Undoing
<1>4. Careful => GuardRest(dropIn, backup) /\ Guarded(x, dropIn, link', backup, faults')
  <2>1. Careful => /\ x.op = "disable" => faults' >= 1
                   /\ x.cancelled => faults' >= 1
    BY <1>0, <1>h, <1>1, <1>2 DEF Guarded, HostFine, Undoing
  <2> QED BY <1>0, <1>h, <1>1, <2>1 DEF Guarded, Undoing
<1>5. LinksMade /\ crashes = 0 => Resolving(x, dropIn, link')
  BY <1>1 DEF Resolving
<1>6. LinksMade => link' = "gone"
  BY <1>2 DEF LinksMade
<1>7. Sound /\ Calm(crashes, before) => Returning(x, dropIn, link', backup, before)
  BY <1>0, <1>h, <1>1, <1>6 DEF Sound, Returning
<1> QED BY <1>0, <1>1, <1>2, <1>3, <1>4, <1>5, <1>6, <1>7, Moved

LEMMA Step_RevertSymlink ==
    ASSUME StubInv, NEW r \in Requests, RevertSymlink(r)
    PROVE  StubInv'
<1>0. /\ req[r].pc = "revertSymlink" /\ ~At(r, "idle") /\ req[r].pc \in Undoing
      /\ UNCHANGED <<dropIn, active, backup, crashes, before>>
  BY DEF RevertSymlink, At, Undoing
<1>h. /\ Shape(req[r]) /\ HostFine(dropIn, link, active, backup, faults)
      /\ Careful => GuardRest(dropIn, backup) /\ Guarded(req[r], dropIn, link, backup, faults)
      /\ Sound /\ Calm(crashes, before) => Returning(req[r], dropIn, link, backup, before)
  BY <1>0, Here
<1>o. Careful => dropIn # "off"
  BY <1>0, <1>h DEF Guarded, Undoing
<1>1. CASE link = "gone" /\ link' = req[r].b.link /\ UNCHANGED faults /\ Go(r, "revertRestart")
  <2>1. PICK x \in RequestRecord :
           /\ req' = [req EXCEPT ![r] = x] /\ x.pc = "revertRestart" /\ x.op = req[r].op
           /\ x.b = req[r].b /\ x.cancelled = req[r].cancelled
    BY <1>0, <1>1, Going DEF Go, Pcs
  <2>2. Shape(x) /\ link' = "stub" /\ HostFine(dropIn, link', active, backup, faults)
    BY <1>0, <1>h, <1>1, <2>1 DEF Shape, Undoing, HostFine, Links
  <2>3. Careful => GuardRest(dropIn, backup) /\ Guarded(x, dropIn, link', backup, faults)
    BY <1>0, <1>h, <2>1 DEF Guarded, Undoing
  <2>4. LinksMade /\ crashes = 0 => Resolving(x, dropIn, link')
    BY <2>1, <2>2 DEF Resolving
  <2>5. Sound /\ Calm(crashes, before) => Returning(x, dropIn, link', backup, before)
    BY <1>0, <1>h, <1>1, <2>1 DEF Returning
  <2> QED BY <1>0, <1>1, <2>1, <2>2, <2>3, <2>4, <2>5, Moved
<1>2. CASE /\ Fails("symlink") \/ (link # "gone" /\ UNCHANGED faults)
           /\ UNCHANGED link /\ RevertFailed(r)
  <2>1. /\ HostFine(dropIn, link, active, backup, faults') /\ faults <= faults'
        /\ "symlink" \in Faults \/ link # "gone"
    BY <1>h, <1>2, Counted DEF HostFine
  <2>2. ~LinksMade
    BY <1>0, <2>1, Here DEF LinksMade, Linked
  <2>3. active' \in DropIns
    BY <1>0, <1>h DEF HostFine
  <2> QED BY <1>0, <1>o, <1>2, <2>1, <2>2, <2>3, Failed DEF Sound
<1> QED BY <1>1, <1>2 DEF RevertSymlink

LEMMA Step_RevertRestart ==
    ASSUME StubInv, NEW r \in Requests, RevertRestart(r)
    PROVE  StubInv'
<1>0. /\ req[r].pc = "revertRestart" /\ ~At(r, "idle") /\ req[r].pc \in Undoing
      /\ UNCHANGED <<dropIn, link, backup, crashes, before>>
  BY DEF RevertRestart, At, Undoing
<1>h. /\ Shape(req[r]) /\ HostFine(dropIn, link, active, backup, faults)
      /\ Careful => GuardRest(dropIn, backup) /\ Guarded(req[r], dropIn, link, backup, faults)
      /\ LinksMade /\ crashes = 0 => Resolving(req[r], dropIn, link)
      /\ Sound /\ Calm(crashes, before) => Returning(req[r], dropIn, link, backup, before)
  BY <1>0, Here
<1>1. CASE /\ UNCHANGED faults /\ Go(r, "clear")
           /\ active' \in {active, dropIn} /\ (~req[r].cancelled => active' = dropIn)
  <2>1. PICK x \in RequestRecord :
           /\ req' = [req EXCEPT ![r] = x] /\ x.pc = "clear" /\ x.op = req[r].op
           /\ x.b = req[r].b /\ x.cancelled = req[r].cancelled
    BY <1>0, <1>1, Going DEF Go, Pcs
  <2>2. Shape(x) /\ HostFine(dropIn, link, active', backup, faults)
    BY <1>0, <1>h, <1>1, <2>1 DEF Shape, Undoing, HostFine
  <2>3. Careful => GuardRest(dropIn, backup) /\ Guarded(x, dropIn, link, backup, faults)
    BY <1>0, <1>h, <2>1 DEF Guarded, Undoing
  <2>4. LinksMade /\ crashes = 0 => Resolving(x, dropIn, link)
    BY <1>0, <1>h, <2>1 DEF Resolving
  <2>5. Sound /\ Calm(crashes, before) => Returning(x, dropIn, link, backup, before)
    BY <1>0, <1>h, <2>1 DEF Returning
  <2> QED BY <1>0, <1>1, <2>1, <2>2, <2>3, <2>4, <2>5, Moved
<1>2. CASE /\ Fails("restart") \/ (req[r].cancelled /\ UNCHANGED faults)
           /\ active' \in {active, dropIn} /\ RevertFailed(r)
  <2>1. /\ HostFine(dropIn, link, active, backup, faults') /\ faults <= faults'
        /\ active' \in DropIns
    BY <1>h, <1>2, Counted DEF HostFine
  <2>2. Careful => dropIn # "off"
    BY <1>0, <1>h DEF Guarded, Undoing
  <2>3. LinksMade /\ crashes = 0 => ResolveRest(dropIn, link)
    BY <1>0, <1>h, <2>2 DEF LinksMade, Resolving, ResolveRest
  <2>4. Sound /\ Calm(crashes, before) =>
           dropIn = req[r].b.dropIn /\ link = req[r].b.link /\ Kept(req[r].b, dropIn, link)
    BY <1>0, <1>h DEF Returning, Kept
  <2>5. LinksMade => (req[r].op = "disable" => req[r].cancelled)
    <3> SUFFICES ASSUME LinksMade, req[r].op = "disable", ~req[r].cancelled PROVE FALSE
      OBVIOUS
    <3>1. faults >= 1 /\ faults \in Nat
      BY <1>0, <1>h DEF LinksMade, Guarded, HostFine
    <3>2. "restart" \in Faults /\ faults < MaxFaults
      BY <1>2 DEF Fails
    <3>3. MaxFaults <= 1 /\ MaxFaults \in Nat
      BY <3>2, StubAssumption DEF LinksMade
    <3> QED BY <3>1, <3>2, <3>3
  <2> QED BY <1>0, <1>2, <2>1, <2>2, <2>3, <2>4, <2>5, Failed
<1> QED BY <1>1, <1>2 DEF RevertRestart

LEMMA Step_Clear ==
    ASSUME StubInv, NEW r \in Requests, Clear(r)
    PROVE  StubInv'
<1>0. /\ req[r].pc = "clear" /\ ~At(r, "idle") /\ req[r].pc \in Undoing
      /\ UNCHANGED <<dropIn, link, active, crashes, before>>
      /\ backup' \in {backup, NoBackup} /\ (UNCHANGED faults \/ Fails("clear"))
  BY DEF Clear, At, Undoing, hostVars
<1>h. /\ HostFine(dropIn, link, active, backup, faults)
      /\ Careful => GuardRest(dropIn, backup) /\ Guarded(req[r], dropIn, link, backup, faults)
      /\ LinksMade /\ crashes = 0 => Resolving(req[r], dropIn, link)
      /\ Sound /\ Calm(crashes, before) => Returning(req[r], dropIn, link, backup, before)
  BY <1>0, Here
<1>1. NoBackup.dropIn = "none" /\ ~NoBackup.switched
  BY DEF NoBackup
<1>2. HostFine(dropIn, link, active, backup', faults')
  BY <1>0, <1>h, <1>1, Counted DEF HostFine
<1>3. Careful => GuardRest(dropIn, backup') /\ dropIn # "off"
  BY <1>0, <1>h, <1>1 DEF Guarded, GuardRest, Undoing
<1>4. LinksMade /\ crashes = 0 => ResolveRest(dropIn, link)
  BY <1>0, <1>h, <1>3 DEF LinksMade, Resolving, ResolveRest
<1>5. Sound /\ Calm(crashes, before) => ReturnRest(dropIn, link, backup', before)
  BY <1>0, <1>h DEF Returning, Found, Kept, ReturnRest
<1> QED BY <1>0, <1>2, <1>3, <1>4, <1>5, Ended DEF Clear

\* A host whose resolv.conf no disable switches is ready for a restore wherever a request at
\* work is left.
LEMMA Dropped ==
    ASSUME NEW x, NEW di, NEW ln, NEW bk, NEW bf, Shape(x), bk.switched => bk.link = "stub",
           Returning(x, di, ln, bk, bf), bf.link \in {"other", "file"}
    PROVE  ReturnRest(di, ln, bk, bf)
<1>1. x.pc \in Pcs /\ x.b.dropIn = bf.dropIn /\ x.b.link = bf.link /\ ~x.b.switched
  BY DEF Shape, RequestRecord, Returning, Found
<1>2. ln = bf.link /\ (di # "off" => di = bf.dropIn)
  BY <1>1 DEF Shape, Returning, Pcs
<1> QED BY <1>2 DEF Returning, ReturnRest, Found, Kept

LEMMA Step_Crash ==
    ASSUME StubInv, Crash
    PROVE  StubInv'
<1>1. /\ HostFine(dropIn, link, active, backup, faults)
      /\ crashes' = crashes + 1 /\ crashes \in Nat /\ crashes < MaxCrashes
      /\ req' = [r \in Requests |-> IdleRequest]
      /\ UNCHANGED <<dropIn, link, active, backup, faults, before>>
  BY DEF Crash, StubInv, Typed, hostVars
<1>2. crashes' \in Nat /\ crashes' <= MaxCrashes /\ crashes' # 0
  BY <1>1, StubAssumption
<1>3. Typed'
  BY <1>1, <1>2 DEF Typed
<1>4. \A r \in Requests : At(r, "idle")'
  BY <1>1 DEF At, IdleRequest
<1>5. Careful => GuardRest(dropIn, backup)
  BY DEF StubInv
<1>6. Sound /\ Calm(crashes', before) => ReturnRest(dropIn, link, backup, before)
  <2> SUFFICES ASSUME Sound, Calm(crashes', before)
               PROVE  ReturnRest(dropIn, link, backup, before)
    OBVIOUS
  <2>1. before.link \in {"other", "file"} /\ Calm(crashes, before)
    BY <1>2 DEF Calm
  <2>2. CASE Quiet
    BY <2>1, <2>2 DEF StubInv
  <2>3. ASSUME NEW r \in Requests, ~At(r, "idle")
        PROVE  ReturnRest(dropIn, link, backup, before)
    <3>1. Shape(req[r]) /\ Returning(req[r], dropIn, link, backup, before)
      BY <2>1, <2>3, Here
    <3> QED BY <1>1, <2>1, <3>1, Dropped DEF HostFine
  <2> QED BY <2>2, <2>3 DEF Quiet
<1>7. /\ ~(LinksMade /\ crashes' = 0)
      /\ \A r \in Requests : ~(~At(r, "idle")')
  BY <1>2, <1>4
<1> QED BY <1>1, <1>3, <1>4, <1>5, <1>6, <1>7 DEF StubInv, Alone

LEMMA StubInvStarts == Init => StubInv
<1> SUFFICES ASSUME Init PROVE StubInv
  OBVIOUS
<1>0. /\ dropIn \in {"none", "extra"} /\ link \in {"stub", "other", "file"} /\ active = dropIn
      /\ backup = NoBackup /\ req = [r \in Requests |-> IdleRequest]
      /\ faults = 0 /\ crashes = 0
  BY DEF Init
<1>1. NoBackup.dropIn = "none" /\ ~NoBackup.switched
  BY DEF NoBackup
<1>2. Typed
  BY <1>0, <1>1, StubAssumption DEF Typed, HostFine, DropIns, Links
<1>3. \A r \in Requests : At(r, "idle")
  BY <1>0 DEF At, IdleRequest
<1>4. GuardRest(dropIn, backup) /\ ResolveRest(dropIn, link)
  BY <1>0, <1>1 DEF GuardRest, ResolveRest
<1>5. ReturnRest(dropIn, link, backup, before)
  BY <1>0 DEF ReturnRest
<1> QED BY <1>2, <1>3, <1>4, <1>5 DEF StubInv, Alone

LEMMA StubInvStays == StubInv /\ [Next]_vars => StubInv'
<1> SUFFICES ASSUME StubInv, [Next]_vars PROVE StubInv'
  OBVIOUS
<1>1. CASE Next
  <2>1. ASSUME NEW r \in Requests, BeginDisable(r) \/ BeginRestore(r) \/ Cancel(r)
        PROVE  StubInv'
    BY <2>1, Step_BeginDisable, Step_BeginRestore, Step_Cancel
  <2>2. ASSUME NEW r \in Requests, Step(r)
        PROVE  StubInv'
    BY <2>2, Step_SaveFirst, Step_WriteDropIn, Step_Unlink, Step_Symlink, Step_Restart,
       Step_SaveSecond, Step_RevertDropIn, Step_RevertUnlink, Step_RevertSymlink,
       Step_RevertRestart, Step_Clear DEF Step
  <2> QED BY <1>1, <2>1, <2>2, Step_Crash DEF Next
<1>2. CASE UNCHANGED vars
  BY <1>2 DEF vars, hostVars, StubInv, Typed, Alone, Quiet, At
<1> QED BY <1>1, <1>2

LEMMA StubInvHolds == Spec => []StubInv
BY StubInvStarts, StubInvStays, PTL DEF Spec

-------------------------------------------------------------------------------
(* The results.                                                                      *)

\* Whatever fails and however requests overlap, every variable keeps its type, and a request
\* only ever puts back a link to the stub's file.
THEOREM StubTypeCorrect == Spec => []TypeOK
<1>1. ASSUME StubInv PROVE TypeOK
  <2>1. Typed
    BY <1>1 DEF StubInv
  <2>2. ASSUME NEW r \in Requests
        PROVE  /\ req[r].b \in Backup \/ At(r, "idle")
               /\ At(r, "revertSymlink") => req[r].b.link = "stub"
    BY <2>1 DEF Typed, Shape, RequestRecord, IdleRequest, At
  <2> QED BY <2>1, <2>2 DEF Typed, HostFine, TypeOK
<1> QED BY <1>1, StubInvHolds, PTL

\* With callers that wait for an answer, and no failure to write the drop-in or that one only,
\* the restore point is on disk whenever the stub is off, after any restart of the panel too.
THEOREM RestorePointKept ==
    ASSUME Careful
    PROVE  Spec => []Recoverable
<1>1. ASSUME StubInv PROVE Recoverable
  BY <1>1 DEF StubInv, GuardRest, Recoverable
<1> QED BY <1>1, StubInvHolds, PTL

\* Which operation answers what.
LEMMA Answering ==
    ASSUME StubInv, [Next]_vars, NEW r \in Requests, NEW what, Answers(r, what)
    PROVE  /\ what \in {"restored", "rolledBack"} => Clear(r)
           /\ what = "disabled" => SaveSecond(r)
<1>1. Next /\ answer' = what /\ answer # what /\ ~At(r, "idle") /\ At(r, "idle")'
  BY DEF Answers, vars, At
<1> SUFFICES ASSUME what \in {"restored", "rolledBack", "disabled"}
             PROVE  IF what = "disabled" THEN SaveSecond(r) ELSE Clear(r)
  OBVIOUS
<1>2. PICK q \in Requests : BeginDisable(q) \/ BeginRestore(q) \/ Step(q) \/ Cancel(q)
  BY <1>1 DEF Next, Crash
<1>3. Step(q)
  BY <1>1, <1>2 DEF BeginDisable, BeginRestore, Cancel
<1>4. IF what = "disabled" THEN SaveSecond(q) ELSE Clear(q)
  <2>1. ~(SaveFirst(q) \/ WriteDropIn(q) \/ Unlink(q) \/ Symlink(q) \/ Restart(q))
    BY <1>1 DEF SaveFirst, WriteDropIn, Unlink, Symlink, Restart, Go, End
  <2>2. ~(RevertDropIn(q) \/ RevertUnlink(q) \/ RevertSymlink(q) \/ RevertRestart(q))
    BY <1>1 DEF RevertDropIn, RevertUnlink, RevertSymlink, RevertRestart, RevertFailed, Go, End
  <2>3. SaveSecond(q) => what = "disabled"
    BY <1>1 DEF SaveSecond, End
  <2>4. Clear(q) => what # "disabled"
    BY <1>1 DEF Clear, End
  <2> QED BY <1>3, <2>1, <2>2, <2>3, <2>4 DEF Step
<1>5. req' = [req EXCEPT ![q] = IdleRequest]
  BY <1>4 DEF SaveSecond, Clear, Go, End
<1>6. q = r
  BY <1>1, <1>5 DEF At
<1> QED BY <1>4, <1>6

\* When links can be made, a host has a resolver when a request answers that the stub is off,
\* and when it answers a client that has stayed that it is back: whatever else has failed, and
\* after a death of the panel on the hosts whose resolv.conf is never switched.
THEOREM NamesResolve ==
    ASSUME LinksMade, "save" \notin Faults \/ MaxCrashes = 0
    PROVE  Spec => Resolves
<1>1. ASSUME StubInv, [Next]_vars, NEW r \in Requests, Undisturbed,
             \/ Answers(r, "disabled")
             \/ ~req[r].cancelled /\ (Answers(r, "restored") \/ Answers(r, "rolledBack"))
      PROVE  Serves(dropIn', link', active')
  <2>1. ~At(r, "idle") /\ Careful
    BY <1>1 DEF Answers, LinksMade
  <2>2. /\ Shape(req[r]) /\ Guarded(req[r], dropIn, link, backup, faults)
        /\ Linked(req[r], dropIn, link, active)
        /\ crashes = 0 => Resolving(req[r], dropIn, link)
    BY <1>1, <2>1, Here
  <2>3. crashes # 0 => before.link \in {"other", "file"} /\ Returning(req[r], dropIn, link, backup, before)
    <3>1. crashes # 0 => Sound /\ Calm(crashes, before)
      BY <1>1, StubAssumption DEF Undisturbed, Calm, Sound, LinksMade, StubInv, Typed
    <3> QED BY <1>1, <2>1, <3>1, Here DEF Undisturbed
  <2>4. CASE Answers(r, "disabled")
    <3>1. req[r].pc = "saveSecond" /\ UNCHANGED <<dropIn, link, active>>
      BY <1>1, <2>4, Answering DEF SaveSecond, At, hostVars
    <3>2. link \notin {"gone", "stub"}
      BY <2>2, <2>3, <3>1 DEF Resolving, Returning, Found, Shape
    <3> QED BY <3>1, <3>2 DEF Serves
  <2>5. CASE ~req[r].cancelled /\ (Answers(r, "restored") \/ Answers(r, "rolledBack"))
    <3>1. req[r].pc = "clear" /\ UNCHANGED <<dropIn, link, active>>
      BY <1>1, <2>5, Answering DEF Clear, At, hostVars
    <3>2. dropIn # "off" /\ active = dropIn
      BY <2>2, <2>5, <3>1 DEF Guarded, Linked, Undoing
    <3>3. link # "gone"
      BY <2>2, <2>3, <3>1 DEF Resolving, Returning, Found
    <3> QED BY <3>1, <3>2, <3>3 DEF Serves
  <2> QED BY <1>1, <2>4, <2>5
<1>2. StubInv /\ [Next]_vars =>
        [\A r \in Requests :
            /\ Undisturbed
            /\ \/ Answers(r, "disabled")
               \/ ~req[r].cancelled /\ (Answers(r, "restored") \/ Answers(r, "rolledBack"))
            => Serves(dropIn', link', active')]_vars
  BY <1>1
<1> QED BY <1>2, StubInvHolds, PTL DEF Spec, Resolves

\* The last operation of a revert leaves the host as it was found.
LEMMA ReturnedAsFound ==
    ASSUME Sound, StubInv, [Next]_vars, NEW r \in Requests, Undisturbed,
           Answers(r, "restored") \/ Answers(r, "rolledBack")
    PROVE  PutBack(r)
<1>1. req[r].pc = "clear" /\ ~At(r, "idle") /\ UNCHANGED <<dropIn, link, active>>
  BY Answering DEF Clear, At, hostVars
<1>2. /\ Returning(req[r], dropIn, link, backup, before)
      /\ Linked(req[r], dropIn, link, active)
  BY <1>1, Here DEF Sound, Calm, Undisturbed
<1>3. /\ dropIn = before.dropIn /\ link = before.link
      /\ ~req[r].cancelled => active = before.dropIn
  BY <1>1, <1>2 DEF Returning, Found, Linked
<1> QED BY <1>1, <1>3 DEF PutBack

\* A restore that answers ok has put drop-in and resolv.conf back as the first disable found
\* them, and resolved runs with them unless the client went away: when links can be made and
\* the restore point can be saved, and after any death of the panel that the link allows.
THEOREM RestorePutsBack ==
    ASSUME Sound
    PROVE  Spec => RestoreReturns
<1>1. StubInv /\ [Next]_vars =>
        [\A r \in Requests : Undisturbed /\ Answers(r, "restored") => PutBack(r)]_vars
  BY ReturnedAsFound
<1> QED BY <1>1, StubInvHolds, PTL DEF Spec, RestoreReturns

\* So has a disable that answers "failed, rolled back": whether the drop-in could not be
\* written, the link not be removed, resolved not be restarted or the client went away.
THEOREM RollbackPutsBack ==
    ASSUME Sound
    PROVE  Spec => FailedDisableClean
<1>1. StubInv /\ [Next]_vars =>
        [\A r \in Requests : Undisturbed /\ Answers(r, "rolledBack") => PutBack(r)]_vars
  BY ReturnedAsFound
<1> QED BY <1>1, StubInvHolds, PTL DEF Spec, FailedDisableClean

===============================================================================
