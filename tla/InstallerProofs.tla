---------------------------- MODULE InstallerProofs ----------------------------
(***************************************************************************)
(* Proofs about Installer for every plan, host and number of requests: type  *)
(* correctness, and under the assumption that callers wait for each answer    *)
(* (AdminWaits) the write-ahead rule, the clean end of a residue, the          *)
(* refinement of AtomicInstall and the firewall rules after a rollback.         *)
(***************************************************************************)
EXTENDS Installer, TLAPS

-------------------------------------------------------------------------------
(* Type correctness. *)

LEMMA ItemType ==
    ASSUME pc \in 1..Len(Plan)
    PROVE  Item \in PlanItem
BY PlanType DEF Item

\* The journal line of an item of the plan is an entry.
LEMMA EntryOfType ==
    ASSUME HostType, pc \in 1..Len(Plan), Item.op = "record"
    PROVE  EntryOf(Item) \in Entry
<1>1. /\ Item.act \in {"file", "dir", "pkg", "sysctl", "stub", "svc", "rules"}
      /\ IF Item.act = "rules" THEN Item.res = "rules" ELSE Item.res \in Resources
  BY ItemType, RecordAssumption DEF PlanItem, IsRecord, Item
<1>2. \A old \in Values : ActOf(Item, old) \in Acts
  BY <1>1 DEF ActOf, JournalAct, Acts
<1>3. (IF Item.act = "rules" THEN "absent" ELSE sys[Item.res]) \in Values
  BY <1>1 DEF HostType, Values
<1>4. Item.res \in Targets
  BY <1>1 DEF Targets
<1> QED BY <1>2, <1>3, <1>4 DEF EntryOf, Entry

\* So is the line of a file that could not be read.
LEMMA EntriesOfType ==
    ASSUME HostType, pc \in 1..Len(Plan), Item.op = "record"
    PROVE  \A e \in EntriesOf(Item) : e \in Entry
<1>1. EntryOf(Item) \in Entry
  BY EntryOfType
<1>2. [EntryOf(Item) EXCEPT !.old = "empty"] \in Entry
  BY <1>1 DEF Entry, Values
<1> QED BY <1>1, <1>2 DEF EntriesOf

\* Where every file can be read there is one line to write.
LEMMA ReadEntries ==
    ASSUME "read" \notin Faults
    PROVE  EntriesOf(Item) = {EntryOf(Item)}
BY DEF EntriesOf

\* A line can always be appended.
LEMMA AppendedType ==
    ASSUME NEW e \in Entry, JournalType
    PROVE  Appended(e) \in [exists : BOOLEAN, entries : Seq(Entry)]
BY DEF Appended, JournalType

LEMMA NoJournalType == NoJournal \in [exists : BOOLEAN, entries : Seq(Entry)]
<1>1. <<>> \in Seq(Entry)
  OBVIOUS
<1> QED BY <1>1 DEF NoJournal

\* What undo writes is a value.
LEMMA RestoredType ==
    ASSUME NEW e \in Entry
    PROVE  Restored(e) \in Values
BY DEF Restored, Values, Entry

\* Undoing an entry keeps the host well typed.
LEMMA UndoType ==
    ASSUME NEW e \in Entry, HostType, UndoSucceeds(e) \/ UndoFails(e)
    PROVE  HostType'
<1>1. CASE UndoFails(e)
  <2>1. Restored(e) \in Values
    BY RestoredType
  <2> QED BY <1>1, <2>1 DEF UndoFails, PutBack, HostType
<1>2. CASE UndoSucceeds(e) /\ e.act = "iptables_rules"
  <2>1. PICK kept :
          rules' = [r \in Rules |-> IF r \in kept \/ rules[r] = 0 THEN rules[r] ELSE rules[r] - 1]
    BY <1>2 DEF UndoSucceeds, DeleteRules
  <2>2. rules' \in [Rules -> Nat]
    BY <2>1 DEF HostType
  <2> QED BY <1>2, <2>2 DEF UndoSucceeds, HostType
<1>3. CASE UndoSucceeds(e) /\ e.act # "iptables_rules"
  <2>1. Restored(e) \in Values
    BY RestoredType
  <2> QED BY <1>3, <2>1 DEF UndoSucceeds, PutBack, HostType
<1> QED BY <1>1, <1>2, <1>3

LEMMA ChangedType ==
    ASSUME HostType, AtItem("apply"), Changed(Item)
    PROVE  HostType'
<1>1. IF Item.act = "rules" THEN Item.res \in Rules ELSE Item.res \in Resources
  BY ApplyAssumption DEF AtItem, Item, IsApply
<1> QED BY <1>1 DEF Changed, HostType, Values

LEMMA AdvanceType ==
    ASSUME JobType, phase = "steps", NEW n \in Nat, Advance(n)
    PROVE  JobType'
BY DEF Advance, JobType

LEMMA FailType ==
    ASSUME JobType, Fail
    PROVE  JobType'
<1>1. Len(mem) \in Nat
  BY DEF JobType
<1> QED BY <1>1 DEF Fail, JobType

\* A step that leaves the variables of a part alone keeps its type.
LEMMA SameType ==
    /\ HostType /\ UNCHANGED hostVars => HostType'
    /\ JournalType /\ UNCHANGED journal => JournalType'
    /\ JobType /\ UNCHANGED <<job, phase, pc, mem>> => JobType'
    /\ RequestType /\ UNCHANGED rb => RequestType'
    /\ FlagType /\ UNCHANGED <<saved, failed, committed>> => FlagType'
    /\ HistType /\ UNCHANGED <<crashes, before>> => HistType'
<1>1. HostType /\ UNCHANGED hostVars => HostType'
  BY DEF HostType, hostVars
<1>2. JournalType /\ UNCHANGED journal => JournalType'
  BY DEF JournalType
<1>3. JobType /\ UNCHANGED <<job, phase, pc, mem>> => JobType'
  BY DEF JobType
<1>4. RequestType /\ UNCHANGED rb => RequestType'
  BY DEF RequestType
<1>5. FlagType /\ UNCHANGED <<saved, failed, committed>> => FlagType'
  BY DEF FlagType
<1>6. HistType /\ UNCHANGED <<crashes, before>> => HistType'
  BY DEF HistType
<1> QED BY <1>1, <1>2, <1>3, <1>4, <1>5, <1>6

\* The flags only ever get Boolean values.
LEMMA FlagsKept ==
    ASSUME FlagType, Next
    PROVE  FlagType'
<1> USE DEF FlagType
<1>1. CASE Start BY <1>1 DEF Start
<1>2. CASE RunCheck BY <1>2 DEF RunCheck, Advance, Fail
<1>3. CASE SkipItem BY <1>3 DEF SkipItem, Advance
<1>4. CASE RecordItem BY <1>4 DEF RecordItem
<1>5. CASE RecordFails BY <1>5 DEF RecordFails, Fail
<1>6. CASE ApplyItem BY <1>6 DEF ApplyItem, Advance
<1>7. CASE ApplyFails BY <1>7 DEF ApplyFails, Fail
<1>8. CASE Commit BY <1>8 DEF Commit
<1>9. CASE Finish BY <1>9 DEF Finish
<1>10. CASE JobUndo BY <1>10 DEF JobUndo
<1>11. CASE JobUndone BY <1>11 DEF JobUndone
<1>12. ASSUME NEW q \in Requests, RollbackCheck(q) PROVE FlagType'
  BY <1>12 DEF RollbackCheck, jobVars, histVars
<1>13. ASSUME NEW q \in Requests, RollbackLoad(q) PROVE FlagType'
  BY <1>13 DEF RollbackLoad, jobVars, histVars
<1>14. ASSUME NEW q \in Requests, RollbackUndo(q) PROVE FlagType'
  BY <1>14 DEF RollbackUndo, jobVars, histVars
<1>15. ASSUME NEW q \in Requests, RollbackEnd(q) PROVE FlagType'
  BY <1>15 DEF RollbackEnd, jobVars, histVars
<1>16. CASE Crash BY <1>16 DEF Crash, histVars
<1> QED BY <1>1, <1>2, <1>3, <1>4, <1>5, <1>6, <1>7, <1>8, <1>9, <1>10, <1>11, <1>12, <1>13,
           <1>14, <1>15, <1>16 DEF Next, RunStep, RequestStep

\* Every variable keeps its type in every behaviour of the engine.
THEOREM TypeCorrect == Spec => []TypeOK
<1>1. Init => TypeOK
  <2> SUFFICES ASSUME Init PROVE TypeOK
    OBVIOUS
  <2>1. HostType
    BY ConstantsAssumption DEF Init, HostType
  <2>2. JournalType
    BY DEF Init, JournalType, NoJournal
  <2>3. JobType
    BY DEF Init, JobType
  <2>4. RequestType
    BY DEF Init, RequestType, Request, IdleRequest
  <2>5. HistType
    BY <2>1 DEF Init, HistType, HostType
  <2>6. FlagType
    BY DEF Init, FlagType
  <2> QED BY <2>1, <2>2, <2>3, <2>4, <2>5, <2>6 DEF TypeOK
<1>2. TypeOK /\ [Next]_vars => TypeOK'
  <2> SUFFICES ASSUME TypeOK, [Next]_vars
               PROVE  TypeOK'
    OBVIOUS
  <2> USE SameType
  <2>0. HostType /\ JournalType /\ JobType /\ RequestType /\ FlagType /\ HistType
    BY DEF TypeOK
  <2>f. Next => FlagType'
    BY <2>0, FlagsKept
  <2>1. CASE Start
    <3>1. JournalType' /\ JobType'
      BY <2>1 DEF Start, JournalType, JobType
    <3>2. HistType'
      BY <2>0, <2>1 DEF Start, HistType, HostType
    <3> QED BY <2>0, <2>f, <2>1, <3>1, <3>2 DEF Start, Next, hostVars, TypeOK
  <2>2. CASE RunCheck
    <3>1. JobType'
      BY <2>0, <2>2, AdvanceType, FailType DEF RunCheck, AtItem
    <3> QED BY <2>0, <2>f, <2>2, <3>1 DEF RunCheck, Next, RunStep, hostVars, TypeOK
  <2>3. CASE SkipItem
    <3>1. JobType'
      BY <2>0, <2>3, AdvanceType DEF SkipItem, AtItem
    <3> QED BY <2>0, <2>f, <2>3, <3>1 DEF SkipItem, Next, RunStep, hostVars, TypeOK
  <2>4. CASE RecordItem
    <3>1. PICK e \in EntriesOf(Item) : journal' = Appended(e) /\ mem' = Append(mem, e)
      BY <2>4 DEF RecordItem
    <3>4. e \in Entry
      BY <2>0, <2>4, EntriesOfType DEF RecordItem, AtItem, Item
    <3>2. JournalType'
      BY <2>0, <3>1, <3>4, AppendedType DEF JournalType
    <3>3. JobType'
      BY <2>0, <2>4, <3>1, <3>4 DEF RecordItem, AtItem, JobType
    <3> QED BY <2>0, <2>f, <2>4, <3>2, <3>3 DEF RecordItem, Next, RunStep, hostVars, TypeOK
  <2>5. CASE RecordFails
    <3>1. \A e \in EntriesOf(Item) : e \in Entry
      BY <2>0, <2>5, EntriesOfType DEF RecordFails, AtItem, Item
    <3>2. JournalType'
      BY <2>0, <2>5, <3>1, AppendedType DEF RecordFails, JournalType
    <3>3. JobType'
      BY <2>0, <2>5, FailType DEF RecordFails
    <3> QED BY <2>0, <2>f, <2>5, <3>2, <3>3 DEF RecordFails, Next, RunStep, hostVars, TypeOK
  <2>6. CASE ApplyItem
    <3>1. HostType'
      BY <2>0, <2>6, ChangedType DEF ApplyItem
    <3>2. JobType'
      BY <2>0, <2>6, AdvanceType DEF ApplyItem, AtItem
    <3> QED BY <2>0, <2>f, <2>6, <3>1, <3>2 DEF ApplyItem, Next, RunStep, TypeOK
  <2>7. CASE ApplyFails
    <3>1. HostType'
      BY <2>0, <2>7, ChangedType DEF ApplyFails, hostVars
    <3>2. JobType'
      BY <2>0, <2>7, FailType DEF ApplyFails
    <3> QED BY <2>0, <2>f, <2>7, <3>1, <3>2 DEF ApplyFails, Next, RunStep, TypeOK
  <2>8. CASE Commit
    <3>0. journal' = NoJournal \/ journal' = journal
      BY <2>8 DEF Commit
    <3>1. JournalType'
      <4>1. NoJournal \in [exists : BOOLEAN, entries : Seq(Entry)]
        BY DEF NoJournal
      <4> QED BY <2>0, <3>0, <4>1 DEF JournalType
    <3>2. JobType'
      BY <2>0, <2>8 DEF Commit, JobType
    <3> QED BY <2>0, <2>f, <2>8, <3>1, <3>2 DEF Commit, Next, RunStep, hostVars, TypeOK
  <2>9. CASE Finish
    <3>1. JobType'
      BY <2>0, <2>9 DEF Finish, JobType
    <3> QED BY <2>0, <2>f, <2>9, <3>1 DEF Finish, Next, RunStep, hostVars, TypeOK
  <2>10. CASE JobUndo
    <3>1. mem \in Seq(Entry) /\ pc \in 1..Len(mem) /\ Len(mem) \in Nat
      BY <2>0, <2>10 DEF JobUndo, JobType
    <3>2. mem[pc] \in Entry
      BY <3>1
    <3>3. HostType'
      BY <2>0, <2>10, <3>2, UndoType DEF JobUndo
    <3>4. JobType'
      BY <2>0, <2>10, <3>1 DEF JobUndo, JobType
    <3> QED BY <2>0, <2>f, <2>10, <3>3, <3>4 DEF JobUndo, Next, RunStep, TypeOK
  <2>11. CASE JobUndone
    <3>0. journal' \in {journal, NoJournal}
      BY <2>11 DEF JobUndone, Unlinked
    <3>1. JournalType'
      BY <2>0, <3>0, NoJournalType DEF JournalType
    <3>2. JobType'
      BY <2>0, <2>11 DEF JobUndone, JobType
    <3> QED BY <2>0, <2>f, <2>11, <3>1, <3>2 DEF JobUndone, Next, RunStep, hostVars, TypeOK
  <2>12. ASSUME NEW q \in Requests, RollbackCheck(q)
         PROVE  TypeOK'
    <3>1. RequestType'
      BY <2>0, <2>12 DEF RollbackCheck, RequestType, Request
    <3>2. FlagType'
      BY <2>f, <2>12 DEF Next
    <3> QED BY <2>0, <2>12, <3>1, <3>2 DEF RollbackCheck, jobVars, histVars, TypeOK
  <2>13. ASSUME NEW q \in Requests, RollbackLoad(q)
         PROVE  TypeOK'
    <3>1. RequestType'
      BY <2>0, <2>13 DEF RollbackLoad, RequestType, Request, IdleRequest, JournalType
    <3>2. FlagType'
      BY <2>f, <2>13 DEF Next, RequestStep
    <3> QED BY <2>0, <2>13, <3>1, <3>2 DEF RollbackLoad, jobVars, histVars, TypeOK
  <2>14. ASSUME NEW q \in Requests, RollbackUndo(q)
         PROVE  TypeOK'
    <3>1. rb[q] \in Request /\ rb[q].idx <= Len(rb[q].entries)
      BY <2>0 DEF RequestType
    <3>2. rb[q].entries \in Seq(Entry) /\ rb[q].idx \in 1..Len(rb[q].entries)
      BY <2>14, <3>1 DEF RollbackUndo, Request
    <3>3. rb[q].entries[rb[q].idx] \in Entry
      BY <3>2
    <3>4. HostType'
      BY <2>0, <2>14, <3>3, UndoType DEF RollbackUndo
    <3>5. RequestType'
      <4>1. PICK f \in BOOLEAN : Descend(q, f)
        BY <2>14, <3>1 DEF RollbackUndo, Request
      <4> DEFINE new == [pc |-> "undo", idx |-> rb[q].idx - 1,
                         entries |-> rb[q].entries, failed |-> f]
      <4>2. rb[q].idx - 1 \in Nat /\ rb[q].idx - 1 <= Len(rb[q].entries)
        BY <3>1, <3>2 DEF Request
      <4>3. new \in Request
        BY <3>2, <4>2 DEF Request
      <4>4. rb' = [rb EXCEPT ![q] = new]
        BY <4>1 DEF Descend
      <4> HIDE DEF new
      <4>5. new.idx <= Len(new.entries)
        BY <4>2 DEF new
      <4> QED BY <2>0, <4>3, <4>4, <4>5 DEF RequestType
    <3>6. FlagType'
      BY <2>f, <2>14 DEF Next, RequestStep
    <3> QED BY <2>0, <2>14, <3>4, <3>5, <3>6 DEF RollbackUndo, jobVars, histVars, TypeOK
  <2>15. ASSUME NEW q \in Requests, RollbackEnd(q)
         PROVE  TypeOK'
    <3>1. RequestType'
      BY <2>0, <2>15 DEF RollbackEnd, RequestType, Request, IdleRequest
    <3>0. journal' \in {journal, NoJournal}
      BY <2>15 DEF RollbackEnd, Unlinked
    <3>2. JournalType'
      BY <2>0, <3>0, NoJournalType DEF JournalType
    <3>3. FlagType'
      BY <2>f, <2>15 DEF Next, RequestStep
    <3> QED BY <2>0, <2>15, <3>1, <3>2, <3>3 DEF RollbackEnd, jobVars, histVars, TypeOK
  <2>16. CASE Crash
    <3>1. RequestType'
      BY <2>0, <2>16 DEF Crash, RequestType, Request, IdleRequest
    <3>2. JobType'
      BY <2>16 DEF Crash, JobType
    <3>3. HistType'
      BY <2>0, <2>16 DEF Crash, HistType, histVars
    <3> QED BY <2>0, <2>f, <2>16, <3>1, <3>2, <3>3 DEF Crash, Next, TypeOK
  <2>17. CASE UNCHANGED vars
    BY <2>0, <2>17 DEF vars, hostVars, TypeOK
  <2> QED BY <2>1, <2>2, <2>3, <2>4, <2>5, <2>6, <2>7, <2>8, <2>9, <2>10, <2>11, <2>12, <2>13,
             <2>14, <2>15, <2>16, <2>17 DEF Next, RunStep, RequestStep
<1> QED BY <1>1, <1>2, PTL DEF Spec

-------------------------------------------------------------------------------
(* The write-ahead rule. *)

\* Control: where the job and the requests are, when callers wait.
LEMMA ControlStep ==
    ASSUME AdminWaits, RequestType, ControlInv, [Next]_vars
    PROVE  ControlInv'
<1> USE DEF ControlInv, Quiet
<1>1. CASE Start
  BY <1>1 DEF Start
<1>2. CASE RunCheck
  BY <1>2 DEF RunCheck, AtItem, Advance, Fail
<1>3. CASE SkipItem
  BY <1>3 DEF SkipItem, AtItem, Advance
<1>4. CASE RecordItem
  BY <1>4 DEF RecordItem, AtItem, Appended
<1>5. CASE RecordFails
  <2>1. journal.exists /\ (journal' = journal \/ \E e \in EntriesOf(Item) : journal' = Appended(e))
    BY <1>5 DEF RecordFails, AtItem
  <2>2. journal'.exists
    BY <2>1 DEF Appended
  <2> QED BY <1>5, <2>2 DEF RecordFails, AtItem, Fail
<1>6. CASE ApplyItem
  BY <1>6 DEF ApplyItem, AtItem, Advance
<1>7. CASE ApplyFails
  BY <1>7 DEF ApplyFails, AtItem, Fail
<1>8. CASE Commit
  <2>1. journal' = NoJournal \/ journal' = journal
    BY <1>8 DEF Commit
  <2> QED BY <1>8, <2>1 DEF Commit, NoJournal
<1>9. CASE Finish
  BY <1>9 DEF Finish
<1>10. CASE JobUndo
  BY <1>10 DEF JobUndo
<1>11. CASE JobUndone
  BY <1>11 DEF JobUndone, Unlinked, NoJournal
<1>12. ASSUME NEW q \in Requests, RollbackCheck(q)
       PROVE  ControlInv'
  BY <1>12 DEF RollbackCheck, jobVars, histVars
<1>13. ASSUME NEW q \in Requests, RollbackLoad(q)
       PROVE  ControlInv'
  BY <1>13 DEF RollbackLoad, jobVars, histVars
<1>14. ASSUME NEW q \in Requests, RollbackUndo(q)
       PROVE  ControlInv'
  <2>1. \A p \in Requests : rb'[p].pc = rb[p].pc
    <3>1. PICK fails \in {rb[q].failed, TRUE} : Descend(q, fails)
      BY <1>14 DEF RollbackUndo
    <3>2. rb[q].pc = "undo"
      BY <1>14 DEF RollbackUndo
    <3> QED BY <3>1, <3>2, RequestType DEF Descend, RequestType
  <2>2. UNCHANGED <<journal, job, phase, committed>>
    BY <1>14 DEF RollbackUndo, jobVars, histVars
  <2> QED BY <2>1, <2>2
<1>15. ASSUME NEW q \in Requests, RollbackEnd(q)
       PROVE  ControlInv'
  BY <1>15 DEF RollbackEnd, Unlinked, NoJournal, IdleRequest, jobVars, histVars
<1>16. CASE Crash
  BY <1>16 DEF Crash, IdleRequest, histVars
<1>17. CASE UNCHANGED vars
  BY <1>17 DEF vars
<1> QED BY <1>1, <1>2, <1>3, <1>4, <1>5, <1>6, <1>7, <1>8, <1>9, <1>10, <1>11, <1>12, <1>13,
           <1>14, <1>15, <1>16, <1>17 DEF Next, RunStep, RequestStep

\* What a rollback restores is no longer touched, and nothing else gets touched.
LEMMA PutBackRestores ==
    ASSUME HostType, NEW e \in Entry, Holds(e), e.act # "iptables_rules", PutBack(e),
           UNCHANGED before
    PROVE  \A r \in Resources : Touched(r)' => Touched(r) /\ e.res # r
<1>1. sys' = [sys EXCEPT ![e.res] = Restored(e)] /\ sys \in [Resources -> Values]
  BY DEF PutBack, HostType
<1>2. Content(Restored(e)) = Content(before.sys[e.res])
  BY DEF Holds, Covers
<1>3. ASSUME NEW r \in Resources, e.res = r
      PROVE  ~Touched(r)'
  <2>1. sys'[r] = Restored(e)
    BY <1>1, <1>3
  <2> QED BY <1>2, <1>3, <2>1 DEF Touched, Content
<1>4. ASSUME NEW r \in Resources, e.res # r
      PROVE  Touched(r)' <=> Touched(r)
  <2>1. sys'[r] = sys[r]
    BY <1>1, <1>4
  <2> QED BY <2>1 DEF Touched, Content
<1> QED BY <1>3, <1>4

LEMMA UndoRestores ==
    ASSUME HostType, NEW e \in Entry, Holds(e), UndoSucceeds(e), UNCHANGED before
    PROVE  \A r \in Resources : Touched(r)' => Touched(r) /\ e.res # r
<1>1. CASE e.act = "iptables_rules"
  BY <1>1, ConstantsAssumption DEF UndoSucceeds, Holds, Touched
<1>2. CASE e.act # "iptables_rules"
  BY <1>2, PutBackRestores DEF UndoSucceeds
<1> QED BY <1>1, <1>2

\* Undone or not, an entry that holds touches nothing.
LEMMA UndoTouchesNothing ==
    ASSUME HostType, NEW e \in Entry, Holds(e), UndoSucceeds(e) \/ UndoFails(e), UNCHANGED before
    PROVE  \A r \in Resources : Touched(r)' => Touched(r)
<1>1. CASE UndoFails(e)
  <2>1. CASE UNCHANGED sys
    BY <2>1 DEF Touched
  <2>2. CASE PutBack(e)
    BY <1>1, <2>2, PutBackRestores DEF UndoFails
  <2> QED BY <1>1, <2>1, <2>2 DEF UndoFails
<1>2. CASE UndoSucceeds(e)
  BY <1>2, UndoRestores
<1> QED BY <1>1, <1>2

\* A line recorded while its resource is untouched holds the old content.
LEMMA RecordHolds ==
    ASSUME HostType, AtItem("record"), ~Skipped(Item), ~InTheWay(Item),
           Item.act # "rules" => ~Touched(Item.res)
    PROVE  Holds(EntryOf(Item))
<1>1. /\ pc \in 1..Len(Plan) /\ IsRecord(pc)
      /\ Item.act \in {"file", "dir", "pkg", "sysctl", "stub", "svc", "rules"}
      /\ IF Item.act = "rules" THEN Item.res = "rules" ELSE Item.res \in Resources
  BY ItemType, RecordAssumption DEF AtItem, PlanItem, IsRecord, Item
<1>2. CASE Item.act = "rules"
  BY <1>1, <1>2 DEF EntryOf, ActOf, JournalAct, Holds
<1>3. CASE Item.act # "rules"
  <2>1. EntryOf(Item) = [act |-> ActOf(Item, sys[Item.res]), res |-> Item.res, old |-> sys[Item.res]]
    BY <1>3 DEF EntryOf
  <2>2. ActOf(Item, sys[Item.res]) # "iptables_rules"
    BY <1>1, <1>3 DEF ActOf, JournalAct
  <2>3. CASE Item.act = "file"
    BY <2>1, <2>3 DEF ActOf, Restored, Content, Holds, Covers, Touched
  <2>4. CASE Item.act \in {"dir", "pkg"}
    <3>1. sys[Item.res] = "absent"
      BY <1>1, <2>4, RecordAssumption DEF Skipped, InTheWay, Item
    <3> QED BY <1>3, <2>1, <2>2, <2>4, <3>1 DEF ActOf, JournalAct, Restored, Content, Holds, Covers, Touched
  <2>5. CASE Item.act \in {"sysctl", "stub", "svc"}
    BY <1>3, <2>1, <2>2, <2>5 DEF ActOf, JournalAct, Restored, Content, Holds, Covers, Touched
  <2> QED BY <1>1, <1>3, <2>3, <2>4, <2>5
<1> QED BY <1>2, <1>3

\* A line more in the sequence uncovers nothing.
LEMMA AppendCovers ==
    ASSUME NEW s \in Seq(Entry), NEW e \in Entry, NEW r,
           CoveredBelow(s, Len(s), r) \/ Covers(e, r)
    PROVE  CoveredBelow(Append(s, e), Len(Append(s, e)), r)
<1>1. Len(Append(s, e)) = Len(s) + 1 /\ Append(s, e)[Len(s) + 1] = e /\ Len(s) \in Nat
  OBVIOUS
<1>2. \A i \in 1..Len(s) : Append(s, e)[i] = s[i]
  OBVIOUS
<1> QED BY <1>1, <1>2 DEF CoveredBelow

\* A failing step leaves a rollback that covers what is touched.
LEMMA FailCovers ==
    ASSUME Fail, phase = "steps",
           mem \in Seq(Entry),
           Len(mem) <= Len(journal'.entries),
           \A i \in 1..Len(mem) : journal'.entries[i] = mem[i],
           \A r \in Resources : Touched(r)' => CoveredBelow(mem, Len(mem), r)'
    PROVE  StepsAhead' /\ UndoBelow'
<1>1. phase' = "undo" /\ mem' = mem /\ pc' = Len(mem)
  BY DEF Fail
<1> QED BY <1>1 DEF StepsAhead, UndoBelow

\* The conjuncts of RecoveryInv that relate the host and the journal.
DataInv == WriteAhead /\ EntriesHold /\ StepsAhead /\ UndoBelow /\ RequestBelow

\* The journal and the host unchanged: what they say of each other stays.
LEMMA SameData ==
    ASSUME UNCHANGED <<sys, before, committed, journal>>
    PROVE  /\ WriteAhead => WriteAhead'
           /\ EntriesHold => EntriesHold'
           /\ \A s \in Seq(Entry) : \A n \in Nat : \A r \in Resources :
                  CoveredBelow(s, n, r) <=> CoveredBelow(s, n, r)'
BY DEF WriteAhead, EntriesHold, Touched, CoveredBelow, Covers, Holds

\* Without a request at work there is nothing to show of the requests.
LEMMA QuietRequests ==
    ASSUME Quiet, UNCHANGED rb
    PROVE  RequestBelow'
BY DEF Quiet, RequestBelow

LEMMA StartKeeps ==
    ASSUME AdminWaits, TypeOK, ControlInv, DataInv, Start
    PROVE  DataInv'
<1>1. \A r : ~Touched(r)'
  BY DEF Start, Touched
<1>2. journal'.entries = <<>> /\ mem' = <<>> /\ pc' = 1 /\ phase' = "steps"
  BY DEF Start
<1>3. WriteAhead' /\ EntriesHold' /\ UndoBelow'
  BY <1>1, <1>2 DEF WriteAhead, EntriesHold, UndoBelow
<1>4. StepsAhead'
  <2>1. ASSUME NEW j \in 1..Len(Plan), IsApply(j), Plan[j].act # "rules"
        PROVE  \E k \in 1..(j - 1) : IsRecord(k) /\ Plan[k].res = Plan[j].res
    BY <2>1, ApplyAssumption
  <2> QED BY <1>1, <1>2, <2>1 DEF StepsAhead
<1>5. RequestBelow'
  BY QuietRequests DEF Start
<1> QED BY <1>3, <1>4, <1>5 DEF DataInv

\* Items that change nothing outside the engine.
LEMMA CheckKeeps ==
    ASSUME AdminWaits, TypeOK, ControlInv, DataInv, RunCheck
    PROVE  DataInv'
<1>0. /\ UNCHANGED <<sys, before, committed, journal, rb>> /\ phase = "steps"
      /\ pc \in 1..Len(Plan) /\ ~IsRecord(pc) /\ Quiet /\ journal.entries = mem /\ ~committed
      /\ mem \in Seq(Entry) /\ Len(mem) \in Nat
  BY DEF RunCheck, AtItem, IsRecord, ControlInv, DataInv, StepsAhead, TypeOK, JobType
<1>1. WriteAhead' /\ EntriesHold' /\ RequestBelow'
  BY <1>0, SameData, QuietRequests DEF DataInv
<1>2. CASE Advance(1)
  <2>1. pc' = pc + 1 /\ phase' = "steps" /\ mem' = mem
    BY <1>0, <1>2 DEF Advance
  <2>2. StepsAhead'
    BY <1>0, <2>1 DEF DataInv, StepsAhead, Touched, CoveredBelow, Covers
  <2> QED BY <1>1, <2>1, <2>2 DEF DataInv, UndoBelow
<1>3. CASE Fail
  <2>1. \A r \in Resources : Touched(r)' => CoveredBelow(mem, Len(mem), r)'
    BY <1>0, <1>3 DEF Fail, DataInv, WriteAhead, Touched, CoveredBelow, Covers
  <2> QED BY <1>0, <1>1, <1>3, <2>1, FailCovers DEF DataInv
<1> QED BY <1>2, <1>3 DEF RunCheck

LEMMA SkipKeeps ==
    ASSUME AdminWaits, TypeOK, ControlInv, DataInv, SkipItem
    PROVE  DataInv'
<1>0. /\ UNCHANGED <<sys, before, committed, journal, rb, mem>>
      /\ phase = "steps" /\ phase' = "steps" /\ pc' = pc + 2
      /\ pc \in 1..Len(Plan) /\ Quiet
  BY DEF SkipItem, AtItem, Advance, ControlInv
<1>1. WriteAhead' /\ EntriesHold' /\ RequestBelow' /\ UndoBelow'
  BY <1>0, SameData, QuietRequests DEF DataInv, UndoBelow
<1>2. /\ ~IsRecord(pc + 1)
      /\ \A j \in 1..Len(Plan) : IsApply(j) /\ Plan[j].res = Plan[pc].res => j = pc + 1
  BY <1>0, SkipAssumption DEF SkipItem, AtItem, Skipped, Item, IsRecord
<1>3. StepsAhead'
  BY <1>0, <1>2 DEF DataInv, StepsAhead, Touched, CoveredBelow, Covers
<1> QED BY <1>1, <1>3 DEF DataInv

\* What holds of the item when a line for it is written.
LEMMA RecordFacts ==
    ASSUME TypeOK, ControlInv, DataInv, AtItem("record"), ~Skipped(Item), ~InTheWay(Item)
    PROVE  /\ EntryOf(Item) \in Entry /\ Holds(EntryOf(Item))
           /\ journal.exists /\ ~committed /\ Quiet
           /\ journal.entries = mem /\ mem \in Seq(Entry)
           /\ Appended(EntryOf(Item)) = [exists |-> TRUE, entries |-> Append(mem, EntryOf(Item))]
<1>1. pc \in 1..Len(Plan) /\ IsRecord(pc) /\ phase = "steps" /\ Item.op = "record"
  BY DEF AtItem, IsRecord, Item
<1>2. EntryOf(Item) \in Entry
  BY <1>1, EntryOfType DEF TypeOK
<1>3. Item.act # "rules" => ~Touched(Item.res)
  <2>1. pc \in pc..Len(Plan)
    BY <1>1
  <2> QED BY <1>1, <2>1 DEF DataInv, StepsAhead, Item
<1>4. Holds(EntryOf(Item))
  BY <1>3, RecordHolds DEF TypeOK
<1>5. journal.exists /\ ~committed /\ Quiet /\ journal.entries = mem /\ mem \in Seq(Entry)
  BY <1>1 DEF ControlInv, DataInv, StepsAhead, TypeOK, JobType
<1> QED BY <1>2, <1>4, <1>5 DEF Appended

\* One line more that holds, the host unchanged.
LEMMA AppendKeeps ==
    ASSUME WriteAhead, EntriesHold, NEW e \in Entry, Holds(e),
           journal.entries \in Seq(Entry),
           journal' = [exists |-> TRUE, entries |-> Append(journal.entries, e)],
           UNCHANGED <<sys, before, committed>>
    PROVE  WriteAhead' /\ EntriesHold'
<1> DEFINE s == journal.entries
<1>1. /\ journal'.exists /\ journal'.entries = Append(s, e) /\ Len(s) \in Nat
      /\ Len(Append(s, e)) = Len(s) + 1 /\ Append(s, e)[Len(s) + 1] = e
      /\ \A i \in 1..Len(s) : Append(s, e)[i] = s[i]
  OBVIOUS
<1>2. ASSUME ~committed, NEW r \in Resources, Touched(r)
      PROVE  CoveredBelow(Append(s, e), Len(Append(s, e)), r)
  BY <1>2, AppendCovers DEF WriteAhead
<1>3. WriteAhead'
  BY <1>1, <1>2 DEF WriteAhead, Touched, CoveredBelow, Covers
<1>4. EntriesHold'
  BY <1>1 DEF EntriesHold, Holds, Covers
<1> QED BY <1>3, <1>4

LEMMA RecordKeeps ==
    ASSUME AdminWaits, "read" \notin Faults, TypeOK, ControlInv, DataInv, RecordItem
    PROVE  DataInv'
<1> DEFINE e == EntryOf(Item)
<1>0. /\ AtItem("record") /\ ~Skipped(Item) /\ ~InTheWay(Item)
      /\ e \in Entry /\ Holds(e) /\ Quiet
      /\ journal.entries = mem /\ mem \in Seq(Entry)
      /\ journal' = [exists |-> TRUE, entries |-> Append(mem, e)]
      /\ UNCHANGED <<sys, before, committed, rb>>
      /\ mem' = Append(mem, e) /\ phase = "steps" /\ phase' = "steps" /\ pc' = pc + 1
      /\ pc \in 1..Len(Plan) /\ IsRecord(pc)
  <2>1. journal' = Appended(e) /\ mem' = Append(mem, e)
    BY ReadEntries DEF RecordItem
  <2> QED BY <2>1, RecordFacts DEF RecordItem, AtItem, IsRecord
<1> HIDE DEF e
<1>1. WriteAhead' /\ EntriesHold'
  BY <1>0, AppendKeeps DEF DataInv
<1>2. RequestBelow' /\ UndoBelow'
  BY <1>0, QuietRequests DEF UndoBelow
<1>3. StepsAhead'
  <2>1. journal'.entries = mem'
    BY <1>0
  <2>2. ASSUME NEW j \in (pc + 1)..Len(Plan), IsRecord(j), Plan[j].act # "rules"
        PROVE  ~Touched(Plan[j].res)'
    BY <1>0, <2>2 DEF DataInv, StepsAhead, Touched
  <2>3. ASSUME NEW j \in (pc + 1)..Len(Plan), IsApply(j), Plan[j].act # "rules"
        PROVE  \/ CoveredBelow(mem, Len(mem), Plan[j].res)'
               \/ \E k \in (pc + 1)..(j - 1) : IsRecord(k) /\ Plan[k].res = Plan[j].res
    <3>0. /\ j \in pc..Len(Plan) /\ j \in 1..Len(Plan)
          /\ Plan[j].res \in Resources /\ Plan[j].res # "rules"
      BY <1>0, <2>3, ApplyAssumption, ConstantsAssumption
    <3>1. CASE Plan[pc].res = Plan[j].res
      <4>1. Covers(e, Plan[j].res)
        <5>1. e.res = Plan[j].res
          BY <3>1 DEF e, EntryOf, Item
        <5> QED BY <1>0, <3>0, <5>1 DEF Holds
      <4>2. CoveredBelow(Append(mem, e), Len(Append(mem, e)), Plan[j].res)
        BY <1>0, <4>1, AppendCovers
      <4> QED BY <1>0, <4>2 DEF CoveredBelow, Covers
    <3>2. CASE CoveredBelow(mem, Len(mem), Plan[j].res)
      <4>2. CoveredBelow(Append(mem, e), Len(Append(mem, e)), Plan[j].res)
        BY <1>0, <3>2, AppendCovers
      <4> QED BY <1>0, <4>2 DEF CoveredBelow, Covers
    <3>3. CASE Plan[pc].res # Plan[j].res /\ ~CoveredBelow(mem, Len(mem), Plan[j].res)
      BY <1>0, <2>3, <3>0, <3>3 DEF DataInv, StepsAhead
    <3> QED BY <3>1, <3>2, <3>3
  <2> QED BY <1>0, <2>1, <2>2, <2>3 DEF StepsAhead
<1> QED BY <1>1, <1>2, <1>3 DEF DataInv

LEMMA RecordFailsKeeps ==
    ASSUME AdminWaits, "read" \notin Faults, TypeOK, ControlInv, DataInv, RecordFails
    PROVE  DataInv'
<1>0. /\ UNCHANGED <<sys, before, committed, rb, mem>> /\ Fail /\ phase = "steps"
      /\ Quiet /\ ~committed /\ journal.entries = mem /\ mem \in Seq(Entry) /\ Len(mem) \in Nat
  BY DEF RecordFails, AtItem, Fail, ControlInv, DataInv, StepsAhead, TypeOK, JobType
<1>1. \A r \in Resources : Touched(r)' => CoveredBelow(mem, Len(mem), r)'
  BY <1>0 DEF DataInv, WriteAhead, Touched, CoveredBelow, Covers
<1>2. RequestBelow'
  BY <1>0, QuietRequests
<1>3. CASE journal' = journal
  <2>1. WriteAhead' /\ EntriesHold'
    BY <1>0, <1>3, SameData DEF DataInv
  <2>2. StepsAhead' /\ UndoBelow'
    BY <1>0, <1>1, <1>3, FailCovers
  <2> QED BY <1>2, <2>1, <2>2 DEF DataInv
<1>4. CASE journal' # journal
  <2>1. /\ AtItem("record") /\ ~Skipped(Item) /\ ~InTheWay(Item)
        /\ journal' = Appended(EntryOf(Item))
    BY <1>4, ReadEntries DEF RecordFails
  <2> DEFINE e == EntryOf(Item)
  <2>2. /\ e \in Entry /\ Holds(e) /\ journal' = [exists |-> TRUE, entries |-> Append(mem, e)]
    BY <2>1, RecordFacts
  <2> HIDE DEF e
  <2>3. WriteAhead' /\ EntriesHold'
    BY <1>0, <2>2, AppendKeeps DEF DataInv
  <2>4. Len(mem) <= Len(journal'.entries) /\ \A i \in 1..Len(mem) : journal'.entries[i] = mem[i]
    BY <1>0, <2>2
  <2>5. StepsAhead' /\ UndoBelow'
    BY <1>0, <1>1, <2>4, FailCovers
  <2> QED BY <1>2, <2>3, <2>5 DEF DataInv
<1> QED BY <1>3, <1>4

\* The host changes at the item's resource only, which the journal covers.
LEMMA ChangedCovered ==
    ASSUME TypeOK, ControlInv, DataInv, AtItem("apply"),
           Changed(Item) \/ UNCHANGED <<sys, rules>>, UNCHANGED <<before, committed, journal>>
    PROVE  /\ WriteAhead' /\ EntriesHold'
           /\ \A r \in Resources : Item.act = "rules" \/ Item.res # r => (Touched(r)' <=> Touched(r))
<1>0. /\ pc \in 1..Len(Plan) /\ pc \in pc..Len(Plan) /\ IsApply(pc) /\ phase = "steps"
      /\ ~committed /\ journal.exists /\ journal.entries = mem
  BY DEF AtItem, IsApply, ControlInv, DataInv, StepsAhead
<1>1. Item.act # "rules" => Item.res \in Resources
  BY <1>0, ApplyAssumption DEF Item
<1>2. \A r \in Resources : Item.act = "rules" \/ Item.res # r => sys'[r] = sys[r]
  BY <1>1 DEF Changed, TypeOK, HostType
<1>3. \A r \in Resources : Item.act = "rules" \/ Item.res # r => (Touched(r)' <=> Touched(r))
  BY <1>2 DEF Touched
<1>4. Item.act # "rules" => CoveredBelow(mem, Len(mem), Item.res)
  BY <1>0 DEF DataInv, StepsAhead, Item
<1>5. WriteAhead'
  <2>1. ASSUME NEW r \in Resources, Touched(r)'
        PROVE  CoveredBelow(mem, Len(mem), r)
    BY <1>0, <1>3, <1>4, <2>1 DEF DataInv, WriteAhead
  <2> QED BY <1>0, <2>1 DEF WriteAhead, CoveredBelow, Covers
<1>6. EntriesHold'
  BY DEF DataInv, EntriesHold, Holds, Covers
<1> QED BY <1>3, <1>5, <1>6

LEMMA ApplyKeeps ==
    ASSUME AdminWaits, TypeOK, ControlInv, DataInv, ApplyItem
    PROVE  DataInv'
<1>0. /\ UNCHANGED <<before, committed, journal, rb, mem>> /\ AtItem("apply") /\ Changed(Item)
      /\ phase = "steps" /\ phase' = "steps" /\ pc' = pc + 1
      /\ pc \in 1..Len(Plan) /\ IsApply(pc) /\ ~IsRecord(pc) /\ Quiet /\ journal.entries = mem
  BY DEF ApplyItem, AtItem, Advance, IsApply, IsRecord, ControlInv, DataInv, StepsAhead
<1>1. WriteAhead' /\ EntriesHold' /\ RequestBelow' /\ UndoBelow'
  BY <1>0, ChangedCovered, QuietRequests DEF UndoBelow
<1>2. StepsAhead'
  <2>1. ASSUME NEW j \in (pc + 1)..Len(Plan), IsRecord(j), Plan[j].act # "rules"
        PROVE  ~Touched(Plan[j].res)'
    <3>1. j \in 1..Len(Plan) /\ j \in pc..Len(Plan) /\ Plan[j].res \in Resources
      BY <1>0, <2>1, RecordAssumption
    <3>2. Item.act = "rules" \/ Item.res # Plan[j].res
      BY <1>0, <2>1, <3>1, OrderAssumption DEF Item
    <3>3. ~Touched(Plan[j].res)
      BY <1>0, <2>1, <3>1 DEF DataInv, StepsAhead
    <3> QED BY <1>0, <3>1, <3>2, <3>3, ChangedCovered
  <2>2. ASSUME NEW j \in (pc + 1)..Len(Plan), IsApply(j), Plan[j].act # "rules"
        PROVE  \/ CoveredBelow(mem, Len(mem), Plan[j].res)'
               \/ \E k \in (pc + 1)..(j - 1) : IsRecord(k) /\ Plan[k].res = Plan[j].res
    BY <1>0, <2>2 DEF DataInv, StepsAhead, CoveredBelow, Covers
  <2> QED BY <1>0, <2>1, <2>2 DEF StepsAhead
<1> QED BY <1>1, <1>2 DEF DataInv

LEMMA ApplyFailsKeeps ==
    ASSUME AdminWaits, TypeOK, ControlInv, DataInv, ApplyFails
    PROVE  DataInv'
<1>0. /\ UNCHANGED <<before, committed, journal, rb, mem>> /\ AtItem("apply") /\ Fail
      /\ Changed(Item) \/ UNCHANGED <<sys, rules>>
      /\ phase = "steps" /\ Quiet /\ ~committed
      /\ journal.entries = mem /\ mem \in Seq(Entry) /\ Len(mem) \in Nat
  BY DEF ApplyFails, AtItem, Fail, ControlInv, DataInv, StepsAhead, TypeOK, JobType
<1>1. WriteAhead' /\ EntriesHold' /\ RequestBelow'
  BY <1>0, ChangedCovered, QuietRequests
<1>2. \A r \in Resources : Touched(r)' => CoveredBelow(mem, Len(mem), r)'
  BY <1>0, <1>1 DEF WriteAhead, CoveredBelow, Covers
<1>3. StepsAhead' /\ UndoBelow'
  BY <1>0, <1>2, FailCovers
<1> QED BY <1>1, <1>3 DEF DataInv

LEMMA CommitKeeps ==
    ASSUME AdminWaits, TypeOK, ControlInv, DataInv, Commit
    PROVE  DataInv'
BY DEF Commit, DataInv, WriteAhead, EntriesHold, StepsAhead, UndoBelow, RequestBelow

LEMMA FinishKeeps ==
    ASSUME AdminWaits, TypeOK, ControlInv, DataInv, Finish
    PROVE  DataInv'
BY DEF Finish, ControlInv, DataInv, WriteAhead, EntriesHold, StepsAhead, UndoBelow, RequestBelow

\* The entry a rollback without failures has come to is one of the journal's.
LEMMA JobUndoKeeps ==
    ASSUME AdminWaits, TypeOK, ControlInv, DataInv, JobUndo
    PROVE  DataInv'
<1> DEFINE e == mem[pc]
<1>0. /\ mem \in Seq(Entry) /\ Len(mem) \in Nat /\ pc \in 1..Len(mem)
      /\ phase = "undo" /\ phase' = "undo" /\ pc' = pc - 1 /\ ~committed /\ Quiet
      /\ UNCHANGED <<before, committed, journal, mem, rb>>
      /\ HostType
      /\ UndoSucceeds(e) \/ UndoFails(e)
  BY DEF JobUndo, ControlInv, TypeOK, JobType
<1>1. e \in Entry /\ Holds(e)
  <2>1. pc \in 1..Len(journal.entries) /\ journal.entries[pc] = e
    BY <1>0 DEF DataInv, UndoBelow, TypeOK, JournalType
  <2> QED BY <1>0, <2>1 DEF DataInv, EntriesHold
<1> HIDE DEF e
<1>2. \A r \in Resources : Touched(r)' => Touched(r)
  BY <1>0, <1>1, UndoTouchesNothing DEF TypeOK
<1>3. WriteAhead' /\ EntriesHold'
  BY <1>0, <1>2 DEF DataInv, WriteAhead, EntriesHold, CoveredBelow, Covers, Holds
<1>4. UndoBelow'
  <2>1. CASE UndoSucceeds(e) /\ UNCHANGED failed
    <3>1. ASSUME ~failed, NEW r \in Resources, Touched(r)'
          PROVE  CoveredBelow(mem, pc - 1, r)
      <4>1. Touched(r) /\ e.res # r
        BY <1>0, <1>1, <2>1, <3>1, UndoRestores DEF TypeOK
      <4>2. PICK i \in 1..pc : Covers(mem[i], r)
        BY <1>0, <3>1, <4>1 DEF DataInv, UndoBelow, CoveredBelow
      <4>3. i # pc
        BY <4>1, <4>2 DEF Covers, e
      <4> QED BY <1>0, <4>2, <4>3 DEF CoveredBelow
    <3> QED BY <1>0, <2>1, <3>1 DEF DataInv, UndoBelow, CoveredBelow, Covers
  <2>2. CASE failed' = TRUE
    BY <1>0, <2>2 DEF DataInv, UndoBelow
  <2> QED BY <2>1, <2>2 DEF JobUndo, e
<1>5. StepsAhead' /\ RequestBelow'
  BY <1>0, QuietRequests DEF StepsAhead
<1> QED BY <1>3, <1>4, <1>5 DEF DataInv

LEMMA JobUndoneKeeps ==
    ASSUME AdminWaits, TypeOK, ControlInv, DataInv, JobUndone
    PROVE  DataInv'
<1>0. /\ phase = "undo" /\ phase' = "idle" /\ pc = 0 /\ Quiet
      /\ UNCHANGED <<sys, before, committed, rb>>
  BY DEF JobUndone, ControlInv
<1>1. StepsAhead' /\ UndoBelow' /\ RequestBelow'
  BY <1>0, QuietRequests DEF StepsAhead, UndoBelow
<1>2. CASE failed
  <2>1. UNCHANGED journal
    BY <1>2 DEF JobUndone
  <2> QED BY <1>0, <1>1, <2>1, SameData DEF DataInv
<1>3. CASE ~failed
  <2>1. journal'.entries = <<>> \/ UNCHANGED journal
    BY <1>3 DEF JobUndone, Unlinked, NoJournal
  <2>2. \A r \in Resources : ~Touched(r)
    BY <1>0, <1>3 DEF DataInv, UndoBelow, CoveredBelow
  <2>3. WriteAhead' /\ EntriesHold'
    BY <1>0, <2>1, <2>2 DEF DataInv, WriteAhead, EntriesHold, Touched, Holds, Covers
  <2> QED BY <1>1, <2>3 DEF DataInv
<1> QED BY <1>2, <1>3

LEMMA CheckRequestKeeps ==
    ASSUME AdminWaits, TypeOK, ControlInv, DataInv, NEW q \in Requests, RollbackCheck(q)
    PROVE  DataInv'
<1>1. UNCHANGED <<sys, before, committed, journal, phase, pc, mem, failed>>
  BY DEF RollbackCheck, hostVars, jobVars, histVars
<1>2. RequestBelow'
  BY DEF RollbackCheck, Quiet, TypeOK, RequestType, RequestBelow
<1> QED BY <1>1, <1>2, SameData DEF DataInv, StepsAhead, UndoBelow, Touched, CoveredBelow, Covers

LEMMA LoadKeeps ==
    ASSUME AdminWaits, TypeOK, ControlInv, DataInv, NEW q \in Requests, RollbackLoad(q)
    PROVE  DataInv'
<1>1. UNCHANGED <<sys, before, committed, journal, phase, pc, mem, failed>>
  BY DEF RollbackLoad, hostVars, jobVars, histVars
<1>2. RequestBelow'
  <2>1. \A p \in Requests : p # q => rb[p].pc = "idle" /\ rb'[p] = rb[p]
    BY DEF RollbackLoad, ControlInv, TypeOK, RequestType
  <2>2. rb'[q] = IF journal.entries = <<>> THEN IdleRequest
                 ELSE [pc |-> "undo", idx |-> Len(journal.entries),
                       entries |-> journal.entries, failed |-> FALSE]
    BY DEF RollbackLoad, TypeOK, RequestType
  <2>3. journal.entries # <<>> => journal.exists
    BY DEF ControlInv
  <2>4. ASSUME ~committed, NEW r \in Resources, Touched(r)
        PROVE  CoveredBelow(journal.entries, Len(journal.entries), r)
    BY <2>4 DEF DataInv, WriteAhead
  <2>5. CASE journal.entries = <<>>
    BY <2>1, <2>2, <2>5 DEF RequestBelow, IdleRequest
  <2>6. CASE journal.entries # <<>>
    BY <1>1, <2>1, <2>2, <2>3, <2>4, <2>6 DEF RequestBelow, Touched, CoveredBelow, Covers
  <2> QED BY <2>5, <2>6
<1> QED BY <1>1, <1>2, SameData DEF DataInv, StepsAhead, UndoBelow, Touched, CoveredBelow, Covers

LEMMA UndoRequestKeeps ==
    ASSUME AdminWaits, TypeOK, ControlInv, DataInv, NEW q \in Requests, RollbackUndo(q)
    PROVE  DataInv'
<1> DEFINE s == rb[q].entries
           n == rb[q].idx
           e == s[n]
<1>0. /\ rb[q] \in Request /\ s \in Seq(Entry) /\ n \in 1..Len(s)
      /\ rb[q].pc = "undo" /\ phase = "idle"
      /\ UNCHANGED <<before, committed, journal, phase, pc, mem, failed>>
      /\ UndoSucceeds(e) \/ UndoFails(e)
  <2>1. rb[q] \in Request /\ n <= Len(s)
    BY DEF TypeOK, RequestType
  <2>2. s \in Seq(Entry) /\ n \in 1..Len(s)
    BY <2>1 DEF RollbackUndo, Request
  <2>3. rb[q].pc = "undo" /\ (UndoSucceeds(e) \/ UndoFails(e))
    BY DEF RollbackUndo
  <2>4. phase = "idle"
    BY <2>3 DEF ControlInv, Quiet
  <2>5. UNCHANGED <<before, committed, journal, phase, pc, mem, failed>>
    BY DEF RollbackUndo, jobVars, histVars
  <2> QED BY <2>1, <2>2, <2>3, <2>4, <2>5
<1>1. \A p \in Requests : p # q => rb[p].pc = "idle"
  BY <1>0 DEF ControlInv
<1>2. StepsAhead' /\ UndoBelow'
  BY <1>0 DEF StepsAhead, UndoBelow
<1>3. CASE committed
  BY <1>0, <1>2, <1>3 DEF DataInv, WriteAhead, EntriesHold, RequestBelow
<1>4. CASE ~committed
  <2>1. journal.exists /\ s = journal.entries
    BY <1>0, <1>4 DEF DataInv, RequestBelow
  <2>2. e \in Entry /\ Holds(e)
    BY <1>0, <1>4, <2>1 DEF DataInv, EntriesHold
  <2>3. \A r \in Resources : Touched(r)' => Touched(r)
    BY <1>0, <2>2, UndoTouchesNothing DEF TypeOK
  <2>4. WriteAhead' /\ EntriesHold'
    BY <1>0, <2>3 DEF DataInv, WriteAhead, EntriesHold, CoveredBelow, Covers, Holds
  <2>5. RequestBelow'
    <3>1. PICK fails \in {rb[q].failed, TRUE} :
            /\ Descend(q, fails)
            /\ ~fails => ~rb[q].failed /\ UndoSucceeds(e)
      BY DEF RollbackUndo
    <3>2. /\ rb'[q] = [pc |-> "undo", idx |-> n - 1, entries |-> s, failed |-> fails]
          /\ \A p \in Requests : p # q => rb'[p] = rb[p]
      BY <3>1 DEF Descend, TypeOK, RequestType
    <3>3. ASSUME ~fails, NEW r \in Resources, Touched(r)'
          PROVE  CoveredBelow(s, n - 1, r)
      <4>1. Touched(r) /\ e.res # r
        BY <1>0, <2>2, <3>1, <3>3, UndoRestores DEF TypeOK
      <4>2. PICK i \in 1..n : Covers(s[i], r)
        BY <1>0, <1>4, <3>1, <3>3, <4>1 DEF DataInv, RequestBelow, CoveredBelow
      <4>3. i # n
        BY <4>1, <4>2 DEF Covers
      <4> QED BY <1>0, <4>2, <4>3 DEF CoveredBelow
    <3> HIDE DEF s, n
    <3> QED BY <1>0, <1>1, <2>1, <3>2, <3>3 DEF RequestBelow, CoveredBelow, Covers
  <2> QED BY <1>2, <2>4, <2>5 DEF DataInv
<1> QED BY <1>3, <1>4

LEMMA EndKeeps ==
    ASSUME AdminWaits, TypeOK, ControlInv, DataInv, NEW q \in Requests, RollbackEnd(q)
    PROVE  DataInv'
<1>0. /\ UNCHANGED <<sys, before, committed, phase, pc, mem, failed>>
      /\ rb[q].pc = "undo" /\ rb[q].idx = 0 /\ phase = "idle"
      /\ \A p \in Requests : rb'[p].pc = "idle"
  BY DEF RollbackEnd, IdleRequest, ControlInv, Quiet, TypeOK, RequestType, hostVars, jobVars, histVars
<1>1. StepsAhead' /\ UndoBelow' /\ RequestBelow'
  BY <1>0 DEF StepsAhead, UndoBelow, RequestBelow
<1>2. CASE rb[q].failed
  <2>1. UNCHANGED journal
    BY <1>2 DEF RollbackEnd
  <2> QED BY <1>0, <1>1, <2>1, SameData DEF DataInv
<1>3. CASE ~rb[q].failed
  <2>1. journal'.entries = <<>> \/ UNCHANGED journal
    BY <1>3 DEF RollbackEnd, Unlinked, NoJournal
  <2>2. \A r \in Resources : ~committed => ~Touched(r)
    BY <1>0, <1>3 DEF DataInv, RequestBelow, CoveredBelow
  <2>3. WriteAhead' /\ EntriesHold'
    BY <1>0, <2>1, <2>2 DEF DataInv, WriteAhead, EntriesHold, Touched, Holds, Covers
  <2> QED BY <1>1, <2>3 DEF DataInv
<1> QED BY <1>2, <1>3

LEMMA CrashKeeps ==
    ASSUME AdminWaits, TypeOK, ControlInv, DataInv, Crash
    PROVE  DataInv'
<1>1. /\ UNCHANGED <<sys, before, committed, journal>> /\ phase' = "idle"
      /\ \A p \in Requests : rb'[p].pc = "idle"
  BY DEF Crash, IdleRequest, hostVars, histVars
<1> QED BY <1>1, SameData DEF DataInv, StepsAhead, UndoBelow, RequestBelow

\* The induction step.
LEMMA DataStep ==
    ASSUME AdminWaits, "read" \notin Faults, TypeOK, ControlInv, DataInv, [Next]_vars
    PROVE  DataInv'
<1>1. CASE UNCHANGED vars
  BY <1>1, SameData DEF vars, DataInv, StepsAhead, UndoBelow, RequestBelow, Touched, CoveredBelow, Covers
<1> QED BY <1>1, StartKeeps, CheckKeeps, SkipKeeps, RecordKeeps, RecordFailsKeeps, ApplyKeeps,
           ApplyFailsKeeps, CommitKeeps, FinishKeeps, JobUndoKeeps, JobUndoneKeeps,
           CheckRequestKeeps, LoadKeeps, UndoRequestKeeps, EndKeeps, CrashKeeps
        DEF Next, RunStep, RequestStep

LEMMA RecoveryInit ==
    ASSUME Init
    PROVE  ControlInv /\ DataInv
<1>1. Quiet
  BY DEF Init, Quiet, IdleRequest
<1>2. ControlInv
  BY <1>1 DEF Init, ControlInv, Quiet, NoJournal
<1>3. DataInv
  BY <1>1 DEF Init, Quiet, NoJournal, DataInv, WriteAhead, EntriesHold, StepsAhead, UndoBelow,
              RequestBelow, Touched
<1> QED BY <1>2, <1>3

\* The whole invariant, for callers that wait for one answer before the next call and files
\* that can be read.
THEOREM RecoveryHolds ==
    ASSUME AdminWaits, "read" \notin Faults
    PROVE  Spec => []RecoveryInv
<1>1. Init => ControlInv /\ DataInv
  BY RecoveryInit
<1>2. TypeOK /\ ControlInv /\ DataInv /\ [Next]_vars => (ControlInv /\ DataInv)'
  BY ControlStep, DataStep DEF TypeOK
<1>3. ControlInv /\ DataInv => RecoveryInv
  BY DEF RecoveryInv, DataInv
<1> QED BY <1>1, <1>2, <1>3, TypeCorrect, PTL DEF Spec

\* The write-ahead rule, through crashes, failing steps, failing records and
\* failing rollbacks: what an installation has changed and not committed is in the
\* journal file with its old content.
THEOREM WriteAheadHolds ==
    ASSUME AdminWaits, "read" \notin Faults
    PROVE  Spec => []WriteAhead
<1>1. RecoveryInv => WriteAhead
  BY DEF RecoveryInv
<1> QED BY <1>1, RecoveryHolds, PTL

\* A journal that was not committed goes only when nothing is touched any more.
THEOREM ResidueEndsClean ==
    ASSUME AdminWaits, "read" \notin Faults
    PROVE  Spec => ResidueGoesClean
<1>1. TypeOK /\ RecoveryInv /\ [Next]_vars
        => [journal.exists /\ ~journal'.exists /\ ~committed'
                => \A r \in Resources : ~Touched(r)]_vars
  <2> SUFFICES ASSUME TypeOK, RecoveryInv, Next, journal.exists, ~journal'.exists, ~committed'
               PROVE  \A r \in Resources : ~Touched(r)
    BY DEF vars
  <2>0. DataInv /\ ControlInv
    BY DEF RecoveryInv, DataInv
  <2>1. CASE JobUndone
    <3>1. ~failed /\ pc = 0 /\ phase = "undo"
      BY <2>1 DEF JobUndone
    <3> QED BY <2>0, <3>1 DEF DataInv, UndoBelow, CoveredBelow
  <2>2. ASSUME NEW q \in Requests, RollbackEnd(q)
        PROVE  \A r \in Resources : ~Touched(r)
    <3>1. ~rb[q].failed /\ rb[q].pc = "undo" /\ rb[q].idx = 0 /\ ~committed
      BY <2>2 DEF RollbackEnd, histVars
    <3> QED BY <2>0, <3>1 DEF DataInv, RequestBelow, CoveredBelow
  <2>3. CASE RecordFails
    BY <2>3 DEF RecordFails, Appended
  <2>4. CASE Commit
    BY <2>4 DEF Commit
  <2>5. CASE RecordItem
    BY <2>5 DEF RecordItem, Appended
  <2>6. CASE UNCHANGED journal
    BY <2>6
  <2> QED BY <2>1, <2>2, <2>3, <2>4, <2>5, <2>6
          DEF Next, RunStep, RequestStep, Start, RunCheck, SkipItem, ApplyItem, ApplyFails,
              Finish, JobUndo, RollbackCheck, RollbackLoad, RollbackUndo, Crash
<1> QED BY <1>1, TypeCorrect, RecoveryHolds, PTL DEF Spec, ResidueGoesClean

LEMMA SettledStep ==
    ASSUME AdminWaits, "remove" \notin Faults, TypeOK, ControlInv, Settled, [Next]_vars
    PROVE  Settled'
<1>0. ControlInv'
  BY ControlStep DEF TypeOK
<1> SUFFICES ASSUME committed'
             PROVE  ~journal'.exists /\ \A p \in Requests : rb'[p].pc # "undo"
  BY DEF Settled
<1>1. CASE UNCHANGED <<journal, rb, committed>>
  BY <1>1 DEF Settled
<1>2. CASE Start
  BY <1>2 DEF Start
<1>3. CASE RecordItem \/ RecordFails \/ JobUndone
  BY <1>3 DEF RecordItem, RecordFails, JobUndone, AtItem, ControlInv
<1>4. CASE Commit
  <2>1. ~journal'.exists
    BY <1>4 DEF Commit, NoJournal
  <2>2. phase' = "save" /\ job' = "running"
    BY <1>4 DEF Commit, ControlInv
  <2> QED BY <1>0, <2>1, <2>2 DEF ControlInv, Quiet
<1>5. ASSUME NEW q \in Requests, RollbackCheck(q)
      PROVE  Settled'
  BY <1>5 DEF RollbackCheck, Settled, TypeOK, RequestType, histVars
<1>6. ASSUME NEW q \in Requests, RollbackLoad(q)
      PROVE  Settled'
  BY <1>6 DEF RollbackLoad, Settled, ControlInv, IdleRequest, TypeOK, RequestType, histVars
<1>7. ASSUME NEW q \in Requests, RollbackUndo(q) \/ RollbackEnd(q)
      PROVE  FALSE
  BY <1>7 DEF RollbackUndo, RollbackEnd, Settled, histVars
<1>8. CASE Crash
  BY <1>8 DEF Crash, Settled, IdleRequest, histVars
<1> QED BY <1>1, <1>2, <1>3, <1>4, <1>5, <1>6, <1>7, <1>8
        DEF Next, RunStep, RequestStep, RunCheck, SkipItem, ApplyItem, ApplyFails, Finish,
            JobUndo, Settled, vars

\* The control alone, whatever can be read.
LEMMA ControlHolds == ASSUME AdminWaits PROVE Spec => []ControlInv
<1>1. Init => ControlInv
  BY RecoveryInit
<1>2. TypeOK /\ ControlInv /\ [Next]_vars => ControlInv'
  BY ControlStep DEF TypeOK
<1> QED BY <1>1, <1>2, TypeCorrect, PTL DEF Spec

\* Provided that its journal could be removed, a committed installation is never
\* taken apart, neither by a request nor after a crash.
THEOREM CommittedHolds ==
    ASSUME AdminWaits, "remove" \notin Faults
    PROVE  Spec => CommittedStays
<1>1. Init => Settled
  BY DEF Init, Settled
<1>2. ControlInv /\ TypeOK /\ Settled /\ [Next]_vars => Settled'
  BY SettledStep
<1>3. ControlInv /\ Settled /\ [Next]_vars
        => [committed /\ committed' => UNCHANGED hostVars]_vars
  <2> SUFFICES ASSUME ControlInv, Settled, Next, committed, committed'
               PROVE  UNCHANGED hostVars
    BY DEF vars
  <2>1. phase \notin {"steps", "undo"} /\ \A q \in Requests : rb[q].pc # "undo"
    BY DEF ControlInv, Settled
  <2>2. ~RunCheck /\ ~SkipItem /\ ~RecordItem /\ ~RecordFails /\ ~ApplyItem /\ ~ApplyFails
    BY <2>1 DEF RunCheck, SkipItem, RecordItem, RecordFails, ApplyItem, ApplyFails, AtItem
  <2> QED BY <2>1, <2>2 DEF Next, RunStep, RequestStep, Start, Commit, Finish, JobUndo,
             JobUndone, RollbackCheck, RollbackLoad, RollbackUndo, RollbackEnd, Crash, hostVars
<1> QED BY <1>1, <1>2, <1>3, TypeCorrect, ControlHolds, PTL DEF Spec, CommittedStays
-------------------------------------------------------------------------------
(* The engine implements AtomicInstall. *)

\* What is set up so far: what a record before the position names is there, or its change
\* is still to come; a committed installation has set up everything.
SetUp ==
    /\ phase = "steps" => \A i \in 1..Len(Plan) :
          i < pc /\ IsRecord(i) /\ Plan[i].act # "rules" /\ Plan[i].cond # "ifPresent" =>
              \/ sys[Plan[i].res] # "absent"
              \/ \E j \in pc..Len(Plan) :
                    IsApply(j) /\ Plan[j].act # "rules" /\ Plan[j].res = Plan[i].res
    /\ committed => Complete

\* At the end of the plan nothing is still to come.
LEMMA EndComplete ==
    ASSUME SetUp, phase = "steps", pc = Len(Plan) + 1
    PROVE  Complete
<1>1. Len(Plan) \in Nat
  BY PlanType
<1>2. \A i \in 1..Len(Plan) : i < pc
  BY <1>1
<1>3. pc..Len(Plan) = {}
  BY <1>1
<1> QED BY <1>2, <1>3 DEF SetUp, Complete, IsRecord

\* One item further, the host unchanged.
LEMMA AdvanceSetUp ==
    ASSUME TypeOK, SetUp, phase = "steps", pc \in 1..Len(Plan), UNCHANGED <<sys, committed>>,
           phase' = "steps", pc' = pc + 1, ~IsApply(pc)
    PROVE  SetUp'
<1>1. ASSUME NEW i \in 1..Len(Plan), i < pc + 1, IsRecord(i), Plan[i].act # "rules",
             Plan[i].cond # "ifPresent", sys[Plan[i].res] = "absent"
      PROVE  \E j \in (pc + 1)..Len(Plan) :
                IsApply(j) /\ Plan[j].act # "rules" /\ Plan[j].res = Plan[i].res
  <2>1. pc \in Nat /\ Len(Plan) \in Nat /\ i \in Nat
    BY PlanType DEF TypeOK, JobType
  <2>2. CASE i = pc
    BY <1>1, <2>1, <2>2, CompletionAssumption
  <2>3. CASE i # pc
    <3>1. i < pc
      BY <1>1, <2>1, <2>3
    <3>2. PICK j \in pc..Len(Plan) : IsApply(j) /\ Plan[j].act # "rules" /\ Plan[j].res = Plan[i].res
      BY <1>1, <3>1 DEF SetUp
    <3>3. j \in (pc + 1)..Len(Plan)
      BY <2>1, <3>2
    <3> QED BY <3>2, <3>3
  <2> QED BY <2>2, <2>3
<1> QED BY <1>1 DEF SetUp, Complete

LEMMA SkipSetUp ==
    ASSUME TypeOK, SetUp, ControlInv, SkipItem
    PROVE  SetUp'
<1>0. /\ phase = "steps" /\ pc \in 1..Len(Plan) /\ IsRecord(pc) /\ Skipped(Item)
      /\ phase' = "steps" /\ pc' = pc + 2 /\ UNCHANGED <<sys, committed>>
      /\ pc \in Nat /\ Len(Plan) \in Nat
  BY PlanType DEF SkipItem, AtItem, Advance, IsRecord, TypeOK, JobType
<1>1. /\ Plan[pc].cond \in {"ifAbsent", "ifPresent"}
      /\ Plan[pc].cond = "ifAbsent" => sys[Plan[pc].res] # "absent"
  BY <1>0 DEF Skipped, Item
<1>2. ASSUME NEW i \in 1..Len(Plan), i < pc + 2, IsRecord(i), Plan[i].act # "rules",
             Plan[i].cond # "ifPresent", sys[Plan[i].res] = "absent"
      PROVE  \E j \in (pc + 2)..Len(Plan) :
                IsApply(j) /\ Plan[j].act # "rules" /\ Plan[j].res = Plan[i].res
  <2>1. ~IsRecord(pc + 1) /\ i # pc
    BY <1>0, <1>1, <1>2, SkipAssumption
  <2>2. i < pc
    BY <1>0, <1>2, <2>1
  <2>3. PICK j \in pc..Len(Plan) : IsApply(j) /\ Plan[j].act # "rules" /\ Plan[j].res = Plan[i].res
    BY <1>0, <1>2, <2>2 DEF SetUp
  <2>4. j # pc
    BY <1>0, <2>3 DEF IsRecord, IsApply
  <2>5. Plan[pc].res # Plan[i].res
    BY <1>0, <1>2, <2>1, OrderAssumption
  <2>6. IsRecord(pc) /\ Plan[pc].act # "rules"
        => \E k \in (pc + 1)..Len(Plan) : IsApply(k) /\ Plan[k].res = Plan[pc].res
    BY <1>0, CompletionAssumption
  <2>7. Plan[pc].act # "rules"
    BY <1>0, <1>1, SkipAssumption
  <2>8. j # pc + 1
    BY <1>0, <1>1, <2>3, <2>5, <2>6, <2>7, SkipAssumption
  <2>9. j \in (pc + 2)..Len(Plan)
    BY <1>0, <2>3, <2>4, <2>8
  <2> QED BY <2>3, <2>9
<1> QED BY <1>0, <1>2 DEF SetUp, Complete
\* A change takes nothing away, and brings its own resource.
LEMMA ApplySetUp ==
    ASSUME TypeOK, SetUp, ControlInv, ApplyItem
    PROVE  SetUp'
<1>0. /\ phase = "steps" /\ pc \in 1..Len(Plan) /\ IsApply(pc) /\ Changed(Item) /\ HostType
      /\ phase' = "steps" /\ pc' = pc + 1 /\ UNCHANGED committed /\ ~committed
      /\ pc \in Nat /\ Len(Plan) \in Nat
  BY PlanType DEF ApplyItem, AtItem, Advance, IsApply, TypeOK, JobType, ControlInv
<1>1. Item.act # "rules" => Item.res \in Resources
  BY <1>0, ApplyAssumption DEF Item
<1>2. \A r \in Resources : sys[r] # "absent" => sys'[r] # "absent"
  BY <1>0, <1>1 DEF Changed, HostType
<1>3. Item.act # "rules" => sys'[Item.res] # "absent"
  BY <1>0, <1>1 DEF Changed, HostType
<1>4. ASSUME NEW i \in 1..Len(Plan), i < pc + 1, IsRecord(i), Plan[i].act # "rules",
             Plan[i].cond # "ifPresent", sys'[Plan[i].res] = "absent"
      PROVE  \E j \in (pc + 1)..Len(Plan) :
                IsApply(j) /\ Plan[j].act # "rules" /\ Plan[j].res = Plan[i].res
  <2>1. i # pc
    BY <1>0, <1>4 DEF IsRecord, IsApply
  <2>2. i < pc
    BY <1>0, <1>4, <2>1
  <2>3. Plan[i].res \in Resources
    BY <1>4, RecordAssumption
  <2>4. sys[Plan[i].res] = "absent"
    BY <1>2, <1>4, <2>3
  <2>5. PICK j \in pc..Len(Plan) : IsApply(j) /\ Plan[j].act # "rules" /\ Plan[j].res = Plan[i].res
    BY <1>4, <2>2, <2>4, <1>0 DEF SetUp
  <2>6. j # pc
    BY <1>3, <1>4, <2>5 DEF Item
  <2>7. j \in (pc + 1)..Len(Plan)
    BY <1>0, <2>5, <2>6
  <2> QED BY <2>5, <2>7
<1> QED BY <1>0, <1>4 DEF SetUp

LEMMA SetUpStep ==
    ASSUME AdminWaits, "remove" \notin Faults, TypeOK, ControlInv, Settled, SetUp, [Next]_vars
    PROVE  SetUp'
<1>1. CASE Start
  BY <1>1, PlanType DEF Start, SetUp
<1>2. CASE RunCheck
  <2>0. /\ phase = "steps" /\ pc \in 1..Len(Plan) /\ ~IsApply(pc) /\ UNCHANGED <<sys, committed>>
        /\ Advance(1) \/ Fail
    BY <1>2 DEF RunCheck, AtItem, IsApply
  <2>1. CASE Advance(1)
    BY <2>0, <2>1, AdvanceSetUp DEF Advance
  <2>2. CASE Fail
    BY <2>0, <2>2 DEF Fail, SetUp, Complete
  <2> QED BY <2>0, <2>1, <2>2
<1>3. CASE SkipItem
  BY <1>3, SkipSetUp
<1>4. CASE RecordItem
  BY <1>4, AdvanceSetUp DEF RecordItem, AtItem, IsApply
<1>5. CASE RecordFails \/ ApplyFails
  BY <1>5 DEF RecordFails, ApplyFails, AtItem, Fail, ControlInv, SetUp
<1>6. CASE ApplyItem
  BY <1>6, ApplySetUp
<1>7. CASE Commit
  <2>1. Complete
    BY <1>7, EndComplete DEF Commit
  <2> QED BY <1>7, <2>1 DEF Commit, SetUp, Complete
<1>8. CASE Finish \/ JobUndone
  <2>1. UNCHANGED <<sys, committed>> /\ phase' = "idle"
    BY <1>8 DEF Finish, JobUndone
  <2> QED BY <2>1 DEF SetUp, Complete
<1>9. CASE JobUndo
  BY <1>9 DEF JobUndo, ControlInv, SetUp
<1>10. ASSUME NEW q \in Requests, RollbackCheck(q) \/ RollbackLoad(q) \/ RollbackEnd(q)
       PROVE  SetUp'
  BY <1>10 DEF RollbackCheck, RollbackLoad, RollbackEnd, hostVars, jobVars, histVars, SetUp, Complete
<1>11. ASSUME NEW q \in Requests, RollbackUndo(q)
       PROVE  SetUp'
  <2>1. ~committed /\ phase = "idle" /\ UNCHANGED <<committed, phase>>
    BY <1>11 DEF RollbackUndo, Settled, ControlInv, Quiet, jobVars, histVars
  <2> QED BY <2>1 DEF SetUp
<1>12. CASE Crash
  BY <1>12 DEF Crash, hostVars, histVars, SetUp, Complete
<1>13. CASE UNCHANGED vars
  BY <1>13 DEF vars, SetUp, Complete
<1> QED BY <1>1, <1>2, <1>3, <1>4, <1>5, <1>6, <1>7, <1>8, <1>9, <1>10, <1>11, <1>12, <1>13
        DEF Next, RunStep, RequestStep

\* A host without a journal is as it was found or installed, never torn.
LEMMA NeverTorn ==
    ASSUME WriteAhead, SetUp, ~journal.exists
    PROVE  Complete \/ \A r \in Resources : ~Touched(r)
BY DEF WriteAhead, SetUp

\* An installed host has its configuration.
LEMMA CompleteInstalled == Complete => Installed
BY CompletionAssumption DEF Complete, Installed, IsRecord

\* Without a journal only Start changes what the host shows.
LEMMA ViewStays ==
    ASSUME TypeOK, RecoveryInv, AdminWaits, Settled, Next, ~Start, ~journal.exists
    PROVE  UNCHANGED <<sys, before, journal>>
<1>1. ControlInv /\ RequestBelow
  BY DEF RecoveryInv
<1>2. phase \notin {"steps", "undo"} /\ \A q \in Requests : rb[q].pc # "undo"
  BY <1>1 DEF ControlInv, RequestBelow, Settled
<1>3. /\ ~RunCheck /\ ~SkipItem /\ ~RecordItem /\ ~RecordFails /\ ~ApplyItem /\ ~ApplyFails
      /\ ~Commit /\ ~JobUndo /\ ~JobUndone
  BY <1>2 DEF RunCheck, SkipItem, RecordItem, RecordFails, ApplyItem, ApplyFails, AtItem,
              Commit, JobUndo, JobUndone
<1>4. \A q \in Requests : ~RollbackUndo(q) /\ ~RollbackEnd(q)
  BY <1>2 DEF RollbackUndo, RollbackEnd
<1> QED BY <1>3, <1>4 DEF Next, RunStep, RequestStep, Finish, RollbackCheck, RollbackLoad, Crash,
           hostVars, histVars

\* A step of the engine begins, finishes or undoes an installation, or shows nothing.
LEMMA AtomicStep ==
    ASSUME AdminWaits, TypeOK, RecoveryInv, Settled, SetUp, WriteAhead', SetUp', [Next]_vars
    PROVE  [Atomic!Next]_HostView
<1>0. WriteAhead
  BY DEF RecoveryInv
<1>1. CASE UNCHANGED vars
  BY <1>1 DEF vars, HostView, Touched, Complete
<1>2. CASE journal.exists /\ journal'.exists
  BY <1>2 DEF HostView
<1>3. CASE journal.exists /\ ~journal'.exists
  <2>1. HostView = "changing"
    BY <1>3 DEF HostView
  <2>2. (Complete \/ \A r \in Resources : ~Touched(r))'
    BY <1>3 DEF WriteAhead, SetUp
  <2>3. HostView' \in {"original", "installed"}
    BY <1>3, <2>2 DEF HostView
  <2> QED BY <2>1, <2>3 DEF Atomic!Next, Atomic!Finish, Atomic!Restore
<1>4. CASE Start
  <2>1. ~journal.exists /\ ~Installed /\ journal'.exists
    BY <1>4 DEF Start
  <2>2. \A r \in Resources : ~Touched(r)
    BY <1>0, <2>1, NeverTorn, CompleteInstalled
  <2>3. HostView = "original" /\ HostView' = "changing"
    BY <2>1, <2>2 DEF HostView
  <2> QED BY <2>3 DEF Atomic!Next, Atomic!Begin
<1>5. CASE Next /\ ~Start /\ ~journal.exists
  <2>1. UNCHANGED <<sys, before, journal>>
    BY <1>5, ViewStays
  <2> QED BY <2>1 DEF HostView, Touched, Complete
<1> QED BY <1>1, <1>2, <1>3, <1>4, <1>5

\* The engine installs all or nothing: seen from outside, a host is as it was found, being
\* changed, or installed, and a change ends in one of the two others, whatever step, record
\* or undo fails and whenever the panel dies, provided that callers wait and that the
\* journal of a complete installation can be removed.
THEOREM AllOrNothing ==
    ASSUME AdminWaits, "read" \notin Faults, "remove" \notin Faults
    PROVE  Spec => ImplementsAtomic
<1>1. Init => Settled /\ SetUp /\ Atomic!Init
  BY DEF Init, Settled, SetUp, NoJournal, HostView, Touched, Atomic!Init
<1>2. RecoveryInv => ControlInv /\ WriteAhead
  BY DEF RecoveryInv
<1>3. ControlInv /\ TypeOK /\ Settled /\ SetUp /\ [Next]_vars => Settled' /\ SetUp'
  BY SettledStep, SetUpStep
<1>4. /\ TypeOK /\ RecoveryInv /\ Settled /\ SetUp /\ WriteAhead' /\ SetUp' /\ [Next]_vars
      => [Atomic!Next]_HostView
  BY AtomicStep
<1> QED BY <1>1, <1>2, <1>3, <1>4, TypeCorrect, RecoveryHolds, PTL DEF Spec, ImplementsAtomic, Atomic!Spec
-------------------------------------------------------------------------------
(* The firewall rules, which are counted. *)

Added(n, r) ==
    \E i \in 1..Len(Plan) : i < n /\ IsApply(i) /\ Plan[i].act = "rules" /\ Plan[i].res = r

RulesRecorded(n) == \E i \in 1..Len(Plan) : i < n /\ IsRecord(i) /\ Plan[i].act = "rules"

RulesEntry(entries, n) == \E k \in 1..n : entries[k].act = "iptables_rules"

\* While an installation runs it has added no rule twice, and in a rollback what is there
\* beyond what it found is still to be deleted.
RulesInv ==
    /\ phase = "steps" =>
          /\ \A r \in Rules : /\ rules[r] <= before.rules[r] + 1
                              /\ rules[r] > before.rules[r] => Added(pc, r)
          /\ RulesRecorded(pc) => RulesEntry(mem, Len(mem))
    /\ phase = "undo" =>
          \A r \in Rules : /\ rules[r] <= before.rules[r] + 1
                           /\ rules[r] > before.rules[r] => RulesEntry(mem, pc)

\* Added rules were recorded.
LEMMA AddedRecorded ==
    ASSUME NEW r, NEW n \in Nat, Added(n, r)
    PROVE  RulesRecorded(n)
<1>1. Len(Plan) \in Nat
  BY PlanType
<1>2. PICK i \in 1..Len(Plan) : i < n /\ IsApply(i) /\ Plan[i].act = "rules"
  BY DEF Added
<1>3. PICK j \in 1..(i - 1) : IsRecord(j) /\ Plan[j].act = "rules"
  BY <1>2, RulesAssumption
<1>4. j \in 1..Len(Plan) /\ j < n
  BY <1>1, <1>2
<1> QED BY <1>3, <1>4 DEF RulesRecorded

\* A failing step leaves a rollback that deletes what was added.
LEMMA FailRules ==
    ASSUME TypeOK, RulesRecorded(pc) => RulesEntry(mem, Len(mem)), Fail, UNCHANGED before,
           \A r \in Rules : /\ rules'[r] <= before.rules[r] + 1
                            /\ rules'[r] > before.rules[r] => RulesRecorded(pc)
    PROVE  RulesInv'
<1>1. phase' = "undo" /\ mem' = mem /\ pc' = Len(mem)
  BY DEF Fail
<1> QED BY <1>1 DEF RulesInv, RulesEntry

\* The rules unchanged, and some items further, none of which adds or records one.
LEMMA PassRules ==
    ASSUME TypeOK, RulesInv, phase = "steps", phase' = "steps", UNCHANGED <<rules, before, mem>>,
           pc' \in Nat, pc <= pc',
           \A i \in 1..Len(Plan) : pc <= i /\ i < pc' /\ IsRecord(i) => Plan[i].act # "rules"
    PROVE  RulesInv'
<1>1. pc \in Nat /\ Len(Plan) \in Nat
  BY PlanType DEF TypeOK, JobType
<1>2. \A r : Added(pc, r) => Added(pc', r)
  BY <1>1 DEF Added
<1>3. RulesRecorded(pc') => RulesRecorded(pc)
  BY <1>1 DEF RulesRecorded
<1> QED BY <1>2, <1>3 DEF RulesInv, RulesEntry

LEMMA RecordRules ==
    ASSUME TypeOK, ControlInv, RulesInv, RecordItem
    PROVE  RulesInv'
<1>e. PICK e \in EntriesOf(Item) : mem' = Append(mem, e)
  BY DEF RecordItem
<1>0. /\ AtItem("record") /\ phase = "steps" /\ phase' = "steps" /\ UNCHANGED <<rules, before>>
      /\ mem' = Append(mem, e) /\ pc' = pc + 1 /\ pc \in Nat /\ Len(Plan) \in Nat
      /\ pc \in 1..Len(Plan) /\ IsRecord(pc) /\ e \in Entry /\ mem \in Seq(Entry)
  <2>1. e \in Entry
    BY EntriesOfType DEF RecordItem, AtItem, Item, TypeOK
  <2> QED BY <1>e, <2>1, PlanType DEF RecordItem, AtItem, IsRecord, TypeOK, JobType
<1>1. Item.act = "rules" => e.act = "iptables_rules"
  BY DEF EntriesOf, EntryOf, ActOf, JournalAct
<1>2. \A r : Added(pc, r) => Added(pc', r)
  BY <1>0 DEF Added
<1>3. /\ Len(mem') = Len(mem) + 1 /\ mem'[Len(mem) + 1] = e /\ Len(mem) \in Nat
      /\ \A k \in 1..Len(mem) : mem'[k] = mem[k]
  BY <1>0
<1>4. RulesEntry(mem, Len(mem)) => RulesEntry(mem', Len(mem'))
  BY <1>3 DEF RulesEntry
<1>5. RulesRecorded(pc') => RulesEntry(mem', Len(mem'))
  <2>1. CASE Plan[pc].act = "rules"
    BY <1>1, <1>3, <2>1 DEF RulesEntry, Item
  <2>2. CASE Plan[pc].act # "rules"
    <3>1. RulesRecorded(pc') => RulesRecorded(pc)
      BY <1>0, <2>2 DEF RulesRecorded
    <3> QED BY <1>0, <1>4, <3>1 DEF RulesInv
  <2> QED BY <2>1, <2>2
<1> QED BY <1>0, <1>2, <1>5 DEF RulesInv

\* One rule more is one that was not added before.
LEMMA ChangedRules ==
    ASSUME TypeOK, RulesInv, AtItem("apply"), Changed(Item) \/ UNCHANGED <<sys, rules>>
    PROVE  \A r \in Rules : /\ rules'[r] <= before.rules[r] + 1
                            /\ rules'[r] > before.rules[r] => Added(pc + 1, r)
<1>0. /\ phase = "steps" /\ pc \in 1..Len(Plan) /\ IsApply(pc) /\ pc \in Nat /\ Len(Plan) \in Nat
  BY PlanType DEF AtItem, IsApply, TypeOK, JobType
<1>1. \A r : Added(pc, r) => Added(pc + 1, r)
  BY <1>0 DEF Added
<1>2. rules \in [Rules -> Nat] /\ \A r \in Rules : before.rules[r] \in Nat
  BY DEF TypeOK, HostType, HistType
<1>3. CASE UNCHANGED rules
  BY <1>0, <1>1, <1>3 DEF RulesInv
<1>4. CASE Changed(Item) /\ Item.act = "rules"
  <2>1. Item.res \in Rules /\ rules' = [rules EXCEPT ![Item.res] = @ + 1]
    BY <1>0, <1>4, ApplyAssumption DEF Changed, Item
  <2>2. ~Added(pc, Item.res) /\ Added(pc + 1, Item.res)
    <3>1. \A j \in 1..Len(Plan) :
             IsApply(j) /\ Plan[j].act = "rules" /\ Plan[j].res = Item.res => j = pc
      BY <1>0, <1>4, RulesAssumption DEF Item
    <3> QED BY <1>0, <1>4, <3>1 DEF Added, Item
  <2>3. rules[Item.res] <= before.rules[Item.res]
    BY <1>0, <1>2, <2>1, <2>2 DEF RulesInv
  <2> QED BY <1>0, <1>1, <1>2, <2>1, <2>2, <2>3 DEF RulesInv
<1>5. CASE Changed(Item) /\ Item.act # "rules"
  BY <1>3, <1>5 DEF Changed
<1> QED BY <1>3, <1>4, <1>5

LEMMA UndoRules ==
    ASSUME "undo" \notin Faults, TypeOK, ControlInv, RulesInv, JobUndo
    PROVE  RulesInv'
<1> DEFINE e == mem[pc]
<1>0. /\ phase = "undo" /\ phase' = "undo" /\ pc \in Nat /\ pc > 0 /\ pc' = pc - 1
      /\ UNCHANGED <<before, mem>> /\ (UndoSucceeds(e) \/ UndoFails(e))
      /\ rules \in [Rules -> Nat] /\ \A r \in Rules : before.rules[r] \in Nat
  BY DEF JobUndo, TypeOK, JobType, HostType, HistType
<1>1. CASE e.act = "iptables_rules"
  <2>1. DeleteRules
    BY <1>0, <1>1 DEF UndoSucceeds, UndoFails
  <2>2. rules' = [r \in Rules |-> IF rules[r] = 0 THEN rules[r] ELSE rules[r] - 1]
    BY <2>1 DEF DeleteRules
  <2>3. \A r \in Rules : rules'[r] <= before.rules[r]
    BY <1>0, <2>2 DEF RulesInv
  <2>4. \A r \in Rules : rules'[r] \in Nat
    BY <1>0, <2>2
  <2> QED BY <1>0, <2>3, <2>4 DEF RulesInv
<1>2. CASE e.act # "iptables_rules"
  <2>1. UNCHANGED rules
    BY <1>0, <1>2 DEF UndoSucceeds, UndoFails
  <2>2. RulesEntry(mem, pc) => RulesEntry(mem, pc - 1)
    BY <1>0, <1>2 DEF RulesEntry
  <2> QED BY <1>0, <2>1, <2>2 DEF RulesInv
<1> QED BY <1>1, <1>2

LEMMA RulesStep ==
    ASSUME "undo" \notin Faults, TypeOK, ControlInv, RulesInv, [Next]_vars
    PROVE  RulesInv'
<1>0. pc \in Nat /\ Len(Plan) \in Nat /\ \A r \in Rules : before.rules[r] \in Nat
  BY PlanType DEF TypeOK, JobType, HistType
<1>f. phase = "steps" =>
        \A r \in Rules : /\ rules[r] <= before.rules[r] + 1
                         /\ rules[r] > before.rules[r] => RulesRecorded(pc)
  BY <1>0, AddedRecorded DEF RulesInv
<1>1. CASE Start
  <2>1. /\ phase' = "steps" /\ pc' = 1 /\ rules' = rules /\ before'.rules = rules
        /\ rules \in [Rules -> Nat]
    BY <1>1 DEF Start, TypeOK, HostType
  <2>2. ~RulesRecorded(1)
    BY <1>0 DEF RulesRecorded
  <2> QED BY <2>1, <2>2 DEF RulesInv
<1>2. CASE RunCheck
  <2>0. /\ phase = "steps" /\ pc \in 1..Len(Plan) /\ ~IsRecord(pc) /\ UNCHANGED <<rules, before>>
        /\ Advance(1) \/ Fail
    BY <1>2 DEF RunCheck, AtItem, IsRecord
  <2>1. CASE Advance(1)
    <3>1. pc' = pc + 1 /\ phase' = "steps" /\ mem' = mem
      BY <2>0, <2>1 DEF Advance
    <3>2. \A i \in 1..Len(Plan) : pc <= i /\ i < pc' /\ IsRecord(i) => Plan[i].act # "rules"
      BY <1>0, <2>0, <3>1
    <3> QED BY <1>0, <2>0, <3>1, <3>2, PassRules
  <2>2. CASE Fail
    BY <1>f, <2>0, <2>2, FailRules DEF RulesInv
  <2> QED BY <2>0, <2>1, <2>2
<1>3. CASE SkipItem
  <2>1. /\ phase = "steps" /\ phase' = "steps" /\ pc \in 1..Len(Plan) /\ IsRecord(pc)
        /\ pc' = pc + 2 /\ UNCHANGED <<rules, before, mem>>
        /\ Plan[pc].cond \in {"ifAbsent", "ifPresent"}
    BY <1>3 DEF SkipItem, AtItem, Advance, IsRecord, Skipped, Item
  <2>2. Plan[pc].act # "rules" /\ ~IsRecord(pc + 1)
    BY <2>1, SkipAssumption
  <2>3. \A i \in 1..Len(Plan) : pc <= i /\ i < pc' /\ IsRecord(i) => Plan[i].act # "rules"
    BY <1>0, <2>1, <2>2
  <2> QED BY <1>0, <2>1, <2>3, PassRules
<1>4. CASE RecordItem
  BY <1>4, RecordRules
<1>5. CASE RecordFails
  BY <1>f, <1>5, FailRules DEF RecordFails, AtItem, RulesInv
<1>6. CASE ApplyItem
  <2>1. /\ phase = "steps" /\ phase' = "steps" /\ pc' = pc + 1 /\ UNCHANGED <<before, mem>>
        /\ pc \in 1..Len(Plan) /\ ~IsRecord(pc) /\ AtItem("apply") /\ Changed(Item)
    BY <1>6 DEF ApplyItem, AtItem, Advance, IsRecord
  <2>2. RulesRecorded(pc + 1) => RulesRecorded(pc)
    BY <1>0, <2>1 DEF RulesRecorded
  <2> QED BY <2>1, <2>2, ChangedRules DEF RulesInv, RulesEntry
<1>7. CASE ApplyFails
  <2>1. /\ phase = "steps" /\ Fail /\ UNCHANGED before /\ AtItem("apply")
        /\ pc \in 1..Len(Plan) /\ ~IsRecord(pc) /\ (Changed(Item) \/ UNCHANGED <<sys, rules>>)
    BY <1>7 DEF ApplyFails, AtItem, IsRecord
  <2>2. RulesRecorded(pc + 1) => RulesRecorded(pc)
    BY <1>0, <2>1 DEF RulesRecorded
  <2>3. \A r \in Rules : Added(pc + 1, r) => RulesRecorded(pc)
    BY <1>0, <2>2, AddedRecorded
  <2> QED BY <2>1, <2>3, ChangedRules, FailRules DEF RulesInv
<1>8. CASE JobUndo
  BY <1>8, UndoRules
<1>9. CASE Commit \/ Finish \/ JobUndone \/ Crash
  BY <1>9 DEF Commit, Finish, JobUndone, Crash, RulesInv
<1>10. ASSUME NEW q \in Requests, RollbackCheck(q) \/ RequestStep(q)
       PROVE  RulesInv'
  <2>1. CASE RollbackUndo(q)
    <3>1. phase = "idle" /\ phase' = "idle"
      BY <2>1 DEF RollbackUndo, ControlInv, Quiet, jobVars
    <3> QED BY <3>1 DEF RulesInv
  <2>2. CASE ~RollbackUndo(q)
    <3>1. UNCHANGED <<rules, before, phase, pc, mem>>
      BY <1>10, <2>2 DEF RequestStep, RollbackCheck, RollbackLoad, RollbackEnd, hostVars, jobVars, histVars
    <3> QED BY <3>1 DEF RulesInv, RulesEntry
  <2> QED BY <2>1, <2>2
<1>11. CASE UNCHANGED vars
  BY <1>11 DEF vars, RulesInv, RulesEntry
<1> QED BY <1>1, <1>2, <1>3, <1>4, <1>5, <1>6, <1>7, <1>8, <1>9, <1>10, <1>11 DEF Next, RunStep

\* A job that reports a complete rollback has left none of its firewall rules behind, when
\* callers wait and iptables deletes the rules it is told to.
THEOREM RulesRolledBack ==
    ASSUME AdminWaits, "undo" \notin Faults
    PROVE  Spec => RolledBackRules
<1>1. Init => RulesInv
  BY DEF Init, RulesInv
<1>2. TypeOK /\ ControlInv /\ RulesInv /\ [Next]_vars => RulesInv'
  BY RulesStep
<1>3. TypeOK /\ RulesInv /\ [Next]_vars
        => [job' = "rolled_back" /\ job = "running" => \A r \in Rules : rules[r] <= before.rules[r]]_vars
  <2> SUFFICES ASSUME TypeOK, RulesInv, Next, job' = "rolled_back", job = "running", NEW r \in Rules
               PROVE  rules[r] <= before.rules[r]
    BY DEF vars
  <2>1. JobUndone
    BY DEF Next, RunStep, RequestStep, Start, RunCheck, SkipItem, RecordItem, RecordFails, ApplyItem,
           ApplyFails, Advance, Fail, Commit, Finish, JobUndo, RollbackCheck, RollbackLoad,
           RollbackUndo, RollbackEnd, Crash, jobVars
  <2>2. phase = "undo" /\ pc = 0
    BY <2>1 DEF JobUndone
  <2>3. ~RulesEntry(mem, pc) /\ rules[r] \in Nat /\ before.rules[r] \in Nat
    BY <2>2 DEF RulesEntry, TypeOK, HostType, HistType
  <2> QED BY <2>2, <2>3 DEF RulesInv
<1> QED BY <1>1, <1>2, <1>3, TypeCorrect, ControlHolds, PTL DEF Spec, RolledBackRules

===============================================================================
