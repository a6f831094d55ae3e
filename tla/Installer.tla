------------------------------- MODULE Installer -------------------------------
(***************************************************************************)
(* internal/installer: the installation engine, its write-ahead rollback     *)
(* journal and the rollback of a failed or interrupted installation.         *)
(*                                                                           *)
(* One goroutine (Engine.run) executes the plan. Any number of HTTP requests *)
(* may call RollbackPending at the same time: the engine's mutex protects    *)
(* only the check that no job runs, not the rollback itself. The panel       *)
(* process may die between any two effects; the host and the journal file    *)
(* survive, everything else is lost.                                         *)
(***************************************************************************)
EXTENDS Naturals, Sequences, FiniteSets

CONSTANTS
    Resources,   \* what an installation changes on the host, by name
    Rules,       \* the firewall rules it adds
    Plan,        \* the items of buildSteps(), in order (InstallSteps!BuildPlan)
    Origins,     \* the hosts an installation may start from
    RuleOrigins, \* the firewall rules such a host may already have
    Requests,    \* concurrent rollback requests
    AdminWaits,  \* callers wait for one operation to answer before the next
    Faults,      \* which failures the environment may inject
    MaxCrashes,  \* bound on the crashes of the panel process
    MaxRule      \* bound on the copies of one firewall rule

\* absent; user: the administrator's, with the permissions the installer uses;
\* userMode: the administrator's, with other permissions; ours: the installer's;
\* empty: a file without content, which a rollback writes where the old one was not read.
Values == {"absent", "user", "userMode", "ours", "empty"}

Acts == {"file_created", "file_replaced", "dir_created", "pkg_installed",
         "sysctl_set", "dns_stub", "iptables_rules", "svc_state"}

Targets == Resources \union {"rules"}

Entry == [act : Acts, res : Targets, old : Values]

\* Content forgets the permissions: what a file holds.
Content(v) == IF v = "userMode" THEN "user" ELSE v

\* step: an item of the plan; read: the old content of a file; record: a line of the journal;
\* undo: an entry of a rollback; remove: the journal of an installation that is done; unlink:
\* the journal of a complete rollback; save: the parameters; crash: the panel dies.
FaultKinds == {"step", "read", "record", "undo", "remove", "unlink", "save", "crash"}

ASSUME ConstantsAssumption ==
    /\ {"conf", "pkg"} \subseteq Resources
    /\ "rules" \notin Resources
    /\ Origins \subseteq [Resources -> Values]
    /\ RuleOrigins \subseteq [Rules -> Nat]
    /\ AdminWaits \in BOOLEAN
    /\ Faults \subseteq FaultKinds
    /\ MaxCrashes \in Nat
    /\ MaxRule \in Nat

PlanItem ==
    [step : STRING, op : {"check", "record", "apply"},
     act : {"file", "dir", "pkg", "sysctl", "stub", "svc", "rules"},
     res : STRING, cond : {"always", "ifAbsent", "ifPresent", "fresh"}]

IsRecord(i) == Plan[i].op = "record"
IsApply(i) == Plan[i].op = "apply"

ASSUME PlanType == Plan \in Seq(PlanItem)

\* What the proofs need of a plan. A record names a resource, or the rules; what
\* a rollback removes outright is recorded only when it was not there.
ASSUME RecordAssumption ==
    \A i \in 1..Len(Plan) : IsRecord(i) =>
        /\ IF Plan[i].act = "rules" THEN Plan[i].res = "rules" ELSE Plan[i].res \in Resources
        /\ Plan[i].act \in {"dir", "pkg"} => Plan[i].cond \in {"ifAbsent", "fresh"}

\* A record that may be skipped is skipped with the one change it announces; it is not the
\* one of the rules.
ASSUME SkipAssumption ==
    \A i \in 1..Len(Plan) : IsRecord(i) /\ Plan[i].cond \in {"ifAbsent", "ifPresent"} =>
        /\ i + 1 \in 1..Len(Plan) /\ Plan[i].act # "rules"
        /\ ~IsRecord(i + 1)
        /\ \A j \in 1..Len(Plan) : IsApply(j) /\ Plan[j].res = Plan[i].res => j = i + 1

\* A change is announced by an earlier record.
ASSUME ApplyAssumption ==
    \A i \in 1..Len(Plan) : IsApply(i) =>
        IF Plan[i].act = "rules" THEN Plan[i].res \in Rules
        ELSE /\ Plan[i].res \in Resources
             /\ \E j \in 1..(i - 1) : IsRecord(j) /\ Plan[j].res = Plan[i].res

\* A resource is recorded once, and before any change of it.
ASSUME OrderAssumption ==
    \A i, j \in 1..Len(Plan) : IsRecord(i) /\ Plan[j].res = Plan[i].res =>
        /\ IsRecord(j) => i = j
        /\ IsApply(j) /\ Plan[j].act # "rules" => i < j

\* A firewall rule is added once, after the record of the rules.
ASSUME RulesAssumption ==
    \A i \in 1..Len(Plan) : IsApply(i) /\ Plan[i].act = "rules" =>
        /\ \E j \in 1..(i - 1) : IsRecord(j) /\ Plan[j].act = "rules"
        /\ \A j \in 1..Len(Plan) :
              IsApply(j) /\ Plan[j].act = "rules" /\ Plan[j].res = Plan[i].res => i = j

\* A record announces a change that comes; what it says of the configuration, by which an
\* installed host is known, is among what an installation sets up.
ASSUME CompletionAssumption ==
    /\ \A i \in 1..Len(Plan) : IsRecord(i) /\ Plan[i].act # "rules" =>
          \E j \in (i + 1)..Len(Plan) :
              IsApply(j) /\ Plan[j].act # "rules" /\ Plan[j].res = Plan[i].res
    /\ \E i \in 1..Len(Plan) :
          /\ IsRecord(i) /\ Plan[i].act # "rules"
          /\ Plan[i].res = "conf" /\ Plan[i].cond # "ifPresent"

VARIABLES
    sys,       \* the host: the state of every resource
    rules,     \* the host: copies of every firewall rule
    journal,   \* install-journal.jsonl: does it exist, its readable entries
    saved,     \* install.json exists (SaveParams)
    job,       \* Engine.job.State, "none" before the first job of a process
    phase,     \* where Engine.run is: steps, undo, commit or save
    pc,        \* next item of the plan, or next journal entry to undo
    mem,       \* Journal.entries of the running job, in memory
    failed,    \* the running rollback of the job met a failure
    rb,        \* the rollback requests
    crashes,   \* crashes so far
    before,    \* history: the host when the last installation started
    committed  \* history: the last installation reached CloseAndRemove

hostVars == <<sys, rules>>
jobVars == <<job, phase, pc, mem, failed>>
histVars == <<before, committed>>
vars == <<sys, rules, journal, saved, job, phase, pc, mem, failed, rb, crashes, before, committed>>

NoJournal == [exists |-> FALSE, entries |-> <<>>]
IdleRequest == [pc |-> "idle", idx |-> 0, entries |-> <<>>, failed |-> FALSE]

Init ==
    /\ sys \in Origins
    /\ rules \in RuleOrigins
    /\ journal = NoJournal
    /\ saved = FALSE
    /\ job = "none" /\ phase = "idle" /\ pc = 0 /\ mem = <<>> /\ failed = FALSE
    /\ rb = [q \in Requests |-> IdleRequest]
    /\ crashes = 0
    /\ before = [sys |-> sys, rules |-> rules]
    /\ committed = FALSE

-------------------------------------------------------------------------------
(* Engine.Start, under the engine's mutex. *)

Installed == sys["conf"] # "absent"

Quiet == \A q \in Requests : rb[q].pc = "idle"

Start ==
    /\ AdminWaits => Quiet
    /\ job # "running"
    /\ ~Installed
    /\ ~journal.exists
    /\ journal' = [exists |-> TRUE, entries |-> <<>>]
    /\ mem' = <<>>
    /\ job' = "running" /\ phase' = "steps" /\ pc' = 1 /\ failed' = FALSE
    /\ before' = [sys |-> sys, rules |-> rules]
    /\ committed' = FALSE
    /\ UNCHANGED <<sys, rules, saved, rb, crashes>>

-------------------------------------------------------------------------------
(* Engine.run: the items of the plan. *)

AtItem(op) == phase = "steps" /\ pc \in 1..Len(Plan) /\ Plan[pc].op = op

Item == Plan[pc]

\* A failing step: failAndRollback closes the journal and undoes the entries it
\* has in memory.
Fail ==
    /\ phase' = "undo"
    /\ pc' = Len(mem)
    /\ failed' = FALSE
    /\ UNCHANGED <<job, mem>>

Advance(n) == pc' = pc + n /\ UNCHANGED <<job, phase, mem, failed>>

RunCheck ==
    /\ AtItem("check")
    /\ \/ Advance(1)
       \/ "step" \in Faults /\ Fail
    /\ UNCHANGED <<sys, rules, journal, saved, rb, crashes, before, committed>>

\* The condition of the item says there is nothing to do: neither recorded nor
\* changed (a package that is installed, a port that is free).
Skipped(item) ==
    \/ item.cond = "ifAbsent" /\ sys[item.res] # "absent"
    \/ item.cond = "ifPresent" /\ sys[item.res] = "absent"

\* The step refuses to touch what is already there.
InTheWay(item) == item.cond = "fresh" /\ sys[item.res] # "absent"

SkipItem ==
    /\ AtItem("record")
    /\ Skipped(Item)
    /\ Advance(2)
    /\ UNCHANGED <<sys, rules, journal, saved, rb, crashes, before, committed>>

JournalAct == [dir |-> "dir_created", pkg |-> "pkg_installed", sysctl |-> "sysctl_set",
               stub |-> "dns_stub", rules |-> "iptables_rules", svc |-> "svc_state"]

\* The action a journal line names: a file is created or replaced.
ActOf(item, old) ==
    IF item.act # "file" THEN JournalAct[item.act]
    ELSE IF old = "absent" THEN "file_created" ELSE "file_replaced"

\* The journal line of an item: the resource and what it was.
EntryOf(item) ==
    LET old == IF item.act = "rules" THEN "absent" ELSE sys[item.res]
    IN  [act |-> ActOf(item, old), res |-> item.res, old |-> old]

\* stepSysctl goes on when it cannot read the file that is there: the line then says that it
\* was there, with nothing in it.
EntriesOf(item) ==
    {EntryOf(item)}
        \union (IF "read" \in Faults /\ item.act = "sysctl" /\ sys[item.res] # "absent"
                THEN {[EntryOf(item) EXCEPT !.old = "empty"]} ELSE {})

\* Variant: the line stays in memory.
AppendedUnsynced(e) == journal

\* Appending to a journal that another request has unlinked leaves no file.
Appended(e) ==
    IF journal.exists
    THEN [exists |-> TRUE, entries |-> Append(journal.entries, e)] ELSE journal

\* Journal.Record: on disk and fsynced first, then in memory.
RecordItem ==
    /\ AtItem("record")
    /\ ~Skipped(Item)
    /\ ~InTheWay(Item)
    /\ \E e \in EntriesOf(Item) : journal' = Appended(e) /\ mem' = Append(mem, e)
    /\ pc' = pc + 1
    /\ UNCHANGED <<sys, rules, saved, job, phase, failed, rb, crashes, before, committed>>

\* The step fails before the record (something is in the way), or the record
\* itself fails: the line may be on disk, it is not in memory.
RecordFails ==
    /\ AtItem("record")
    /\ ~Skipped(Item)
    /\ \/ InTheWay(Item) /\ UNCHANGED journal
       \/ /\ ~InTheWay(Item)
          /\ "record" \in Faults
          /\ journal' \in {journal} \union {Appended(e) : e \in EntriesOf(Item)}
    /\ Fail
    /\ UNCHANGED <<sys, rules, saved, rb, crashes, before, committed>>

\* systemctl enable --now changes nothing on a unit that runs already.
Changed(item) ==
    /\ sys' = IF item.act = "rules" \/ (item.act = "svc" /\ sys[item.res] # "absent")
              THEN sys ELSE [sys EXCEPT ![item.res] = "ours"]
    /\ rules' = IF item.act = "rules" THEN [rules EXCEPT ![item.res] = @ + 1] ELSE rules

ApplyItem ==
    /\ AtItem("apply")
    /\ Item.act = "rules" => rules[Item.res] < MaxRule
    /\ Changed(Item)
    /\ Advance(1)
    /\ UNCHANGED <<journal, saved, rb, crashes, before, committed>>

\* The change fails, with or without having taken effect.
ApplyFails ==
    /\ AtItem("apply")
    /\ "step" \in Faults
    /\ \/ Changed(Item) /\ (Item.act = "rules" => rules[Item.res] < MaxRule)
       \/ UNCHANGED <<sys, rules>>
    /\ Fail
    /\ UNCHANGED <<journal, saved, rb, crashes, before, committed>>

\* Variant: the journal is closed, not removed.
CommitKeepsJournal ==
    /\ phase = "steps" /\ pc = Len(Plan) + 1
    /\ committed' = TRUE
    /\ phase' = "save"
    /\ UNCHANGED <<sys, rules, journal, saved, job, pc, mem, failed, rb, crashes, before>>

\* All steps done: Journal.CloseAndRemove; an error is only logged.
Commit ==
    /\ phase = "steps" /\ pc = Len(Plan) + 1
    /\ journal' \in {NoJournal} \union (IF "remove" \in Faults THEN {journal} ELSE {})
    /\ committed' = TRUE
    /\ phase' = "save"
    /\ UNCHANGED <<sys, rules, saved, job, pc, mem, failed, rb, crashes, before>>

\* SaveParams, whose error is only logged, and job.finish.
Finish ==
    /\ phase = "save"
    /\ saved' \in {TRUE} \union (IF "save" \in Faults THEN {saved} ELSE {})
    /\ job' = "success" /\ phase' = "idle" /\ pc' = 0
    /\ UNCHANGED <<sys, rules, journal, mem, failed, rb, crashes, before, committed>>

-------------------------------------------------------------------------------
(* Rollbacker.undo, the same code for the job and for the requests. *)

\* What undo makes of a resource. A replaced file gets its old bytes back, with
\* the permissions of the new one; a unit that was active is left alone, as
\* enable --now had not changed it.
Restored(e) ==
    IF e.act \in {"file_created", "dir_created", "pkg_installed"} THEN "absent"
    ELSE IF e.act = "file_replaced" /\ e.old = "userMode" THEN "user"
    ELSE e.old

\* systemctl stop fails on a unit whose package is gone.
Blocked(e) == e.act = "svc_state" /\ e.old = "absent" /\ sys["pkg"] = "absent"

\* Variant: the rule is taken to be there.
DeleteRulesBlindly == rules' = [r \in Rules |-> rules[r] - 1]

\* Variant: the rules are left to the package's own removal.
DeleteNoRule == UNCHANGED rules

\* iptables -D of every rule of the entry; a rule that cannot be deleted is only
\* logged.
DeleteRules ==
    \E kept \in IF "undo" \in Faults THEN SUBSET Rules ELSE {{}} :
        rules' = [r \in Rules |-> IF r \in kept \/ rules[r] = 0 THEN rules[r] ELSE rules[r] - 1]

PutBack(e) == ~Blocked(e) /\ sys' = [sys EXCEPT ![e.res] = Restored(e)]

UndoSucceeds(e) ==
    IF e.act = "iptables_rules"
    THEN DeleteRules /\ UNCHANGED sys
    ELSE PutBack(e) /\ UNCHANGED rules

\* A failure may come after the effect: the file is back when sysctl -w fails, the links of
\* the stub when resolved cannot be restarted, the unit has stopped when it cannot be disabled.
UndoFails(e) ==
    /\ e.act # "iptables_rules"
    /\ \/ "undo" \in Faults /\ PutBack(e)
       \/ ("undo" \in Faults \/ Blocked(e)) /\ UNCHANGED sys
    /\ UNCHANGED rules

\* failAndRollback: newest entry first, failures are collected.
JobUndo ==
    /\ phase = "undo" /\ pc > 0
    /\ \/ UndoSucceeds(mem[pc]) /\ UNCHANGED failed
       \/ UndoFails(mem[pc]) /\ failed' = TRUE
    /\ pc' = pc - 1
    /\ UNCHANGED <<journal, saved, job, phase, mem, rb, crashes, before, committed>>

\* Variant: the journal goes whatever failed.
JobUndoneForgets ==
    /\ phase = "undo" /\ pc = 0
    /\ job' = IF failed THEN "rollback_failed" ELSE "rolled_back"
    /\ journal' = NoJournal
    /\ phase' = "idle"
    /\ UNCHANGED <<sys, rules, saved, pc, mem, failed, rb, crashes, before, committed>>

\* Variant: a clean rollback does not finish the job.
JobUndoneUnfinished ==
    /\ phase = "undo" /\ pc = 0
    /\ job' = IF failed THEN "rollback_failed" ELSE job
    /\ journal' = IF failed THEN journal ELSE NoJournal
    /\ phase' = "idle"
    /\ UNCHANGED <<sys, rules, saved, pc, mem, failed, rb, crashes, before, committed>>

\* os.Remove of the journal, whose error is ignored.
Unlinked == {NoJournal} \union (IF "unlink" \in Faults THEN {journal} ELSE {})

JobUndone ==
    /\ phase = "undo" /\ pc = 0
    /\ job' = IF failed THEN "rollback_failed" ELSE "rolled_back"
    /\ journal' \in IF failed THEN {journal} ELSE Unlinked
    /\ phase' = "idle"
    /\ UNCHANGED <<sys, rules, saved, pc, mem, failed, rb, crashes, before, committed>>

-------------------------------------------------------------------------------
(* Engine.RollbackPending, one instance per request. *)

\* The mutex is held for this check only.
RollbackCheck(q) ==
    /\ rb[q].pc = "idle"
    /\ AdminWaits => Quiet
    /\ job # "running"
    /\ rb' = [rb EXCEPT ![q].pc = "load"]
    /\ UNCHANGED <<hostVars, journal, saved, jobVars, crashes, histVars>>

\* Without entries the request answers that there is nothing to roll back.
RollbackLoad(q) ==
    /\ rb[q].pc = "load"
    /\ rb' = [rb EXCEPT ![q] =
                IF journal.entries = <<>> THEN IdleRequest
                ELSE [pc |-> "undo", idx |-> Len(journal.entries),
                      entries |-> journal.entries, failed |-> FALSE]]
    /\ UNCHANGED <<hostVars, journal, saved, jobVars, crashes, histVars>>

\* Variant: a failed entry is not counted.
DescendForgets(q, fails) ==
    rb' = [rb EXCEPT ![q] = [pc |-> "undo", idx |-> rb[q].idx - 1,
                             entries |-> rb[q].entries, failed |-> rb[q].failed]]

\* On to the entry below, with the failures so far.
Descend(q, fails) ==
    rb' = [rb EXCEPT ![q] = [pc |-> "undo", idx |-> rb[q].idx - 1,
                             entries |-> rb[q].entries, failed |-> fails]]

RollbackUndo(q) ==
    /\ rb[q].pc = "undo" /\ rb[q].idx > 0
    /\ \/ UndoSucceeds(rb[q].entries[rb[q].idx]) /\ Descend(q, rb[q].failed)
       \/ UndoFails(rb[q].entries[rb[q].idx]) /\ Descend(q, TRUE)
    /\ UNCHANGED <<journal, saved, jobVars, crashes, histVars>>

\* Variant: the journal goes whatever failed.
RollbackEndForgets(q) ==
    /\ rb[q].pc = "undo" /\ rb[q].idx = 0
    /\ journal' = NoJournal
    /\ rb' = [rb EXCEPT ![q] = IdleRequest]
    /\ UNCHANGED <<hostVars, saved, jobVars, crashes, histVars>>

\* Variant: the journal is never removed.
RollbackEndKeeps(q) ==
    /\ rb[q].pc = "undo" /\ rb[q].idx = 0
    /\ rb' = [rb EXCEPT ![q] = IdleRequest]
    /\ UNCHANGED <<hostVars, journal, saved, jobVars, crashes, histVars>>

\* The journal goes only when nothing failed.
RollbackEnd(q) ==
    /\ rb[q].pc = "undo" /\ rb[q].idx = 0
    /\ journal' \in IF rb[q].failed THEN {journal} ELSE Unlinked
    /\ rb' = [rb EXCEPT ![q] = IdleRequest]
    /\ UNCHANGED <<hostVars, saved, jobVars, crashes, histVars>>

-------------------------------------------------------------------------------
\* The panel dies (kill, power loss, the panel's own restart handler) and comes
\* back: the job, its memory and the requests are gone.
Crash ==
    /\ "crash" \in Faults
    /\ crashes < MaxCrashes
    /\ crashes' = crashes + 1
    /\ job' = "none" /\ phase' = "idle" /\ pc' = 0 /\ mem' = <<>> /\ failed' = FALSE
    /\ rb' = [q \in Requests |-> IdleRequest]
    /\ UNCHANGED <<hostVars, journal, saved, histVars>>

RunStep ==
    \/ RunCheck \/ SkipItem \/ RecordItem \/ RecordFails \/ ApplyItem \/ ApplyFails
    \/ Commit \/ Finish \/ JobUndo \/ JobUndone

RequestStep(q) == RollbackLoad(q) \/ RollbackUndo(q) \/ RollbackEnd(q)

Next ==
    \/ Start
    \/ RunStep
    \/ \E q \in Requests : RollbackCheck(q) \/ RequestStep(q)
    \/ Crash

Spec == Init /\ [][Next]_vars

\* What runs no external command: the records, but for those that ask dpkg or systemctl, and
\* the files and directories of the server's configuration.
Runs(item) ==
    /\ item.step # "serverconf"
    /\ item.op = "record" => item.act \in {"pkg", "svc"}

\* What is undone by file operations alone.
Undoes(e) == e.act \notin {"file_created", "file_replaced", "dir_created"}

JobInCommand ==
    \/ phase = "steps" /\ pc \in 1..Len(Plan) /\ Runs(Item)
    \/ phase = "undo" /\ pc > 0 /\ Undoes(mem[pc])

RequestInCommand(q) ==
    rb[q].pc = "undo" /\ rb[q].idx > 0 /\ Undoes(rb[q].entries[rb[q].idx])

InCommand == JobInCommand \/ \E q \in Requests : RequestInCommand(q)

\* The goroutines go on, but for an external command: ExecRun kills it at its deadline, and
\* then waits for whatever child of it still holds its output (it sets no WaitDelay).
Progress ==
    /\ WF_vars(~JobInCommand /\ RunStep)
    /\ \A q \in Requests : WF_vars(~RequestInCommand(q) /\ RequestStep(q))

LiveSpec == Spec /\ Progress

\* The administrator moreover keeps asking for the rollback of a residue.
FairSpec == LiveSpec /\ \A q \in Requests : WF_vars(RollbackCheck(q))

-------------------------------------------------------------------------------
(* Properties. *)

HostType ==
    /\ sys \in [Resources -> Values]
    /\ rules \in [Rules -> Nat]

JournalType == journal \in [exists : BOOLEAN, entries : Seq(Entry)]

JobType ==
    /\ job \in {"none", "running", "success", "rolled_back", "rollback_failed"}
    /\ phase \in {"idle", "steps", "undo", "save"}
    /\ pc \in Nat
    /\ mem \in Seq(Entry)
    /\ phase = "undo" => pc <= Len(mem)

Request ==
    [pc : {"idle", "load", "undo"}, idx : Nat, entries : Seq(Entry), failed : BOOLEAN]

RequestType ==
    /\ rb \in [Requests -> Request]
    /\ \A q \in Requests : rb[q].idx <= Len(rb[q].entries)

FlagType == saved \in BOOLEAN /\ failed \in BOOLEAN /\ committed \in BOOLEAN

HistType ==
    /\ crashes \in Nat
    /\ before \in [sys : [Resources -> Values], rules : [Rules -> Nat]]

\* Every variable has its type; a firewall rule in particular never has a
\* negative number of copies.
TypeOK == HostType /\ JournalType /\ JobType /\ RequestType /\ FlagType /\ HistType

\* The content of a resource is not what the last installation found.
Touched(r) == Content(sys[r]) # Content(before.sys[r])

\* The entry e says how to give r its old content back.
Covers(e, r) == e.res = r /\ Content(Restored(e)) = Content(before.sys[r])

CoveredBelow(entries, n, r) == \E i \in 1..n : Covers(entries[i], r)

\* Until an installation commits, whatever differs from the host it found is
\* covered by a line of the journal file that holds the old content, in every
\* state, a crash or a half-failed rollback included: the write-ahead rule of
\* journal.go, for which Record syncs before the step acts.
WriteAhead ==
    ~committed => \A r \in Resources : Touched(r) =>
        /\ journal.exists
        /\ CoveredBelow(journal.entries, Len(journal.entries), r)

\* Every resource that buildSteps() sets up is there.
Complete ==
    \A i \in 1..Len(Plan) :
        Plan[i].op = "record" /\ Plan[i].act # "rules" /\ Plan[i].cond # "ifPresent"
            => sys[Plan[i].res] # "absent"

\* The journal of an installation that did not commit is removed, by the job or
\* by a request, only when every resource has its old content again: a rollback
\* that met a failure keeps it ("journal 已保留").
ResidueGoesClean ==
    [][journal.exists /\ ~journal'.exists /\ ~committed'
            => \A r \in Resources : ~Touched(r)]_vars

\* Once an installation has committed the engine leaves the host alone until the
\* next Start: a failure to clean the journal up is logged as having no effect on
\* the result (engine.go, run).
CommittedStays == [][committed /\ committed' => UNCHANGED hostVars]_vars

\* RollbackPending refuses to work while a job runs ("安装进行中,不能手动回滚").
NoRollbackUnderJob == job = "running" => \A q \in Requests : rb[q].pc # "undo"

\* A job that reports a complete rollback has put every resource back with its
\* permissions ("已完整回滚,系统恢复原状").
RolledBackModes == [][job' = "rolled_back" /\ job = "running" => sys = before.sys]_vars

\* It has left none of its firewall rules behind.
RolledBackRules ==
    [][job' = "rolled_back" /\ job = "running"
            => \A r \in Rules : rules[r] <= before.rules[r]]_vars

\* It has not deleted a firewall rule the administrator had.
RolledBackKeepsRules ==
    [][job' = "rolled_back" /\ job = "running"
            => \A r \in Rules : rules[r] >= before.rules[r]]_vars

\* A journal without a job, which makes Start refuse, is one RollbackPending can
\* work on: it has entries.
ResidueHasEntries == journal.exists /\ job # "running" => journal.entries # <<>>

\* No external command goes on for ever.
CommandsEnd == []<>~InCommand

\* A job ends, with a result or with its process, unless an external command goes on for
\* ever: neither a step nor a rollback, failures included, waits or starts over by itself.
JobEnds == CommandsEnd => ((job = "running") ~> (job # "running"))

\* A residue with entries, of a host that had the packages.
Residue == journal.exists /\ journal.entries # <<>> /\ before.sys["pkg"] # "absent"

\* An administrator who keeps asking gets such a residue rolled back, however often the job
\* or a rollback was interrupted, unless an external command goes on for ever.
ResidueClears == CommandsEnd => (Residue ~> ~journal.exists)

-------------------------------------------------------------------------------
(* The inductive strengthening of WriteAhead, for callers that wait.           *)

\* Who may be where: a job and a request exclude each other, and so do two
\* requests; while a job installs or undoes, its journal is on disk.
ControlInv ==
    /\ job = "running" <=> phase # "idle"
    /\ job = "running" => Quiet
    /\ \A p, q \in Requests : rb[p].pc # "idle" /\ rb[q].pc # "idle" => p = q
    /\ ~journal.exists => journal.entries = <<>>
    /\ phase \in {"steps", "undo"} => journal.exists /\ ~committed
    /\ phase = "save" => committed

\* Every line of the journal holds the old content of what it names.
Holds(e) ==
    IF e.act = "iptables_rules" THEN e.res = "rules" ELSE Covers(e, e.res)

EntriesHold == ~committed => \A i \in 1..Len(journal.entries) : Holds(journal.entries[i])

\* What the plan has yet to record is untouched; what it has yet to change is
\* recorded, or will be before the change.
StepsAhead ==
    phase = "steps" =>
        /\ journal.entries = mem
        /\ \A j \in pc..Len(Plan) :
              /\ IsRecord(j) /\ Plan[j].act # "rules" => ~Touched(Plan[j].res)
              /\ IsApply(j) /\ Plan[j].act # "rules" =>
                    \/ CoveredBelow(mem, Len(mem), Plan[j].res)
                    \/ \E k \in pc..(j - 1) : IsRecord(k) /\ Plan[k].res = Plan[j].res

\* A rollback without failures has restored everything above its position.
UndoBelow ==
    phase = "undo" =>
        /\ Len(mem) <= Len(journal.entries)
        /\ \A i \in 1..Len(mem) : journal.entries[i] = mem[i]
        /\ ~failed => \A r \in Resources : Touched(r) => CoveredBelow(mem, pc, r)

RequestBelow ==
    \A q \in Requests : rb[q].pc = "undo" /\ ~committed =>
        /\ journal.exists
        /\ rb[q].entries = journal.entries
        /\ ~rb[q].failed =>
              \A r \in Resources : Touched(r) => CoveredBelow(rb[q].entries, rb[q].idx, r)

\* A committed installation left no journal, and no request is at work on one.
Settled == committed => ~journal.exists /\ \A q \in Requests : rb[q].pc # "undo"

RecoveryInv ==
    AdminWaits =>
        ControlInv /\ WriteAhead /\ EntriesHold /\ StepsAhead /\ UndoBelow /\ RequestBelow

-------------------------------------------------------------------------------
(* What an installation promises: AtomicInstall. A host with a journal is      *)
(* changing; without one it is as it was found, or installed.                  *)

HostView ==
    IF journal.exists THEN "changing"
    ELSE IF \A r \in Resources : ~Touched(r) THEN "original"
    ELSE IF Complete THEN "installed" ELSE "torn"

Atomic == INSTANCE AtomicInstall WITH host <- HostView

\* The engine implements all-or-nothing installation: whenever the journal is gone
\* the host is as the engine found it or has everything an installation sets up.
ImplementsAtomic == Atomic!Spec

===============================================================================
