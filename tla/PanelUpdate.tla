------------------------------ MODULE PanelUpdate ------------------------------
(***************************************************************************)
(* updates.SelfUpdate: the binary of the panel is renamed away and the new one *)
(* takes its name; the process that runs goes on with the old one until it is   *)
(* restarted.                                                                   *)
(*                                                                           *)
(* os.Executable names the file the process runs wherever it was moved to, so   *)
(* a second update before a restart works on the file that the first one put    *)
(* aside. Place n is the name of the binary with ".old" n times; place 0 is the *)
(* one systemd starts.                                                          *)
(***************************************************************************)
EXTENDS Download, FiniteSets

CONSTANTS
    Requests,
    RestartsFirst,  \* the administrator restarts the panel after an update, as it asks
    MaxPanel,       \* bound on the releases of the panel
    MaxPlaces,      \* bound on the places, and with it on updates without a restart
    Faults,
    MaxFaults

VARIABLES
    bin,        \* place -> the release there, 0: none; negative: not whole
    fresh,      \* place -> what is beside it with ".new"
    self,       \* place of the file that runs
    running,    \* release that runs, 0: systemd could not start it
    published,  \* the newest release
    known,      \* Manager.latestPanel, 0: not fetched yet
    updating,   \* the requests
    faults

Places == 0..MaxPlaces
Binaries == -MaxPanel..MaxPanel

IdleUpdate == [pc |-> "idle", rel |-> 0, tries |-> 0, body |-> 0, at |-> 0, was |-> 0,
               answer |-> "none"]

At(r, at) == updating[r].pc = at
GoTo(r, at) == updating' = [updating EXCEPT ![r].pc = at]
Answers(r, what) == updating' = [updating EXCEPT ![r].pc = "answer", ![r].answer = what]

Fails(kind) == kind \in Faults /\ faults < MaxFaults /\ faults' = faults + 1

\* semverGreater.
Newer(a, b) == a > b

-------------------------------------------------------------------------------

Publish ==
    /\ published < MaxPanel /\ published' = published + 1
    /\ UNCHANGED <<bin, fresh, self, running, known, updating, faults>>

\* Info with checkRemote.
CheckRemote ==
    /\ known' = published
    /\ UNCHANGED <<bin, fresh, self, running, published, updating, faults>>

\* The release that is cached, if any; it must be newer than the one that runs and come
\* with a binary for this host and its digest.
BeginUpdate(r) ==
    /\ At(r, "idle")
    /\ RestartsFirst => self = 0
    /\ self + Cardinality({s \in Requests : ~At(s, "idle")}) < MaxPlaces
    /\ known' = IF known = 0 THEN published ELSE known
    /\ \/ /\ Newer(known', running)
          /\ updating' = [updating EXCEPT ![r] = [IdleUpdate EXCEPT !.pc = "fetch", !.rel = known',
                                                                    !.was = bin[0]]]
       \/ UNCHANGED updating
    /\ UNCHANGED <<bin, fresh, self, running, published, faults>>

Fetch(r) ==
    /\ At(r, "fetch")
    /\ \E meets \in Meetings :
          LET n == updating[r].tries + 1 IN
          updating' = CASE AfterAttempt(meets, n) = "got" ->
                             [updating EXCEPT ![r].pc = "create", ![r].tries = 0,
                                              ![r].body = Body(meets, updating[r].rel)]
                        [] AfterAttempt(meets, n) = "again" -> [updating EXCEPT ![r].tries = n]
                        [] OTHER -> [updating EXCEPT ![r].pc = "answer", ![r].answer = "failed"]
    /\ UNCHANGED <<bin, fresh, self, running, published, known, faults>>

\* os.Executable, and copyFile opens the new file with O_TRUNC.
Create(r) ==
    /\ At(r, "create")
    /\ fresh' = [fresh EXCEPT ![self] = -updating[r].rel]
    /\ updating' = [updating EXCEPT ![r].pc = "copy", ![r].at = self]
    /\ UNCHANGED <<bin, self, running, published, known, faults>>

\* The copy is whole when nobody else still writes the file, which another request may
\* have moved to its place.
Copy(r) ==
    LET at == updating[r].at
        alone == \A s \in Requests \ {r} : ~(At(s, "copy") /\ updating[s].at = at)
        now == IF alone THEN updating[r].body ELSE -updating[r].rel
    IN  /\ At(r, "copy")
        /\ \/ /\ fresh' = IF fresh[at] # 0 THEN [fresh EXCEPT ![at] = now] ELSE fresh
              /\ bin' = IF fresh[at] = 0 /\ bin[at] = -updating[r].rel
                        THEN [bin EXCEPT ![at] = now] ELSE bin
              /\ GoTo(r, "removeOld") /\ UNCHANGED faults
           \/ Fails("copy") /\ Answers(r, "failed") /\ UNCHANGED <<bin, fresh>>
        /\ UNCHANGED <<self, running, published, known>>

RemoveOld(r) ==
    /\ At(r, "removeOld")
    /\ bin' = [bin EXCEPT ![updating[r].at + 1] = 0]
    /\ GoTo(r, "moveAway")
    /\ UNCHANGED <<fresh, self, running, published, known, faults>>

MoveAway(r) ==
    LET at == updating[r].at IN
    /\ At(r, "moveAway")
    /\ \/ /\ bin[at] # 0
          /\ bin' = [bin EXCEPT ![at] = 0, ![at + 1] = bin[at]]
          /\ self' = IF self = at THEN at + 1 ELSE self
          /\ GoTo(r, "moveNew") /\ UNCHANGED <<fresh, faults>>
       \/ /\ Fails("rename") \/ (bin[at] = 0 /\ UNCHANGED faults)
          /\ fresh' = [fresh EXCEPT ![at] = 0]
          /\ Answers(r, "failed") /\ UNCHANGED <<bin, self>>
    /\ UNCHANGED <<running, published, known>>

MoveNew(r) ==
    LET at == updating[r].at IN
    /\ At(r, "moveNew")
    /\ \/ /\ fresh[at] # 0
          /\ bin' = [bin EXCEPT ![at] = fresh[at]] /\ fresh' = [fresh EXCEPT ![at] = 0]
          /\ Answers(r, "updated") /\ UNCHANGED faults
       \/ /\ Fails("rename") \/ (fresh[at] = 0 /\ UNCHANGED faults)
          /\ GoTo(r, "back") /\ UNCHANGED <<bin, fresh>>
    /\ UNCHANGED <<self, running, published, known>>

\* An error of the rename back is ignored.
Back(r) ==
    LET at == updating[r].at IN
    /\ At(r, "back")
    /\ \/ /\ bin[at + 1] # 0
          /\ bin' = [bin EXCEPT ![at] = bin[at + 1], ![at + 1] = 0]
          /\ self' = IF self = at + 1 THEN at ELSE self
          /\ UNCHANGED faults
       \/ /\ Fails("rename") \/ (bin[at + 1] = 0 /\ UNCHANGED faults)
          /\ UNCHANGED <<bin, self>>
    /\ Answers(r, "failed")
    /\ UNCHANGED <<fresh, running, published, known>>

Answer(r) ==
    /\ At(r, "answer")
    /\ updating' = [updating EXCEPT ![r] = IdleUpdate]
    /\ UNCHANGED <<bin, fresh, self, running, published, known, faults>>

Step(r) ==
    \/ Fetch(r) \/ Create(r) \/ Copy(r) \/ RemoveOld(r) \/ MoveAway(r) \/ MoveNew(r)
    \/ Back(r) \/ Answer(r)

\* The process ends and systemd starts what is at place 0.
Forget ==
    /\ running' = IF bin[0] > 0 THEN bin[0] ELSE 0
    /\ self' = 0 /\ known' = 0
    /\ updating' = [r \in Requests |-> IdleUpdate]

-------------------------------------------------------------------------------

PanelType ==
    /\ bin \in [Places -> Binaries] /\ fresh \in [Places -> Binaries]
    /\ self \in Places /\ running \in 0..MaxPanel
    /\ published \in 1..MaxPanel /\ known \in 0..published

\* The binary is whole, or it is absent and a whole one was put aside.
BinaryKept == bin[0] > 0 \/ (bin[0] = 0 /\ bin[1] > 0)

\* An update that is answered with success is what the next start runs, and the release
\* that runs was kept; one that is answered with an error changed nothing.
AnswersRight(r) ==
    /\ At(r, "answer") /\ updating[r].answer = "updated" =>
          bin[0] = updating[r].rel /\ \E p \in Places \ {0} : bin[p] = running
    /\ At(r, "answer") /\ updating[r].answer = "failed" => bin[0] = updating[r].was

===============================================================================
