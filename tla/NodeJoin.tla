-------------------------------- MODULE NodeJoin --------------------------------
(***************************************************************************)
(* Binding a child node to a master: internal/nodes and its handlers on the      *)
(* master, cmd_join of install.sh and -gen-node-token on the child, and the SSH    *)
(* job that runs cmd_join from the master.                                         *)
(*                                                                                 *)
(* A join is a shell process on the child. Its request is a goroutine of the       *)
(* master: it spends the code, pings the child and adds it, three steps between    *)
(* which others run, also after the connection to the shell is lost.               *)
(***************************************************************************)
EXTENDS Naturals, FiniteSets

CONSTANTS
    Hosts,       \* child machines, which stand for their URLs
    Names,       \* what a node may be called: its hostname, or what is typed
    Codes,       \* join codes
    Joiners,     \* executions of cmd_join
    Faults,      \* which failures there are
    MaxFaults,   \* bound on failures
    MaxTokens,   \* bound on tokens that are generated
    MaxEdits     \* bound on what the administrator adds, changes or deletes

FaultKinds == {"dial", "limit", "lost", "url", "ping", "save", "timeout", "killed", "restart"}

VARIABLES
    code,     \* the master's join codes, in memory
    table,    \* its node table in memory
    saved,    \* and in nodes.json
    disk,     \* node_token in the config file of each host
    running,  \* node_token in the memory of the panel that runs there
    join,     \* the executions of cmd_join
    req,      \* the requests at the master, of a join or of the administrator
    job,      \* the SSH jobs at the master
    tokens,   \* tokens so far
    faults,   \* failures so far
    edits,    \* additions, changes and deletions by the administrator so far
    admitted, \* history: what a code has let in
    again,    \* history: hosts joined or added while bound, or added with an old token
    edited,   \* history: hosts of entries that the administrator has changed
    deleted   \* history: and deleted

master == <<code, table, saved>>
child == <<disk, running>>
bounds == <<tokens, faults, edits>>
history == <<admitted, again, edited, deleted>>
vars == <<master, child, join, req, job, bounds, history>>

Token == 0..MaxTokens   \* 0: none
NoHost == "none"
NoName == "none"
NoCode == "none"
Admin == "admin"

ASSUME NodeAssumption ==
    /\ Faults \subseteq FaultKinds /\ MaxFaults \in Nat
    /\ MaxTokens \in Nat /\ MaxEdits \in Nat
    /\ Admin \notin Joiners /\ NoHost \notin Hosts /\ NoCode \notin Codes

Entry == [name : Names, host : Hosts, token : Token]

Idle == [pc |-> "idle", host |-> NoHost, code |-> NoCode, token |-> 0, tries |-> 0]
NoRequest == [pc |-> "none", host |-> NoHost, name |-> NoName, code |-> NoCode, token |-> 0]
Over == {"bound", "failed", "killed"}

\* A host may have been given a token by hand, with the panel restarted or not.
Init ==
    /\ code = [c \in Codes |-> "unused"]
    /\ table = {} /\ saved = {}
    /\ disk = [h \in Hosts |-> 0] /\ running = disk
    /\ join = [j \in Joiners |-> Idle]
    /\ req = [q \in Joiners \cup {Admin} |-> NoRequest]
    /\ job = [j \in Joiners |-> "none"]
    /\ tokens = 0 /\ faults = 0 /\ edits = 0
    /\ admitted = {} /\ again = {} /\ edited = {} /\ deleted = {}

-------------------------------------------------------------------------------

At(j, at) == join[j].pc = at
GoTo(j, at) == join' = [join EXCEPT ![j].pc = at]

\* A failure that this model allows happens.
Fails(kind) == kind \in Faults /\ faults < MaxFaults /\ faults' = faults + 1

\* Nothing is bound to the host, or about to be.
Unclaimed(h) ==
    /\ \A n \in table \cup saved : n.host # h
    /\ \A j \in Joiners : join[j].host = h => join[j].pc \in Over
    /\ \A q \in DOMAIN req : req[q].host # h

Claim(h, latest) ==
    /\ again' = IF Unclaimed(h) /\ latest THEN again ELSE again \cup {h}
    /\ UNCHANGED <<admitted, edited, deleted>>

-------------------------------------------------------------------------------
(* Join codes. *)

\* JoinCodes.Create: the codes that have expired are dropped.
Created(c) ==
    [d \in Codes |-> IF d = c THEN "live" ELSE IF code[d] = "expired" THEN "gone" ELSE code[d]]

CreateCode(c) ==
    /\ code[c] = "unused"
    /\ code' = Created(c)
    /\ UNCHANGED <<table, saved, child, join, req, job, bounds, history>>

Expire(c) ==
    /\ code[c] = "live"
    /\ code' = [code EXCEPT ![c] = "expired"]
    /\ UNCHANGED <<table, saved, child, join, req, job, bounds, history>>

-------------------------------------------------------------------------------
(* cmd_join on the child. *)

Joining(h, c, at) == [pc |-> at, host |-> h, code |-> c, token |-> 0, tries |-> 2]

\* By hand, with a code that was copied from the page, at any time after.
StartJoin(j, h, c) ==
    /\ At(j, "idle") /\ code[c] # "unused" /\ Claim(h, TRUE)
    /\ join' = [join EXCEPT ![j] = Joining(h, c, "token")]
    /\ UNCHANGED <<master, child, req, job, bounds>>

\* handleSSHInstallStart: a code of its own, and the job.
StartSSH(j, h, c) ==
    /\ At(j, "idle") /\ code[c] = "unused" /\ Claim(h, TRUE)
    /\ code' = Created(c)
    /\ job' = [job EXCEPT ![j] = "running"]
    /\ join' = [join EXCEPT ![j] = Joining(h, c, "dial")]
    /\ UNCHANGED <<table, saved, child, req, bounds>>

\* runSSHInstall: the connection and the start of the remote command.
Dial(j) ==
    /\ At(j, "dial")
    /\ \/ GoTo(j, "token") /\ UNCHANGED <<job, faults>>
       \/ Fails("dial") /\ GoTo(j, "failed") /\ job' = [job EXCEPT ![j] = "failed"]
    /\ UNCHANGED <<master, child, req, tokens, edits, history>>

\* Variant: an empty token is not noticed.
GenTokenEmpty(j) ==
    /\ At(j, "token")
    /\ GoTo(j, "restart")
    /\ UNCHANGED <<master, child, req, job, bounds, history>>

\* -gen-node-token: another process, with its own copy of the config file.
GenToken(j) ==
    /\ At(j, "token") /\ tokens < MaxTokens
    /\ tokens' = tokens + 1
    /\ disk' = [disk EXCEPT ![join[j].host] = tokens']
    /\ join' = [join EXCEPT ![j].pc = "restart", ![j].token = tokens']
    /\ UNCHANGED <<master, running, req, job, faults, edits, history>>

\* systemctl restart ovpn-web.
Restart(j) ==
    /\ At(j, "restart")
    /\ running' = [running EXCEPT ![join[j].host] = disk[join[j].host]]
    /\ GoTo(j, "post")
    /\ UNCHANGED <<master, disk, req, job, bounds, history>>

\* curl: the registration. A master that was not reached is tried again. Two machines may
\* have the same hostname; a second try has the name of the first, here any.
Post(j) ==
    /\ At(j, "post") /\ req[j] = NoRequest
    /\ GoTo(j, "await")
    /\ \E name \in Names :
           req' = [req EXCEPT ![j] = [pc |-> "consume", host |-> join[j].host, name |-> name,
                                      code |-> join[j].code, token |-> join[j].token]]
    /\ UNCHANGED <<master, child, job, bounds, history>>

\* The statuses that curl --retry tries again.
Retried == {429, 502}

\* The request is over, and its shell, if it still waits, has the answer.
Answer(q, status) ==
    /\ req' = [req EXCEPT ![q] = NoRequest]
    /\ IF q = Admin \/ ~(q \in Joiners /\ At(q, "await")) THEN UNCHANGED join
       ELSE \/ status = 200 /\ GoTo(q, "bound")
            \/ /\ status \in Retried /\ join[q].tries > 0
               /\ join' = [join EXCEPT ![q].pc = "post", ![q].tries = @ - 1]
            \/ /\ status # 200 /\ ~(status \in Retried /\ join[q].tries > 0)
               /\ GoTo(q, "failed")

\* The connection breaks: curl gives up, the handler does not.
Lose(j) ==
    /\ At(j, "await") /\ Fails("lost")
    /\ GoTo(j, "failed")
    /\ UNCHANGED <<master, child, req, job, tokens, edits, history>>

\* The shell dies, with its SSH session or its terminal.
Kill(j) ==
    /\ ~At(j, "idle") /\ join[j].pc \notin Over \cup {"dial"} /\ Fails("killed")
    /\ GoTo(j, "killed")
    /\ UNCHANGED <<master, child, req, job, tokens, edits, history>>

\* The panel of a child saves its settings: the file is its copy again.
ChildSave(h) ==
    /\ disk[h] # running[h]
    /\ disk' = [disk EXCEPT ![h] = running[h]]
    /\ UNCHANGED <<master, running, join, req, job, bounds, history>>

\* The panel of a child is restarted by itself.
ChildRestart(h) ==
    /\ disk[h] # running[h]
    /\ running' = [running EXCEPT ![h] = disk[h]]
    /\ UNCHANGED <<master, disk, join, req, job, bounds, history>>

-------------------------------------------------------------------------------
(* The end of an SSH job. *)

\* cmd_join exits with 0 only when it was told 200.
JobDone(j) ==
    /\ job[j] = "running" /\ join[j].pc \in Over
    /\ job' = [job EXCEPT ![j] = IF At(j, "bound") THEN "success" ELSE "failed"]
    /\ UNCHANGED <<master, child, join, req, bounds, history>>

\* After 15 minutes the job is given up; the remote shell may live on.
JobTimeout(j) ==
    /\ job[j] = "running" /\ ~At(j, "dial") /\ Fails("timeout")
    /\ job' = [job EXCEPT ![j] = "failed"]
    /\ UNCHANGED <<master, child, join, req, tokens, edits, history>>

-------------------------------------------------------------------------------
(* The master. *)

Asks(q, at) == req[q].pc = at
Serve(q, at) == req' = [req EXCEPT ![q].pc = at] /\ UNCHANGED join

\* Variant: the code can be used until it expires.
ConsumeKeeps(q) ==
    /\ Asks(q, "consume")
    /\ IF code[req[q].code] = "live" THEN Serve(q, "ping") ELSE Answer(q, 403)
    /\ UNCHANGED <<master, child, job, bounds, history>>

\* JoinCodes.Consume, after the rate limit; an expired code is removed as well. An address
\* that NormalizeURL refuses is refused with the code spent.
Consume(q) ==
    /\ Asks(q, "consume")
    /\ \/ /\ code[req[q].code] = "live" /\ Serve(q, "ping") /\ UNCHANGED faults
          /\ code' = [code EXCEPT ![req[q].code] = "gone"]
       \/ /\ code[req[q].code] # "live" /\ Answer(q, 403) /\ UNCHANGED faults
          /\ code' = [code EXCEPT ![req[q].code] = "gone"]
       \/ /\ code[req[q].code] = "live" /\ Fails("url") /\ Answer(q, 400)
          /\ code' = [code EXCEPT ![req[q].code] = "gone"]
       \/ Fails("limit") /\ Answer(q, 429) /\ UNCHANGED code
    /\ UNCHANGED <<table, saved, child, job, tokens, edits, history>>

\* handleNodeAdd: the administrator types a name, an address and a token.
NodeAdd(h, t) ==
    /\ Asks(Admin, "none") /\ t \in 1..tokens /\ Claim(h, t = disk[h])
    /\ edits < MaxEdits /\ edits' = edits + 1
    /\ \E name \in Names :
           req' = [req EXCEPT ![Admin] = [pc |-> "ping", host |-> h, name |-> name,
                                          code |-> NoCode, token |-> t]]
    /\ UNCHANGED <<master, child, join, job, tokens, faults>>

\* Variant: a panel that answers at all is enough.
PingAnyway(q) ==
    /\ Asks(q, "ping")
    /\ Serve(q, "add")
    /\ UNCHANGED <<master, child, job, bounds, history>>

\* requireAuth of the child: the panel that runs there answers to its token only.
AnswersTo(h, token) == running[h] = token

Ping(q) ==
    /\ Asks(q, "ping")
    /\ \/ AnswersTo(req[q].host, req[q].token) /\ Serve(q, "add") /\ UNCHANGED faults
       \/ ~AnswersTo(req[q].host, req[q].token) /\ Answer(q, 502) /\ UNCHANGED faults
       \/ Fails("ping") /\ Answer(q, 502)
    /\ UNCHANGED <<master, child, job, tokens, edits, history>>

Added(q) == [name |-> req[q].name, host |-> req[q].host, token |-> req[q].token]

Taken(q) == \E n \in table : n.name = req[q].name \/ n.host = req[q].host

Admit(q) ==
    /\ table' = table \cup {Added(q)}
    /\ admitted' = IF q = Admin THEN admitted
                   ELSE admitted \cup {[code |-> req[q].code, token |-> req[q].token]}

\* Variant: the name and the address are not compared.
AddUnchecked(q) ==
    /\ Asks(q, "add")
    /\ Admit(q) /\ saved' = table' /\ Answer(q, 200)
    /\ UNCHANGED <<code, child, job, bounds, again, edited, deleted>>

\* Variant: the answer does not wait for the file.
AddInMemory(q) ==
    /\ Asks(q, "add")
    /\ IF Taken(q) THEN UNCHANGED <<table, admitted>> /\ Answer(q, 409)
       ELSE Admit(q) /\ Answer(q, 200)
    /\ UNCHANGED <<code, saved, child, job, bounds, again, edited, deleted>>

\* Store.Add: a failed save answers 409, with the entry in memory.
Add(q) ==
    /\ Asks(q, "add")
    /\ \/ Taken(q) /\ UNCHANGED <<table, saved, admitted, faults>> /\ Answer(q, 409)
       \/ ~Taken(q) /\ Admit(q) /\ saved' = table' /\ UNCHANGED faults /\ Answer(q, 200)
       \/ ~Taken(q) /\ Admit(q) /\ UNCHANGED saved /\ Fails("save") /\ Answer(q, 409)
    /\ UNCHANGED <<code, child, job, tokens, edits, again, edited, deleted>>

\* The table after a change, in the file too unless the save fails.
Store(new) ==
    /\ table' = new
    /\ \/ saved' = new /\ UNCHANGED faults
       \/ UNCHANGED saved /\ Fails("save")

\* handleNodeUpdate: nothing is compared or pinged.
NodeUpdate(n, m) ==
    /\ n \in table /\ n # m /\ m.token \in 1..tokens
    /\ edits < MaxEdits /\ edits' = edits + 1
    /\ Store((table \ {n}) \cup {m})
    /\ edited' = edited \cup {n.host, m.host}
    /\ UNCHANGED <<code, child, join, req, job, tokens, admitted, again, deleted>>

NodeDelete(n) ==
    /\ n \in table
    /\ edits < MaxEdits /\ edits' = edits + 1
    /\ Store(table \ {n})
    /\ deleted' = deleted \cup {n.host}
    /\ UNCHANGED <<code, child, join, req, job, tokens, admitted, again, edited>>

\* Codes, requests and jobs are in memory; a shell loses its connection.
MasterRestart ==
    /\ Fails("restart")
    /\ table' = saved
    /\ code' = [c \in Codes |-> IF code[c] = "unused" THEN "unused" ELSE "gone"]
    /\ req' = [q \in DOMAIN req |-> NoRequest]
    /\ job' = [j \in Joiners |-> "none"]
    /\ join' = [j \in Joiners |->
                  IF join[j].pc \in {"dial", "await"} THEN [join[j] EXCEPT !.pc = "failed"]
                  ELSE join[j]]
    /\ UNCHANGED <<saved, child, tokens, edits, history>>

-------------------------------------------------------------------------------

Next ==
    \/ \E c \in Codes : CreateCode(c) \/ Expire(c)
    \/ \E j \in Joiners, h \in Hosts, c \in Codes : StartJoin(j, h, c) \/ StartSSH(j, h, c)
    \/ \E j \in Joiners : Dial(j) \/ GenToken(j) \/ Restart(j) \/ Post(j) \/ Lose(j) \/ Kill(j)
    \/ \E j \in Joiners : JobDone(j) \/ JobTimeout(j)
    \/ \E h \in Hosts : ChildSave(h) \/ ChildRestart(h)
    \/ \E q \in Joiners \cup {Admin} : Consume(q) \/ Ping(q) \/ Add(q)
    \/ \E h \in Hosts, t \in Token : NodeAdd(h, t)
    \/ \E n \in table : NodeDelete(n) \/ \E m \in Entry : NodeUpdate(n, m)
    \/ MasterRestart

Spec == Init /\ [][Next]_vars

-------------------------------------------------------------------------------
(* Properties. *)

\* Every variable has its type, and what the master pings or adds has a token.
TypeOK ==
    /\ code \in [Codes -> {"unused", "live", "expired", "gone"}]
    /\ table \subseteq Entry /\ saved \subseteq Entry
    /\ disk \in [Hosts -> Token] /\ running \in [Hosts -> Token]
    /\ job \in [Joiners -> {"none", "running", "success", "failed"}]
    /\ \A q \in DOMAIN req : req[q] # NoRequest => req[q].host \in Hosts /\ req[q].token \in 1..tokens
    /\ \A j \in Joiners : join[j].tries \in 0..2

\* A code lets in one node at most, whatever is retried or sent twice (README: 一次性
\* 绑定码, a one-time code).
CodeOnce == \A a, b \in admitted : a.code = b.code => a = b

\* No two entries have the same name or the same address, though requests check
\* and add between the steps of each other (ErrExists), unless one was edited.
UniqueEntries ==
    \A n, m \in table : {n.host, m.host} \cap edited = {} =>
        (n.name = m.name \/ n.host = m.host => n = m)

\* A child that printed "bound" has its entry, with its token, in memory and in the
\* file, until the administrator changes or deletes it: whoever joins, adds or
\* restarts, no binding that was acknowledged is lost.
BoundStays ==
    \A j \in Joiners : At(j, "bound") /\ join[j].host \notin edited \cup deleted =>
        \E n \in table \cap saved : n.host = join[j].host /\ n.token = join[j].token

\* When bound hosts are left alone and the token that is typed is the latest, every
\* entry works: its token is the one its
\* host answers to, now and after a restart of the child.
EntriesAnswer ==
    \A n \in table : n.host \notin again \cup edited =>
        running[n.host] = n.token /\ disk[n.host] = n.token

===============================================================================
