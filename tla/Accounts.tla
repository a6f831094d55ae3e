-------------------------------- MODULE Accounts --------------------------------
(***************************************************************************)
(* Accounts of the panel: internal/users, internal/auth, the AdminHash of           *)
(* internal/config, their handlers, and the part of a backup's restore that          *)
(* replaces users.json.                                                              *)
(*                                                                                   *)
(* A store changes its memory first and then writes the file, under one lock: that   *)
(* is one step, which a failing write or a death of the panel cuts in the middle.    *)
(* Handlers take several steps, and other requests run between them.                 *)
(***************************************************************************)
EXTENDS Naturals, FiniteSets

CONSTANTS
    Users,     \* names of subusers
    Passwords,
    Requests,  \* requests that take more than one step
    Faults,    \* which failures there are
    MaxFaults, \* bound on failures
    MaxCrashes, \* bound on deaths of the panel
    MaxBorn,  \* bound on accounts that are created under one name
    RestoreAlone, \* nothing is changed while a backup is restored
    TokenRace  \* -gen-node-token may run while the panel does

Admin == "admin"
NoPassword == "none"   \* no hash at all
FaultKinds == {"save", "reload", "restore", "write", "move"}

ASSUME AccountsAssumption ==
    /\ Faults \subseteq FaultKinds /\ {MaxFaults, MaxCrashes, MaxBorn} \subseteq Nat
    /\ {RestoreAlone, TokenRace} \subseteq BOOLEAN
    /\ Admin \notin Users /\ NoPassword \notin Passwords

VARIABLES
    mem,      \* Store.users
    file,     \* users.json
    admin,    \* AdminHash in the memory of the panel
    config,   \* and in config.yaml
    sessions, \* the names in tokens that have not expired
    born,     \* accounts created under each name so far, for CreatedAt
    req,      \* the requests that are between two steps
    restore,  \* the restore of a backup
    gen,      \* a -gen-node-token process: the AdminHash that it has read
    faults,   \* failures so far
    crashes,  \* deaths so far
    acked,    \* history: the accounts as they were acknowledged, but for those in unsure
    unsure,   \* history: names whose last change was not acknowledged
    setups    \* history: how many setups were acknowledged

store == <<mem, file, born>>
adminVars == <<admin, config, gen, setups>>
bounds == <<faults, crashes>>
vars == <<store, adminVars, sessions, req, restore, bounds, acked, unsure>>

NoUser == [born |-> 0, pass |-> NoPassword, disabled |-> FALSE, perm |-> FALSE]

\* born stands for CreatedAt, 0 for an account of a backup that this panel has not created.
User == [born : 0..MaxBorn, pass : Passwords, disabled : BOOLEAN, perm : BOOLEAN]
Accounts == [Users -> User \cup {NoUser}]
Nobody == [u \in Users |-> NoUser]

Idle == [pc |-> "idle", user |-> Admin, pass |-> NoPassword]
NoRestore == [pc |-> "none", data |-> Nobody]
NotRun == "not run"

Init ==
    /\ mem = Nobody /\ file = Nobody /\ born = [u \in Users |-> 0]
    /\ admin = NoPassword /\ config = NoPassword
    /\ sessions = {}
    /\ req = [r \in Requests |-> Idle]
    /\ restore = NoRestore
    /\ gen = NotRun
    /\ faults = 0 /\ crashes = 0
    /\ acked = Nobody /\ unsure = {} /\ setups = 0

-------------------------------------------------------------------------------

\* A failure that this model allows happens.
Fails(kind) == kind \in Faults /\ faults < MaxFaults /\ faults' = faults + 1

Exists(u) == mem[u] # NoUser
MayChange == RestoreAlone => restore.pc = "none"

\* Variant: a failing write is not noticed.
SaveUnnoticed(u, a) ==
    /\ MayChange
    /\ mem' = [mem EXCEPT ![u] = a]
    /\ \/ file' = mem' /\ UNCHANGED faults
       \/ Fails("save") /\ UNCHANGED file
    /\ acked' = [acked EXCEPT ![u] = a] /\ unsure' = unsure \ {u}

\* The account becomes a, in memory and then in the file.
\* When the save fails the memory has changed, and the handler answers an error.
Save(u, a) ==
    /\ MayChange
    /\ mem' = [mem EXCEPT ![u] = a]
    /\ \/ /\ file' = mem' /\ UNCHANGED faults
          /\ acked' = [acked EXCEPT ![u] = a] /\ unsure' = unsure \ {u}
       \/ /\ Fails("save") /\ UNCHANGED file
          /\ acked' = [acked EXCEPT ![u] = NoUser] /\ unsure' = unsure \cup {u}

Waits(r, pc, u, p) == req' = [req EXCEPT ![r] = [pc |-> pc, user |-> u, pass |-> p]]
End(r) == req' = [req EXCEPT ![r] = Idle]

\* A request is about to set the password of u.
Sets(r, u) == req[r].pc \in {"reset", "change"} /\ req[r].user = u

-------------------------------------------------------------------------------
(* Subusers, by the administrator. *)

\* Variant: the account is stored before its password is hashed.
CreateUserUnhashed(u, p) ==
    /\ admin # NoPassword /\ ~Exists(u)
    /\ born[u] < MaxBorn /\ born' = [born EXCEPT ![u] = @ + 1]
    /\ Save(u, [born |-> born'[u], pass |-> NoPassword, disabled |-> FALSE, perm |-> TRUE])
    /\ UNCHANGED <<adminVars, sessions, req, restore, crashes>>

\* A name may be given again: tokens and requests of an earlier account know only the name.
CreateUser(u, p) ==
    /\ admin # NoPassword
    /\ ~Exists(u)
    /\ born[u] < MaxBorn /\ born' = [born EXCEPT ![u] = @ + 1]
    /\ LET a == [born |-> born'[u], pass |-> p, disabled |-> FALSE, perm |-> TRUE]
       IN Save(u, a)
    /\ UNCHANGED <<adminVars, sessions, req, restore, crashes>>

\* Only the fields that the request names are changed.
Fields(a, disabled, perm) == [a EXCEPT !.disabled = disabled, !.perm = perm]

\* handleUserUpdate: the fields first; a password goes by a second step.
UpdateUser(u, disabled, perm) ==
    /\ Exists(u) /\ mem[u] # Fields(mem[u], disabled, perm)
    /\ Save(u, Fields(mem[u], disabled, perm))
    /\ UNCHANGED <<adminVars, born, sessions, req, restore, crashes>>

UpdateAndReset(r, u, disabled, p) ==
    /\ req[r] = Idle /\ Exists(u)
    /\ LET a == Fields(mem[u], disabled, mem[u].perm) IN Save(u, a)
    /\ IF faults' # faults THEN UNCHANGED req ELSE Waits(r, "reset", u, p)
    /\ UNCHANGED <<adminVars, born, sessions, restore, crashes>>

DeleteUser(u) ==
    /\ Exists(u)
    /\ Save(u, NoUser)
    /\ UNCHANGED <<adminVars, born, sessions, req, restore, crashes>>

\* SetPassword, of a reset or of a change: whatever the account has become meanwhile.
SetPassword(r) ==
    /\ req[r].pc \in {"reset", "change"} /\ End(r)
    /\ LET u == req[r].user
           a == [mem[u] EXCEPT !.pass = req[r].pass]
       IN \/ Exists(u) /\ Save(u, a)
          \/ ~Exists(u) /\ UNCHANGED <<mem, file, acked, unsure, faults>>
    /\ UNCHANGED <<adminVars, born, sessions, restore, crashes>>

-------------------------------------------------------------------------------
(* Subusers, by themselves. *)

\* Validate reads the account of the token's name anew.
Validates(u) == u \in sessions /\ Exists(u) /\ ~mem[u].disabled

\* Verify takes a copy under the lock and compares the hash of the password with it
\* unlocked: the copy settles who is let in.
BeginLogin(r, u) ==
    /\ req[r] = Idle /\ Exists(u) /\ ~mem[u].disabled
    /\ Waits(r, "login", u, NoPassword)
    /\ UNCHANGED <<store, adminVars, sessions, restore, bounds, acked, unsure>>

Login(r) ==
    /\ req[r].pc = "login" /\ End(r)
    /\ sessions' = sessions \cup {req[r].user}
    /\ UNCHANGED <<store, adminVars, restore, bounds, acked, unsure>>

\* A change of one's own password: Validate and Verify, then SetPassword.
BeginChange(r, u, old, new) ==
    /\ old # new /\ req[r] = Idle /\ MayChange
    /\ Validates(u) /\ mem[u].pass = old
    /\ Waits(r, "change", u, new)
    /\ UNCHANGED <<store, adminVars, sessions, restore, bounds, acked, unsure>>

\* After 24 hours.
Expire(u) ==
    /\ u \in sessions /\ sessions' = sessions \ {u}
    /\ UNCHANGED <<store, adminVars, req, restore, bounds, acked, unsure>>

-------------------------------------------------------------------------------
(* The administrator's own password, in the config file. *)

SaveAdmin(p) ==
    /\ admin' = p
    /\ \/ config' = p /\ UNCHANGED faults
       \/ Fails("write") /\ UNCHANGED config

\* Variant: whether there is a password is looked at before it is hashed.
SetupUnchecked(p) ==
    /\ config' = p /\ admin' = p /\ setups' = setups + 1 /\ setups < 3
    /\ UNCHANGED <<gen, store, sessions, req, restore, bounds, acked, unsure>>

\* Setup, by whoever comes first.
Setup(p) ==
    /\ admin = NoPassword
    /\ SaveAdmin(p)
    /\ setups' = IF config' = p THEN setups + 1 ELSE setups
    /\ UNCHANGED <<gen, store, sessions, req, restore, crashes, acked, unsure>>

\* ChangePassword of the administrator compares the old one with a snapshot first.
BeginChangeAdmin(r, old, new) ==
    /\ old # new /\ req[r] = Idle
    /\ admin = old
    /\ Waits(r, "admin", Admin, new)
    /\ UNCHANGED <<store, adminVars, sessions, restore, bounds, acked, unsure>>

ChangeAdmin(r) ==
    /\ req[r].pc = "admin" /\ End(r)
    /\ SaveAdmin(req[r].pass)
    /\ UNCHANGED <<gen, setups, store, sessions, restore, crashes, acked, unsure>>

\* -gen-node-token loads the whole config file, and writes it with a new node token.
\* cmd_join then restarts the panel.
GenLoad ==
    /\ gen = NotRun /\ gen' = config
    /\ UNCHANGED <<admin, config, setups, store, sessions, req, restore, bounds, acked, unsure>>

GenWrite ==
    /\ gen # NotRun /\ gen' = NotRun
    /\ TokenRace \/ gen = config
    /\ config' = gen
    /\ UNCHANGED <<admin, setups, store, sessions, req, restore, bounds, acked, unsure>>

-------------------------------------------------------------------------------
(* handleRestore: users.json is moved away, the one of the backup is moved in, and   *)
(* the store reads it, without its lock.                                             *)

\* An account of the backup was created before.
Returns(u, a) == a.born <= born[u]

BeginRestore(data) ==
    /\ restore = NoRestore /\ admin # NoPassword
    /\ RestoreAlone => \A r \in Requests, u \in Users : ~Sets(r, u)
    /\ \A u \in Users : Returns(u, data[u])
    /\ restore' = [pc |-> "out", data |-> data]
    /\ UNCHANGED <<store, adminVars, sessions, req, bounds, acked, unsure>>

NothingAcked == acked' = Nobody /\ unsure' = Users

MoveOut ==
    /\ restore.pc = "out"
    /\ \/ file' = Nobody /\ restore' = [restore EXCEPT !.pc = "in"] /\ UNCHANGED faults
       \/ Fails("restore") /\ restore' = NoRestore /\ UNCHANGED file
    /\ UNCHANGED <<mem, born, adminVars, sessions, req, crashes, acked, unsure>>

\* A failure here leaves no file, and an error answer without a reload.
MoveIn ==
    /\ restore.pc = "in"
    /\ \/ file' = restore.data /\ restore' = [restore EXCEPT !.pc = "read"]
          /\ UNCHANGED <<faults, unsure>>
          /\ UNCHANGED acked
       \/ Fails("move") /\ restore' = NoRestore /\ NothingAcked /\ UNCHANGED file
    /\ UNCHANGED <<mem, born, adminVars, sessions, req, crashes>>

\* Reload: the file is read, and only then the lock is taken.
Read ==
    /\ restore.pc = "read"
    /\ \/ restore' = [pc |-> "swap", data |-> file] /\ UNCHANGED <<faults, unsure, acked>>
       \/ Fails("reload") /\ restore' = NoRestore /\ NothingAcked
    /\ UNCHANGED <<store, adminVars, sessions, req, crashes>>

Reload ==
    /\ restore.pc = "swap"
    /\ mem' = restore.data /\ restore' = NoRestore
    /\ acked' = restore.data /\ unsure' = {}
    /\ UNCHANGED <<file, born, adminVars, sessions, req, bounds>>

-------------------------------------------------------------------------------

\* The panel dies and loads its files; tokens are signed with a stored secret. While
\* users.json is moved away it would start with no subuser.
Crash ==
    /\ crashes < MaxCrashes /\ crashes' = crashes + 1
    /\ restore.pc = "in" => "move" \in Faults
    /\ mem' = file /\ admin' = config
    /\ req' = [r \in Requests |-> Idle]
    /\ restore' = NoRestore
    /\ CASE restore.pc = "in" -> NothingAcked
         [] restore.pc \in {"read", "swap"} -> acked' = file /\ unsure' = {}
         [] OTHER -> UNCHANGED <<acked, unsure>>
    /\ UNCHANGED <<file, born, config, gen, setups, sessions, faults>>

Next ==
    \/ \E u \in Users, p \in Passwords : CreateUser(u, p)
    \/ \E u \in Users, disabled, perm \in BOOLEAN : UpdateUser(u, disabled, perm)
    \/ \E u \in Users : DeleteUser(u)
    \/ \E r \in Requests, u \in Users :
          \/ BeginLogin(r, u)
          \/ \E disabled \in BOOLEAN, p \in Passwords : UpdateAndReset(r, u, disabled, p)
    \/ \E r \in Requests, u \in sessions, old, new \in Passwords : BeginChange(r, u, old, new)
    \/ \E u \in sessions : Expire(u)
    \/ \E r \in Requests : SetPassword(r) \/ Login(r) \/ ChangeAdmin(r)
    \/ \E p \in Passwords : Setup(p)
    \/ \E r \in Requests, old, new \in Passwords : BeginChangeAdmin(r, old, new)
    \/ GenLoad \/ GenWrite
    \/ \E data \in Accounts : BeginRestore(data)
    \/ MoveOut \/ MoveIn \/ Read \/ Reload \/ Crash

Spec == Init /\ [][Next]_vars

-------------------------------------------------------------------------------
(* Properties. *)

\* Every variable has its type: an account has a password, in memory and in the file,
\* whatever requests have come between its creation and now.
TypeOK ==
    /\ {mem, file, acked, restore.data} \subseteq Accounts
    /\ {admin, config} \subseteq Passwords \cup {NoPassword}
    /\ sessions \subseteq Users /\ unsure \subseteq Users
    /\ \A r \in Requests : req[r].pc \in {"login", "reset", "change"} => req[r].user \in Users
    /\ faults <= MaxFaults /\ crashes <= MaxCrashes

\* What was acknowledged is what the panel works with and what a restart finds, whatever
\* requests run between the steps of others, also those of an earlier account of the name,
\* and after a restore too; but for accounts whose last change was answered with an error.
\* So who was disabled, deleted or denied a permission is not let in again by an old
\* token (auth.go: 子用户被禁用/删除立即失效).
AckedKept ==
    \A u \in Users \ unsure :
        mem[u] = acked[u] /\ (restore.pc = "none" => file[u] = acked[u])

\* The first visitor sets the password, and nobody after: one setup is
\* acknowledged, and from then on the panel has a password, after restarts too.
SetupOnce == setups <= 1 /\ (setups = 1 => admin # NoPassword /\ config # NoPassword)

===============================================================================
