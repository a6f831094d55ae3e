----------------------------- MODULE AccountsProofs -----------------------------
(***************************************************************************)
(* Proofs about Accounts for every set of users, passwords and requests and for  *)
(* every bound: type correctness, one setup and acknowledged accounts.             *)
(***************************************************************************)
EXTENDS Accounts, TLAPS

-------------------------------------------------------------------------------
(* Types, and what a request that waits relies on. *)

Account == User \cup {NoUser}
Hashes == Passwords \cup {NoPassword}
Pcs == {"idle", "login", "reset", "change", "admin"}

ReqRecord == [pc : Pcs, user : Users \cup {Admin}, pass : Hashes]
RestoreRecord == [pc : {"none", "out", "in", "read", "swap"}, data : Accounts]

ReqFine(x) ==
    /\ x.pc \in {"login", "reset", "change"} => x.user \in Users
    /\ x.pc \in {"reset", "change", "admin"} => x.pass \in Passwords

StoreType == {mem, file, acked} \subseteq Accounts /\ unsure \subseteq Users
BornType == born \in [Users -> 0..MaxBorn]
AdminType == {admin, config} \subseteq Hashes /\ gen \in Hashes \cup {NotRun} /\ setups \in Nat
ReqType == req \in [Requests -> ReqRecord] /\ \A r \in Requests : ReqFine(req[r])
FaultType == faults \in 0..MaxFaults
RestType == sessions \subseteq Users /\ restore \in RestoreRecord /\ crashes \in 0..MaxCrashes

TypeInv == StoreType /\ BornType /\ AdminType /\ ReqType /\ FaultType /\ RestType

LEMMA Constants ==
    /\ MaxFaults \in Nat /\ MaxCrashes \in Nat /\ MaxBorn \in Nat
    /\ Admin \notin Users /\ NoPassword \notin Passwords
    /\ 0 \in 0..MaxFaults /\ 0 \in 0..MaxCrashes /\ 0 \in 0..MaxBorn
BY AccountsAssumption

LEMMA NoneTypes ==
    /\ Nobody \in Accounts
    /\ \A u \in Users : Nobody[u] = NoUser
    /\ Idle \in ReqRecord /\ Idle.pc = "idle" /\ ReqFine(Idle)
    /\ NoRestore \in RestoreRecord /\ NoRestore.pc = "none"
<1>2. Nobody \in Accounts /\ \A u \in Users : Nobody[u] = NoUser
  BY DEF Nobody, Accounts
<1>3. Idle \in ReqRecord /\ Idle.pc = "idle" /\ ReqFine(Idle)
  BY DEF Idle, ReqRecord, Pcs, Hashes, ReqFine
<1>4. NoRestore \in RestoreRecord /\ NoRestore.pc = "none"
  BY <1>2 DEF NoRestore, RestoreRecord
<1> QED BY <1>2, <1>3, <1>4

LEMMA FailsType ==
    ASSUME FaultType, NEW kind, Fails(kind)
    PROVE  FaultType' /\ faults' # faults /\ faults' = faults + 1
BY Constants DEF FaultType, Fails

\* What a save changes: one account, in memory and, unless the write fails, in the
\* file, which then has all that the memory has.
LEMMA SaveMoves ==
    ASSUME TypeInv, NEW u \in Users, NEW a \in Account, Save(u, a)
    PROVE  /\ StoreType' /\ FaultType' /\ MayChange
           /\ mem'[u] = a /\ \A v \in Users \ {u} : mem'[v] = mem[v]
           /\ \A v \in Users \ {u} : acked'[v] = acked[v]
           /\ \/ /\ file' = mem' /\ faults' = faults /\ acked'[u] = a
                 /\ unsure' = unsure \ {u}
              \/ /\ "save" \in Faults /\ faults < MaxFaults /\ faults' # faults
                 /\ faults' = faults + 1
                 /\ file' = file /\ unsure' = unsure \cup {u}
<1>0. mem \in [Users -> Account] /\ file \in [Users -> Account] /\ acked \in [Users -> Account]
      /\ NoUser \in Account /\ FaultType
  BY DEF TypeInv, StoreType, Accounts, Account
<1>1. mem' \in [Users -> Account] /\ mem'[u] = a /\ \A v \in Users \ {u} : mem'[v] = mem[v]
  BY <1>0 DEF Save
<1>2. CASE file' = mem' /\ UNCHANGED faults /\ acked' = [acked EXCEPT ![u] = a]
           /\ unsure' = unsure \ {u}
  <2>1. StoreType' /\ FaultType'
    BY <1>0, <1>1, <1>2 DEF StoreType, FaultType, TypeInv, Accounts, Account
  <2> QED BY <1>0, <1>1, <1>2, <2>1 DEF Save
<1>3. CASE Fails("save") /\ UNCHANGED file /\ acked' = [acked EXCEPT ![u] = NoUser]
           /\ unsure' = unsure \cup {u}
  <2>1. StoreType'
    BY <1>0, <1>1, <1>3 DEF StoreType, TypeInv, Accounts, Account
  <2>2. FaultType' /\ faults' # faults /\ faults' = faults + 1
    BY <1>0, <1>3, FailsType
  <2>3. "save" \in Faults /\ faults < MaxFaults
    BY <1>3 DEF Fails
  <2> QED BY <1>0, <1>1, <1>3, <2>1, <2>2, <2>3 DEF Save
<1> QED BY <1>2, <1>3 DEF Save

LEMMA WaitsType ==
    ASSUME ReqType, NEW r \in Requests, NEW x \in ReqRecord, ReqFine(x),
           req' = [req EXCEPT ![r] = x]
    PROVE  /\ ReqType' /\ req'[r] = x
           /\ \A s \in Requests \ {r} : req'[s] = req[s]
BY DEF ReqType

LEMMA EndType ==
    ASSUME ReqType, NEW r \in Requests, End(r)
    PROVE  /\ ReqType' /\ req'[r] = Idle
           /\ \A s \in Requests \ {r} : req'[s] = req[s]
BY NoneTypes, WaitsType DEF End

\* The requests that begin.
LEMMA WaitingType ==
    ASSUME ReqType, NEW r \in Requests, NEW pc \in Pcs, NEW u \in Users \cup {Admin},
           NEW p \in Hashes, Waits(r, pc, u, p),
           pc \in {"login", "reset", "change"} => u \in Users,
           pc \in {"reset", "change", "admin"} => p \in Passwords
    PROVE  /\ ReqType' /\ req'[r].pc = pc /\ req'[r].user = u /\ req'[r].pass = p
           /\ \A q \in Requests \ {r} : req'[q] = req[q]
<1> DEFINE x == [pc |-> pc, user |-> u, pass |-> p]
<1>1. x \in ReqRecord /\ x.pc = pc /\ x.user = u /\ x.pass = p
  BY DEF ReqRecord
<1>2. req' = [req EXCEPT ![r] = x]
  BY DEF Waits
<1> HIDE DEF x
<1>3. ReqFine(x)
  BY <1>1 DEF ReqFine
<1> QED BY <1>1, <1>2, <1>3, WaitsType

LEMMA FieldsType ==
    ASSUME NEW a \in User, NEW d \in BOOLEAN, NEW p \in BOOLEAN
    PROVE  /\ Fields(a, d, p) \in User /\ Fields(a, d, p).born = a.born
           /\ Fields(a, d, p).pass = a.pass
BY DEF Fields, User

\* The accounts that the handlers write.
LEMMA ExistsType ==
    ASSUME TypeInv, NEW u \in Users
    PROVE  /\ mem[u] \in Account /\ (Exists(u) => mem[u] \in User)
           /\ User \subseteq Account /\ NoUser \in Account
BY NoneTypes DEF TypeInv, StoreType, Accounts, Account, Exists

-------------------------------------------------------------------------------
(* What the handlers of subusers do, for any property of the store.             *)

\* An account that stays the same one: deleted, or with other fields.
Continues(u, a) == Exists(u) /\ (a = NoUser \/ (a \in User /\ a.born = mem[u].born))

LEMMA CreateMoves ==
    ASSUME TypeInv, NEW u \in Users, NEW p \in Passwords, CreateUser(u, p)
    PROVE  /\ \E a \in User : Save(u, a) /\ a.born = born'[u]
           /\ ~Exists(u) /\ BornType'
           /\ \A v \in Users : born[v] <= born'[v]
           /\ UNCHANGED <<adminVars, sessions, req, restore, crashes>>
<1> DEFINE a == [born |-> born'[u], pass |-> p, disabled |-> FALSE, perm |-> TRUE]
<1>0. /\ ~Exists(u) /\ born[u] < MaxBorn
      /\ born' = [born EXCEPT ![u] = @ + 1] /\ Save(u, a)
      /\ UNCHANGED <<adminVars, sessions, req, restore, crashes>>
  BY DEF CreateUser
<1>1. born \in [Users -> 0..MaxBorn] /\ MaxBorn \in Nat
  BY Constants DEF TypeInv, BornType
<1>2. born[u] \in 0..MaxBorn /\ born[u] + 1 \in 0..MaxBorn
  BY <1>0, <1>1
<1>3. born' \in [Users -> 0..MaxBorn]
  BY <1>0, <1>1, <1>2
<1>4. \A v \in Users : born[v] <= born'[v]
  BY <1>0, <1>1
<1>5. a \in User /\ a.born = born'[u]
  BY <1>3 DEF User
<1> HIDE DEF a
<1> QED BY <1>0, <1>3, <1>4, <1>5 DEF BornType

LEMMA UpdateMoves ==
    ASSUME TypeInv, NEW u \in Users, NEW disabled \in BOOLEAN, NEW perm \in BOOLEAN,
           UpdateUser(u, disabled, perm)
    PROVE  /\ \E a \in User : Save(u, a) /\ Continues(u, a) /\ a.pass = mem[u].pass
           /\ UNCHANGED <<adminVars, born, sessions, req, restore, crashes>>
BY ExistsType, FieldsType DEF UpdateUser, Continues

LEMMA DeleteMoves ==
    ASSUME TypeInv, NEW u \in Users, DeleteUser(u)
    PROVE  /\ Save(u, NoUser) /\ Continues(u, NoUser)
           /\ UNCHANGED <<adminVars, born, sessions, req, restore, crashes>>
BY DEF DeleteUser, Continues

LEMMA ResetMoves ==
    ASSUME TypeInv, NEW r \in Requests, NEW u \in Users, NEW disabled \in BOOLEAN,
           NEW p \in Passwords, UpdateAndReset(r, u, disabled, p)
    PROVE  /\ \E a \in User : Save(u, a) /\ Continues(u, a) /\ a.pass = mem[u].pass
           /\ req[r] = Idle
           /\ UNCHANGED req \/ Waits(r, "reset", u, p)
           /\ UNCHANGED <<adminVars, born, sessions, restore, crashes>>
<1>1. mem[u] \in User /\ mem[u].perm \in BOOLEAN
  BY ExistsType DEF UpdateAndReset, User
<1>2. /\ Fields(mem[u], disabled, mem[u].perm) \in User
      /\ Fields(mem[u], disabled, mem[u].perm).born = mem[u].born
      /\ Fields(mem[u], disabled, mem[u].perm).pass = mem[u].pass
  BY <1>1, FieldsType
<1> QED BY <1>2 DEF UpdateAndReset, Continues

LEMMA SetPasswordMoves ==
    ASSUME TypeInv, NEW r \in Requests, SetPassword(r)
    PROVE  /\ req[r].user \in Users /\ req[r].pc \in {"reset", "change"} /\ End(r)
           /\ \/ \E a \in User : Save(req[r].user, a) /\ Continues(req[r].user, a)
              \/ UNCHANGED <<mem, file, acked, unsure, faults>>
           /\ UNCHANGED <<adminVars, born, sessions, restore, crashes>>
<1> DEFINE u == req[r].user
           a == [mem[u] EXCEPT !.pass = req[r].pass]
<1>1. /\ u \in Users /\ req[r].pass \in Passwords /\ req[r].pc \in {"reset", "change"} /\ End(r)
      /\ (Exists(u) /\ Save(u, a)) \/ UNCHANGED <<mem, file, acked, unsure, faults>>
      /\ UNCHANGED <<adminVars, born, sessions, restore, crashes>>
  BY DEF SetPassword, TypeInv, ReqType, ReqFine
<1>2. CASE Exists(u) /\ Save(u, a)
  <2>1. mem[u] \in User
    BY <1>1, <1>2, ExistsType
  <2>2. a \in User /\ a.born = mem[u].born
    BY <1>1, <2>1 DEF User
  <2> HIDE DEF a
  <2> QED BY <1>1, <1>2, <2>2 DEF Continues
<1> QED BY <1>1, <1>2

-------------------------------------------------------------------------------
(* Type correctness. *)

LEMMA TypeInit == Init => TypeInv
BY Constants, NoneTypes DEF Init, TypeInv, StoreType, BornType, AdminType, ReqType, FaultType,
   RestType, Hashes

\* The requests of subusers.
LEMMA UserType ==
    ASSUME TypeInv,
           \/ \E u \in Users, p \in Passwords : CreateUser(u, p)
           \/ \E u \in Users, disabled, perm \in BOOLEAN : UpdateUser(u, disabled, perm)
           \/ \E u \in Users : DeleteUser(u)
           \/ \E r \in Requests, u \in Users, disabled \in BOOLEAN, p \in Passwords :
                 UpdateAndReset(r, u, disabled, p)
           \/ \E r \in Requests : SetPassword(r)
    PROVE  TypeInv'
<1>0. ReqType /\ BornType /\ RestType /\ AdminType /\ User \subseteq Account /\ NoUser \in Account
  BY NoneTypes DEF TypeInv, Account
<1>a. UNCHANGED <<adminVars, sessions, restore, crashes>> => RestType' /\ AdminType'
  BY <1>0 DEF RestType, AdminType, adminVars
<1>1. ASSUME NEW u \in Users, NEW p \in Passwords, CreateUser(u, p) PROVE TypeInv'
  BY <1>0, <1>a, <1>1, CreateMoves, SaveMoves DEF TypeInv, ReqType
<1>2. ASSUME NEW u \in Users, NEW disabled \in BOOLEAN, NEW perm \in BOOLEAN,
             UpdateUser(u, disabled, perm)
      PROVE  TypeInv'
  BY <1>0, <1>a, <1>2, UpdateMoves, SaveMoves DEF TypeInv, ReqType, BornType
<1>3. ASSUME NEW u \in Users, DeleteUser(u) PROVE TypeInv'
  BY <1>0, <1>a, <1>3, DeleteMoves, SaveMoves DEF TypeInv, ReqType, BornType
<1>4. ASSUME NEW r \in Requests, NEW u \in Users, NEW disabled \in BOOLEAN, NEW p \in Passwords,
             UpdateAndReset(r, u, disabled, p)
      PROVE  TypeInv'
  <2>1. ReqType'
    <3>1. Waits(r, "reset", u, p) => ReqType'
      BY <1>0, NoneTypes, WaitingType DEF Pcs, Hashes
    <3> QED BY <1>0, <1>4, <3>1, ResetMoves DEF ReqType
  <2> QED BY <1>0, <1>a, <1>4, <2>1, ResetMoves, SaveMoves DEF TypeInv, BornType
<1>5. ASSUME NEW r \in Requests, SetPassword(r) PROVE TypeInv'
  <2>1. ReqType'
    BY <1>0, <1>5, SetPasswordMoves, EndType
  <2>2. StoreType' /\ FaultType'
    <3>1. CASE UNCHANGED <<mem, file, acked, unsure, faults>>
      BY <3>1 DEF TypeInv, StoreType, FaultType
    <3> QED BY <1>0, <1>5, <3>1, SetPasswordMoves, SaveMoves
  <2> QED BY <1>0, <1>a, <1>5, <2>1, <2>2, SetPasswordMoves DEF TypeInv, BornType
<1> QED BY <1>1, <1>2, <1>3, <1>4, <1>5

StoreSame == UNCHANGED <<mem, file, acked, unsure, born>>

LEMMA SaveAdminType ==
    ASSUME TypeInv, NEW p \in Passwords, SaveAdmin(p)
    PROVE  /\ {admin', config'} \subseteq Hashes /\ FaultType' /\ admin' = p
           /\ config' = p \/ config' = config
BY FailsType DEF SaveAdmin, TypeInv, AdminType, FaultType, Hashes

LEMMA TypeStep == TypeInv /\ [Next]_vars => TypeInv'
<1> SUFFICES ASSUME TypeInv, [Next]_vars PROVE TypeInv'
  OBVIOUS
<1>0. StoreType /\ BornType /\ AdminType /\ ReqType /\ FaultType /\ RestType
  BY DEF TypeInv
<1>a. StoreSame => StoreType' /\ BornType'
  BY <1>0 DEF StoreSame, StoreType, BornType
<1>b. UNCHANGED adminVars => AdminType'
  BY <1>0 DEF adminVars, AdminType
<1>c. UNCHANGED <<sessions, restore, crashes>> => RestType'
  BY <1>0 DEF RestType
<1>d. UNCHANGED req => ReqType'
  BY <1>0 DEF ReqType
<1>e. UNCHANGED faults => FaultType'
  BY <1>0 DEF FaultType
<1>1. ASSUME \/ \E u \in Users, p \in Passwords : CreateUser(u, p)
             \/ \E u \in Users, disabled, perm \in BOOLEAN : UpdateUser(u, disabled, perm)
             \/ \E u \in Users : DeleteUser(u)
             \/ \E r \in Requests, u \in Users, disabled \in BOOLEAN, p \in Passwords :
                   UpdateAndReset(r, u, disabled, p)
             \/ \E r \in Requests : SetPassword(r)
      PROVE  TypeInv'
  BY <1>1, UserType
<1>2. ASSUME NEW r \in Requests, NEW u \in Users, BeginLogin(r, u) PROVE TypeInv'
  <2>1. ReqType'
    <3>1. Waits(r, "login", u, NoPassword)
      BY <1>2 DEF BeginLogin
    <3> QED BY <1>0, <3>1, WaitingType DEF Pcs, Hashes
  <2> QED BY <1>2, <2>1, <1>a, <1>b, <1>c, <1>e DEF BeginLogin, TypeInv, store, bounds, StoreSame
<1>3. ASSUME NEW r \in Requests, NEW u \in sessions, NEW old \in Passwords, NEW new \in Passwords,
             BeginChange(r, u, old, new)
      PROVE  TypeInv'
  <2>1. ReqType'
    <3>0. u \in Users
      BY <1>0 DEF RestType
    <3>1. Waits(r, "change", u, new)
      BY <1>3 DEF BeginChange
    <3> QED BY <1>0, <3>0, <3>1, WaitingType DEF Pcs, Hashes
  <2> QED BY <1>3, <2>1, <1>a, <1>b, <1>c, <1>e DEF BeginChange, TypeInv, store, bounds, StoreSame
<1>4. ASSUME NEW u \in sessions, Expire(u) PROVE TypeInv'
  <2>1. RestType'
    BY <1>0, <1>4 DEF Expire, RestType, bounds
  <2> QED BY <1>4, <2>1, <1>a, <1>b, <1>d, <1>e DEF Expire, TypeInv, store, bounds, StoreSame
<1>5. ASSUME NEW r \in Requests, Login(r) PROVE TypeInv'
  <2>1. req[r].user \in Users
    BY <1>0, <1>5 DEF Login, ReqType, ReqFine
  <2>3. RestType'
    BY <1>0, <1>5, <2>1 DEF Login, RestType, bounds
  <2>4. ReqType'
    BY <1>0, <1>5, EndType DEF Login
  <2> QED BY <1>5, <2>3, <2>4, <1>a, <1>b, <1>e DEF Login, TypeInv, store, bounds, StoreSame
<1>6. ASSUME NEW r \in Requests, ChangeAdmin(r) PROVE TypeInv'
  <2>1. req[r].pass \in Passwords /\ SaveAdmin(req[r].pass) /\ UNCHANGED <<gen, setups>>
    BY <1>0, <1>6 DEF ChangeAdmin, ReqType, ReqFine
  <2>2. AdminType' /\ FaultType'
    BY <1>0, <2>1, SaveAdminType DEF AdminType
  <2>3. ReqType'
    BY <1>0, <1>6, EndType DEF ChangeAdmin
  <2> QED BY <1>6, <2>2, <2>3, <1>a, <1>c DEF ChangeAdmin, TypeInv, store, StoreSame
<1>7. ASSUME NEW p \in Passwords, Setup(p) PROVE TypeInv'
  <2>1. AdminType' /\ FaultType'
    BY <1>0, <1>7, SaveAdminType DEF Setup, AdminType
  <2> QED BY <1>7, <2>1, <1>a, <1>c, <1>d DEF Setup, TypeInv, store, StoreSame
<1>8. ASSUME NEW r \in Requests, NEW old \in Passwords, NEW new \in Passwords,
             BeginChangeAdmin(r, old, new)
      PROVE  TypeInv'
  <2>1. Waits(r, "admin", Admin, new)
    BY <1>8 DEF BeginChangeAdmin
  <2>2. ReqType'
    BY <1>0, <2>1, WaitingType DEF Pcs, Hashes
  <2> QED BY <1>8, <2>2, <1>a, <1>b, <1>c, <1>e DEF BeginChangeAdmin, TypeInv, store, bounds, StoreSame
<1>9. CASE GenLoad \/ GenWrite
  <2>1. AdminType'
    BY <1>0, <1>9 DEF GenLoad, GenWrite, AdminType
  <2> QED BY <1>9, <2>1, <1>a, <1>c, <1>d, <1>e DEF GenLoad, GenWrite, TypeInv, store, bounds, StoreSame
<1>10. ASSUME NEW data \in Accounts, BeginRestore(data) PROVE TypeInv'
  <2>1. RestType'
    BY <1>0, <1>10 DEF BeginRestore, RestType, RestoreRecord, bounds
  <2> QED BY <1>10, <2>1, <1>a, <1>b, <1>d, <1>e DEF BeginRestore, TypeInv, store, bounds, StoreSame
<1>11. ASSUME MoveOut \/ MoveIn \/ Read \/ Reload PROVE TypeInv'
  <2>0. restore.data \in Accounts /\ Nobody \in Accounts /\ NoRestore \in RestoreRecord
    BY <1>0, NoneTypes DEF RestType, RestoreRecord
  <2>1. RestType'
    <3>1. restore' \in RestoreRecord
      BY <1>0, <1>11, <2>0 DEF MoveOut, MoveIn, Read, Reload, RestType, RestoreRecord, StoreType
    <3> QED BY <1>0, <1>11, <3>1 DEF MoveOut, MoveIn, Read, Reload, RestType, bounds
  <2>2. FaultType'
    BY <1>0, <1>11, FailsType DEF MoveOut, MoveIn, Read, Reload, FaultType, bounds
  <2>3. StoreType' /\ BornType'
    BY <1>0, <1>11, <2>0 DEF MoveOut, MoveIn, Read, Reload, NothingAcked, StoreType, BornType, store
  <2> QED BY <1>11, <2>1, <2>2, <2>3, <1>b, <1>d DEF MoveOut, MoveIn, Read, Reload, TypeInv
<1>12. CASE Crash
  <2>1. RestType'
    <3>1. crashes' \in 0..MaxCrashes
      BY <1>0, <1>12, Constants DEF Crash, RestType
    <3> QED BY <1>0, <1>12, <3>1, NoneTypes DEF Crash, RestType
  <2>2. StoreType' /\ BornType'
    <3>1. <<acked', unsure'>> \in {<<acked, unsure>>, <<file, {}>>, <<Nobody, Users>>}
      BY <1>12 DEF Crash, NothingAcked
    <3> QED BY <1>0, <1>12, <3>1, NoneTypes DEF Crash, StoreType, BornType
  <2>3. ReqType'
    BY <1>12, NoneTypes DEF Crash, ReqType
  <2>4. AdminType'
    BY <1>0, <1>12 DEF Crash, AdminType
  <2> QED BY <1>12, <2>1, <2>2, <2>3, <2>4, <1>e DEF Crash, TypeInv
<1>13. CASE UNCHANGED vars
  BY <1>13, <1>a, <1>b, <1>c, <1>d, <1>e DEF vars, store, bounds, TypeInv, StoreSame
<1> QED BY <1>1, <1>2, <1>3, <1>4, <1>5, <1>6, <1>7, <1>8, <1>9, <1>10, <1>11, <1>12, <1>13 DEF Next

\* Every variable has its type: however requests interleave, fail and die, an account has
\* a password, in memory and in the file.
THEOREM AccountsTypeCorrect == Spec => []TypeOK
<1>1. TypeInv => TypeOK
  <2> SUFFICES ASSUME TypeInv PROVE TypeOK
    OBVIOUS
  <2>1. faults <= MaxFaults /\ crashes <= MaxCrashes
    BY Constants DEF TypeInv, FaultType, RestType
  <2> QED BY <2>1 DEF TypeInv, TypeOK, StoreType, AdminType, ReqType, RestType, ReqFine,
             RestoreRecord, Hashes
<1> QED BY <1>1, TypeInit, TypeStep, PTL DEF Spec

-------------------------------------------------------------------------------
(* The setup. *)

SetupInv ==
    /\ setups <= 1 /\ (setups = 1 => admin # NoPassword /\ config # NoPassword)

LEMMA SetupStep ==
    ASSUME ~TokenRace, TypeInv, SetupInv, [Next]_vars
    PROVE  SetupInv'
<1>0. setups \in Nat /\ NoPassword \notin Passwords
  BY Constants DEF TypeInv, AdminType
<1>1. CASE UNCHANGED <<admin, config, setups>>
  BY <1>1 DEF SetupInv
<1>2. ASSUME NEW p \in Passwords, Setup(p) PROVE SetupInv'
  <2>1. setups = 0
    BY <1>0, <1>2 DEF Setup, SetupInv
  <2> QED BY <1>0, <1>2, <2>1, SaveAdminType DEF Setup, SetupInv
<1>3. ASSUME NEW r \in Requests, ChangeAdmin(r) PROVE SetupInv'
  <2>1. req[r].pass \in Passwords /\ SaveAdmin(req[r].pass) /\ UNCHANGED setups
    BY <1>3 DEF ChangeAdmin, TypeInv, ReqType, ReqFine
  <2> QED BY <1>0, <2>1, SaveAdminType DEF SetupInv
<1>4. CASE GenWrite
  BY <1>4 DEF GenWrite, SetupInv
<1>5. CASE Crash
  BY <1>5 DEF Crash, SetupInv
<1>6. ASSUME \/ \E u \in Users, p \in Passwords : CreateUser(u, p)
             \/ \E u \in Users, disabled, perm \in BOOLEAN : UpdateUser(u, disabled, perm)
             \/ \E u \in Users : DeleteUser(u)
             \/ \E r \in Requests, u \in Users, disabled \in BOOLEAN, p \in Passwords :
                   UpdateAndReset(r, u, disabled, p)
             \/ \E r \in Requests : SetPassword(r)
      PROVE  UNCHANGED <<admin, config, setups>>
  BY <1>6 DEF CreateUser, UpdateUser, DeleteUser, UpdateAndReset, SetPassword, adminVars
<1>7. ASSUME \/ \E r \in Requests, u \in Users : BeginLogin(r, u)
             \/ \E r \in Requests, u \in sessions, old, new \in Passwords : BeginChange(r, u, old, new)
             \/ \E u \in sessions : Expire(u)
             \/ \E r \in Requests : Login(r)
             \/ \E r \in Requests, old, new \in Passwords : BeginChangeAdmin(r, old, new)
             \/ GenLoad \/ (\E data \in Accounts : BeginRestore(data))
             \/ MoveOut \/ MoveIn \/ Read \/ Reload \/ UNCHANGED vars
      PROVE  UNCHANGED <<admin, config, setups>>
  BY <1>7 DEF BeginLogin, BeginChange, Expire, Login, BeginChangeAdmin, GenLoad, BeginRestore,
     MoveOut, MoveIn, Read, Reload, adminVars, vars
<1> QED BY <1>1, <1>2, <1>3, <1>4, <1>5, <1>6, <1>7 DEF Next

\* The first visitor sets the password and nobody after, through crashes and failing
\* writes: as long as no -gen-node-token brings an older config file back, one setup
\* at most is acknowledged, and from then on memory and file have a password.
THEOREM OneSetup ==
    ASSUME ~TokenRace
    PROVE  Spec => []SetupOnce
<1>1. Init => SetupInv
  BY DEF Init, SetupInv
<1>2. TypeInv /\ SetupInv /\ [Next]_vars => SetupInv'
  BY SetupStep
<1>3. SetupInv => SetupOnce
  BY DEF SetupInv, SetupOnce
<1> QED BY <1>1, <1>2, <1>3, TypeInit, TypeStep, PTL DEF Spec

-------------------------------------------------------------------------------
(* Accounts that were acknowledged. *)

\* Before the file is moved away, and again when the restore is over, it has what
\* was acknowledged; between the reading and the swap it has what was read.
AckInv ==
    /\ \A u \in Users \ unsure :
          mem[u] = acked[u] /\ (restore.pc \in {"none", "out"} => file[u] = acked[u])
    /\ restore.pc = "swap" => file = restore.data

SaveStep(u, a) == Save(u, a) /\ UNCHANGED restore

\* Whoever changes a subuser does it by a save.
LEMMA UserSaves ==
    ASSUME TypeInv,
           \/ \E u \in Users, p \in Passwords : CreateUser(u, p)
           \/ \E u \in Users, disabled, perm \in BOOLEAN : UpdateUser(u, disabled, perm)
           \/ \E u \in Users : DeleteUser(u)
           \/ \E r \in Requests, u \in Users, disabled \in BOOLEAN, p \in Passwords :
                 UpdateAndReset(r, u, disabled, p)
           \/ \E r \in Requests : SetPassword(r)
    PROVE  \/ \E u \in Users, a \in Account : SaveStep(u, a)
           \/ UNCHANGED <<mem, file, acked, unsure, restore, faults>>
BY CreateMoves, UpdateMoves, DeleteMoves, ResetMoves, SetPasswordMoves DEF SaveStep, Account

\* Nothing else but a restore and a crash touches the store.
LEMMA OthersKeepStore ==
    ASSUME \/ \E r \in Requests, u \in Users : BeginLogin(r, u)
           \/ \E r \in Requests, u \in sessions, old, new \in Passwords : BeginChange(r, u, old, new)
           \/ \E u \in sessions : Expire(u)
           \/ \E r \in Requests : Login(r) \/ ChangeAdmin(r)
           \/ \E p \in Passwords : Setup(p)
           \/ \E r \in Requests, old, new \in Passwords : BeginChangeAdmin(r, old, new)
           \/ GenLoad \/ GenWrite \/ UNCHANGED vars
    PROVE  UNCHANGED <<mem, file, acked, unsure, restore, born>>
BY DEF BeginLogin, BeginChange, Expire, Login, ChangeAdmin, Setup, BeginChangeAdmin, GenLoad,
   GenWrite, store, vars

LEMMA AckInvStep ==
    ASSUME RestoreAlone, TypeInv, AckInv, [Next]_vars
    PROVE  AckInv'
<1>1. ASSUME NEW u \in Users, NEW a \in Account, SaveStep(u, a) PROVE AckInv'
  <2>1. restore.pc = "none" /\ restore' = restore
    BY <1>1, SaveMoves DEF SaveStep, MayChange
  <2> QED BY <1>1, <2>1, SaveMoves DEF SaveStep, AckInv
<1>2. CASE UNCHANGED <<mem, file, acked, unsure, restore>>
  BY <1>2 DEF AckInv
<1>3. ASSUME NEW data \in Accounts, BeginRestore(data) PROVE AckInv'
  BY <1>3, NoneTypes DEF BeginRestore, AckInv, store
<1>4. CASE MoveOut
  BY <1>4, NoneTypes DEF MoveOut, AckInv, TypeInv, RestType, RestoreRecord
<1>5. CASE MoveIn
  BY <1>5, NoneTypes DEF MoveIn, AckInv, NothingAcked, TypeInv, RestType, RestoreRecord
<1>6. CASE Read
  BY <1>6, NoneTypes DEF Read, AckInv, NothingAcked, store
<1>7. CASE Reload
  BY <1>7, NoneTypes DEF Reload, AckInv
<1>8. CASE Crash
  <2>1. restore' = NoRestore /\ mem' = file /\ file' = file
    BY <1>8 DEF Crash
  <2>2. CASE restore.pc \in {"none", "out"}
    <3>1. UNCHANGED <<acked, unsure>>
      BY <1>8, <2>2 DEF Crash
    <3> QED BY <2>1, <2>2, <3>1, NoneTypes DEF AckInv
  <2>3. CASE restore.pc = "in"
    <3>1. unsure' = Users
      BY <1>8, <2>3 DEF Crash, NothingAcked
    <3> QED BY <2>1, <3>1, NoneTypes DEF AckInv
  <2>4. CASE restore.pc \in {"read", "swap"}
    <3>1. acked' = file
      BY <1>8, <2>4 DEF Crash
    <3> QED BY <2>1, <3>1, NoneTypes DEF AckInv
  <2> QED BY <2>2, <2>3, <2>4 DEF TypeInv, RestType, RestoreRecord
<1> QED BY <1>1, <1>2, <1>3, <1>4, <1>5, <1>6, <1>7, <1>8, UserSaves, OthersKeepStore DEF Next

\* What the administrator was told is what the panel works with and what it finds
\* after a restart, however requests, those of an earlier account of the name too,
\* failing writes, a restore and a crash follow each other: but for accounts whose last change was answered with an error, and
\* as long as nobody changes accounts while a backup is restored.
THEOREM AcknowledgedKept ==
    ASSUME RestoreAlone
    PROVE  Spec => []AckedKept
<1>1. Init => AckInv
  BY NoneTypes DEF Init, AckInv
<1>2. TypeInv /\ AckInv /\ [Next]_vars => AckInv'
  BY AckInvStep
<1>3. AckInv => AckedKept
  BY DEF AckInv, AckedKept
<1> QED BY <1>1, <1>2, <1>3, TypeInit, TypeStep, PTL DEF Spec

===============================================================================
