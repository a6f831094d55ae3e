--------------------------------- MODULE Certs ---------------------------------
(***************************************************************************)
(* Client certificates: internal/clients over internal/easyrsa, the HTTP     *)
(* handlers that call it (handlers_clients.go: quota, ownership, sharing)    *)
(* and the one-time download tokens of internal/qrlink.                      *)
(*                                                                           *)
(* No lock covers a whole operation: clients.Manager.mu protects only the     *)
(* owners file, so the steps of two requests interleave. The EasyRSA script    *)
(* is external: it keeps pki/index.txt, the issued files and pki/crl.pem.      *)
(* A request's context dies with its connection, which kills the script.       *)
(***************************************************************************)
EXTENDS Naturals, Sequences, FiniteSets

CONSTANTS
    Users,       \* sub-users, limited by quota and ownership
    CNs,         \* client names
    Requests,    \* concurrent HTTP requests
    CertLimit,   \* quota of every sub-user
    RevokeAlone, \* callers revoke one certificate at a time
    UserOps,     \* which operations sub-users use
    AdminOps,    \* which operations the administrator uses
    Faults,      \* which failures the environment may inject
    MaxSerial,   \* bound on certificates issued
    MaxTokens,   \* bound on download tokens created
    MaxCrashes   \* bound on restarts of the panel

Admin == "admin"
Nobody == "nobody"
Actors == Users \union {Admin}
Owners == Actors \union {Nobody}

OpKinds == {"create", "revoke", "profile", "share"}
FaultKinds == {"build", "script", "copy", "owners", "load", "expiry", "crash"}

ASSUME CertsAssumption ==
    /\ {Admin, Nobody} \intersect Users = {}
    /\ Nobody \notin Requests /\ IsFiniteSet(Requests)
    /\ CertLimit \in Nat \ {0}
    /\ RevokeAlone \in BOOLEAN
    /\ UserOps \subseteq OpKinds /\ AdminOps \subseteq OpKinds
    /\ Faults \subseteq FaultKinds
    /\ MaxSerial \in Nat /\ MaxTokens \in Nat /\ MaxCrashes \in Nat

VARIABLES
    index,     \* pki/index.txt: rows in order of issue, the position is the serial
    crlPki,    \* serials in pki/crl.pem
    crlServer, \* serials in the crl.pem that openvpn reads
    owners,    \* cert-owners.json
    lock,      \* Manager.mu: the request that holds it
    req,       \* the HTTP requests
    tokens,    \* qrlink.Store.items
    lastToken, \* tokens created so far
    crashes,   \* restarts so far
    answered,  \* history: serials whose Create answered ok and has saved the owner
    acked,     \* history: serials whose Revoke answered ok
    given,     \* history: who got the profile of which serial
    served,    \* history: downloads served per token
    peak       \* history: the most creations in flight at a time

fileVars == <<index, crlPki, crlServer, owners>>
tokenVars == <<tokens, lastToken>>
histVars == <<answered, acked, given, served, peak>>
vars == <<fileVars, lock, req, tokenVars, crashes, histVars>>

Serials == 1..MaxSerial
TokenIds == 1..MaxTokens

NoOwners == [cn \in CNs |-> Nobody]

\* A request holds what its handler has in local variables.
Request(at, user, cn) ==
    [pc |-> at, user |-> user, cn |-> cn, serial |-> 0, om |-> NoOwners, crl |-> {}]

IdleRequest == Request("idle", Nobody, Nobody)

Init ==
    /\ index = <<>>
    /\ crlPki = {} /\ crlServer = {}
    /\ owners = NoOwners
    /\ lock = Nobody
    /\ req = [r \in Requests |-> IdleRequest]
    /\ tokens = {} /\ lastToken = 0
    /\ crashes = 0
    /\ answered = {} /\ acked = {} /\ given = {}
    /\ served = [t \in TokenIds |-> 0]
    /\ peak = 0

-------------------------------------------------------------------------------
(* Reading the index. *)

Rows(cn) == {i \in DOMAIN index : index[i].cn = cn}
Valid(cn) == {i \in Rows(cn) : index[i].status = "V"}

\* EasyRSA keeps the files of a certificate until it is revoked.
Held(cn) == \E i \in Rows(cn) : index[i].status # "R"

\* ParseIndex and CountOwnedValid: the owner comes from the owners file, by name.
CountOwnedValid(u) ==
    Cardinality({i \in DOMAIN index : index[i].status = "V" /\ owners[index[i].cn] = u})

-------------------------------------------------------------------------------
(* Requests. *)

At(r, at) == req[r].pc = at
GoTo(r, at) == req' = [req EXCEPT ![r].pc = at]
End(r) == req' = [req EXCEPT ![r] = IdleRequest]

\* The requests in handleClientCreate.
Creating == {r \in Requests : req[r].pc \in {"quota", "lookup", "build", "own", "save"}}
Revoking(r) == req[r].pc \in {"revokeMine", "status", "revoke", "gencrl", "read", "write"}

Begin(r, op, user, cn, at) ==
    /\ op \in IF user = Admin THEN AdminOps ELSE UserOps
    /\ At(r, "idle")
    /\ op = "revoke" /\ RevokeAlone => \A s \in Requests : ~Revoking(s)
    /\ req' = [req EXCEPT ![r] = Request(at, user, cn)]
    /\ peak' = IF op = "create" /\ Cardinality(Creating) >= peak
               THEN Cardinality(Creating) + 1 ELSE peak
    /\ UNCHANGED <<fileVars, lock, tokenVars, crashes, answered, acked, given, served>>

\* The administrator owns everything; a sub-user's certificate is looked up.
MineAt(user, mine, next) == IF user = Admin THEN next ELSE mine

BeginCreate(r, user, cn) ==
    Len(index) < MaxSerial /\ Begin(r, "create", user, cn, MineAt(user, "quota", "lookup"))

BeginRevoke(r, user, cn) == Begin(r, "revoke", user, cn, MineAt(user, "revokeMine", "status"))
BeginProfile(r, user, cn) == Begin(r, "profile", user, cn, MineAt(user, "profileMine", "profile"))
BeginShare(r, user, cn) == Begin(r, "share", user, cn, MineAt(user, "shareMine", "share"))

\* Variant: the certificate only has to exist.
RequireOwnCertExists(r, mine, next) ==
    /\ At(r, mine)
    /\ IF Rows(req[r].cn) # {} THEN GoTo(r, next) ELSE End(r)
    /\ UNCHANGED <<fileVars, lock, tokenVars, crashes, histVars>>

\* requireOwnCert: OwnerOf fails when the index does not know the name; without the file
\* the name is nobody's.
RequireOwnCert(r, mine, next) ==
    /\ At(r, mine)
    /\ IF Rows(req[r].cn) # {} /\ owners[req[r].cn] = req[r].user
       THEN GoTo(r, next) \/ ("load" \in Faults /\ End(r))
       ELSE End(r)
    /\ UNCHANGED <<fileVars, lock, tokenVars, crashes, histVars>>

-------------------------------------------------------------------------------
(* handleClientCreate and Manager.Create. *)

\* Variant: one certificate too many passes.
CheckQuotaLate(r) ==
    /\ At(r, "quota")
    /\ IF CountOwnedValid(req[r].user) > CertLimit THEN End(r) ELSE GoTo(r, "lookup")
    /\ UNCHANGED <<fileVars, lock, tokenVars, crashes, histVars>>

\* A count that cannot be had, or is taken without the owners file, stops nobody.
CheckQuota(r) ==
    /\ At(r, "quota")
    /\ \/ IF CountOwnedValid(req[r].user) >= CertLimit THEN End(r) ELSE GoTo(r, "lookup")
       \/ "load" \in Faults /\ GoTo(r, "lookup")
    /\ UNCHANGED <<fileVars, lock, tokenVars, crashes, histVars>>

\* A valid certificate of the name is an error.
Lookup(r) ==
    /\ At(r, "lookup")
    /\ IF Valid(req[r].cn) # {} THEN End(r) ELSE GoTo(r, "build")
    /\ UNCHANGED <<fileVars, lock, tokenVars, crashes, histVars>>

Issued(r) ==
    Append(index, [cn |-> req[r].cn, status |-> "V", by |-> req[r].user])

\* easyrsa build-client-full refuses a name whose files exist.
Build(r) ==
    /\ At(r, "build")
    /\ IF Held(req[r].cn)
       THEN UNCHANGED index /\ End(r)
       ELSE /\ Len(index) < MaxSerial
            /\ index' = Issued(r)
            /\ req' = [req EXCEPT ![r].pc = "own", ![r].serial = Len(index) + 1]
    /\ UNCHANGED <<crlPki, crlServer, owners, lock, tokenVars, crashes, histVars>>

\* The script fails or is killed, with or without having issued.
BuildFails(r) ==
    /\ "build" \in Faults
    /\ At(r, "build")
    /\ \/ UNCHANGED index
       \/ ~Held(req[r].cn) /\ Len(index) < MaxSerial /\ index' = Issued(r)
    /\ End(r)
    /\ UNCHANGED <<crlPki, crlServer, owners, lock, tokenVars, crashes, histVars>>

\* Variant: the owners file is read without the lock.
ReadOwnersUnlocked(r) ==
    /\ At(r, "own")
    /\ lock' = r
    /\ req' = [req EXCEPT ![r].pc = "save", ![r].om = owners]
    /\ UNCHANGED <<fileVars, tokenVars, crashes, histVars>>

\* recordOwner: read, change and write the owners file under the lock. A file that
\* cannot be read is taken for an empty one.
ReadOwners(r) ==
    /\ At(r, "own")
    /\ lock = Nobody
    /\ lock' = r
    /\ \E om \in {owners} \union (IF "load" \in Faults THEN {NoOwners} ELSE {}) :
          req' = [req EXCEPT ![r].pc = "save", ![r].om = om]
    /\ UNCHANGED <<fileVars, tokenVars, crashes, histVars>>

\* A failing save is ignored: Create answers ok all the same.
SaveOwners(r) ==
    /\ At(r, "save")
    /\ \/ /\ owners' = [req[r].om EXCEPT ![req[r].cn] = req[r].user]
          /\ answered' = answered \union {req[r].serial}
       \/ "owners" \in Faults /\ UNCHANGED <<owners, answered>>
    /\ lock' = Nobody
    /\ End(r)
    /\ UNCHANGED <<index, crlPki, crlServer, tokenVars, crashes, acked, given, served, peak>>

-------------------------------------------------------------------------------
(* handleClientRevoke and Manager.Revoke. *)

\* Manager.find prefers a valid row; only a valid certificate can be revoked.
CheckValid(r, at, next) ==
    /\ At(r, at)
    /\ IF Valid(req[r].cn) # {} THEN GoTo(r, next) ELSE End(r)
    /\ UNCHANGED <<fileVars, lock, tokenVars, crashes, histVars>>

Revoked(cn) ==
    [i \in DOMAIN index |->
        IF index[i].cn = cn /\ index[i].status # "R" THEN [index[i] EXCEPT !.status = "R"]
        ELSE index[i]]

\* easyrsa revoke: the row of the name whose files exist.
RevokeCert(r) ==
    /\ At(r, "revoke")
    /\ IF Held(req[r].cn)
       THEN /\ index' = Revoked(req[r].cn)
            /\ \E i \in Rows(req[r].cn) :
                  /\ index[i].status # "R"
                  /\ req' = [req EXCEPT ![r].pc = "gencrl", ![r].serial = i]
       ELSE UNCHANGED index /\ End(r)
    /\ UNCHANGED <<crlPki, crlServer, owners, lock, tokenVars, crashes, histVars>>

RevokeCertFails(r) ==
    /\ "script" \in Faults
    /\ At(r, "revoke")
    /\ index' \in {index, Revoked(req[r].cn)}
    /\ End(r)
    /\ UNCHANGED <<crlPki, crlServer, owners, lock, tokenVars, crashes, histVars>>

\* easyrsa gen-crl: a list of all the revoked serials.
GenCRL(r) ==
    /\ At(r, "gencrl")
    /\ \/ /\ crlPki' = {i \in DOMAIN index : index[i].status = "R"}
          /\ GoTo(r, "read")
       \/ "script" \in Faults /\ UNCHANGED crlPki /\ End(r)
    /\ UNCHANGED <<index, crlServer, owners, lock, tokenVars, crashes, histVars>>

\* refreshCRL: read the new list ...
ReadCRL(r) ==
    /\ At(r, "read")
    /\ req' = [req EXCEPT ![r].pc = "write", ![r].crl = crlPki]
    /\ UNCHANGED <<fileVars, lock, tokenVars, crashes, histVars>>

\* Variant: the list is left where easyrsa put it.
WriteCRLNowhere(r) ==
    /\ At(r, "write")
    /\ acked' = acked \union {req[r].serial}
    /\ End(r)
    /\ UNCHANGED <<fileVars, lock, tokenVars, crashes, answered, given, served, peak>>

\* ... and write it where openvpn reads it.
WriteCRL(r) ==
    /\ At(r, "write")
    /\ \/ crlServer' = req[r].crl /\ acked' = acked \union {req[r].serial}
       \/ "copy" \in Faults /\ UNCHANGED <<crlServer, acked>>
    /\ End(r)
    /\ UNCHANGED <<index, crlPki, owners, lock, tokenVars, crashes, answered, given, served, peak>>

-------------------------------------------------------------------------------
(* Profiles and one-time links. *)

\* The profile of the valid certificate of the name; the files are found by name.
\* What an administrator gets needs no record.
Deliver(cn, user) ==
    given' = given \union {<<u, i>> : u \in {user} \ {Admin}, i \in Valid(cn)}

\* handleClientProfile, past requireOwnCert.
Profile(r) ==
    /\ At(r, "profile")
    /\ Deliver(req[r].cn, req[r].user)
    /\ End(r)
    /\ UNCHANGED <<fileVars, lock, tokenVars, crashes, answered, acked, served, peak>>

\* Variant: earlier tokens of the name stay good.
CreateTokenBeside(r) ==
    /\ At(r, "token")
    /\ lastToken < MaxTokens
    /\ lastToken' = lastToken + 1
    /\ tokens' = tokens \union {[id |-> lastToken + 1, cn |-> req[r].cn, by |-> req[r].user,
                                 expired |-> FALSE]}
    /\ End(r)
    /\ UNCHANGED <<fileVars, lock, crashes, histVars>>

\* qrlink.Create: the name's earlier tokens and the expired ones go.
CreateToken(r) ==
    /\ At(r, "token")
    /\ lastToken < MaxTokens
    /\ lastToken' = lastToken + 1
    /\ tokens' = {t \in tokens : t.cn # req[r].cn /\ ~t.expired}
                    \union {[id |-> lastToken + 1, cn |-> req[r].cn, by |-> req[r].user,
                             expired |-> FALSE]}
    /\ End(r)
    /\ UNCHANGED <<fileVars, lock, crashes, histVars>>

TokenExpires(t) ==
    /\ ~t.expired
    /\ tokens' = (tokens \ {t}) \union {[t EXCEPT !.expired = TRUE]}
    /\ UNCHANGED <<fileVars, lock, req, lastToken, crashes, histVars>>

\* Variant: the token is looked up, not taken.
ConsumeKeeps(r, t) ==
    /\ At(r, "idle")
    /\ req' = IF t.expired THEN req
              ELSE [req EXCEPT ![r] = [Request("serve", t.by, t.cn) EXCEPT !.serial = t.id]]
    /\ UNCHANGED <<fileVars, lock, tokens, lastToken, crashes, histVars>>

\* handlePublicDownload: qrlink.Consume takes the token, expired or not.
Consume(r, t) ==
    /\ At(r, "idle")
    /\ tokens' = tokens \ {t}
    /\ req' = IF t.expired THEN req
              ELSE [req EXCEPT ![r] = [Request("serve", t.by, t.cn) EXCEPT !.serial = t.id]]
    /\ UNCHANGED <<fileVars, lock, lastToken, crashes, histVars>>

\* Then the profile, if the name still has a valid certificate.
Serve(r) ==
    /\ At(r, "serve")
    /\ Deliver(req[r].cn, req[r].user)
    /\ served' = IF Valid(req[r].cn) = {} THEN served
                 ELSE [served EXCEPT ![req[r].serial] = @ + 1]
    /\ End(r)
    /\ UNCHANGED <<fileVars, lock, tokenVars, crashes, answered, acked, peak>>

-------------------------------------------------------------------------------

\* A certificate reaches its expiry date; ParseIndex shows it as expired.
Expire(i) ==
    /\ "expiry" \in Faults
    /\ index[i].status = "V"
    /\ index' = [index EXCEPT ![i].status = "E"]
    /\ UNCHANGED <<crlPki, crlServer, owners, lock, req, tokenVars, crashes, histVars>>

\* The panel restarts: requests and tokens are memory.
Crash ==
    /\ "crash" \in Faults
    /\ crashes < MaxCrashes
    /\ crashes' = crashes + 1
    /\ req' = [r \in Requests |-> IdleRequest]
    /\ lock' = Nobody
    /\ tokens' = {}
    /\ UNCHANGED <<fileVars, lastToken, histVars>>

BeginSome(r) ==
    \E user \in Actors, cn \in CNs :
        \/ BeginCreate(r, user, cn) \/ BeginRevoke(r, user, cn)
        \/ BeginProfile(r, user, cn) \/ BeginShare(r, user, cn)

CreateStep(r) ==
    CheckQuota(r) \/ Lookup(r) \/ Build(r) \/ BuildFails(r) \/ ReadOwners(r) \/ SaveOwners(r)

RevokeStep(r) ==
    \/ RequireOwnCert(r, "revokeMine", "status") \/ CheckValid(r, "status", "revoke")
    \/ RevokeCert(r) \/ RevokeCertFails(r) \/ GenCRL(r) \/ ReadCRL(r) \/ WriteCRL(r)

ShareStep(r) ==
    \/ RequireOwnCert(r, "profileMine", "profile") \/ Profile(r)
    \/ RequireOwnCert(r, "shareMine", "share") \/ CheckValid(r, "share", "token")
    \/ CreateToken(r) \/ (\E t \in tokens : Consume(r, t)) \/ Serve(r)

Next ==
    \/ \E r \in Requests : BeginSome(r) \/ CreateStep(r) \/ RevokeStep(r) \/ ShareStep(r)
    \/ \E t \in tokens : TokenExpires(t)
    \/ \E i \in DOMAIN index : Expire(i)
    \/ Crash

Spec == Init /\ [][Next]_vars

-------------------------------------------------------------------------------
(* Properties. *)

Row == [cn : CNs, status : {"V", "E", "R"}, by : Actors]
Token == [id : TokenIds, cn : CNs, by : Actors, expired : BOOLEAN]

\* Every variable has its type, and the lock is held exactly by the request
\* between recordOwner's read and its write.
TypeOK ==
    /\ index \in Seq(Row) /\ Len(index) <= MaxSerial
    /\ crlPki \subseteq Serials /\ crlServer \subseteq Serials
    /\ owners \in [CNs -> Owners]
    /\ \A r \in Requests : lock = r <=> req[r].pc = "save"
    /\ tokens \subseteq Token
    /\ answered \subseteq Serials /\ acked \subseteq Serials
    /\ given \subseteq Users \X Serials

\* A sub-user never has more valid certificates of its own making and in its name than its
\* quota ("配额用满创建被拒"), and one more for every creation that was in flight beside
\* another: whatever builds are killed, saves fail and restarts come between the check and
\* the owners file.
QuotaHolds ==
    \A u \in Users :
        Cardinality({i \in DOMAIN index : /\ index[i].status = "V" /\ index[i].by = u
                                          /\ owners[index[i].cn] = u})
            <= CertLimit + peak - 1

\* Whatever else is created at the same time, a certificate whose owner was saved
\* is its creator's, as long as its name has had no other certificate: no update of
\* the owners file is lost.
OwnersKept ==
    \A i \in answered :
        index[i].status = "V" /\ Cardinality(Rows(index[i].cn)) = 1
            => owners[index[i].cn] = index[i].by

\* Every revocation that was answered ok is in the list openvpn reads
\* ("吊销即 revoke + gen-crl,新连接立即被拒").
AckedEnforced == acked \subseteq crlServer

\* Directly or through a link it shared, a sub-user gets only profiles of names it had a
\* certificate of its own of before, whoever asks for what at the same time.
OwnNames ==
    \A p \in given : \E j \in 1..p[2] : index[j].cn = index[p[2]].cn /\ index[j].by = p[1]

\* A link serves one download, and a name has one link at a time.
OneShot ==
    /\ \A t \in TokenIds : served[t] <= 1
    /\ \A s, t \in tokens : s.cn = t.cn => s = t

===============================================================================
