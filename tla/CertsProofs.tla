------------------------------ MODULE CertsProofs ------------------------------
(***************************************************************************)
(* Proofs about Certs for every set of users, names and requests and every   *)
(* bound, whatever interleaves and wherever the panel restarts: types,         *)
(* one-time links and the names profiles are handed out for always; the quota  *)
(* and the recorded owners while the owners file can be read; and, for callers *)
(* that revoke one certificate at a time, enforced revocations.                *)
(***************************************************************************)
EXTENDS Certs, TLAPS, SequenceTheorems, FiniteSetTheorems

USE DEF Admin, Nobody

-------------------------------------------------------------------------------
(* The index only grows: rows keep their name and their maker, a row never     *)
(* becomes valid again and a revoked one stays revoked.                        *)

IndexType == index \in Seq(Row) /\ Len(index) <= MaxSerial

RowsGrow ==
    /\ index' \in Seq(Row) /\ Len(index') <= MaxSerial
    /\ Len(index) <= Len(index')
    /\ \A i \in 1..Len(index) :
          /\ index'[i].cn = index[i].cn /\ index'[i].by = index[i].by
          /\ index'[i].status = "V" => index[i].status = "V"
          /\ index[i].status = "R" => index'[i].status = "R"

\* What a request holds, whatever its step.
States ==
    {"idle", "quota", "lookup", "build", "own", "save", "revokeMine", "status", "revoke", "gencrl",
     "read", "write", "profileMine", "profile", "shareMine", "share", "token", "serve"}

ReqRecord ==
    [pc : States, user : Owners, cn : CNs \union {Nobody}, serial : Nat,
     om : [CNs -> Owners], crl : SUBSET Serials]

\* What a request at a state may rely on, when the index is ix and n tokens exist.
Grounded(x, ix, n) ==
    /\ x.pc # "idle" => x.user \in Actors /\ x.cn \in CNs
    /\ x.pc \in {"own", "save"} =>
          /\ x.serial \in 1..Len(ix)
          /\ ix[x.serial].cn = x.cn /\ ix[x.serial].by = x.user
    /\ x.pc \in {"gencrl", "read", "write"} =>
          x.serial \in 1..Len(ix) /\ ix[x.serial].status = "R"
    /\ x.pc = "serve" => x.serial \in 1..n
    /\ x.crl \subseteq 1..Len(ix)

ReqType ==
    /\ req \in [Requests -> ReqRecord]
    /\ \A r \in Requests : Grounded(req[r], index, lastToken)

LockType == \A r \in Requests : lock = r <=> req[r].pc = "save"

FileType ==
    /\ crlPki \subseteq 1..Len(index) /\ crlServer \subseteq 1..Len(index)
    /\ owners \in [CNs -> Owners]

TokenType ==
    /\ lastToken \in 0..MaxTokens
    /\ tokens \subseteq Token /\ \A t \in tokens : t.id <= lastToken

HistType ==
    /\ answered \subseteq 1..Len(index) /\ acked \subseteq 1..Len(index)
    /\ given \subseteq Users \X (1..Len(index))

TypeInv == IndexType /\ ReqType /\ LockType /\ FileType /\ TokenType /\ HistType

LEMMA IndexFacts ==
    ASSUME IndexType
    PROVE  /\ Len(index) \in Nat /\ DOMAIN index = 1..Len(index) /\ 1..Len(index) \subseteq Serials
           /\ index \in [1..Len(index) -> Row]
           /\ \A i \in 1..Len(index) :
                 index[i] \in Row /\ index[i].cn \in CNs /\ index[i].by \in Actors
<1>1. /\ Len(index) \in Nat /\ DOMAIN index = 1..Len(index)
      /\ index \in [1..Len(index) -> Row]
  BY LenProperties DEF IndexType
<1>2. 1..Len(index) \subseteq Serials
  BY <1>1, CertsAssumption DEF IndexType, Serials
<1>3. \A i \in 1..Len(index) : index[i] \in Row
  BY ElementOfSeq DEF IndexType
<1> QED BY <1>1, <1>2, <1>3 DEF Row

\* A function on an initial interval is a sequence of its length.
LEMMA FunctionSeq ==
    ASSUME NEW S, NEW n \in Nat, NEW f \in [1..n -> S]
    PROVE  f \in Seq(S) /\ Len(f) = n
<1>1. f \in Seq(S)
  BY SeqDef
<1>2. DOMAIN f = 1..n /\ DOMAIN f = 1..Len(f) /\ Len(f) \in Nat
  BY <1>1, LenProperties
<1> QED BY <1>1, <1>2

LEMMA RevokedGrows ==
    ASSUME IndexType, NEW cn, index' = Revoked(cn)
    PROVE  RowsGrow /\ Len(index') = Len(index)
<1> USE IndexFacts
<1>1. index' \in [1..Len(index) -> Row]
  BY DEF Revoked, Row
<1>2. index' \in Seq(Row) /\ Len(index') = Len(index)
  BY <1>1, FunctionSeq
<1>3. \A i \in 1..Len(index) :
          index'[i] = IF index[i].cn = cn /\ index[i].status # "R"
                      THEN [index[i] EXCEPT !.status = "R"] ELSE index[i]
  BY DEF Revoked
<1>4. \A i \in 1..Len(index) :
          /\ index'[i].cn = index[i].cn /\ index'[i].by = index[i].by
          /\ index'[i].status = "V" => index[i].status = "V"
          /\ index[i].status = "R" => index'[i].status = "R"
  BY <1>3 DEF Row
<1> QED BY <1>2, <1>4 DEF RowsGrow, IndexType

LEMMA IssuedGrows ==
    ASSUME IndexType, ReqType, NEW r \in Requests, At(r, "build"), Len(index) < MaxSerial,
           index' = Issued(r)
    PROVE  /\ RowsGrow /\ Len(index') = Len(index) + 1
           /\ index'[Len(index) + 1] = [cn |-> req[r].cn, status |-> "V", by |-> req[r].user]
           /\ \A i \in 1..Len(index) : index'[i] = index[i]
<1> DEFINE row == [cn |-> req[r].cn, status |-> "V", by |-> req[r].user]
<1> USE IndexFacts
<1>1. row \in Row
  BY DEF ReqType, Grounded, At, Row
<1>2. index' = Append(index, row)
  BY DEF Issued
<1> HIDE DEF row
<1>3. /\ index' \in Seq(Row) /\ Len(index') = Len(index) + 1
      /\ index'[Len(index) + 1] = row
      /\ \A i \in 1..Len(index) : index'[i] = index[i]
  BY <1>1, <1>2 DEF IndexType
<1> QED BY <1>3, CertsAssumption DEF RowsGrow, IndexType, row

LEMMA ExpireGrows ==
    ASSUME IndexType, NEW i \in DOMAIN index, Expire(i)
    PROVE  RowsGrow /\ Len(index') = Len(index)
<1> USE IndexFacts
<1>1. index' = [index EXCEPT ![i] = [index[i] EXCEPT !.status = "E"]] /\ index[i].status = "V"
  BY DEF Expire
<1>2. [index[i] EXCEPT !.status = "E"] \in Row
  BY DEF Row
<1>3. /\ index' \in Seq(Row) /\ Len(index') = Len(index)
      /\ \A j \in 1..Len(index) :
            index'[j] = IF j = i THEN [index[i] EXCEPT !.status = "E"] ELSE index[j]
  BY <1>1, <1>2, ExceptSeq DEF IndexType
<1> QED BY <1>1, <1>2, <1>3 DEF RowsGrow, IndexType, Row

LEMMA SameIndexGrows ==
    ASSUME IndexType, UNCHANGED index
    PROVE  RowsGrow
BY DEF RowsGrow, IndexType

LEMMA RowsStay ==
    ASSUME IndexType, ReqType, [Next]_vars
    PROVE  RowsGrow
<1> USE SameIndexGrows
<1>1. ASSUME NEW r \in Requests, BeginSome(r) PROVE RowsGrow
  BY <1>1 DEF BeginSome, BeginCreate, BeginRevoke, BeginProfile, BeginShare, Begin, fileVars
<1>2. ASSUME NEW r \in Requests, Build(r) PROVE RowsGrow
  BY <1>2, IssuedGrows DEF Build
<1>3. ASSUME NEW r \in Requests, BuildFails(r) PROVE RowsGrow
  BY <1>3, IssuedGrows DEF BuildFails
<1>4. ASSUME NEW r \in Requests, CreateStep(r) PROVE RowsGrow
  BY <1>2, <1>3, <1>4 DEF CreateStep, CheckQuota, Lookup, ReadOwners, SaveOwners, fileVars
<1>5. ASSUME NEW r \in Requests, RevokeStep(r) PROVE RowsGrow
  BY <1>5, RevokedGrows DEF RevokeStep, RequireOwnCert, CheckValid, RevokeCert, RevokeCertFails,
     GenCRL, ReadCRL, WriteCRL, fileVars
<1>6. ASSUME NEW r \in Requests, ShareStep(r) PROVE RowsGrow
  BY <1>6 DEF ShareStep, RequireOwnCert, CheckValid, Profile, CreateToken, Consume, Serve, fileVars
<1>7. ASSUME NEW t \in tokens, TokenExpires(t) PROVE RowsGrow
  BY <1>7 DEF TokenExpires, fileVars
<1>8. ASSUME NEW i \in DOMAIN index, Expire(i) PROVE RowsGrow
  BY <1>8, ExpireGrows
<1>9. CASE Crash
  BY <1>9 DEF Crash, fileVars
<1>10. CASE UNCHANGED vars
  BY <1>10 DEF vars, fileVars
<1> QED BY <1>1, <1>4, <1>5, <1>6, <1>7, <1>8, <1>9, <1>10 DEF Next

-------------------------------------------------------------------------------
(* Type correctness. *)

\* What a request relies on stays true while the index and the tokens grow.
LEMMA GroundedStays ==
    ASSUME IndexType, RowsGrow, NEW x, NEW n \in Nat, NEW m \in Nat, n <= m,
           Grounded(x, index, n)
    PROVE  Grounded(x, index', m)
<1>1. Len(index) \in Nat /\ Len(index') \in Nat
  BY DEF RowsGrow, IndexType
<1> QED BY <1>1 DEF RowsGrow, Grounded

\* A step of one request that leaves it grounded.
LEMMA OneMoves ==
    ASSUME IndexType, ReqType, RowsGrow, lastToken \in Nat, lastToken' \in Nat,
           lastToken <= lastToken', NEW r \in Requests, NEW x \in ReqRecord,
           Grounded(x, index', lastToken'), req' = [req EXCEPT ![r] = x]
    PROVE  ReqType'
<1>1. \A q \in Requests : Grounded(req[q], index', lastToken')
  BY GroundedStays DEF ReqType
<1>2. req' \in [Requests -> ReqRecord]
  BY DEF ReqType
<1>3. \A q \in Requests : req'[q] = IF q = r THEN x ELSE req[q]
  BY DEF ReqType
<1> QED BY <1>1, <1>2, <1>3 DEF ReqType

LEMMA NoneMoves ==
    ASSUME IndexType, ReqType, RowsGrow, lastToken \in Nat, lastToken' \in Nat,
           lastToken <= lastToken', UNCHANGED req
    PROVE  ReqType'
BY GroundedStays DEF ReqType

LEMMA IdleFine ==
    /\ IdleRequest \in ReqRecord /\ IdleRequest.pc = "idle"
    /\ \A ix, n : Grounded(IdleRequest, ix, n)
BY DEF IdleRequest, Request, ReqRecord, States, NoOwners, Owners, Grounded

\* A request at another step than it was, with the same locals.
LEMMA WithPc ==
    ASSUME NEW x \in ReqRecord, NEW at \in States
    PROVE  /\ [x EXCEPT !.pc = at] \in ReqRecord
           /\ [x EXCEPT !.pc = at].pc = at
           /\ \A f \in {"user", "cn", "serial", "om", "crl"} : [x EXCEPT !.pc = at][f] = x[f]
BY DEF ReqRecord

LEMMA ReqTypeStep ==
    ASSUME TypeInv, [Next]_vars, lastToken' \in Nat, lastToken <= lastToken'
    PROVE  ReqType'
<1>0. IndexType /\ ReqType /\ RowsGrow /\ lastToken \in Nat
  BY RowsStay, CertsAssumption DEF TypeInv, TokenType
<1>1. ASSUME NEW r \in Requests, End(r) PROVE ReqType'
  BY <1>0, <1>1, IdleFine, OneMoves DEF End
\* Steps that change nothing but the state, to one that relies on no more.
<1>2. ASSUME NEW r \in Requests,
             NEW at \in States \ {"own", "save", "gencrl", "read", "write", "serve"}, GoTo(r, at), ~At(r, "idle")
      PROVE  ReqType'
  <2> DEFINE x == [req[r] EXCEPT !.pc = at]
  <2>1. x \in ReqRecord /\ x.pc = at /\ x.user = req[r].user /\ x.cn = req[r].cn /\ x.crl = req[r].crl
    BY <1>0 DEF ReqType, ReqRecord
  <2>2. Grounded(x, index, lastToken)
    BY <1>0, <1>2, <2>1 DEF ReqType, Grounded, At
  <2>3. req' = [req EXCEPT ![r] = x]
    BY <1>2 DEF GoTo
  <2> HIDE DEF x
  <2> QED BY <1>0, <2>1, <2>2, <2>3, GroundedStays, OneMoves
<1>3. ASSUME NEW r \in Requests, BeginSome(r) PROVE ReqType'
  <2>1. PICK user \in Actors, cn \in CNs, at \in {"quota", "lookup", "revokeMine", "status",
             "profileMine", "profile", "shareMine", "share"} :
             req' = [req EXCEPT ![r] = Request(at, user, cn)]
    BY <1>3 DEF BeginSome, BeginCreate, BeginRevoke, BeginProfile, BeginShare, Begin, MineAt
  <2>2. Request(at, user, cn) \in ReqRecord /\ Grounded(Request(at, user, cn), index', lastToken')
    BY DEF Request, ReqRecord, States, NoOwners, Owners, Grounded
  <2> QED BY <1>0, <2>1, <2>2, OneMoves
<1>4. ASSUME NEW r \in Requests, Build(r) PROVE ReqType'
  <2>1. CASE Held(req[r].cn)
    BY <1>1, <1>4, <2>1 DEF Build
  <2>2. CASE ~Held(req[r].cn)
    <3> DEFINE x == [req[r] EXCEPT !.pc = "own", !.serial = Len(index) + 1]
    <3>1. req' = [req EXCEPT ![r] = x]
      BY <1>4, <2>2 DEF Build
    <3>2. /\ Len(index') = Len(index) + 1 /\ Len(index) \in Nat
          /\ index'[Len(index) + 1] = [cn |-> req[r].cn, status |-> "V", by |-> req[r].user]
      BY <1>0, <1>4, <2>2, IssuedGrows, IndexFacts DEF Build
    <3>3. /\ x \in ReqRecord /\ x.pc = "own" /\ x.user = req[r].user /\ x.cn = req[r].cn
          /\ x.crl = req[r].crl /\ x.serial = Len(index) + 1
      <4>1. req[r] \in ReqRecord /\ Len(index) + 1 \in Nat
        BY <1>0, <3>2 DEF ReqType
      <4> QED BY <4>1 DEF ReqRecord, States
    <3>4. Grounded(x, index', lastToken')
      BY <1>0, <1>4, <3>2, <3>3 DEF Build, At, ReqType, Grounded
    <3> HIDE DEF x
    <3> QED BY <1>0, <3>1, <3>3, <3>4, OneMoves
  <2> QED BY <2>1, <2>2
<1>5. ASSUME NEW r \in Requests, ReadOwners(r) PROVE ReqType'
  <2>0. PICK om \in {owners, NoOwners} : req' = [req EXCEPT ![r].pc = "save", ![r].om = om]
    BY <1>5 DEF ReadOwners
  <2> DEFINE x == [req[r] EXCEPT !.pc = "save", !.om = om]
  <2>1. req' = [req EXCEPT ![r] = x]
    BY <2>0
  <2>2. /\ x \in ReqRecord /\ x.pc = "save" /\ x.user = req[r].user /\ x.cn = req[r].cn /\ x.crl = req[r].crl
        /\ x.serial = req[r].serial
    <3>1. om \in [CNs -> Owners]
      BY DEF TypeInv, FileType, NoOwners, Owners
    <3>2. req[r] \in ReqRecord
      BY <1>0 DEF ReqType
    <3> QED BY <3>1, <3>2 DEF ReqRecord, States
  <2>3. Grounded(x, index, lastToken)
    BY <1>0, <1>5, <2>2 DEF ReadOwners, At, ReqType, Grounded
  <2> HIDE DEF x
  <2>4. Grounded(x, index', lastToken')
    BY <1>0, <2>3, GroundedStays
  <2> QED BY <1>0, <2>1, <2>2, <2>4, OneMoves
<1>6. ASSUME NEW r \in Requests, CreateStep(r) PROVE ReqType'
  BY <1>1, <1>2, <1>4, <1>5, <1>6
  DEF CreateStep, CheckQuota, Lookup, BuildFails, SaveOwners, At, States
<1>7. ASSUME NEW r \in Requests, RevokeCert(r) PROVE ReqType'
  <2>1. CASE ~Held(req[r].cn)
    BY <1>1, <1>7, <2>1 DEF RevokeCert
  <2>2. CASE Held(req[r].cn)
    <3>1. PICK i \in Rows(req[r].cn) :
             /\ index[i].status # "R"
             /\ req' = [req EXCEPT ![r].pc = "gencrl", ![r].serial = i]
      BY <1>7, <2>2 DEF RevokeCert
    <3> DEFINE x == [req[r] EXCEPT !.pc = "gencrl", !.serial = i]
    <3>2. i \in 1..Len(index) /\ index[i].cn = req[r].cn /\ Len(index) \in Nat /\ index[i] \in Row
      BY <1>0, IndexFacts DEF Rows
    <3>3. index' = Revoked(req[r].cn) /\ index'[i].status = "R"
      BY <1>0, <1>7, <2>2, <3>1, <3>2, IndexFacts DEF RevokeCert, Revoked, Row
    <3>4. /\ x \in ReqRecord /\ x.pc = "gencrl" /\ x.user = req[r].user
          /\ x.cn = req[r].cn /\ x.crl = req[r].crl /\ x.serial = i
      <4>1. req[r] \in ReqRecord /\ i \in Nat
        BY <1>0, <3>2 DEF ReqType
      <4> QED BY <4>1 DEF ReqRecord, States
    <3>5. Len(index') = Len(index)
      BY <1>0, <3>3, RevokedGrows
    <3>6. Grounded(x, index', lastToken')
      BY <1>0, <1>7, <3>2, <3>3, <3>4, <3>5 DEF RevokeCert, At, ReqType, Grounded
    <3>7. req' = [req EXCEPT ![r] = x]
      BY <3>1
    <3> HIDE DEF x
    <3> QED BY <1>0, <3>4, <3>6, <3>7, OneMoves
  <2> QED BY <2>1, <2>2
<1>8. ASSUME NEW r \in Requests, At(r, "gencrl"), GoTo(r, "read") PROVE ReqType'
  <2> DEFINE x == [req[r] EXCEPT !.pc = "read"]
  <2>1. /\ x \in ReqRecord /\ x.pc = "read" /\ x.user = req[r].user /\ x.cn = req[r].cn
        /\ x.crl = req[r].crl /\ x.serial = req[r].serial
    BY <1>0 DEF ReqType, ReqRecord, States
  <2>2. Grounded(x, index, lastToken)
    BY <1>0, <1>8, <2>1 DEF At, ReqType, Grounded
  <2>3. req' = [req EXCEPT ![r] = x]
    BY <1>8 DEF GoTo
  <2> HIDE DEF x
  <2> QED BY <1>0, <2>1, <2>2, <2>3, GroundedStays, OneMoves
<1>9. ASSUME NEW r \in Requests, ReadCRL(r) PROVE ReqType'
  <2> DEFINE x == [req[r] EXCEPT !.pc = "write", !.crl = crlPki]
  <2>1. /\ x \in ReqRecord /\ x.pc = "write" /\ x.user = req[r].user /\ x.cn = req[r].cn
        /\ x.serial = req[r].serial /\ x.crl = crlPki
    BY <1>0, IndexFacts DEF ReqType, ReqRecord, States, TypeInv, FileType
  <2>2. Grounded(x, index, lastToken)
    BY <1>0, <1>9, <2>1 DEF ReadCRL, At, ReqType, Grounded, TypeInv, FileType
  <2>3. req' = [req EXCEPT ![r] = x]
    BY <1>9 DEF ReadCRL
  <2> HIDE DEF x
  <2> QED BY <1>0, <2>1, <2>2, <2>3, GroundedStays, OneMoves
<1>10. ASSUME NEW r \in Requests, RevokeStep(r) PROVE ReqType'
  BY <1>1, <1>2, <1>7, <1>8, <1>9, <1>10
  DEF RevokeStep, RequireOwnCert, CheckValid, RevokeCertFails, GenCRL, WriteCRL, At, States
<1>11. ASSUME NEW r \in Requests, NEW t \in tokens, Consume(r, t) PROVE ReqType'
  <2>1. CASE t.expired
    BY <1>0, <1>11, <2>1, NoneMoves DEF Consume
  <2>2. CASE ~t.expired
    <3> DEFINE x == [Request("serve", t.by, t.cn) EXCEPT !.serial = t.id]
    <3>1. t \in Token /\ t.id \in 1..lastToken
      BY CertsAssumption DEF TypeInv, TokenType, Token, TokenIds
    <3>2. /\ x \in ReqRecord /\ x.pc = "serve" /\ x.user = t.by /\ x.cn = t.cn
          /\ x.serial = t.id /\ x.crl = {}
      BY <3>1 DEF Request, ReqRecord, States, NoOwners, Owners, Token
    <3>3. Grounded(x, index', lastToken')
      BY <1>0, <3>1, <3>2 DEF Grounded, Token
    <3>4. req' = [req EXCEPT ![r] = x]
      BY <1>11, <2>2 DEF Consume
    <3> HIDE DEF x
    <3> QED BY <1>0, <3>2, <3>3, <3>4, OneMoves
  <2> QED BY <2>1, <2>2
<1>12. ASSUME NEW r \in Requests, ShareStep(r) PROVE ReqType'
  BY <1>1, <1>2, <1>11, <1>12
  DEF ShareStep, RequireOwnCert, CheckValid, Profile, CreateToken, Serve, At, States
<1>13. ASSUME NEW t \in tokens, TokenExpires(t) PROVE ReqType'
  BY <1>0, <1>13, NoneMoves DEF TokenExpires
<1>14. ASSUME NEW i \in DOMAIN index, Expire(i) PROVE ReqType'
  BY <1>0, <1>14, NoneMoves DEF Expire
<1>15. CASE Crash
  BY <1>15, IdleFine DEF Crash, ReqType
<1>16. CASE UNCHANGED vars
  BY <1>0, <1>16, NoneMoves DEF vars
<1> QED BY <1>3, <1>6, <1>10, <1>12, <1>13, <1>14, <1>15, <1>16 DEF Next

\* A busy request has an actor and a name.
LEMMA BusyFacts ==
    ASSUME ReqType, NEW r \in Requests, ~At(r, "idle")
    PROVE  req[r] \in ReqRecord /\ req[r].user \in Actors /\ req[r].cn \in CNs
BY DEF ReqType, Grounded, At

LEMMA TokenTypeStep ==
    ASSUME TypeInv, [Next]_vars
    PROVE  TokenType' /\ lastToken \in Nat /\ lastToken' \in Nat /\ lastToken <= lastToken'
<1>0. TokenType /\ ReqType /\ lastToken \in Nat /\ MaxTokens \in Nat
  BY CertsAssumption DEF TypeInv, TokenType
<1>1. ASSUME UNCHANGED tokenVars
      PROVE  TokenType' /\ lastToken' \in Nat /\ lastToken <= lastToken'
  BY <1>0, <1>1 DEF TokenType, tokenVars
<1>2. ASSUME NEW r \in Requests, CreateToken(r)
      PROVE  TokenType' /\ lastToken' \in Nat /\ lastToken <= lastToken'
  <2>1. req[r].user \in Actors /\ req[r].cn \in CNs
    BY <1>0, <1>2, BusyFacts DEF CreateToken, At
  <2>2. lastToken' = lastToken + 1 /\ lastToken + 1 \in TokenIds
    BY <1>0, <1>2 DEF CreateToken, TokenIds
  <2> DEFINE new == [id |-> lastToken + 1, cn |-> req[r].cn, by |-> req[r].user, expired |-> FALSE]
  <2>3. new \in Token /\ new.id = lastToken + 1
    BY <2>1, <2>2 DEF Token
  <2>a. tokens' \subseteq tokens \union {new}
    BY <1>2 DEF CreateToken
  <2> HIDE DEF new
  <2>4. \A t \in tokens : t \in Token /\ t.id <= lastToken + 1
    BY <1>0 DEF TokenType, Token, TokenIds
  <2>5. \A t \in tokens' : t \in Token /\ t.id <= lastToken + 1
    BY <1>0, <2>3, <2>4, <2>a
  <2> QED BY <1>0, <2>2, <2>5 DEF TokenType, TokenIds
<1>3. ASSUME NEW r \in Requests, ShareStep(r)
      PROVE  TokenType' /\ lastToken' \in Nat /\ lastToken <= lastToken'
  BY <1>0, <1>1, <1>2, <1>3
  DEF ShareStep, RequireOwnCert, CheckValid, Profile, Consume, Serve, tokenVars, TokenType
<1>4. ASSUME NEW t \in tokens, TokenExpires(t)
      PROVE  TokenType' /\ lastToken' \in Nat /\ lastToken <= lastToken'
  <2> DEFINE new == [t EXCEPT !.expired = TRUE]
  <2>1. new \in Token /\ new.id = t.id
    BY <1>0 DEF TokenType, Token
  <2>a. tokens' \subseteq tokens \union {new} /\ UNCHANGED lastToken
    BY <1>4 DEF TokenExpires
  <2> HIDE DEF new
  <2> QED BY <1>0, <2>1, <2>a DEF TokenType
<1>5. ASSUME NEW r \in Requests, BeginSome(r) PROVE UNCHANGED tokenVars
  BY <1>5 DEF BeginSome, BeginCreate, BeginRevoke, BeginProfile, BeginShare, Begin
<1>6. ASSUME NEW r \in Requests, CreateStep(r) PROVE UNCHANGED tokenVars
  BY <1>6 DEF CreateStep, CheckQuota, Lookup, Build, BuildFails, ReadOwners, SaveOwners
<1>7. ASSUME NEW r \in Requests, RevokeStep(r) PROVE UNCHANGED tokenVars
  BY <1>7 DEF RevokeStep, RequireOwnCert, CheckValid, RevokeCert, RevokeCertFails, GenCRL, ReadCRL,
     WriteCRL
<1>8. ASSUME NEW i \in DOMAIN index, Expire(i) PROVE UNCHANGED tokenVars
  BY <1>8 DEF Expire
<1>9. CASE Crash
  BY <1>0, <1>9 DEF Crash, TokenType
<1>10. CASE UNCHANGED vars
  BY <1>1, <1>10 DEF vars, tokenVars
<1> QED BY <1>0, <1>1, <1>3, <1>4, <1>5, <1>6, <1>7, <1>8, <1>9, <1>10 DEF Next

\* The lock is taken into recordOwner's save and given up with it.
LEMMA LockStep ==
    ASSUME TypeInv, [Next]_vars
    PROVE  LockType'
<1>0. LockType /\ req \in [Requests -> ReqRecord] /\ Nobody \notin Requests
  BY CertsAssumption DEF TypeInv, ReqType
<1>1. ASSUME UNCHANGED lock, NEW r \in Requests, ~At(r, "save"),
             NEW x \in ReqRecord, x.pc # "save", req' = [req EXCEPT ![r] = x]
      PROVE  LockType'
  BY <1>0, <1>1 DEF LockType, At
<1>2. ASSUME UNCHANGED lock, NEW r \in Requests, ~At(r, "save"), End(r)
      PROVE  LockType'
  BY <1>1, <1>2, IdleFine DEF End
<1>3. ASSUME UNCHANGED lock, NEW r \in Requests, ~At(r, "save"), NEW at \in States \ {"save"},
             GoTo(r, at)
      PROVE  LockType'
  BY <1>0, <1>3 DEF GoTo, LockType, At, ReqRecord
<1>4. ASSUME UNCHANGED <<lock, req>> PROVE LockType'
  BY <1>0, <1>4 DEF LockType
<1>5. ASSUME NEW r \in Requests, BeginSome(r) PROVE LockType'
  BY <1>0, <1>5 DEF BeginSome, BeginCreate, BeginRevoke, BeginProfile, BeginShare, Begin, At,
     MineAt, Request, LockType
<1>6. ASSUME NEW r \in Requests, Build(r) PROVE LockType'
  BY <1>0, <1>6, IdleFine DEF Build, At, End, LockType, ReqRecord
<1>7. ASSUME NEW r \in Requests, ReadOwners(r) PROVE LockType'
  BY <1>0, <1>7 DEF ReadOwners, At, LockType, ReqRecord
<1>8. ASSUME NEW r \in Requests, SaveOwners(r) PROVE LockType'
  BY <1>0, <1>8, IdleFine DEF SaveOwners, At, End, LockType
<1>9. ASSUME NEW r \in Requests, CreateStep(r) PROVE LockType'
  BY <1>2, <1>3, <1>6, <1>7, <1>8, <1>9
  DEF CreateStep, CheckQuota, Lookup, BuildFails, At, States
<1>10. ASSUME NEW r \in Requests, RevokeCert(r) PROVE LockType'
  BY <1>0, <1>10, IdleFine DEF RevokeCert, At, End, LockType, ReqRecord
<1>11. ASSUME NEW r \in Requests, ReadCRL(r) PROVE LockType'
  BY <1>0, <1>11 DEF ReadCRL, At, LockType, ReqRecord, fileVars
<1>12. ASSUME NEW r \in Requests, RevokeStep(r) PROVE LockType'
  BY <1>2, <1>3, <1>10, <1>11, <1>12
  DEF RevokeStep, RequireOwnCert, CheckValid, RevokeCertFails, GenCRL, WriteCRL, At, States
<1>13. ASSUME NEW r \in Requests, NEW t \in tokens, Consume(r, t) PROVE LockType'
  BY <1>0, <1>13 DEF Consume, At, LockType, Request
<1>14. ASSUME NEW r \in Requests, ShareStep(r) PROVE LockType'
  BY <1>2, <1>3, <1>13, <1>14
  DEF ShareStep, RequireOwnCert, CheckValid, Profile, CreateToken, Serve, At, States
<1>15. ASSUME NEW t \in tokens, TokenExpires(t) PROVE LockType'
  BY <1>4, <1>15 DEF TokenExpires
<1>16. ASSUME NEW i \in DOMAIN index, Expire(i) PROVE LockType'
  BY <1>4, <1>16 DEF Expire
<1>17. CASE Crash
  BY <1>0, <1>17, IdleFine DEF Crash, LockType
<1>18. CASE UNCHANGED vars
  BY <1>4, <1>18 DEF vars
<1> QED BY <1>5, <1>9, <1>12, <1>14, <1>15, <1>16, <1>17, <1>18 DEF Next

LEMMA FileTypeStep ==
    ASSUME TypeInv, [Next]_vars
    PROVE  FileType'
<1>0. /\ IndexType /\ ReqType /\ FileType /\ RowsGrow
      /\ Len(index) \in Nat /\ Len(index') \in Nat /\ 1..Len(index) \subseteq 1..Len(index')
      /\ DOMAIN index = 1..Len(index)
  BY RowsStay, IndexFacts, LenProperties DEF TypeInv, RowsGrow
<1>1. ASSUME UNCHANGED <<crlPki, crlServer, owners>> PROVE FileType'
  BY <1>0, <1>1 DEF FileType
<1>2. ASSUME NEW r \in Requests, BeginSome(r) PROVE FileType'
  BY <1>1, <1>2 DEF BeginSome, BeginCreate, BeginRevoke, BeginProfile, BeginShare, Begin, fileVars
<1>3. ASSUME NEW r \in Requests, SaveOwners(r) PROVE FileType'
  <2>1. req[r].user \in Owners /\ req[r].cn \in CNs /\ req[r].om \in [CNs -> Owners]
    BY <1>0, <1>3, BusyFacts DEF SaveOwners, At, ReqRecord
  <2>2. UNCHANGED <<crlPki, crlServer>> /\ owners' \in [CNs -> Owners]
    BY <1>0, <1>3, <2>1 DEF SaveOwners, FileType
  <2> QED BY <1>0, <2>2 DEF FileType
<1>4. ASSUME NEW r \in Requests, CreateStep(r) PROVE FileType'
  BY <1>1, <1>3, <1>4 DEF CreateStep, CheckQuota, Lookup, Build, BuildFails, ReadOwners, fileVars
<1>5. ASSUME NEW r \in Requests, GenCRL(r) PROVE FileType'
  BY <1>0, <1>5 DEF GenCRL, FileType
<1>6. ASSUME NEW r \in Requests, WriteCRL(r) PROVE FileType'
  <2>1. req[r].crl \subseteq 1..Len(index)
    BY <1>0 DEF ReqType, Grounded
  <2> QED BY <1>0, <1>6, <2>1 DEF WriteCRL, FileType
<1>7. ASSUME NEW r \in Requests, RevokeStep(r) PROVE FileType'
  BY <1>1, <1>5, <1>6, <1>7
  DEF RevokeStep, RequireOwnCert, CheckValid, RevokeCert, RevokeCertFails, ReadCRL, fileVars
<1>8. ASSUME NEW r \in Requests, ShareStep(r) PROVE FileType'
  BY <1>1, <1>8 DEF ShareStep, RequireOwnCert, CheckValid, Profile, CreateToken, Consume, Serve,
     fileVars
<1>9. ASSUME NEW t \in tokens, TokenExpires(t) PROVE FileType'
  BY <1>1, <1>9 DEF TokenExpires, fileVars
<1>10. ASSUME NEW i \in DOMAIN index, Expire(i) PROVE FileType'
  BY <1>1, <1>10 DEF Expire
<1>11. CASE Crash
  BY <1>1, <1>11 DEF Crash, fileVars
<1>12. CASE UNCHANGED vars
  BY <1>1, <1>12 DEF vars, fileVars
<1> QED BY <1>2, <1>4, <1>7, <1>8, <1>9, <1>10, <1>11, <1>12 DEF Next

LEMMA HistTypeStep ==
    ASSUME TypeInv, [Next]_vars
    PROVE  HistType'
<1>0. /\ IndexType /\ ReqType /\ HistType
      /\ 1..Len(index) \subseteq 1..Len(index') /\ DOMAIN index = 1..Len(index)
  BY RowsStay, IndexFacts, LenProperties DEF TypeInv, RowsGrow
<1>1. ASSUME UNCHANGED <<answered, acked, given>> PROVE HistType'
  BY <1>0, <1>1 DEF HistType
<1>2. ASSUME NEW r \in Requests, BeginSome(r) PROVE HistType'
  BY <1>1, <1>2 DEF BeginSome, BeginCreate, BeginRevoke, BeginProfile, BeginShare, Begin
<1>3. ASSUME NEW r \in Requests, SaveOwners(r) PROVE HistType'
  <2>1. req[r].serial \in 1..Len(index)
    BY <1>0, <1>3 DEF SaveOwners, At, ReqType, Grounded
  <2> QED BY <1>0, <1>3, <2>1 DEF SaveOwners, HistType
<1>4. ASSUME NEW r \in Requests, CreateStep(r) PROVE HistType'
  BY <1>1, <1>3, <1>4 DEF CreateStep, CheckQuota, Lookup, Build, BuildFails, ReadOwners, histVars
<1>5. ASSUME NEW r \in Requests, WriteCRL(r) PROVE HistType'
  <2>1. req[r].serial \in 1..Len(index)
    BY <1>0, <1>5 DEF WriteCRL, At, ReqType, Grounded
  <2> QED BY <1>0, <1>5, <2>1 DEF WriteCRL, HistType
<1>6. ASSUME NEW r \in Requests, RevokeStep(r) PROVE HistType'
  BY <1>1, <1>5, <1>6
  DEF RevokeStep, RequireOwnCert, CheckValid, RevokeCert, RevokeCertFails, GenCRL, ReadCRL, histVars
<1>7. ASSUME NEW r \in Requests, req[r].user \in Actors, Deliver(req[r].cn, req[r].user)
      PROVE  given' \subseteq Users \X (1..Len(index))
  BY <1>0, <1>7 DEF Deliver, Valid, Rows, HistType, Actors
<1>8. ASSUME NEW r \in Requests, Profile(r) PROVE HistType'
  <2>1. req[r].user \in Actors
    BY <1>0, <1>8, BusyFacts DEF Profile, At
  <2> QED BY <1>0, <1>7, <1>8, <2>1 DEF Profile, HistType, fileVars
<1>9. ASSUME NEW r \in Requests, Serve(r) PROVE HistType'
  <2>1. req[r].user \in Actors
    BY <1>0, <1>9, BusyFacts DEF Serve, At
  <2> QED BY <1>0, <1>7, <1>9, <2>1 DEF Serve, HistType, fileVars
<1>10. ASSUME NEW r \in Requests, ShareStep(r) PROVE HistType'
  BY <1>1, <1>8, <1>9, <1>10 DEF ShareStep, RequireOwnCert, CheckValid, CreateToken, Consume,
      histVars
<1>11. ASSUME NEW t \in tokens, TokenExpires(t) PROVE HistType'
  BY <1>1, <1>11 DEF TokenExpires, histVars
<1>12. ASSUME NEW i \in DOMAIN index, Expire(i) PROVE HistType'
  BY <1>1, <1>12 DEF Expire, histVars
<1>13. CASE Crash
  BY <1>1, <1>13 DEF Crash, histVars
<1>14. CASE UNCHANGED vars
  BY <1>1, <1>14 DEF vars, histVars
<1> QED BY <1>2, <1>4, <1>6, <1>10, <1>11, <1>12, <1>13, <1>14 DEF Next

LEMMA TypeInit == Init => TypeInv
<1> SUFFICES ASSUME Init PROVE TypeInv
  OBVIOUS
<1>1. IndexType
  BY CertsAssumption, EmptySeq DEF Init, IndexType
<1>2. ReqType
  BY IdleFine DEF Init, ReqType
<1>3. LockType
  BY IdleFine, CertsAssumption DEF Init, LockType
<1>4. FileType /\ TokenType /\ HistType
  BY CertsAssumption DEF Init, FileType, TokenType, HistType, NoOwners, Owners
<1> QED BY <1>1, <1>2, <1>3, <1>4 DEF TypeInv

LEMMA TypeStep == TypeInv /\ [Next]_vars => TypeInv'
<1> SUFFICES ASSUME TypeInv, [Next]_vars PROVE TypeInv'
  OBVIOUS
<1>1. TokenType' /\ ReqType'
  BY TokenTypeStep, ReqTypeStep
<1>2. IndexType'
  BY RowsStay DEF TypeInv, RowsGrow, IndexType
<1> QED BY <1>1, <1>2, LockStep, FileTypeStep, HistTypeStep DEF TypeInv

LEMMA TypeIsOK == TypeInv => TypeOK
<1> SUFFICES ASSUME TypeInv PROVE TypeOK
  OBVIOUS
<1>1. 1..Len(index) \subseteq Serials
  BY IndexFacts DEF TypeInv
<1> QED BY <1>1 DEF TypeInv, IndexType, ReqType, LockType, FileType, TokenType, HistType, TypeOK

\* Every file, request and record of the certificate service keeps its type, and
\* Manager.mu is held exactly between the read and the write of the owners file.
THEOREM CertsTypeCorrect == Spec => []TypeOK
BY TypeInit, TypeStep, TypeIsOK, PTL DEF Spec

-------------------------------------------------------------------------------
(* One-time links. A token is live, or taken by one request, or spent.        *)

TokenInv ==
    /\ served \in [TokenIds -> {0, 1}]
    /\ \A s, t \in tokens : s.id = t.id \/ s.cn = t.cn => s = t
    /\ \A t \in tokens : served[t.id] = 0
    /\ \A r \in Requests : At(r, "serve") =>
          served[req[r].serial] = 0 /\ \A t \in tokens : t.id # req[r].serial
    /\ \A r, q \in Requests :
          At(r, "serve") /\ At(q, "serve") /\ req[r].serial = req[q].serial => r = q
    /\ \A i \in TokenIds : i > lastToken => served[i] = 0

\* No request takes a token: those that serve one are among those that did.
NoneTakes ==
    \A q \in Requests : req'[q].pc = "serve" =>
        req[q].pc = "serve" /\ req'[q].serial = req[q].serial

LEMMA NoneTakesEnd ==
    ASSUME ReqType, NEW r \in Requests, End(r)
    PROVE  NoneTakes
BY IdleFine DEF ReqType, End, NoneTakes

LEMMA NoneTakesGo ==
    ASSUME ReqType, NEW r \in Requests, NEW at \in States \ {"serve"}, GoTo(r, at)
    PROVE  NoneTakes
BY DEF ReqType, ReqRecord, GoTo, NoneTakes

LEMMA TokenFrame ==
    ASSUME TokenInv, NoneTakes, tokens' \subseteq tokens, UNCHANGED <<lastToken, served>>
    PROVE  TokenInv'
BY DEF TokenInv, NoneTakes, At

\* The steps that leave the tokens alone.
LEMMA OtherSteps ==
    ASSUME ReqType, NEW r \in Requests, BeginSome(r) \/ CreateStep(r) \/ RevokeStep(r)
    PROVE  NoneTakes /\ UNCHANGED <<tokens, lastToken, served>>
<1> USE NoneTakesEnd, NoneTakesGo
<1>1. CASE BeginSome(r)
  BY <1>1 DEF BeginSome, BeginCreate, BeginRevoke, BeginProfile, BeginShare, Begin, MineAt, Request,
     ReqType, NoneTakes, tokenVars, histVars
<1>2. CASE Build(r)
  BY <1>2 DEF Build, ReqType, ReqRecord, NoneTakes, tokenVars, histVars
<1>3. CASE ReadOwners(r)
  BY <1>3 DEF ReadOwners, ReqType, ReqRecord, NoneTakes, tokenVars, histVars
<1>4. CASE CreateStep(r)
  BY <1>2, <1>3, <1>4
  DEF CreateStep, CheckQuota, Lookup, BuildFails, SaveOwners, States, tokenVars, histVars
<1>5. CASE RevokeCert(r)
  BY <1>5 DEF RevokeCert, ReqType, ReqRecord, NoneTakes, tokenVars, histVars
<1>6. CASE ReadCRL(r)
  BY <1>6 DEF ReadCRL, ReqType, ReqRecord, NoneTakes, tokenVars, histVars
<1>7. CASE RevokeStep(r)
  BY <1>5, <1>6, <1>7
  DEF RevokeStep, RequireOwnCert, CheckValid, RevokeCertFails, GenCRL, WriteCRL, States, tokenVars,
      histVars
<1> QED BY <1>1, <1>4, <1>7

LEMMA TokenInvStep ==
    ASSUME TypeInv, TokenInv, [Next]_vars
    PROVE  TokenInv'
<1>0. /\ ReqType /\ TokenType /\ TokenType' /\ ReqType' /\ lastToken \in Nat /\ lastToken' \in Nat
      /\ req \in [Requests -> ReqRecord] /\ 1..lastToken \subseteq TokenIds /\ TokenIds \subseteq Nat
  BY TokenTypeStep, ReqTypeStep, CertsAssumption DEF TypeInv, ReqType, TokenType, TokenIds
<1>1. ASSUME NEW r \in Requests, BeginSome(r) \/ CreateStep(r) \/ RevokeStep(r) PROVE TokenInv'
  BY <1>0, <1>1, OtherSteps, TokenFrame
<1>2. ASSUME NEW r \in Requests, CreateToken(r) PROVE TokenInv'
  <2> DEFINE new == [id |-> lastToken + 1, cn |-> req[r].cn, by |-> req[r].user, expired |-> FALSE]
  <2>1. /\ new.id = lastToken + 1 /\ new.cn = req[r].cn /\ UNCHANGED served
        /\ lastToken' = lastToken + 1 /\ lastToken + 1 \in TokenIds
        /\ tokens' = {t \in tokens : t.cn # req[r].cn /\ ~t.expired} \union {new}
    BY <1>0, <1>2, CertsAssumption DEF CreateToken, TokenIds, histVars
  <2> HIDE DEF new
  <2>2. \A t \in tokens : t.id # lastToken + 1
    BY <1>0 DEF TokenType, Token, TokenIds
  <2>3. \A s, t \in tokens' : s.id = t.id \/ s.cn = t.cn => s = t
    BY <2>1, <2>2 DEF TokenInv
  <2>4. served[lastToken + 1] = 0
    BY <1>0, <2>1 DEF TokenInv
  <2>5. \A t \in tokens' : served'[t.id] = 0
    BY <2>1, <2>4 DEF TokenInv
  <2>6. NoneTakes
    BY <1>0, <1>2, NoneTakesEnd DEF CreateToken
  <2>7. \A q \in Requests : req[q].pc = "serve" => req[q].serial # lastToken + 1
    BY <1>0 DEF ReqType, Grounded
  <2>8. \A q \in Requests : At(q, "serve")' =>
            served'[req'[q].serial] = 0 /\ \A t \in tokens' : t.id # req'[q].serial
    BY <2>1, <2>6, <2>7 DEF TokenInv, At, NoneTakes
  <2>9. \A i \in TokenIds : i > lastToken' => served'[i] = 0
    BY <1>0, <2>1 DEF TokenInv
  <2> QED BY <2>1, <2>3, <2>5, <2>6, <2>8, <2>9 DEF TokenInv, At, NoneTakes
<1>3. ASSUME NEW r \in Requests, NEW t \in tokens, Consume(r, t) PROVE TokenInv'
  <2>1. UNCHANGED <<lastToken, served>> /\ tokens' = tokens \ {t}
    BY <1>3 DEF Consume, histVars
  <2>2. CASE t.expired
    BY <1>3, <2>1, <2>2, TokenFrame DEF Consume, NoneTakes
  <2>3. CASE ~t.expired
    <3> DEFINE x == [Request("serve", t.by, t.cn) EXCEPT !.serial = t.id]
    <3>1. x.serial = t.id /\ req' = [req EXCEPT ![r] = x]
      BY <1>3, <2>3 DEF Consume, Request
    <3> HIDE DEF x
    <3>2. ~At(r, "serve")
      BY <1>3 DEF Consume, At
    <3>3. \A q \in Requests : req'[q] = IF q = r THEN x ELSE req[q]
      BY <1>0, <3>1
    <3>4. \A s \in tokens' : s.id # t.id
      BY <2>1 DEF TokenInv
    <3>5. served[t.id] = 0
      BY DEF TokenInv
    <3>6. \A q \in Requests : At(q, "serve")' =>
              served'[req'[q].serial] = 0 /\ \A s \in tokens' : s.id # req'[q].serial
      BY <2>1, <3>1, <3>3, <3>4, <3>5 DEF TokenInv, At
    <3>7. \A p, q \in Requests :
              At(p, "serve")' /\ At(q, "serve")' /\ req'[p].serial = req'[q].serial => p = q
      BY <3>1, <3>2, <3>3 DEF TokenInv, At
    <3> QED BY <2>1, <3>6, <3>7 DEF TokenInv
  <2> QED BY <2>2, <2>3
<1>4. ASSUME NEW r \in Requests, Serve(r) PROVE TokenInv'
  <2>1. NoneTakes /\ ~At(r, "serve")'
    BY <1>0, <1>4, NoneTakesEnd, IdleFine DEF Serve, End, At
  <2>2. CASE Valid(req[r].cn) = {}
    BY <1>4, <2>1, <2>2, TokenFrame DEF Serve, tokenVars
  <2>3. CASE Valid(req[r].cn) # {}
    <3>1. served' = [served EXCEPT ![req[r].serial] = @ + 1] /\ UNCHANGED <<tokens, lastToken>>
      BY <1>4, <2>3 DEF Serve, tokenVars
    <3>2. At(r, "serve") /\ req[r].serial \in TokenIds /\ served[req[r].serial] = 0
      BY <1>0, <1>4 DEF Serve, ReqType, Grounded, TokenInv, At
    <3>3. /\ served' \in [TokenIds -> {0, 1}]
          /\ \A i \in TokenIds : i # req[r].serial => served'[i] = served[i]
      BY <3>1, <3>2 DEF TokenInv
    <3>4. \A t \in tokens : t.id # req[r].serial /\ t.id \in TokenIds
      BY <1>0, <3>2 DEF TokenInv, TokenType, Token
    <3>5. \A q \in Requests : At(q, "serve")' =>
              /\ At(q, "serve") /\ q # r /\ req'[q].serial = req[q].serial
              /\ req[q].serial # req[r].serial /\ req[q].serial \in TokenIds
      BY <1>0, <2>1, <3>2 DEF TokenInv, NoneTakes, At, ReqType, Grounded
    <3>6. \A i \in TokenIds : i > lastToken => i # req[r].serial
      BY <1>0, <3>2 DEF ReqType, Grounded, At
    <3> QED BY <3>1, <3>3, <3>4, <3>5, <3>6 DEF TokenInv
  <2> QED BY <2>2, <2>3
<1>5. ASSUME NEW r \in Requests, ShareStep(r) PROVE TokenInv'
  BY <1>0, <1>2, <1>3, <1>4, <1>5, NoneTakesEnd, NoneTakesGo, TokenFrame
  DEF ShareStep, RequireOwnCert, CheckValid, Profile, tokenVars, histVars, States
<1>6. ASSUME NEW t \in tokens, TokenExpires(t) PROVE TokenInv'
  <2> DEFINE new == [t EXCEPT !.expired = TRUE]
  <2>1. new.id = t.id /\ new.cn = t.cn
    BY <1>0 DEF TokenType, Token
  <2>2. tokens' = (tokens \ {t}) \union {new} /\ UNCHANGED <<req, lastToken, served>>
    BY <1>6 DEF TokenExpires, histVars
  <2> HIDE DEF new
  <2> QED BY <2>1, <2>2 DEF TokenInv, At
<1>7. ASSUME NEW i \in DOMAIN index, Expire(i) PROVE TokenInv'
  BY <1>7, TokenFrame DEF Expire, NoneTakes, tokenVars, histVars
<1>8. CASE Crash
  BY <1>8, IdleFine, TokenFrame DEF Crash, NoneTakes, histVars
<1>9. CASE UNCHANGED vars
  BY <1>9, TokenFrame DEF vars, NoneTakes, tokenVars, histVars
<1> QED BY <1>1, <1>5, <1>6, <1>7, <1>8, <1>9 DEF Next

\* A token that qrlink.Consume has handed out is never good again, whatever the
\* requests, failures and restarts: each link serves at most one download, and
\* creating a link for a name takes back the earlier one.
THEOREM LinksServeOnce == Spec => []OneShot
<1>1. Init => TokenInv
  BY CertsAssumption, IdleFine DEF Init, TokenInv, At
<1>2. TypeInv /\ TokenInv /\ [Next]_vars => TokenInv'
  BY TokenInvStep
<1>3. TokenInv => OneShot
  BY DEF TokenInv, OneShot
<1> QED BY <1>1, <1>2, <1>3, TypeInit, TypeStep, PTL DEF Spec

-------------------------------------------------------------------------------
(* One step moves one request; with RevokeAlone at most one request revokes.   *)

StepOf(r) == BeginSome(r) \/ CreateStep(r) \/ RevokeStep(r) \/ ShareStep(r)

OneRevokes == \A r, q \in Requests : Revoking(r) /\ Revoking(q) => r = q

\* A step of a request moves that request only, and it comes to revoke only when it was
\* revoking or nobody was.
LEMMA Mover ==
    ASSUME ReqType, NEW r \in Requests, StepOf(r)
    PROVE  /\ \A q \in Requests \ {r} : req'[q] = req[q]
           /\ RevokeAlone /\ Revoking(r)' =>
                 Revoking(r) \/ \A q \in Requests : ~Revoking(q)
<1> DEFINE Moves == \A q \in Requests \ {r} : req'[q] = req[q]
           Stays == Moves /\ (Revoking(r)' => Revoking(r))
<1>0. req \in [Requests -> ReqRecord]
  BY DEF ReqType
<1>1. End(r) => Moves /\ ~Revoking(r)'
  BY <1>0, IdleFine DEF End, Revoking
<1>2. \A at : GoTo(r, at) => Moves
  BY <1>0 DEF GoTo
<1>3. \A at \in {"lookup", "build", "profile", "share", "token"} : GoTo(r, at) => ~Revoking(r)'
  BY <1>0 DEF GoTo, ReqRecord, Revoking
<1>4. CASE BeginSome(r)
  <2>1. PICK user \in Actors, cn \in CNs, op \in OpKinds, at \in States :
           /\ Begin(r, op, user, cn, at)
           /\ op # "revoke" => at \in {"quota", "lookup", "profileMine", "profile", "shareMine", "share"}
    BY <1>4 DEF BeginSome, BeginCreate, BeginRevoke, BeginProfile, BeginShare, MineAt, OpKinds, States
  <2>2. Moves /\ req'[r].pc = at
    BY <1>0, <2>1 DEF Begin, Request
  <2> QED BY <2>1, <2>2 DEF Begin, Revoking
<1>5. Build(r) \/ ReadOwners(r) => Moves /\ ~Revoking(r)'
  BY <1>0, <1>1 DEF Build, ReadOwners, ReqRecord, Revoking
<1>6. CASE CreateStep(r)
  <2>1. Stays
    BY <1>1, <1>2, <1>3, <1>5, <1>6 DEF CreateStep, CheckQuota, Lookup, BuildFails, SaveOwners
  <2> QED BY <2>1
<1>7. RevokeCert(r) \/ ReadCRL(r) => Moves
  BY <1>0, <1>1 DEF RevokeCert, ReadCRL
<1>8. CASE RevokeStep(r)
  <2>1. Moves
    BY <1>1, <1>2, <1>7, <1>8
    DEF RevokeStep, RequireOwnCert, CheckValid, RevokeCertFails, GenCRL, WriteCRL
  <2>2. Revoking(r)
    BY <1>8 DEF RevokeStep, RequireOwnCert, CheckValid, RevokeCert, RevokeCertFails, GenCRL, ReadCRL,
       WriteCRL, At, Revoking
  <2> QED BY <2>1, <2>2
<1>9. ASSUME NEW t \in tokens, Consume(r, t) PROVE Stays
  BY <1>0, <1>9 DEF Consume, Request, Revoking
<1>10. CASE ShareStep(r) /\ ~\E t \in tokens : Consume(r, t)
  <2>1. Stays
    BY <1>1, <1>2, <1>3, <1>10
    DEF ShareStep, RequireOwnCert, CheckValid, Profile, CreateToken, Serve
  <2> QED BY <2>1
<1> QED BY <1>4, <1>6, <1>8, <1>9, <1>10 DEF StepOf

LEMMA Alone ==
    ASSUME ReqType, OneRevokes, NEW r \in Requests, StepOf(r), Revoking(r)
    PROVE  \A q \in Requests \ {r} : ~Revoking(q) /\ req'[q] = req[q]
BY Mover DEF OneRevokes

LEMMA OneRevokesStep ==
    ASSUME RevokeAlone, ReqType, OneRevokes, [Next]_vars
    PROVE  OneRevokes'
<1>1. ASSUME NEW r \in Requests, StepOf(r) PROVE OneRevokes'
  BY <1>1, Mover DEF OneRevokes, Revoking
<1>2. CASE UNCHANGED req
  BY <1>2 DEF OneRevokes, Revoking
<1>3. CASE Crash
  BY <1>3, IdleFine DEF Crash, OneRevokes, Revoking
<1> QED BY <1>1, <1>2, <1>3 DEF Next, StepOf, TokenExpires, Expire, vars

LEMMA OneRevokesInit == Init => OneRevokes
BY IdleFine DEF Init, OneRevokes, Revoking

-------------------------------------------------------------------------------
(* Revocations. A list on its way to openvpn has every answered revocation and *)
(* the one at work.                                                            *)

CRLInv ==
    /\ acked \subseteq crlServer /\ acked \subseteq crlPki
    /\ \A i \in acked : index[i].status = "R"
    /\ \A r \in Requests :
          /\ At(r, "read") => req[r].serial \in crlPki
          /\ At(r, "write") =>
                req[r].serial \in req[r].crl /\ acked \subseteq req[r].crl
                /\ req[r].crl \subseteq crlPki

\* No request comes to read or write a list.
NoneLists ==
    \A q \in Requests : req'[q].pc \in {"read", "write"} => req'[q] = req[q]

LEMMA NoneListsEnd ==
    ASSUME ReqType, NEW r \in Requests, End(r)
    PROVE  NoneLists
BY IdleFine DEF ReqType, End, NoneLists

LEMMA NoneListsGo ==
    ASSUME ReqType, NEW r \in Requests, NEW at \in States \ {"read", "write"}, GoTo(r, at)
    PROVE  NoneLists
BY DEF ReqType, ReqRecord, GoTo, NoneLists

LEMMA CRLFrame ==
    ASSUME TypeInv, RowsGrow, CRLInv, NoneLists, UNCHANGED <<crlPki, crlServer, acked>>
    PROVE  CRLInv'
<1>1. \A i \in acked : index'[i].status = "R"
  BY DEF TypeInv, HistType, RowsGrow, CRLInv
<1> QED BY <1>1 DEF CRLInv, NoneLists, At

LEMMA CRLInvStep ==
    ASSUME TypeInv, OneRevokes, CRLInv, [Next]_vars
    PROVE  CRLInv'
<1>0. IndexType /\ ReqType /\ HistType /\ RowsGrow /\ req \in [Requests -> ReqRecord]
      /\ DOMAIN index = 1..Len(index)
  BY RowsStay, IndexFacts DEF TypeInv, ReqType
<1> USE NoneListsEnd, NoneListsGo
<1>1. ASSUME NEW r \in Requests, BeginSome(r) \/ CreateStep(r) PROVE CRLInv'
  <2>1. CASE BeginSome(r)
    BY <1>0, <2>1, CRLFrame DEF BeginSome, BeginCreate, BeginRevoke, BeginProfile, BeginShare, Begin,
       MineAt, Request, NoneLists, fileVars, histVars
  <2>2. CASE Build(r)
    BY <1>0, <2>2, CRLFrame DEF Build, ReqRecord, NoneLists, histVars
  <2>3. CASE ReadOwners(r)
    BY <1>0, <2>3, CRLFrame DEF ReadOwners, ReqRecord, NoneLists, fileVars, histVars
  <2>4. CASE CreateStep(r)
    BY <1>0, <2>2, <2>3, <2>4, CRLFrame
    DEF CreateStep, CheckQuota, Lookup, BuildFails, SaveOwners, States, fileVars, histVars
  <2> QED BY <1>1, <2>1, <2>4
<1>2. ASSUME NEW r \in Requests, RevokeCert(r) PROVE CRLInv'
  BY <1>0, <1>2, CRLFrame DEF RevokeCert, ReqRecord, NoneLists, histVars
<1>3. ASSUME NEW r \in Requests, GenCRL(r) PROVE CRLInv'
  <2>1. CASE UNCHANGED crlPki /\ End(r)
    BY <1>0, <1>3, <2>1, CRLFrame DEF GenCRL, histVars
  <2>2. CASE crlPki' = {i \in DOMAIN index : index[i].status = "R"} /\ GoTo(r, "read")
    <3>1. At(r, "gencrl") /\ UNCHANGED <<index, crlServer, acked>>
      BY <1>3 DEF GenCRL, histVars
    <3>2. acked \subseteq crlPki' /\ req[r].serial \in crlPki'
      BY <1>0, <2>2, <3>1 DEF CRLInv, HistType, ReqType, Grounded, At
    <3>3. \A q \in Requests \ {r} : ~Revoking(q) /\ req'[q] = req[q]
      BY <1>0, <1>3, Alone DEF StepOf, RevokeStep, GenCRL, ReadCRL, WriteCRL, At, Revoking
    <3>4. req'[r].pc = "read" /\ req'[r].serial = req[r].serial
      BY <1>0, <2>2 DEF GoTo, ReqRecord
    <3> QED BY <3>1, <3>2, <3>3, <3>4 DEF CRLInv, At, Revoking
  <2> QED BY <1>3, <2>1, <2>2 DEF GenCRL
<1>4. ASSUME NEW r \in Requests, ReadCRL(r) PROVE CRLInv'
  <2>1. At(r, "read") /\ UNCHANGED <<index, crlPki, crlServer, acked>>
    BY <1>4 DEF ReadCRL, fileVars, histVars
  <2>2. \A q \in Requests \ {r} : ~Revoking(q) /\ req'[q] = req[q]
    BY <1>0, <1>4, Alone DEF StepOf, RevokeStep, GenCRL, ReadCRL, WriteCRL, At, Revoking
  <2>3. req'[r].pc = "write" /\ req'[r].serial = req[r].serial /\ req'[r].crl = crlPki
    BY <1>0, <1>4 DEF ReadCRL, ReqRecord
  <2> QED BY <2>1, <2>2, <2>3 DEF CRLInv, At, Revoking
<1>5. ASSUME NEW r \in Requests, WriteCRL(r) PROVE CRLInv'
  <2>1. CASE UNCHANGED <<crlServer, acked>>
    BY <1>0, <1>5, <2>1, CRLFrame DEF WriteCRL
  <2>2. CASE crlServer' = req[r].crl /\ acked' = acked \union {req[r].serial}
    <3>1. At(r, "write") /\ UNCHANGED <<index, crlPki>>
      BY <1>5 DEF WriteCRL
    <3>2. \A q \in Requests : ~Revoking(q)'
      <4>1. \A q \in Requests \ {r} : ~Revoking(q) /\ req'[q] = req[q]
        BY <1>0, <1>5, Alone DEF StepOf, RevokeStep, GenCRL, ReadCRL, WriteCRL, At, Revoking
      <4>2. req'[r].pc = "idle"
        BY <1>0, <1>5, IdleFine DEF WriteCRL, End
      <4> QED BY <4>1, <4>2 DEF Revoking
    <3>3. index[req[r].serial].status = "R"
      BY <1>0, <3>1 DEF ReqType, Grounded, At
    <3> QED BY <2>2, <3>1, <3>2, <3>3 DEF CRLInv, At, Revoking
  <2> QED BY <1>5, <2>1, <2>2 DEF WriteCRL
<1>6. ASSUME NEW r \in Requests, RevokeStep(r) PROVE CRLInv'
  BY <1>0, <1>2, <1>3, <1>4, <1>5, <1>6, CRLFrame
  DEF RevokeStep, RequireOwnCert, CheckValid, RevokeCertFails, States, fileVars, histVars
<1>7. ASSUME NEW r \in Requests, NEW t \in tokens, Consume(r, t) PROVE CRLInv'
  BY <1>0, <1>7, CRLFrame DEF Consume, Request, NoneLists, fileVars, histVars
<1>8. ASSUME NEW r \in Requests, ShareStep(r) PROVE CRLInv'
  BY <1>0, <1>7, <1>8, CRLFrame
  DEF ShareStep, RequireOwnCert, CheckValid, Profile, CreateToken, Serve, States, fileVars, histVars
<1>9. ASSUME NEW t \in tokens, TokenExpires(t) PROVE CRLInv'
  BY <1>0, <1>9, CRLFrame DEF TokenExpires, NoneLists, fileVars, histVars
<1>10. ASSUME NEW i \in DOMAIN index, Expire(i) PROVE CRLInv'
  BY <1>0, <1>10, CRLFrame DEF Expire, NoneLists, histVars
<1>11. CASE Crash
  BY <1>0, <1>11, IdleFine, CRLFrame DEF Crash, NoneLists, fileVars, histVars
<1>12. CASE UNCHANGED vars
  BY <1>0, <1>12, CRLFrame DEF vars, NoneLists, fileVars, histVars
<1> QED BY <1>1, <1>6, <1>8, <1>9, <1>10, <1>11, <1>12 DEF Next

\* A revocation answered ok is in the list openvpn reads and stays there, through
\* failing scripts and copies, later revocations, creations at the same time and
\* restarts of the panel, as long as callers revoke one certificate at a time (two
\* revocations at once may lose one).
THEOREM RevocationsEnforced ==
    ASSUME RevokeAlone
    PROVE  Spec => []AckedEnforced
<1>1. Init => CRLInv
  BY IdleFine DEF Init, CRLInv, At
<1>2. TypeInv /\ OneRevokes /\ [Next]_vars => OneRevokes'
  BY OneRevokesStep DEF TypeInv
<1>3. TypeInv /\ OneRevokes /\ CRLInv /\ [Next]_vars => CRLInv'
  BY CRLInvStep
<1>4. CRLInv => AckedEnforced
  BY DEF CRLInv, AckedEnforced
<1> QED BY <1>1, <1>2, <1>3, <1>4, OneRevokesInit, TypeInit, TypeStep, PTL DEF Spec

-------------------------------------------------------------------------------
(* The owners file, under any interleaving and any restart: what recordOwner   *)
(* read under the lock is still the file when it writes.                        *)

OnlyRow(i) == \A k \in 1..Len(index) : index[k].cn = index[i].cn => k = i

OwnersInv ==
    /\ \A r \in Requests : At(r, "save") => req[r].om = owners
    /\ \A i \in answered :
          index[i].status = "V" /\ OnlyRow(i) => owners[index[i].cn] = index[i].by

\* No request comes to save the owners file.
NoneSaves == \A q \in Requests : req'[q].pc = "save" => req'[q] = req[q]

LEMMA NoneSavesEnd ==
    ASSUME ReqType, NEW r \in Requests, End(r)
    PROVE  NoneSaves
BY IdleFine DEF ReqType, End, NoneSaves

LEMMA NoneSavesGo ==
    ASSUME ReqType, NEW r \in Requests, NEW at \in States \ {"save"}, GoTo(r, at)
    PROVE  NoneSaves
BY DEF ReqType, ReqRecord, GoTo, NoneSaves

\* A row that is the only one of its name was so before.
LEMMA OnlyRowBefore ==
    ASSUME IndexType, RowsGrow, NEW i \in 1..Len(index), OnlyRow(i)'
    PROVE  OnlyRow(i)
<1>1. Len(index) \in Nat /\ Len(index') \in Nat
  BY DEF IndexType, RowsGrow
<1> QED BY <1>1 DEF OnlyRow, RowsGrow

LEMMA OwnersFrame ==
    ASSUME TypeInv, RowsGrow, OwnersInv, NoneSaves, UNCHANGED <<owners, answered>>
    PROVE  OwnersInv'
<1>1. \A i \in answered :
          i \in 1..Len(index) /\ index'[i].cn = index[i].cn /\ index'[i].by = index[i].by
          /\ (index'[i].status = "V" => index[i].status = "V") /\ (OnlyRow(i)' => OnlyRow(i))
  BY OnlyRowBefore DEF TypeInv, HistType, RowsGrow
<1>2. \A i \in answered' :
          (index[i].status = "V" /\ OnlyRow(i))' => owners'[index'[i].cn] = index'[i].by
  BY <1>1 DEF OwnersInv
<1>3. \A r \in Requests : At(r, "save")' => req'[r].om = owners'
  BY DEF OwnersInv, NoneSaves, At
<1> QED BY <1>2, <1>3 DEF OwnersInv

\* The steps of a request other than the two of recordOwner.
LEMMA OutsideRecordOwner ==
    ASSUME ReqType, NEW r \in Requests, StepOf(r), ~ReadOwners(r), ~SaveOwners(r)
    PROVE  NoneSaves /\ UNCHANGED <<owners, answered>>
<1> USE NoneSavesEnd, NoneSavesGo DEF fileVars, histVars
<1>0. req \in [Requests -> ReqRecord]
  BY DEF ReqType
<1>1. CASE BeginSome(r)
  BY <1>0, <1>1 DEF BeginSome, BeginCreate, BeginRevoke, BeginProfile, BeginShare, Begin, MineAt,
     Request, NoneSaves
<1>2. CASE Build(r)
  BY <1>0, <1>2 DEF Build, ReqRecord, NoneSaves
<1>3. CASE CreateStep(r)
  BY <1>2, <1>3 DEF CreateStep, CheckQuota, Lookup, BuildFails, States
<1>4. CASE RevokeCert(r) \/ ReadCRL(r)
  BY <1>0, <1>4 DEF RevokeCert, ReadCRL, ReqRecord, NoneSaves
<1>5. CASE RevokeStep(r)
  BY <1>4, <1>5 DEF RevokeStep, RequireOwnCert, CheckValid, RevokeCertFails, GenCRL, WriteCRL, States
<1>6. ASSUME NEW t \in tokens, Consume(r, t) PROVE NoneSaves /\ UNCHANGED <<owners, answered>>
  BY <1>0, <1>6 DEF Consume, Request, NoneSaves
<1>7. CASE ShareStep(r)
  BY <1>6, <1>7 DEF ShareStep, RequireOwnCert, CheckValid, Profile, CreateToken, Serve, States
<1> QED BY <1>1, <1>3, <1>5, <1>7 DEF StepOf

\* What a save leaves behind: the file with the request's user at its name.
LEMMA Saved ==
    ASSUME TypeInv, NEW r \in Requests, SaveOwners(r), req[r].om = owners
    PROVE  /\ req[r].serial \in 1..Len(index) /\ index[req[r].serial].cn = req[r].cn
           /\ index[req[r].serial].by = req[r].user
           /\ \/ /\ \A cn \in CNs : owners'[cn] = IF cn = req[r].cn THEN req[r].user ELSE owners[cn]
                 /\ answered' = answered \union {req[r].serial}
              \/ UNCHANGED <<owners, answered>>
           /\ UNCHANGED index
           /\ \A q \in Requests : req'[q] = IF q = r THEN IdleRequest ELSE req[q]
           /\ \A q \in Requests \ {r} : ~At(q, "save")
<1>1. \/ owners' = [owners EXCEPT ![req[r].cn] = req[r].user] /\ answered' = answered \union {req[r].serial}
      \/ UNCHANGED <<owners, answered>>
  BY DEF SaveOwners
<1>2. owners \in [CNs -> Owners] /\ req \in [Requests -> ReqRecord]
  BY DEF TypeInv, FileType, ReqType
<1>3. \A q \in Requests \ {r} : ~At(q, "save")
  BY DEF TypeInv, LockType, SaveOwners, At
<1>4. At(r, "save") /\ Grounded(req[r], index, lastToken)
  BY DEF SaveOwners, TypeInv, ReqType
<1> QED BY <1>1, <1>2, <1>3, <1>4 DEF SaveOwners, End, Grounded, At

LEMMA OwnersInvStep ==
    ASSUME "load" \notin Faults, TypeInv, OwnersInv, [Next]_vars
    PROVE  OwnersInv'
<1>0. IndexType /\ ReqType /\ HistType /\ RowsGrow /\ req \in [Requests -> ReqRecord]
  BY RowsStay DEF TypeInv, ReqType
<1>1. ASSUME NEW r \in Requests, StepOf(r), ~ReadOwners(r), ~SaveOwners(r) PROVE OwnersInv'
  BY <1>0, <1>1, OutsideRecordOwner, OwnersFrame
<1>2. ASSUME NEW r \in Requests, ReadOwners(r) PROVE OwnersInv'
  <2>1. UNCHANGED <<index, owners, answered>>
    BY <1>2 DEF ReadOwners, fileVars, histVars
  <2>2. /\ req'[r].om = owners
        /\ \A q \in Requests \ {r} : req'[q] = req[q]
    BY <1>0, <1>2 DEF ReadOwners, ReqRecord
  <2> QED BY <2>1, <2>2 DEF OwnersInv, OnlyRow, At
<1>3. ASSUME NEW r \in Requests, SaveOwners(r) PROVE OwnersInv'
  <2>1. req[r].om = owners
    BY <1>3 DEF OwnersInv, SaveOwners
  <2>2. \A q \in Requests : ~At(q, "save")'
    BY <1>3, <2>1, Saved, IdleFine DEF At
  <2>3. ASSUME NEW i \in answered', index'[i].status = "V", OnlyRow(i)'
        PROVE  owners'[index'[i].cn] = index'[i].by
    <3>0. CASE UNCHANGED <<owners, answered>>
      BY <1>3, <2>1, <2>3, <3>0, Saved DEF OwnersInv, OnlyRow
    <3> SUFFICES ASSUME /\ \A cn \in CNs : owners'[cn] = IF cn = req[r].cn THEN req[r].user ELSE owners[cn]
                        /\ answered' = answered \union {req[r].serial}
                 PROVE  owners'[index'[i].cn] = index'[i].by
      BY <1>3, <2>1, <3>0, Saved
    <3>1. UNCHANGED index /\ OnlyRow(i) /\ i \in 1..Len(index) /\ index[i].cn \in CNs
      <4>1. UNCHANGED index /\ answered' = answered \union {req[r].serial}
            /\ req[r].serial \in 1..Len(index)
        BY <1>3, <2>1, Saved
      <4>2. i \in 1..Len(index)
        BY <1>0, <2>3, <4>1 DEF HistType
      <4> QED BY <1>0, <2>3, <4>1, <4>2, IndexFacts DEF OnlyRow
    <3>2. CASE index[i].cn = req[r].cn
      BY <1>3, <2>1, <3>1, <3>2, Saved DEF OnlyRow
    <3>3. CASE index[i].cn # req[r].cn
      BY <1>3, <2>1, <2>3, <3>1, <3>3, Saved DEF OwnersInv
    <3> QED BY <3>2, <3>3
  <2> QED BY <2>2, <2>3 DEF OwnersInv
<1>4. ASSUME NEW t \in tokens, TokenExpires(t) PROVE OwnersInv'
  BY <1>0, <1>4, OwnersFrame DEF TokenExpires, NoneSaves, fileVars, histVars
<1>5. ASSUME NEW i \in DOMAIN index, Expire(i) PROVE OwnersInv'
  BY <1>0, <1>5, OwnersFrame DEF Expire, NoneSaves, histVars
<1>6. CASE Crash
  BY <1>0, <1>6, IdleFine, OwnersFrame DEF Crash, NoneSaves, fileVars, histVars
<1>7. CASE UNCHANGED vars
  BY <1>0, <1>7, OwnersFrame DEF vars, NoneSaves, fileVars, histVars
<1> QED BY <1>1, <1>2, <1>3, <1>4, <1>5, <1>6, <1>7 DEF Next, StepOf

LEMMA OwnersInvMeans ==
    ASSUME TypeInv, OwnersInv
    PROVE  OwnersKept
<1> SUFFICES ASSUME NEW i \in answered, index[i].status = "V", Cardinality(Rows(index[i].cn)) = 1
             PROVE  owners[index[i].cn] = index[i].by
  BY DEF OwnersKept
<1>1. i \in 1..Len(index) /\ DOMAIN index = 1..Len(index) /\ Len(index) \in Nat
  BY IndexFacts DEF TypeInv, HistType
<1>2. IsFiniteSet(Rows(index[i].cn))
  <2>1. IsFiniteSet(1..Len(index))
    BY <1>1, FS_Interval
  <2>2. Rows(index[i].cn) \in SUBSET (1..Len(index))
    BY <1>1 DEF Rows
  <2> QED BY <2>1, <2>2, FS_Subset
<1>3. PICK k : Rows(index[i].cn) = {k}
  BY <1>2, FS_Singleton
<1>4. OnlyRow(i)
  BY <1>1, <1>3 DEF Rows, OnlyRow
<1> QED BY <1>4 DEF OwnersInv

\* While the owners file can be read, a certificate whose owner was saved is its
\* creator's as long as its name has had no other, whatever is created, revoked or
\* shared at the same time, which saves fail and whenever the panel restarts.
THEOREM OwnersRecorded ==
    ASSUME "load" \notin Faults
    PROVE  Spec => []OwnersKept
<1>1. Init => OwnersInv
  BY IdleFine DEF Init, OwnersInv, At
<1>2. TypeInv /\ OwnersInv /\ [Next]_vars => OwnersInv'
  BY OwnersInvStep
<1>3. TypeInv /\ OwnersInv => OwnersKept
  BY OwnersInvMeans
<1> QED BY <1>1, <1>2, <1>3, TypeInit, TypeStep, PTL DEF Spec

-------------------------------------------------------------------------------
(* Names. The files of a name belong to one certificate, the last issued, and   *)
(* whoever the owners file names, however late or lost its saves are, had a       *)
(* certificate of the name.                                                      *)

UniqueInv ==
    \A i, j \in 1..Len(index) : i < j /\ index[i].cn = index[j].cn => index[i].status = "R"

LEMMA SameRows ==
    ASSUME UniqueInv, RowsGrow, IndexType, Len(index') = Len(index)
    PROVE  UniqueInv'
BY DEF UniqueInv, RowsGrow

LEMMA NewRow ==
    ASSUME IndexType, ReqType, NEW r \in Requests, At(r, "build"), Len(index) < MaxSerial,
           index' = Issued(r), ~Held(req[r].cn), UniqueInv
    PROVE  UniqueInv'
<1>1. /\ Len(index') = Len(index) + 1 /\ Len(index) \in Nat /\ DOMAIN index = 1..Len(index)
      /\ index'[Len(index) + 1].cn = req[r].cn
      /\ \A i \in 1..Len(index) : index'[i] = index[i]
  <2>1. /\ Len(index') = Len(index) + 1 /\ \A i \in 1..Len(index) : index'[i] = index[i]
        /\ index'[Len(index) + 1] = [cn |-> req[r].cn, status |-> "V", by |-> req[r].user]
    BY IssuedGrows
  <2>2. index'[Len(index) + 1].cn = req[r].cn
    BY <2>1
  <2> QED BY <2>1, <2>2, IndexFacts
<1>2. \A i \in 1..Len(index) : index[i].cn = req[r].cn => index[i].status = "R"
  BY <1>1 DEF Held, Rows
<1>3. \A i \in 1..Len(index') : i \in 1..Len(index) \/ i = Len(index) + 1
  BY <1>1
<1> QED BY <1>1, <1>2, <1>3 DEF UniqueInv

\* Only a build adds a row.
LEMMA RowAdded ==
    ASSUME IndexType, ReqType, [Next]_vars
    PROVE  \/ Len(index') = Len(index)
           \/ \E r \in Requests :
                 /\ At(r, "build") /\ Len(index) < MaxSerial /\ index' = Issued(r)
                 /\ ~Held(req[r].cn)
                 /\ Build(r) \/ BuildFails(r)
<1> DEFINE Adds == \E r \in Requests :
                 /\ At(r, "build") /\ Len(index) < MaxSerial /\ index' = Issued(r)
                 /\ ~Held(req[r].cn)
                 /\ Build(r) \/ BuildFails(r)
<1>1. ASSUME NEW r \in Requests, BeginSome(r) PROVE Len(index') = Len(index)
  BY <1>1 DEF BeginSome, BeginCreate, BeginRevoke, BeginProfile, BeginShare, Begin, fileVars
<1>2. ASSUME NEW r \in Requests, Build(r) PROVE Len(index') = Len(index) \/ Adds
  BY <1>2 DEF Build
<1>3. ASSUME NEW r \in Requests, BuildFails(r) PROVE Len(index') = Len(index) \/ Adds
  BY <1>3 DEF BuildFails
<1>4. ASSUME NEW r \in Requests, CreateStep(r) PROVE Len(index') = Len(index) \/ Adds
  BY <1>2, <1>3, <1>4 DEF CreateStep, CheckQuota, Lookup, ReadOwners, SaveOwners, fileVars
<1>5. ASSUME NEW r \in Requests, RevokeStep(r) PROVE Len(index') = Len(index)
  BY <1>5, RevokedGrows DEF RevokeStep, RequireOwnCert, CheckValid, RevokeCert, RevokeCertFails,
     GenCRL, ReadCRL, WriteCRL, fileVars
<1>6. ASSUME NEW r \in Requests, ShareStep(r) PROVE Len(index') = Len(index)
  BY <1>6 DEF ShareStep, RequireOwnCert, CheckValid, Profile, CreateToken, Consume, Serve, fileVars
<1>7. ASSUME NEW i \in DOMAIN index, Expire(i) PROVE Len(index') = Len(index)
  BY <1>7, ExpireGrows
<1>8. ASSUME Crash \/ (\E t \in tokens : TokenExpires(t)) \/ UNCHANGED vars
      PROVE  Len(index') = Len(index)
  BY <1>8 DEF Crash, TokenExpires, vars, fileVars
<1> QED BY <1>1, <1>4, <1>5, <1>6, <1>7, <1>8 DEF Next

LEMMA UniqueInvStep ==
    ASSUME TypeInv, UniqueInv, [Next]_vars
    PROVE  UniqueInv'
BY RowsStay, RowAdded, SameRows, NewRow DEF TypeInv

LEMMA UniqueInvInit == Init => UniqueInv
BY DEF Init, UniqueInv

\* In the index ix, the user has had a certificate of the name.
Had(u, cn, ix) == \E j \in 1..Len(ix) : ix[j].cn = cn /\ ix[j].by = u

Backed(om, ix) == \A cn \in CNs : om[cn] \in Users => Had(om[cn], cn, ix)

Asking == {"profile", "share", "token", "serve"}

Fine(x, ix) ==
    Backed(x.om, ix) /\ (x.pc \in Asking /\ x.user \in Users => Had(x.user, x.cn, ix))

NamesInv ==
    /\ Backed(owners, index)
    /\ \A r \in Requests : Fine(req[r], index)
    /\ \A t \in tokens : t.by \in Users => Had(t.by, t.cn, index)
    /\ OwnNames

LEMMA FineStays ==
    ASSUME IndexType, RowsGrow
    PROVE  /\ \A u, cn : Had(u, cn, index) => Had(u, cn, index')
           /\ \A om : Backed(om, index) => Backed(om, index')
           /\ \A x : Fine(x, index) => Fine(x, index')
<1>1. Len(index) \in Nat /\ Len(index') \in Nat
  BY DEF IndexType, RowsGrow
<1>2. \A u, cn : Had(u, cn, index) => Had(u, cn, index')
  BY <1>1 DEF Had, RowsGrow
<1>3. \A om : Backed(om, index) => Backed(om, index')
  BY <1>2 DEF Backed
<1> QED BY <1>2, <1>3 DEF Fine

LEMMA NoOwnersFine ==
    /\ \A ix : Backed(NoOwners, ix) /\ Fine(IdleRequest, ix)
    /\ \A ix, at, user, cn : at \notin Asking \/ user = Admin => Fine(Request(at, user, cn), ix)
BY CertsAssumption DEF NoOwners, Backed, Fine, IdleRequest, Request, Asking

LEMMA OwnNamesStays ==
    ASSUME IndexType, RowsGrow, HistType, OwnNames
    PROVE  \A p \in given : \E j \in 1..p[2] : index'[j].cn = index'[p[2]].cn /\ index'[j].by = p[1]
<1> SUFFICES ASSUME NEW p \in given
             PROVE  \E j \in 1..p[2] : index'[j].cn = index'[p[2]].cn /\ index'[j].by = p[1]
  OBVIOUS
<1>1. p[2] \in 1..Len(index) /\ Len(index) \in Nat
  BY DEF HistType, IndexType
<1>2. PICK j \in 1..p[2] : index[j].cn = index[p[2]].cn /\ index[j].by = p[1]
  BY DEF OwnNames
<1> QED BY <1>1, <1>2 DEF RowsGrow

\* A step of one request that hands out nothing.
LEMMA NamesMove ==
    ASSUME TypeInv, RowsGrow, NamesInv, NEW r \in Requests, NEW x, Fine(x, index'),
           req' = [req EXCEPT ![r] = x], UNCHANGED <<owners, given>>,
           \A t \in tokens' : t.by \in Users => Had(t.by, t.cn, index')
    PROVE  NamesInv'
<1>1. req \in [Requests -> ReqRecord] /\ IndexType /\ HistType
  BY DEF TypeInv, ReqType
<1>2. \A q \in Requests : Fine(req'[q], index')
  BY <1>1, FineStays DEF NamesInv
<1>3. Backed(owners', index') /\ OwnNames'
  BY <1>1, FineStays, OwnNamesStays DEF NamesInv, OwnNames
<1> QED BY <1>2, <1>3 DEF NamesInv

LEMMA NamesRest ==
    ASSUME TypeInv, RowsGrow, NamesInv, UNCHANGED <<owners, req, given>>,
           \A t \in tokens' : t.by \in Users => Had(t.by, t.cn, index')
    PROVE  NamesInv'
<1>1. IndexType /\ HistType
  BY DEF TypeInv
<1>2. \A q \in Requests : Fine(req'[q], index')
  BY <1>1, FineStays DEF NamesInv
<1>3. Backed(owners', index') /\ OwnNames'
  BY <1>1, FineStays, OwnNamesStays DEF NamesInv, OwnNames
<1> QED BY <1>2, <1>3 DEF NamesInv

\* What a request that may ask is handed is of a name it had.
LEMMA Delivered ==
    ASSUME TypeInv, RowsGrow, UniqueInv, NamesInv, NEW r \in Requests, req[r].pc \in Asking,
           Deliver(req[r].cn, req[r].user), End(r), UNCHANGED <<index, owners, tokens>>
    PROVE  NamesInv'
<1>1. /\ req \in [Requests -> ReqRecord] /\ IndexType /\ HistType /\ Grounded(req[r], index, lastToken)
      /\ DOMAIN index = 1..Len(index) /\ Len(index) \in Nat
  BY IndexFacts DEF TypeInv, ReqType
<1>2. \A q \in Requests : Fine(req'[q], index')
  BY <1>1, NoOwnersFine DEF NamesInv, End
<1>3. ASSUME NEW p \in given' PROVE \E j \in 1..p[2] : index[j].cn = index[p[2]].cn /\ index[j].by = p[1]
  <2>1. CASE p \in given
    BY <2>1 DEF NamesInv, OwnNames
  <2>2. CASE p \notin given
    <3>1. PICK u \in {req[r].user} \ {Admin}, i \in Valid(req[r].cn) : p = <<u, i>>
      BY <1>3, <2>2 DEF Deliver
    <3>2. u \in Users /\ u = req[r].user
      BY <1>1, <3>1 DEF Grounded, Actors, Asking
    <3>3. i \in 1..Len(index) /\ index[i].status = "V" /\ index[i].cn = req[r].cn
      BY <1>1, <3>1 DEF Valid, Rows
    <3>4. PICK j \in 1..Len(index) : index[j].cn = req[r].cn /\ index[j].by = u
      BY <3>2 DEF NamesInv, Fine, Had
    <3>5. j <= i
      BY <1>1, <3>3, <3>4 DEF UniqueInv
    <3> QED BY <1>1, <3>1, <3>3, <3>4, <3>5
  <2> QED BY <2>1, <2>2
<1>4. OwnNames'
  BY <1>3 DEF OwnNames
<1> QED BY <1>2, <1>4 DEF NamesInv

LEMMA NamesInvStep ==
    ASSUME TypeInv, UniqueInv, NamesInv, [Next]_vars
    PROVE  NamesInv'
<1>0. /\ IndexType /\ ReqType /\ RowsGrow /\ HistType /\ req \in [Requests -> ReqRecord]
      /\ Admin \notin Users /\ owners \in [CNs -> Owners]
  BY RowsStay, CertsAssumption DEF TypeInv, ReqType, FileType
<1>a. /\ \A t \in tokens : t.by \in Users => Had(t.by, t.cn, index')
      /\ \A q \in Requests : Fine(req[q], index')
      /\ Backed(owners, index')
  BY <1>0, FineStays DEF NamesInv
\* Steps that end a request, or move it to a state that asks for nothing.
<1>1. ASSUME NEW r \in Requests, End(r), UNCHANGED <<owners, tokens, given>> PROVE NamesInv'
  BY <1>0, <1>1, <1>a, NamesMove, NoOwnersFine DEF End
<1>2. ASSUME NEW r \in Requests, NEW at,
             \/ at \notin Asking
             \/ req[r].pc \in Asking
             \/ owners[req[r].cn] = req[r].user /\ req[r].pc # "idle",
             GoTo(r, at), UNCHANGED <<owners, tokens, given>>
      PROVE  NamesInv'
  <2> DEFINE x == [req[r] EXCEPT !.pc = at]
  <2>1. x.pc = at /\ x.user = req[r].user /\ x.cn = req[r].cn /\ x.om = req[r].om
    BY <1>0 DEF ReqRecord
  <2>2. req' = [req EXCEPT ![r] = x]
    BY <1>2 DEF GoTo
  <2> HIDE DEF x
  <2>3. owners[req[r].cn] = req[r].user /\ req[r].pc # "idle" /\ req[r].user \in Users
           => Had(req[r].user, req[r].cn, index')
    BY <1>0, <1>a, BusyFacts DEF Backed, At
  <2>4. Fine(x, index')
    BY <1>2, <1>a, <2>1, <2>3 DEF Fine
  <2> QED BY <1>0, <1>2, <1>a, <2>2, <2>4, NamesMove
<1>3. ASSUME NEW r \in Requests, BeginSome(r) PROVE NamesInv'
  <2>1. PICK user \in Actors, cn \in CNs, op \in OpKinds, at \in States :
           Begin(r, op, user, cn, at) /\ (at \notin Asking \/ user = Admin)
    BY <1>3 DEF BeginSome, BeginCreate, BeginRevoke, BeginProfile, BeginShare, MineAt, OpKinds, States,
       Asking
  <2>2. req' = [req EXCEPT ![r] = Request(at, user, cn)] /\ UNCHANGED <<owners, tokens, given>>
    BY <2>1 DEF Begin, fileVars, tokenVars
  <2> QED BY <1>0, <1>a, <2>1, <2>2, NamesMove, NoOwnersFine
<1>4. ASSUME NEW r \in Requests, Build(r) PROVE NamesInv'
  <2>1. CASE Held(req[r].cn)
    BY <1>1, <1>4, <2>1 DEF Build, tokenVars, histVars
  <2>2. CASE ~Held(req[r].cn)
    <3> DEFINE x == [req[r] EXCEPT !.pc = "own", !.serial = Len(index) + 1]
    <3>1. req' = [req EXCEPT ![r] = x] /\ UNCHANGED <<owners, tokens, given>>
      BY <1>4, <2>2 DEF Build, tokenVars, histVars
    <3>2. x.pc = "own" /\ x.om = req[r].om
      BY <1>0 DEF ReqRecord
    <3> HIDE DEF x
    <3>3. Fine(x, index')
      BY <1>a, <3>2 DEF Fine, Asking
    <3> QED BY <1>0, <1>a, <3>1, <3>3, NamesMove
  <2> QED BY <2>1, <2>2
<1>5. ASSUME NEW r \in Requests, ReadOwners(r) PROVE NamesInv'
  <2>1. PICK om \in {owners, NoOwners} : req' = [req EXCEPT ![r].pc = "save", ![r].om = om]
    BY <1>5 DEF ReadOwners
  <2> DEFINE x == [req[r] EXCEPT !.pc = "save", !.om = om]
  <2>2. req' = [req EXCEPT ![r] = x] /\ UNCHANGED <<owners, tokens, given>>
    BY <1>5, <2>1 DEF ReadOwners, fileVars, tokenVars, histVars
  <2>3. x.pc = "save" /\ x.om = om
    BY <1>0 DEF ReqRecord
  <2> HIDE DEF x
  <2>4. Fine(x, index')
    BY <1>a, <2>3, NoOwnersFine DEF Fine, Asking
  <2> QED BY <1>0, <1>a, <2>2, <2>4, NamesMove
<1>6. ASSUME NEW r \in Requests, SaveOwners(r) PROVE NamesInv'
  <2>1. CASE UNCHANGED owners
    BY <1>1, <1>6, <2>1 DEF SaveOwners, tokenVars
  <2>2. CASE owners' = [req[r].om EXCEPT ![req[r].cn] = req[r].user]
    <3>1. /\ req[r].om \in [CNs -> Owners] /\ req[r].cn \in CNs
          /\ Had(req[r].user, req[r].cn, index)
      BY <1>0, <1>6 DEF SaveOwners, At, ReqType, ReqRecord, Grounded, Had
    <3>2. \A cn \in CNs : owners'[cn] = IF cn = req[r].cn THEN req[r].user ELSE req[r].om[cn]
      BY <2>2, <3>1
    <3>3. Had(req[r].user, req[r].cn, index') /\ Backed(req[r].om, index')
      BY <1>0, <1>a, <3>1, FineStays DEF Fine
    <3>4. Backed(owners', index')
      BY <3>2, <3>3 DEF Backed
    <3>5. \A q \in Requests : Fine(req'[q], index')
      BY <1>0, <1>6, <1>a, NoOwnersFine DEF SaveOwners, End
    <3>6. UNCHANGED <<tokens, given>>
      BY <1>6 DEF SaveOwners, tokenVars
    <3>7. OwnNames'
      BY <1>0, <3>6, OwnNamesStays DEF NamesInv, OwnNames
    <3> QED BY <1>a, <3>4, <3>5, <3>6, <3>7 DEF NamesInv
  <2> QED BY <1>6, <2>1, <2>2 DEF SaveOwners
<1>7. ASSUME NEW r \in Requests, CreateStep(r) PROVE NamesInv'
  BY <1>1, <1>2, <1>4, <1>5, <1>6, <1>7
  DEF CreateStep, CheckQuota, Lookup, BuildFails, Asking, fileVars, tokenVars, histVars
<1>8. ASSUME NEW r \in Requests, RevokeCert(r) PROVE NamesInv'
  <2>1. CASE ~Held(req[r].cn)
    BY <1>1, <1>8, <2>1 DEF RevokeCert, tokenVars, histVars
  <2>2. CASE Held(req[r].cn)
    <3>1. PICK i \in Rows(req[r].cn) : req' = [req EXCEPT ![r].pc = "gencrl", ![r].serial = i]
      BY <1>8, <2>2 DEF RevokeCert
    <3> DEFINE x == [req[r] EXCEPT !.pc = "gencrl", !.serial = i]
    <3>2. req' = [req EXCEPT ![r] = x] /\ UNCHANGED <<owners, tokens, given>>
      BY <1>8, <3>1 DEF RevokeCert, tokenVars, histVars
    <3>3. x.pc = "gencrl" /\ x.om = req[r].om
      BY <1>0 DEF ReqRecord
    <3> HIDE DEF x
    <3>4. Fine(x, index')
      BY <1>a, <3>3 DEF Fine, Asking
    <3> QED BY <1>0, <1>a, <3>2, <3>4, NamesMove
  <2> QED BY <2>1, <2>2
<1>9. ASSUME NEW r \in Requests, ReadCRL(r) PROVE NamesInv'
  <2> DEFINE x == [req[r] EXCEPT !.pc = "write", !.crl = crlPki]
  <2>1. req' = [req EXCEPT ![r] = x] /\ UNCHANGED <<owners, tokens, given>>
    BY <1>9 DEF ReadCRL, fileVars, tokenVars, histVars
  <2>2. x.pc = "write" /\ x.om = req[r].om
    BY <1>0 DEF ReqRecord
  <2> HIDE DEF x
  <2>3. Fine(x, index')
    BY <1>a, <2>2 DEF Fine, Asking
  <2> QED BY <1>0, <1>a, <2>1, <2>3, NamesMove
<1>10. ASSUME NEW r \in Requests, RevokeStep(r) PROVE NamesInv'
  BY <1>1, <1>2, <1>8, <1>9, <1>10
  DEF RevokeStep, RequireOwnCert, CheckValid, RevokeCertFails, GenCRL, WriteCRL, Asking, fileVars,
      tokenVars, histVars
<1>11. ASSUME NEW r \in Requests, CreateToken(r) PROVE NamesInv'
  <2>1. req[r].user \in Users => Had(req[r].user, req[r].cn, index')
    BY <1>11, <1>a DEF CreateToken, At, Fine, Asking
  <2>2. \A t \in tokens' : t \in tokens \/ (t.by = req[r].user /\ t.cn = req[r].cn)
    BY <1>11 DEF CreateToken
  <2>3. \A t \in tokens' : t.by \in Users => Had(t.by, t.cn, index')
    BY <1>a, <2>1, <2>2
  <2>4. req' = [req EXCEPT ![r] = IdleRequest] /\ UNCHANGED <<owners, given>>
    BY <1>11 DEF CreateToken, End, fileVars, histVars
  <2> QED BY <1>0, <2>3, <2>4, NamesMove, NoOwnersFine
<1>12. ASSUME NEW r \in Requests, NEW t \in tokens, Consume(r, t) PROVE NamesInv'
  <2>0. tokens' \subseteq tokens /\ UNCHANGED <<owners, given>>
    BY <1>12 DEF Consume, fileVars, histVars
  <2>1. CASE t.expired
    BY <1>0, <1>12, <1>a, <2>0, <2>1, NamesRest DEF Consume
  <2>2. CASE ~t.expired
    <3> DEFINE x == [Request("serve", t.by, t.cn) EXCEPT !.serial = t.id]
    <3>1. req' = [req EXCEPT ![r] = x]
      BY <1>12, <2>2 DEF Consume
    <3>2. x.pc = "serve" /\ x.user = t.by /\ x.cn = t.cn /\ x.om = NoOwners
      BY DEF Request
    <3> HIDE DEF x
    <3>3. Fine(x, index')
      BY <1>a, <3>2, NoOwnersFine DEF Fine
    <3> QED BY <1>0, <1>a, <2>0, <3>1, <3>3, NamesMove
  <2> QED BY <2>1, <2>2
<1>13. ASSUME NEW r \in Requests, Profile(r) \/ Serve(r) PROVE NamesInv'
  BY <1>0, <1>13, Delivered DEF Profile, Serve, At, Asking, fileVars, tokenVars
<1>14. ASSUME NEW r \in Requests,
              \/ RequireOwnCert(r, "profileMine", "profile") \/ RequireOwnCert(r, "shareMine", "share")
              \/ CheckValid(r, "share", "token")
       PROVE  NamesInv'
  BY <1>1, <1>2, <1>14 DEF RequireOwnCert, CheckValid, At, Asking, fileVars, tokenVars, histVars
<1>15. ASSUME NEW r \in Requests, ShareStep(r) PROVE NamesInv'
  BY <1>11, <1>12, <1>13, <1>14, <1>15 DEF ShareStep
<1>16. ASSUME NEW t \in tokens, TokenExpires(t) PROVE NamesInv'
  <2>1. [t EXCEPT !.expired = TRUE].by = t.by /\ [t EXCEPT !.expired = TRUE].cn = t.cn
    BY DEF TypeInv, TokenType, Token
  <2>2. \A s \in tokens' : s.by \in Users => Had(s.by, s.cn, index')
    BY <1>16, <1>a, <2>1 DEF TokenExpires
  <2> QED BY <1>0, <1>16, <2>2, NamesRest DEF TokenExpires, fileVars, histVars
<1>17. ASSUME NEW i \in DOMAIN index, Expire(i) PROVE NamesInv'
  BY <1>0, <1>17, <1>a, NamesRest DEF Expire, tokenVars, histVars
<1>18. CASE Crash
  <2>1. \A q \in Requests : Fine(req'[q], index')
    BY <1>18, NoOwnersFine DEF Crash
  <2>2. OwnNames' /\ Backed(owners', index')
    BY <1>0, <1>18, <1>a, OwnNamesStays DEF Crash, NamesInv, OwnNames, fileVars, histVars
  <2> QED BY <1>18, <2>1, <2>2 DEF Crash, NamesInv
<1>19. CASE UNCHANGED vars
  BY <1>0, <1>19, <1>a, NamesRest DEF vars, fileVars, tokenVars, histVars
<1> QED BY <1>3, <1>7, <1>10, <1>15, <1>16, <1>17, <1>18, <1>19 DEF Next

\* Directly or through a shared link, a sub-user gets only profiles of names it had a
\* certificate of its own of before: whatever is asked at the same time, whatever fails,
\* and even when the owners file is lost, goes unsaved or outlives the certificate.
THEOREM NamesOwned == Spec => []OwnNames
<1>1. Init => NamesInv
  BY IdleFine, NoOwnersFine DEF Init, NamesInv, OwnNames
<1>2. TypeInv /\ UniqueInv /\ NamesInv /\ [Next]_vars => NamesInv'
  BY NamesInvStep
<1>3. TypeInv /\ UniqueInv /\ [Next]_vars => UniqueInv'
  BY UniqueInvStep
<1>4. NamesInv => OwnNames
  BY DEF NamesInv
<1> QED BY <1>1, <1>2, <1>3, <1>4, UniqueInvInit, TypeInit, TypeStep, PTL DEF Spec

-------------------------------------------------------------------------------
(* The quota. What a user may have valid in its name is what it has and what     *)
(* recordOwner is about to give it; a creation past the check will add one.       *)

Owning(r) == req[r].pc \in {"own", "save"}
Passed(r) == req[r].pc \in {"lookup", "build"}

Pending(u) == {r \in Requests : Owning(r) /\ req[r].user = u}
Coming(u) == {r \in Requests : Passed(r) /\ req[r].user = u}
Having(u) ==
    {i \in 1..Len(index) :
        /\ index[i].status = "V" /\ index[i].by = u
        /\ owners[index[i].cn] = u \/ \E r \in Pending(u) : req[r].cn = index[i].cn}

QuotaInv ==
    /\ peak \in Nat /\ Cardinality(Creating) <= peak
    /\ \A u \in Users : Cardinality(Having(u)) + Cardinality(Coming(u)) <= CertLimit + peak - 1

LEMMA QuotaFinite ==
    ASSUME IndexType
    PROVE  /\ IsFiniteSet(Creating) /\ Cardinality(Creating) \in Nat
           /\ \A u : /\ IsFiniteSet(Having(u)) /\ Cardinality(Having(u)) \in Nat
                     /\ IsFiniteSet(Coming(u)) /\ Cardinality(Coming(u)) \in Nat
                     /\ IsFiniteSet(Pending(u)) /\ Cardinality(Pending(u)) \in Nat
<1>1. IsFiniteSet(Requests)
  BY CertsAssumption
<1>2. IsFiniteSet(1..Len(index))
  BY FS_Interval DEF IndexType
<1>3. \A S \in SUBSET Requests : IsFiniteSet(S) /\ Cardinality(S) \in Nat
  BY <1>1, FS_Subset, FS_CardinalityType
<1>4. \A S \in SUBSET (1..Len(index)) : IsFiniteSet(S) /\ Cardinality(S) \in Nat
  BY <1>2, FS_Subset, FS_CardinalityType
<1>5. /\ Creating \in SUBSET Requests
      /\ \A u : Having(u) \in SUBSET (1..Len(index)) /\ Coming(u) \in SUBSET Requests
                /\ Pending(u) \in SUBSET Requests
  BY DEF Creating, Having, Coming, Pending
<1> QED BY <1>3, <1>4, <1>5

\* Of the requests, those that create come from creating, those past the check or in
\* recordOwner from there, for the same user and name.
NoneEnters ==
    \A q \in Requests :
        /\ req'[q].pc \in {"quota", "lookup", "build", "own", "save"}
              => req[q].pc \in {"quota", "lookup", "build", "own", "save"}
        /\ req'[q].pc \in {"own", "save"}
              => Owning(q) /\ req'[q].user = req[q].user /\ req'[q].cn = req[q].cn
        /\ req'[q].pc \in {"lookup", "build"} /\ req'[q].user \in Users
              => Passed(q) /\ req'[q].user = req[q].user

LEMMA NoneEntersEnd ==
    ASSUME ReqType, NEW r \in Requests, End(r)
    PROVE  NoneEnters
<1>1. \A q \in Requests : req'[q] = req[q] \/ req'[q].pc = "idle"
  BY IdleFine DEF ReqType, End
<1> QED BY <1>1 DEF NoneEnters, Owning, Passed

LEMMA NoneEntersGo ==
    ASSUME ReqType, NEW r \in Requests,
           NEW at \in States \ {"quota", "lookup", "build", "own", "save"}, GoTo(r, at)
    PROVE  NoneEnters
<1>1. \A q \in Requests : req'[q] = req[q] \/ req'[q].pc = at
  BY DEF ReqType, ReqRecord, GoTo
<1> QED BY <1>1 DEF NoneEnters, Owning, Passed

\* A set of a user's certificates or requests that does not grow keeps the bound.
LEMMA QuotaKeeps ==
    ASSUME IndexType, IndexType', QuotaInv, peak' \in Nat, peak <= peak',
           Cardinality(Creating)' <= peak',
           \A u \in Users : Having(u)' \subseteq Having(u) /\ Coming(u)' \subseteq Coming(u)
    PROVE  QuotaInv'
<1> SUFFICES ASSUME NEW u \in Users
             PROVE  (Cardinality(Having(u)) + Cardinality(Coming(u)) <= CertLimit + peak - 1)'
  BY DEF QuotaInv
<1>1. Cardinality(Having(u)') <= Cardinality(Having(u)) /\ Cardinality(Having(u)') \in Nat
  BY QuotaFinite, FS_Subset, FS_CardinalityType
<1>2. Cardinality(Coming(u)') <= Cardinality(Coming(u)) /\ Cardinality(Coming(u)') \in Nat
  BY QuotaFinite, FS_Subset, FS_CardinalityType
<1>3. Cardinality(Having(u)) \in Nat /\ Cardinality(Coming(u)) \in Nat /\ CertLimit \in Nat
  BY QuotaFinite, CertsAssumption
<1> QED BY <1>1, <1>2, <1>3 DEF QuotaInv

LEMMA CreatingShrinks ==
    ASSUME IndexType, NoneEnters
    PROVE  Cardinality(Creating') <= Cardinality(Creating) /\ Cardinality(Creating') \in Nat
<1>1. Creating' \in SUBSET Creating
  BY DEF Creating, NoneEnters
<1> QED BY <1>1, QuotaFinite, FS_Subset, FS_CardinalityType

\* No row, no owner and nobody new.
LEMMA QuotaFrame ==
    ASSUME TypeInv, RowsGrow, QuotaInv, NoneEnters, Len(index') = Len(index),
           UNCHANGED <<owners, peak>>
    PROVE  QuotaInv'
<1>0. IndexType /\ IndexType' /\ 1..Len(index) = 1..Len(index')
  BY DEF TypeInv, IndexType, RowsGrow
<1>1. \A u \in Users : Coming(u)' \subseteq Coming(u) /\ Pending(u)' \subseteq Pending(u)
  BY DEF NoneEnters, Coming, Pending, Passed, Owning
<1>2. ASSUME NEW u \in Users PROVE Having(u)' \subseteq Having(u)
  <2>1. \A q \in Pending(u)' : q \in Pending(u) /\ req'[q].cn = req[q].cn
    BY <1>1, <1>2 DEF NoneEnters, Pending, Owning
  <2>2. \A i \in 1..Len(index) :
            /\ index'[i].cn = index[i].cn /\ index'[i].by = index[i].by
            /\ index'[i].status = "V" => index[i].status = "V"
    BY DEF RowsGrow
  <2> QED BY <1>0, <2>1, <2>2 DEF Having
<1>3. Cardinality(Creating)' <= peak' /\ peak' \in Nat /\ peak <= peak'
  BY <1>0, CreatingShrinks, QuotaFinite DEF QuotaInv
<1> QED BY <1>0, <1>1, <1>2, <1>3, QuotaKeeps

\* Whoever passes the check was counted, and what the count missed is being recorded.
LEMMA Counted ==
    ASSUME TypeInv, UniqueInv, NEW u \in Users, CountOwnedValid(u) < CertLimit
    PROVE  Cardinality(Having(u)) <= CertLimit - 1 + Cardinality(Pending(u))
<1>0. /\ IndexType /\ DOMAIN index = 1..Len(index) /\ Len(index) \in Nat
      /\ IsFiniteSet(1..Len(index)) /\ CertLimit \in Nat
  BY IndexFacts, FS_Interval, CertsAssumption DEF TypeInv
<1> DEFINE C == {i \in DOMAIN index : index[i].status = "V" /\ owners[index[i].cn] = u}
           W == {i \in Having(u) : owners[index[i].cn] # u}
           f == [i \in W |-> CHOOSE r \in Pending(u) : req[r].cn = index[i].cn]
<1>1. IsFiniteSet(C) /\ Cardinality(C) \in Nat /\ Cardinality(C) < CertLimit
  <2>1. C \in SUBSET (1..Len(index))
    BY <1>0
  <2> QED BY <1>0, <2>1, FS_Subset, FS_CardinalityType DEF CountOwnedValid
<1>2. \A i \in W : f[i] \in Pending(u) /\ req[f[i]].cn = index[i].cn
  BY DEF Having
<1>3. \A i, j \in W : f[i] = f[j] => i = j
  <2>1. \A i \in W : i \in 1..Len(index) /\ index[i].status = "V"
    BY DEF Having
  <2>2. \A i, j \in W : index[i].cn = index[j].cn => i = j
    BY <1>0, <2>1 DEF UniqueInv
  <2> QED BY <1>2, <2>2
<1>4. f \in Injection(W, Pending(u))
  BY <1>2, <1>3 DEF Injection, IsInjective
<1>5. IsFiniteSet(W) /\ Cardinality(W) <= Cardinality(Pending(u)) /\ Cardinality(W) \in Nat
      /\ Cardinality(Pending(u)) \in Nat
  BY <1>0, <1>4, QuotaFinite, FS_Injection, FS_CardinalityType
<1>6. Having(u) \in SUBSET (C \union W)
  BY <1>0 DEF Having
<1> HIDE DEF C, W, f
<1>7. Cardinality(C \union W) <= Cardinality(C) + Cardinality(W) /\ IsFiniteSet(C \union W)
      /\ Cardinality(C \union W) \in Nat
  <2>1. IsFiniteSet(C \union W) /\ IsFiniteSet(C \cap W)
        /\ Cardinality(C \union W) = Cardinality(C) + Cardinality(W) - Cardinality(C \cap W)
    BY <1>1, <1>5, FS_Union, FS_Intersection
  <2>2. Cardinality(C \cap W) \in Nat /\ Cardinality(C \union W) \in Nat
    BY <2>1, FS_CardinalityType
  <2> QED BY <1>1, <1>5, <2>1, <2>2
<1>8. Cardinality(Having(u)) <= Cardinality(C \union W) /\ Cardinality(Having(u)) \in Nat
  BY <1>0, <1>6, <1>7, FS_Subset, QuotaFinite
<1> QED BY <1>0, <1>1, <1>5, <1>7, <1>8

LEMMA Disjoint ==
    ASSUME IndexType, NEW r \in Requests, At(r, "quota"), NEW u
    PROVE  /\ Cardinality(Coming(u)) + Cardinality(Pending(u)) + 1 <= Cardinality(Creating)
           /\ Cardinality(Coming(u) \union {r}) = Cardinality(Coming(u)) + 1
           /\ IsFiniteSet(Coming(u) \union {r})
<1>0. r \notin Coming(u) /\ r \notin Pending(u) /\ Coming(u) \cap Pending(u) = {}
  BY DEF Coming, Pending, Passed, Owning, At
<1>1. /\ IsFiniteSet(Coming(u)) /\ IsFiniteSet(Pending(u)) /\ IsFiniteSet(Creating)
      /\ Cardinality(Coming(u)) \in Nat /\ Cardinality(Pending(u)) \in Nat
  BY QuotaFinite
<1>2. IsFiniteSet(Coming(u) \union Pending(u))
      /\ Cardinality(Coming(u) \union Pending(u)) = Cardinality(Coming(u)) + Cardinality(Pending(u))
  BY <1>0, <1>1, FS_Union, FS_EmptySet
<1>3. Cardinality((Coming(u) \union Pending(u)) \union {r})
         = Cardinality(Coming(u)) + Cardinality(Pending(u)) + 1
  BY <1>0, <1>2, FS_AddElement
<1>4. ((Coming(u) \union Pending(u)) \union {r}) \in SUBSET Creating
  BY DEF Coming, Pending, Passed, Owning, Creating, At
<1>5. Cardinality((Coming(u) \union Pending(u)) \union {r}) <= Cardinality(Creating)
  BY <1>1, <1>4, FS_Subset
<1> QED BY <1>0, <1>1, <1>3, <1>5, FS_AddElement

LEMMA QuotaPassed ==
    ASSUME TypeInv, UniqueInv, QuotaInv, NEW r \in Requests, At(r, "quota"), req[r].user \in Users,
           CountOwnedValid(req[r].user) < CertLimit, GoTo(r, "lookup"),
           UNCHANGED <<index, owners, peak>>
    PROVE  QuotaInv'
<1>0. req \in [Requests -> ReqRecord] /\ IndexType /\ CertLimit \in Nat
  BY CertsAssumption DEF TypeInv, ReqType
<1>1. \A q \in Requests : IF q = r THEN /\ req'[q].pc = "lookup" /\ req'[q].user = req[q].user
                                         /\ req'[q].cn = req[q].cn /\ req[q].pc = "quota"
                                    ELSE req'[q] = req[q]
  BY <1>0 DEF GoTo, ReqRecord, At
<1>2. Creating' = Creating
  BY <1>1 DEF Creating
<1>3. \A u : Pending(u)' = Pending(u)
  BY <1>1 DEF Pending, Owning
<1>4. \A u : Having(u)' = Having(u)
  <2>1. \A u : \A q \in Pending(u) : req'[q].cn = req[q].cn
    BY <1>1 DEF Pending
  <2> QED BY <1>3, <2>1 DEF Having
<1>5. ASSUME NEW u \in Users
      PROVE  Cardinality(Having(u)') + Cardinality(Coming(u)') <= CertLimit + peak' - 1
  <2>1. CASE u = req[r].user
    <3>1. Coming(u)' = Coming(u) \union {r}
      BY <1>1, <2>1 DEF Coming, Passed
    <3>2. Cardinality(Having(u)) <= CertLimit - 1 + Cardinality(Pending(u))
      BY <2>1, Counted
    <3>3. /\ Cardinality(Having(u)) \in Nat /\ Cardinality(Pending(u)) \in Nat
          /\ Cardinality(Coming(u)) \in Nat /\ Cardinality(Creating) \in Nat
      BY <1>0, QuotaFinite
    <3> QED BY <1>0, <1>4, <3>1, <3>2, <3>3, Disjoint DEF QuotaInv
  <2>2. CASE u # req[r].user
    <3>1. Coming(u)' = Coming(u)
      BY <1>1, <2>2 DEF Coming, Passed
    <3> QED BY <1>4, <3>1 DEF QuotaInv
  <2> QED BY <2>1, <2>2
<1> QED BY <1>2, <1>5 DEF QuotaInv

\* A new certificate takes the place of the creation that made it.
LEMMA QuotaIssued ==
    ASSUME TypeInv, QuotaInv, NEW r \in Requests, At(r, "build"), Len(index) < MaxSerial,
           index' = Issued(r), ~Held(req[r].cn), UNCHANGED <<owners, peak>>,
           req' = [req EXCEPT ![r].pc = "own", ![r].serial = Len(index) + 1] \/ End(r)
    PROVE  QuotaInv'
<1>0. /\ req \in [Requests -> ReqRecord] /\ IndexType /\ ReqType /\ CertLimit \in Nat
      /\ DOMAIN index = 1..Len(index) /\ Len(index) \in Nat
  BY IndexFacts, CertsAssumption DEF TypeInv, ReqType
<1>1. /\ RowsGrow /\ Len(index') = Len(index) + 1 /\ \A i \in 1..Len(index) : index'[i] = index[i]
      /\ index'[Len(index) + 1] = [cn |-> req[r].cn, status |-> "V", by |-> req[r].user]
  BY <1>0, IssuedGrows
<1>2. \A q \in Requests :
          IF q = r
          THEN \/ req'[q].pc = "own" /\ req'[q].user = req[q].user /\ req'[q].cn = req[q].cn
               \/ req'[q].pc = "idle"
          ELSE req'[q] = req[q]
  BY <1>0, IdleFine DEF ReqRecord, End
<1>3. Creating' \in SUBSET Creating
  BY <1>2 DEF Creating, At
<1>4. \A u : Coming(u)' = Coming(u) \ {r}
  BY <1>2 DEF Coming, Passed
<1>5. ASSUME NEW u, NEW i \in 1..Len(index), i \in Having(u)' PROVE i \in Having(u)
  <2>1. index[i].status = "V" /\ index[i].by = u
    BY <1>1, <1>5 DEF Having
  <2>2. index[i].cn # req[r].cn
    BY <1>0, <2>1 DEF Held, Rows
  <2>3. ASSUME NEW q \in Requests, q \in Pending(u)', req'[q].cn = index[i].cn
        PROVE  q \in Pending(u) /\ req[q].cn = index[i].cn
    BY <1>2, <2>2, <2>3 DEF Pending, Owning
  <2>4. owners'[index'[i].cn] = u \/ \E q \in Pending(u)' : req'[q].cn = index'[i].cn
    BY <1>5 DEF Having
  <2>5. Pending(u)' \subseteq Requests /\ index'[i].cn = index[i].cn
    BY <1>1 DEF Pending
  <2>6. owners[index[i].cn] = u \/ \E q \in Pending(u) : req[q].cn = index[i].cn
    BY <2>3, <2>4, <2>5
  <2> QED BY <2>1, <2>6 DEF Having
<1>6. ASSUME NEW u, NEW i \in Having(u)'
      PROVE  i \in Having(u) \/ (i = Len(index) + 1 /\ u = req[r].user)
  <2>1. i \in 1..Len(index') /\ index'[i].by = u
    BY <1>6 DEF Having
  <2>2. i \in 1..Len(index) \/ i = Len(index) + 1
    BY <1>0, <1>1, <2>1
  <2>3. index'[Len(index) + 1].by = req[r].user
    BY <1>1
  <2> QED BY <1>5, <1>6, <2>1, <2>2, <2>3
<1>7. ASSUME NEW u \in Users
      PROVE  Cardinality(Having(u)') + Cardinality(Coming(u)') <= CertLimit + peak' - 1
  <2>0. /\ IsFiniteSet(Having(u)) /\ IsFiniteSet(Coming(u))
        /\ Cardinality(Having(u)) \in Nat /\ Cardinality(Coming(u)) \in Nat
    BY <1>0, QuotaFinite
  <2>1. CASE u = req[r].user
    <3>1. r \in Coming(u)
      BY <2>1 DEF Coming, Passed, At
    <3>2. Cardinality(Coming(u)') = Cardinality(Coming(u)) - 1
      BY <1>4, <2>0, <3>1, FS_RemoveElement
    <3>3. Having(u)' \in SUBSET (Having(u) \union {Len(index) + 1})
      BY <1>6
    <3>4. /\ IsFiniteSet(Having(u) \union {Len(index) + 1})
          /\ Cardinality(Having(u) \union {Len(index) + 1}) <= Cardinality(Having(u)) + 1
          /\ Cardinality(Having(u) \union {Len(index) + 1}) \in Nat
      BY <2>0, FS_AddElement
    <3>5. /\ Cardinality(Having(u)') <= Cardinality(Having(u) \union {Len(index) + 1})
          /\ Cardinality(Having(u)') \in Nat
      BY <3>3, <3>4, FS_Subset, FS_CardinalityType
    <3> QED BY <1>0, <2>0, <3>2, <3>4, <3>5 DEF QuotaInv
  <2>2. CASE u # req[r].user
    <3>1. Having(u)' \in SUBSET Having(u)
      BY <1>6, <2>2
    <3>2. Coming(u)' = Coming(u)
      BY <1>4, <2>2 DEF Coming
    <3>3. Cardinality(Having(u)') <= Cardinality(Having(u)) /\ Cardinality(Having(u)') \in Nat
      BY <2>0, <3>1, FS_Subset, FS_CardinalityType
    <3> QED BY <1>0, <2>0, <3>2, <3>3 DEF QuotaInv
  <2> QED BY <2>1, <2>2
<1>8. Cardinality(Creating') <= peak'
  BY <1>0, <1>3, QuotaFinite, FS_Subset, FS_CardinalityType DEF QuotaInv
<1> QED BY <1>7, <1>8 DEF QuotaInv

LEMMA QuotaSaved ==
    ASSUME TypeInv, OwnersInv, QuotaInv, NEW r \in Requests, SaveOwners(r)
    PROVE  QuotaInv'
<1>0. IndexType /\ ReqType /\ IndexType' /\ UNCHANGED <<index, peak>> /\ NoneEnters
      /\ req[r].om = owners
  BY NoneEntersEnd DEF TypeInv, IndexType, SaveOwners, OwnersInv
<1>1. \A u \in Users : Coming(u)' \subseteq Coming(u) /\ Pending(u)' \subseteq Pending(u)
  BY <1>0 DEF NoneEnters, Coming, Pending, Passed, Owning
<1>2. ASSUME NEW u \in Users, NEW i \in Having(u)' PROVE i \in Having(u)
  <2>1. i \in 1..Len(index) /\ index[i].status = "V" /\ index[i].by = u /\ index[i].cn \in CNs
    BY <1>0, <1>2, IndexFacts DEF Having
  <2>2. CASE \E q \in Pending(u)' : req'[q].cn = index'[i].cn
    <3>1. PICK q \in Pending(u)' : req'[q].cn = index'[i].cn
      BY <2>2
    <3>2. q \in Pending(u) /\ req'[q].cn = req[q].cn
      BY <1>0, <1>1, <3>1 DEF NoneEnters, Pending, Owning
    <3> QED BY <1>0, <2>1, <3>1, <3>2 DEF Having
  <2>3. CASE owners'[index'[i].cn] = u
    <3>1. owners[index[i].cn] = u \/ (index[i].cn = req[r].cn /\ req[r].user = u)
      BY <1>0, <2>1, <2>3, Saved
    <3>2. req[r].user = u => r \in Pending(u)
      BY DEF Pending, Owning, SaveOwners, At
    <3> QED BY <2>1, <3>1, <3>2 DEF Having
  <2> QED BY <1>2, <2>2, <2>3 DEF Having
<1>3. Cardinality(Creating)' <= peak' /\ peak' \in Nat /\ peak <= peak'
  BY <1>0, CreatingShrinks, QuotaFinite DEF QuotaInv
<1>4. \A u \in Users : Having(u)' \subseteq Having(u) /\ Coming(u)' \subseteq Coming(u)
  BY <1>1, <1>2
<1> QED BY <1>0, <1>3, <1>4, QuotaKeeps

LEMMA QuotaBegin ==
    ASSUME TypeInv, QuotaInv, NEW r \in Requests, BeginSome(r)
    PROVE  QuotaInv'
<1>1. PICK user \in Actors, cn \in CNs, op \in OpKinds, at \in States :
         /\ Begin(r, op, user, cn, at)
         /\ IF op = "create" THEN at = "quota" \/ (at = "lookup" /\ user = Admin)
            ELSE at \notin {"quota", "lookup", "build", "own", "save"}
  BY DEF BeginSome, BeginCreate, BeginRevoke, BeginProfile, BeginShare, MineAt, OpKinds, States
<1>0. /\ req \in [Requests -> ReqRecord] /\ IndexType /\ ReqType /\ IndexType' /\ Admin \notin Users
      /\ UNCHANGED <<index, owners>> /\ peak \in Nat
  BY <1>1, CertsAssumption DEF TypeInv, ReqType, IndexType, Begin, fileVars, QuotaInv
<1>2. \A q \in Requests : IF q = r THEN req'[q].pc = at /\ req'[q].user = user ELSE req'[q] = req[q]
  BY <1>0, <1>1 DEF Begin, Request
<1>3. Cardinality(Creating) \in Nat /\ IsFiniteSet(Creating) /\ Cardinality(Creating) <= peak
  BY <1>0, QuotaFinite DEF QuotaInv
<1>4. Cardinality(Creating') <= peak' /\ peak' \in Nat /\ peak <= peak'
  <2>1. CASE op = "create"
    <3>1. Creating' \in SUBSET (Creating \union {r})
      BY <1>2 DEF Creating
    <3>2. /\ IsFiniteSet(Creating \union {r}) /\ Cardinality(Creating \union {r}) \in Nat
          /\ Cardinality(Creating \union {r}) <= Cardinality(Creating) + 1
      <4>1. /\ IsFiniteSet(Creating \union {r})
            /\ \/ Cardinality(Creating \union {r}) = Cardinality(Creating)
               \/ Cardinality(Creating \union {r}) = Cardinality(Creating) + 1
        BY <1>3, FS_AddElement
      <4> QED BY <1>3, <4>1
    <3>3. Cardinality(Creating') <= Cardinality(Creating) + 1 /\ Cardinality(Creating') \in Nat
      BY <1>3, <3>1, <3>2, FS_Subset, FS_CardinalityType
    <3>4. peak' = IF Cardinality(Creating) >= peak THEN Cardinality(Creating) + 1 ELSE peak
      BY <1>1, <2>1 DEF Begin
    <3> QED BY <1>0, <1>3, <3>3, <3>4
  <2>2. CASE op # "create"
    <3>1. Creating' \in SUBSET Creating
      BY <1>1, <1>2, <2>2 DEF Creating
    <3>2. Cardinality(Creating') <= Cardinality(Creating) /\ Cardinality(Creating') \in Nat
      BY <1>3, <3>1, FS_Subset, FS_CardinalityType
    <3>3. peak' = peak
      BY <1>1, <2>2 DEF Begin
    <3> QED BY <1>0, <1>3, <3>2, <3>3
  <2> QED BY <2>1, <2>2
<1>5. ASSUME NEW u \in Users PROVE Having(u)' \subseteq Having(u) /\ Coming(u)' \subseteq Coming(u)
  <2>1. Coming(u)' \subseteq Coming(u)
    BY <1>0, <1>1, <1>2, <1>5 DEF Coming, Passed
  <2>2. \A q \in Pending(u)' : q \in Pending(u) /\ req'[q].cn = req[q].cn
    BY <1>1, <1>2 DEF Pending, Owning
  <2> QED BY <1>0, <2>1, <2>2 DEF Having
<1> QED BY <1>0, <1>4, <1>5, QuotaKeeps

LEMMA QuotaInvStep ==
    ASSUME "load" \notin Faults, TypeInv, OwnersInv, UniqueInv, QuotaInv, [Next]_vars
    PROVE  QuotaInv'
<1>0. /\ IndexType /\ ReqType /\ RowsGrow /\ req \in [Requests -> ReqRecord]
      /\ CertLimit \in Nat /\ Admin \notin Users
  BY RowsStay, CertsAssumption DEF TypeInv, ReqType
<1>a. \A u : CountOwnedValid(u) \in Nat
  <2>1. IsFiniteSet(1..Len(index)) /\ DOMAIN index = 1..Len(index)
    <3>1. DOMAIN index = 1..Len(index) /\ Len(index) \in Nat
      BY <1>0, IndexFacts
    <3> QED BY <3>1, FS_Interval
  <2>2. \A u : {i \in DOMAIN index : index[i].status = "V" /\ owners[index[i].cn] = u}
                  \in SUBSET (1..Len(index))
    BY <2>1
  <2> QED BY <2>1, <2>2, FS_Subset, FS_CardinalityType DEF CountOwnedValid
<1> USE NoneEntersEnd, NoneEntersGo
<1>1. ASSUME NoneEnters, Len(index') = Len(index), UNCHANGED <<owners, peak>> PROVE QuotaInv'
  BY <1>0, <1>1, QuotaFrame
<1>2. ASSUME NEW r \in Requests, CheckQuota(r) PROVE QuotaInv'
  <2>1. UNCHANGED <<index, owners, peak>> /\ At(r, "quota")
    BY <1>2 DEF CheckQuota, fileVars, histVars
  <2>2. CASE End(r)
    BY <1>0, <1>1, <2>1, <2>2
  <2>3. CASE GoTo(r, "lookup") /\ ~(CountOwnedValid(req[r].user) >= CertLimit)
    <3>1. CASE req[r].user \in Users
      BY <1>0, <1>a, <2>1, <2>3, <3>1, QuotaPassed
    <3>2. CASE req[r].user \notin Users
      <4>1. NoneEnters
        BY <1>0, <2>1, <2>3, <3>2 DEF GoTo, ReqRecord, At, NoneEnters, Owning, Passed
      <4> QED BY <1>1, <2>1, <4>1
    <3> QED BY <3>1, <3>2
  <2> QED BY <1>2, <2>2, <2>3 DEF CheckQuota
<1>3. ASSUME NEW r \in Requests, Lookup(r) PROVE QuotaInv'
  <2>1. UNCHANGED <<index, owners, peak>>
    BY <1>3 DEF Lookup, fileVars, histVars
  <2>2. NoneEnters
    <3>1. CASE End(r)
      BY <1>0, <3>1
    <3>2. CASE GoTo(r, "build")
      BY <1>0, <1>3, <3>2 DEF Lookup, GoTo, ReqRecord, At, NoneEnters, Owning, Passed
    <3> QED BY <1>3, <3>1, <3>2 DEF Lookup
  <2> QED BY <1>1, <2>1, <2>2
<1>4. ASSUME NEW r \in Requests, Build(r) \/ BuildFails(r) PROVE QuotaInv'
  <2>1. CASE UNCHANGED index /\ End(r)
    BY <1>0, <1>1, <1>4, <2>1 DEF Build, BuildFails, histVars
  <2>2. CASE ~(UNCHANGED index /\ End(r))
    BY <1>0, <1>4, <2>2, QuotaIssued DEF Build, BuildFails, histVars
  <2> QED BY <2>1, <2>2
<1>5. ASSUME NEW r \in Requests, ReadOwners(r) PROVE QuotaInv'
  <2>1. UNCHANGED <<index, owners, peak>>
    BY <1>5 DEF ReadOwners, fileVars, histVars
  <2>2. \A q \in Requests : \/ req'[q] = req[q]
                            \/ /\ req[q].pc = "own" /\ req'[q].pc = "save"
                               /\ req'[q].user = req[q].user /\ req'[q].cn = req[q].cn
    BY <1>0, <1>5 DEF ReadOwners, At, ReqRecord
  <2>3. NoneEnters
    BY <2>2 DEF NoneEnters, Owning, Passed
  <2> QED BY <1>1, <2>1, <2>3
<1>6. ASSUME NEW r \in Requests, CreateStep(r) PROVE QuotaInv'
  BY <1>2, <1>3, <1>4, <1>5, <1>6, QuotaSaved DEF CreateStep
<1>7. ASSUME NEW r \in Requests, RevokeCert(r) PROVE QuotaInv'
  <2>1. Len(index') = Len(index) /\ UNCHANGED <<owners, peak>>
    BY <1>0, <1>7, RevokedGrows DEF RevokeCert, histVars
  <2>2. CASE End(r)
    BY <1>0, <1>1, <2>1, <2>2
  <2>3. CASE ~End(r)
    <3>1. \A q \in Requests : req'[q] = req[q] \/ req'[q].pc = "gencrl"
      BY <1>0, <1>7, <2>3 DEF RevokeCert, ReqRecord
    <3>2. NoneEnters
      BY <3>1 DEF NoneEnters, Owning, Passed
    <3> QED BY <1>1, <2>1, <3>2
  <2> QED BY <2>2, <2>3
<1>8. ASSUME NEW r \in Requests, ReadCRL(r) PROVE QuotaInv'
  <2>1. \A q \in Requests : req'[q] = req[q] \/ req'[q].pc = "write"
    BY <1>0, <1>8 DEF ReadCRL, ReqRecord
  <2>2. NoneEnters
    BY <2>1 DEF NoneEnters, Owning, Passed
  <2> QED BY <1>1, <1>8, <2>2 DEF ReadCRL, fileVars, histVars
<1>9. ASSUME NEW r \in Requests, RevokeStep(r) PROVE QuotaInv'
  BY <1>0, <1>1, <1>7, <1>8, <1>9, RevokedGrows
  DEF RevokeStep, RequireOwnCert, CheckValid, RevokeCertFails, GenCRL, WriteCRL, States, fileVars,
      histVars
<1>10. ASSUME NEW r \in Requests, NEW t \in tokens, Consume(r, t) PROVE QuotaInv'
  <2>1. \A q \in Requests : req'[q] = req[q] \/ req'[q].pc = "serve"
    BY <1>0, <1>10 DEF Consume, Request
  <2>2. NoneEnters
    BY <2>1 DEF NoneEnters, Owning, Passed
  <2> QED BY <1>1, <1>10, <2>2 DEF Consume, fileVars, histVars
<1>11. ASSUME NEW r \in Requests, ShareStep(r) PROVE QuotaInv'
  BY <1>0, <1>1, <1>10, <1>11
  DEF ShareStep, RequireOwnCert, CheckValid, Profile, CreateToken, Serve, States, fileVars, histVars
<1>12. ASSUME UNCHANGED req PROVE NoneEnters
  BY <1>12 DEF NoneEnters, Owning, Passed
<1>13. ASSUME NEW i \in DOMAIN index, Expire(i) PROVE QuotaInv'
  BY <1>0, <1>1, <1>12, <1>13, ExpireGrows DEF Expire, histVars
<1>14. ASSUME Crash PROVE QuotaInv'
  <2>1. NoneEnters
    BY <1>14, IdleFine DEF Crash, NoneEnters
  <2> QED BY <1>1, <1>14, <2>1 DEF Crash, fileVars, histVars
<1>15. ASSUME UNCHANGED vars \/ \E t \in tokens : TokenExpires(t) PROVE QuotaInv'
  BY <1>1, <1>12, <1>15 DEF vars, TokenExpires, fileVars, histVars
<1> QED BY <1>6, <1>9, <1>11, <1>13, <1>14, <1>15, QuotaBegin DEF Next

LEMMA QuotaInit == Init => QuotaInv
<1> SUFFICES ASSUME Init PROVE QuotaInv
  OBVIOUS
<1>1. Len(index) = 0 /\ \A r \in Requests : req[r].pc = "idle"
  BY IdleFine DEF Init
<1>2. Creating = {} /\ \A u : Having(u) = {} /\ Coming(u) = {}
  BY <1>1 DEF Creating, Having, Coming, Passed
<1>3. Cardinality(Creating) = 0 /\ \A u : Cardinality(Having(u)) = 0 /\ Cardinality(Coming(u)) = 0
  BY <1>2, FS_EmptySet
<1>4. peak = 0 /\ CertLimit \in Nat /\ CertLimit >= 1
  BY CertsAssumption DEF Init
<1> QED BY <1>3, <1>4 DEF QuotaInv

\* While the owners file can be read, a sub-user never has more valid certificates of
\* its own making and in its name than its quota and one for every further creation in
\* flight: although the check counts names in a file that another creation writes only
\* after its build, whichever builds are killed, whichever saves fail, and whenever the
\* panel restarts in between.
THEOREM QuotaKept ==
    ASSUME "load" \notin Faults
    PROVE  Spec => []QuotaHolds
<1>1. TypeInv /\ OwnersInv /\ [Next]_vars => OwnersInv'
  BY OwnersInvStep
<1>2. TypeInv /\ UniqueInv /\ [Next]_vars => UniqueInv'
  BY UniqueInvStep
<1>3. TypeInv /\ OwnersInv /\ UniqueInv /\ QuotaInv /\ [Next]_vars => QuotaInv'
  BY QuotaInvStep
<1>4. TypeInv /\ QuotaInv => QuotaHolds
  <2> SUFFICES ASSUME TypeInv, QuotaInv, NEW u \in Users
               PROVE  Cardinality({i \in DOMAIN index : /\ index[i].status = "V" /\ index[i].by = u
                                                        /\ owners[index[i].cn] = u})
                         <= CertLimit + peak - 1
    BY DEF QuotaHolds
  <2>1. {i \in DOMAIN index : /\ index[i].status = "V" /\ index[i].by = u
                              /\ owners[index[i].cn] = u} \in SUBSET Having(u)
    BY IndexFacts DEF TypeInv, Having
  <2>2. IndexType /\ CertLimit \in Nat
    BY CertsAssumption DEF TypeInv
  <2> QED BY <2>1, <2>2, QuotaFinite, FS_Subset, FS_CardinalityType DEF QuotaInv
<1>5. Init => OwnersInv
  BY IdleFine DEF Init, OwnersInv, At
<1> QED BY <1>1, <1>2, <1>3, <1>4, <1>5, UniqueInvInit, QuotaInit, TypeInit, TypeStep, PTL DEF Spec

===============================================================================
