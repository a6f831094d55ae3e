----------------------------- MODULE NodeJoinProofs -----------------------------
(***************************************************************************)
(* Proofs about NodeJoin for every number of hosts, codes and joins, every set  *)
(* of failures and every bound: type correctness, one-time codes, unique         *)
(* entries, bindings that last and entries that answer.                           *)
(***************************************************************************)
EXTENDS NodeJoin, TLAPS

-------------------------------------------------------------------------------
(* Types, and what a join or a request relies on when n tokens exist.          *)

JoinStates == {"idle", "dial", "token", "restart", "post", "await", "bound", "failed", "killed"}
ReqStates == {"none", "consume", "ping", "add"}
Askers == Joiners \cup {Admin}

JoinRecord ==
    [pc : JoinStates, host : Hosts \cup {NoHost}, code : Codes \cup {NoCode}, token : Token,
     tries : 0..2]

ReqRecord ==
    [pc : ReqStates, host : Hosts \cup {NoHost}, name : Names \cup {NoName},
     code : Codes \cup {NoCode}, token : Token]

JoinFine(x, n) ==
    /\ IF x.pc = "idle" THEN x.host = NoHost ELSE x.host \in Hosts /\ x.code \in Codes
    /\ x.pc \in {"restart", "post", "await", "bound"} => x.token \in 1..n

ReqFine(q, x, n) ==
    IF x.pc = "none" THEN x = NoRequest
    ELSE /\ x.host \in Hosts /\ x.name \in Names /\ x.token \in 1..n
         /\ IF q = Admin THEN x.pc # "consume" ELSE x.code \in Codes

JoinType == join \in [Joiners -> JoinRecord] /\ \A j \in Joiners : JoinFine(join[j], tokens)
ReqType == req \in [Askers -> ReqRecord] /\ \A q \in Askers : ReqFine(q, req[q], tokens)
CodeType == code \in [Codes -> {"unused", "live", "expired", "gone"}]
EntryType == table \subseteq Entry /\ saved \subseteq Entry
ChildType == tokens \in Token /\ disk \in [Hosts -> Token] /\ running \in [Hosts -> Token]
JobType == job \in [Joiners -> {"none", "running", "success", "failed"}]

\* A shell that waits has its request at the master; before that it has none.
Paired ==
    \A j \in Joiners :
        /\ At(j, "await") =>
              /\ req[j].pc # "none"
              /\ req[j].host = join[j].host /\ req[j].token = join[j].token
        /\ join[j].pc \notin Over \cup {"await"} => req[j] = NoRequest

TypeInv == JoinType /\ ReqType /\ CodeType /\ EntryType /\ ChildType /\ JobType /\ Paired

JoinStep(j) == Dial(j) \/ GenToken(j) \/ Restart(j) \/ Post(j) \/ Lose(j) \/ Kill(j)

LEMMA Constants ==
    /\ MaxTokens \in Nat /\ Admin \notin Joiners /\ NoHost \notin Hosts /\ NoCode \notin Codes
    /\ 0 \in Token /\ \A n \in Token : n \in Nat /\ 1..n \subseteq Token
BY NodeAssumption DEF Token

LEMMA IdleFine ==
    /\ Idle \in JoinRecord /\ Idle.pc = "idle" /\ Idle.host = NoHost
    /\ NoRequest \in ReqRecord /\ NoRequest.pc = "none" /\ NoRequest.host = NoHost
    /\ \A n : JoinFine(Idle, n) /\ \A q : ReqFine(q, NoRequest, n)
BY Constants DEF Idle, NoRequest, JoinRecord, ReqRecord, JoinStates, ReqStates, JoinFine, ReqFine

\* The end of a request: the shell that waits for it, and no other, goes on.
LEMMA Answered ==
    ASSUME TypeInv, NEW q \in Askers, NEW status, Answer(q, status), req[q].pc # "none"
    PROVE  /\ req' = [req EXCEPT ![q] = NoRequest]
           /\ join' \in [Joiners -> JoinRecord]
           /\ \A j \in Joiners : j # q \/ ~At(j, "await") => join'[j] = join[j]
           /\ \A j \in Joiners :
                 /\ join'[j].host = join[j].host /\ join'[j].code = join[j].code
                 /\ join'[j].token = join[j].token
                 /\ j = q /\ At(j, "await") =>
                       \/ join'[j].pc = "bound" /\ status = 200
                       \/ join'[j].pc = "post" /\ status \in Retried
                       \/ join'[j].pc = "failed"
<1>0. join \in [Joiners -> JoinRecord] /\ req \in [Askers -> ReqRecord] /\ Admin \notin Joiners
  BY Constants DEF TypeInv, JoinType, ReqType
<1>1. CASE UNCHANGED join /\ ~(q \in Joiners /\ At(q, "await"))
  BY <1>0, <1>1 DEF Answer
<1>2. ASSUME q \in Joiners, At(q, "await"),
             NEW x \in JoinRecord, join' = [join EXCEPT ![q] = x],
             x.host = join[q].host, x.code = join[q].code, x.token = join[q].token,
             \/ x.pc = "bound" /\ status = 200
             \/ x.pc = "post" /\ status \in Retried
             \/ x.pc = "failed"
      PROVE  /\ join' \in [Joiners -> JoinRecord]
             /\ \A j \in Joiners : j # q \/ ~At(j, "await") => join'[j] = join[j]
             /\ \A j \in Joiners :
                   /\ join'[j].host = join[j].host /\ join'[j].code = join[j].code
                   /\ join'[j].token = join[j].token
                   /\ j = q /\ At(j, "await") =>
                         \/ join'[j].pc = "bound" /\ status = 200
                         \/ join'[j].pc = "post" /\ status \in Retried
                         \/ join'[j].pc = "failed"
  BY <1>0, <1>2
<1>3. CASE q \in Joiners /\ At(q, "await")
  <2>0. join[q] \in JoinRecord /\ q # Admin
    BY <1>0, <1>3
  <2>1. CASE status = 200 /\ GoTo(q, "bound")
    <3> DEFINE x == [join[q] EXCEPT !.pc = "bound"]
    <3>1. x \in JoinRecord /\ x.pc = "bound" /\ x.host = join[q].host /\ x.code = join[q].code
          /\ x.token = join[q].token
      BY <2>0 DEF JoinRecord, JoinStates
    <3>2. join' = [join EXCEPT ![q] = x]
      BY <2>1 DEF GoTo
    <3> HIDE DEF x
    <3> QED BY <1>2, <1>3, <2>1, <3>1, <3>2 DEF Answer
  <2>2. CASE /\ status \in Retried /\ join[q].tries > 0
             /\ join' = [join EXCEPT ![q].pc = "post", ![q].tries = @ - 1]
    <3> DEFINE x == [join[q] EXCEPT !.pc = "post", !.tries = @ - 1]
    <3>1. x \in JoinRecord /\ x.pc = "post" /\ x.host = join[q].host /\ x.code = join[q].code
          /\ x.token = join[q].token
      <4>1. join[q].tries - 1 \in 0..2
        BY <2>0, <2>2 DEF JoinRecord
      <4> QED BY <2>0, <4>1 DEF JoinRecord, JoinStates
    <3>2. join' = [join EXCEPT ![q] = x]
      BY <2>2
    <3> HIDE DEF x
    <3> QED BY <1>2, <1>3, <2>2, <3>1, <3>2 DEF Answer
  <2>3. CASE GoTo(q, "failed")
    <3> DEFINE x == [join[q] EXCEPT !.pc = "failed"]
    <3>1. x \in JoinRecord /\ x.pc = "failed" /\ x.host = join[q].host /\ x.code = join[q].code
          /\ x.token = join[q].token
      BY <2>0 DEF JoinRecord, JoinStates
    <3>2. join' = [join EXCEPT ![q] = x]
      BY <2>3 DEF GoTo
    <3> HIDE DEF x
    <3> QED BY <1>2, <1>3, <3>1, <3>2 DEF Answer
  <2> QED BY <1>3, <2>0, <2>1, <2>2, <2>3 DEF Answer
<1> QED BY <1>1, <1>3 DEF Answer

-------------------------------------------------------------------------------
(* Type correctness. *)

\* What a join or a request relies on stays true as tokens are added.
LEMMA Grows ==
    ASSUME NEW n \in Nat, NEW m \in Nat, n <= m
    PROVE  /\ \A x : JoinFine(x, n) => JoinFine(x, m)
           /\ \A q, x : ReqFine(q, x, n) => ReqFine(q, x, m)
BY DEF JoinFine, ReqFine

LEMMA JoinMoves ==
    ASSUME JoinType, tokens \in Nat, tokens' \in Nat, tokens <= tokens',
           NEW j \in Joiners, NEW x \in JoinRecord, JoinFine(x, tokens'),
           join' = [join EXCEPT ![j] = x]
    PROVE  JoinType'
<1>1. \A k \in Joiners : JoinFine(join[k], tokens')
  BY Grows DEF JoinType
<1> QED BY <1>1 DEF JoinType

LEMMA ReqMoves ==
    ASSUME ReqType, tokens \in Nat, UNCHANGED tokens, NEW q \in Askers, NEW x \in ReqRecord,
           ReqFine(q, x, tokens), req' = [req EXCEPT ![q] = x]
    PROVE  ReqType'
BY DEF ReqType

\* A join that goes on to a state that needs no more than it has.
LEMMA GoType ==
    ASSUME JoinType, tokens \in Nat, UNCHANGED tokens, NEW j \in Joiners, ~At(j, "idle"),
           NEW at \in JoinStates \ {"idle"}, GoTo(j, at),
           at \in {"restart", "post", "await", "bound"} =>
               join[j].pc \in {"restart", "post", "await", "bound"}
    PROVE  /\ JoinType' /\ join' = [join EXCEPT ![j] = [join[j] EXCEPT !.pc = at]]
           /\ join'[j].pc = at /\ join'[j].host = join[j].host /\ join'[j].token = join[j].token
           /\ join'[j].code = join[j].code
           /\ \A k \in Joiners \ {j} : join'[k] = join[k]
<1> DEFINE x == [join[j] EXCEPT !.pc = at]
<1>1. x \in JoinRecord /\ x.pc = at /\ x.host = join[j].host /\ x.code = join[j].code
      /\ x.token = join[j].token
  BY DEF JoinType, JoinRecord
<1>2. JoinFine(x, tokens)
  BY <1>1 DEF JoinType, JoinFine, At
<1>3. join' = [join EXCEPT ![j] = x]
  BY DEF GoTo
<1> HIDE DEF x
<1>4. join'[j] = x /\ \A k \in Joiners \ {j} : join'[k] = join[k]
  BY <1>1, <1>3 DEF JoinType
<1>5. JoinType'
  <2>1. tokens' \in Nat /\ tokens <= tokens' /\ JoinFine(x, tokens')
    BY <1>2
  <2> QED BY <1>1, <1>3, <2>1, JoinMoves
<1>6. join' = [join EXCEPT ![j] = [join[j] EXCEPT !.pc = at]]
  BY <1>3 DEF x
<1> QED BY <1>1, <1>4, <1>5, <1>6

\* An answer keeps the types and the pairs.
LEMMA AnswerType ==
    ASSUME TypeInv, UNCHANGED tokens, NEW q \in Askers, NEW status, Answer(q, status),
           req[q].pc # "none"
    PROVE  JoinType' /\ ReqType' /\ Paired'
<1>0. tokens \in Nat /\ Admin \notin Joiners
  BY Constants DEF TypeInv, ChildType
<1>1. ReqType'
  BY <1>0, Answered, IdleFine, ReqMoves DEF TypeInv
<1>2. JoinType'
  <2>1. \A j \in Joiners : JoinFine(join'[j], tokens)
    BY Answered DEF TypeInv, JoinType, JoinFine, At
  <2> QED BY <2>1, Answered DEF JoinType
<1>3. Paired'
  <2>1. req'[q] = NoRequest /\ \A p \in Askers \ {q} : req'[p] = req[p]
    BY Answered DEF TypeInv, ReqType
  <2>2. \A j \in Joiners \ {q} : join'[j] = join[j] /\ j \in Askers
    BY Answered DEF Askers
  <2>3. q \in Joiners => At(q, "await") \/ join[q].pc \in Over
    BY IdleFine DEF TypeInv, Paired, At
  <2>4. q \in Joiners => ~At(q, "await")'
    BY <2>3, Answered DEF At, Over
  <2> QED BY <2>1, <2>2, <2>4 DEF Paired, TypeInv, At
<1> QED BY <1>1, <1>2, <1>3

\* A request that goes on.
LEMMA ServeType ==
    ASSUME TypeInv, UNCHANGED tokens, NEW q \in Askers, req[q].pc # "none",
           NEW at \in {"ping", "add"}, Serve(q, at)
    PROVE  /\ JoinType' /\ ReqType' /\ Paired' /\ UNCHANGED join
           /\ req'[q].pc = at /\ req'[q].host = req[q].host /\ req'[q].token = req[q].token
           /\ req'[q].code = req[q].code
           /\ \A p \in Askers \ {q} : req'[p] = req[p]
<1> DEFINE x == [req[q] EXCEPT !.pc = at]
<1>0. tokens \in Nat
  BY Constants DEF TypeInv, ChildType
<1>1. x \in ReqRecord /\ x.pc = at /\ x.host = req[q].host /\ x.token = req[q].token
      /\ x.code = req[q].code
  BY DEF TypeInv, ReqType, ReqRecord, ReqStates
<1>2. ReqFine(q, x, tokens)
  BY <1>1 DEF TypeInv, ReqType, ReqFine
<1>3. req' = [req EXCEPT ![q] = x] /\ UNCHANGED join
  BY DEF Serve
<1> HIDE DEF x
<1>4. req'[q] = x /\ \A p \in Askers \ {q} : req'[p] = req[p]
  BY <1>1, <1>3 DEF TypeInv, ReqType
<1>5. JoinType' /\ ReqType'
  BY <1>0, <1>1, <1>2, <1>3, ReqMoves DEF TypeInv, JoinType
<1>6. Paired'
  BY <1>1, <1>3, <1>4, IdleFine DEF TypeInv, Paired, At, Askers
<1> QED BY <1>1, <1>3, <1>4, <1>5, <1>6

LEMMA CreatedType ==
    ASSUME CodeType, NEW c \in Codes, code' = Created(c)
    PROVE  CodeType'
BY DEF CodeType, Created

\* The steps of cmd_join and of its SSH job.
LEMMA JoinStepType ==
    ASSUME TypeInv, NEW j \in Joiners,
           (\E h \in Hosts, c \in Codes : StartJoin(j, h, c) \/ StartSSH(j, h, c)) \/ JoinStep(j)
    PROVE  TypeInv'
<1> USE Constants
<1>0. /\ JoinType /\ ReqType /\ CodeType /\ EntryType /\ ChildType /\ JobType /\ Paired
      /\ tokens \in Nat /\ join[j] \in JoinRecord /\ JoinFine(join[j], tokens) /\ j \in Askers
  BY DEF TypeInv, ChildType, JoinType, Askers
<1>1. ASSUME NEW h \in Hosts, NEW c \in Codes, StartJoin(j, h, c) \/ StartSSH(j, h, c)
      PROVE  TypeInv'
  <2>1. PICK at \in {"token", "dial"} : join' = [join EXCEPT ![j] = Joining(h, c, at)]
    BY <1>1 DEF StartJoin, StartSSH
  <2>2. /\ Joining(h, c, at) \in JoinRecord /\ JoinFine(Joining(h, c, at), tokens)
        /\ Joining(h, c, at).pc = at
    BY DEF Joining, JoinRecord, JoinFine, JoinStates
  <2>3. At(j, "idle") /\ UNCHANGED <<table, saved, child, req, bounds>>
    BY <1>1 DEF StartJoin, StartSSH, master
  <2>4. JoinType'
    <3>1. tokens' \in Nat /\ tokens <= tokens' /\ JoinFine(Joining(h, c, at), tokens')
      BY <1>0, <2>2, <2>3 DEF bounds
    <3> QED BY <1>0, <2>1, <2>2, <3>1, JoinMoves
  <2>5. Paired'
    BY <1>0, <2>1, <2>2, <2>3 DEF Paired, JoinType, At, Over
  <2>6. CodeType' /\ JobType'
    BY <1>0, <1>1, CreatedType DEF StartJoin, StartSSH, master, CodeType, JobType
  <2> QED BY <1>0, <2>3, <2>4, <2>5, <2>6 DEF TypeInv, ReqType, EntryType, ChildType, child, bounds
<1>2. CASE Dial(j)
  <2>1. PICK at \in {"token", "failed"} : GoTo(j, at)
    BY <1>2 DEF Dial
  <2>2. At(j, "dial") /\ UNCHANGED <<master, child, req, tokens>>
    BY <1>2 DEF Dial
  <2>3. JoinType' /\ join'[j].pc = at /\ \A k \in Joiners \ {j} : join'[k] = join[k]
    BY <1>0, <2>1, <2>2, GoType DEF At, JoinStates
  <2>4. JobType'
    BY <1>0, <1>2 DEF Dial, JobType
  <2>5. Paired'
    BY <1>0, <2>2, <2>3 DEF Paired, At, Over
  <2> QED BY <1>0, <2>2, <2>3, <2>4, <2>5
          DEF TypeInv, ReqType, CodeType, EntryType, ChildType, master, child
<1>3. CASE GenToken(j)
  <2> DEFINE x == [join[j] EXCEPT !.pc = "restart", !.token = tokens']
  <2>1. /\ At(j, "token") /\ tokens' = tokens + 1 /\ tokens' \in Token /\ tokens' \in 1..tokens'
        /\ join' = [join EXCEPT ![j] = x] /\ UNCHANGED <<master, running, req, job>>
        /\ disk' = [disk EXCEPT ![join[j].host] = tokens']
    <3>1. tokens' = tokens + 1 /\ tokens < MaxTokens
      BY <1>3 DEF GenToken
    <3>2. tokens' \in Token /\ tokens' \in 1..tokens'
      BY <1>0, <3>1 DEF Token
    <3> QED BY <1>3, <3>1, <3>2 DEF GenToken
  <2>2. x \in JoinRecord /\ x.pc = "restart" /\ x.host = join[j].host /\ x.code = join[j].code
        /\ x.token = tokens'
    BY <1>0, <2>1 DEF JoinRecord, JoinStates
  <2>3. JoinFine(x, tokens')
    BY <1>0, <2>1, <2>2 DEF JoinFine, At
  <2> HIDE DEF x
  <2>4. JoinType'
    <3>1. tokens' \in Nat /\ tokens <= tokens'
      BY <1>0, <2>1
    <3> QED BY <1>0, <2>1, <2>2, <2>3, <3>1, JoinMoves
  <2>5. ReqType'
    BY <1>0, <2>1, Grows DEF ReqType
  <2>6. ChildType'
    BY <1>0, <2>1 DEF ChildType
  <2>7. Paired'
    BY <1>0, <2>1, <2>2 DEF Paired, JoinType, At, Over
  <2> QED BY <1>0, <2>1, <2>4, <2>5, <2>6, <2>7 DEF TypeInv, CodeType, EntryType, JobType, master
<1>4. CASE Restart(j)
  <2>1. At(j, "restart") /\ GoTo(j, "post") /\ UNCHANGED <<master, disk, req, job, tokens>>
        /\ running' = [running EXCEPT ![join[j].host] = disk[join[j].host]]
    BY <1>4 DEF Restart, bounds
  <2>2. JoinType' /\ join'[j].pc = "post" /\ \A k \in Joiners \ {j} : join'[k] = join[k]
    BY <1>0, <2>1, GoType DEF At, JoinStates
  <2>3. ChildType'
    BY <1>0, <2>1 DEF ChildType, JoinFine, At
  <2>4. Paired'
    BY <1>0, <2>1, <2>2 DEF Paired, At, Over
  <2> QED BY <1>0, <2>1, <2>2, <2>3, <2>4 DEF TypeInv, ReqType, CodeType, EntryType, JobType, master
<1>5. CASE Post(j)
  <2>0. PICK name \in Names :
           req' = [req EXCEPT ![j] = [pc |-> "consume", host |-> join[j].host, name |-> name,
                                      code |-> join[j].code, token |-> join[j].token]]
    BY <1>5 DEF Post
  <2> DEFINE y == [pc |-> "consume", host |-> join[j].host, name |-> name,
                   code |-> join[j].code, token |-> join[j].token]
  <2>1. At(j, "post") /\ GoTo(j, "await") /\ UNCHANGED <<master, child, job, tokens>>
        /\ req' = [req EXCEPT ![j] = y]
    BY <1>5, <2>0 DEF Post, bounds
  <2>2. /\ JoinType' /\ join'[j].pc = "await" /\ join'[j].host = join[j].host
        /\ join'[j].token = join[j].token /\ \A k \in Joiners \ {j} : join'[k] = join[k]
    BY <1>0, <2>1, GoType DEF At, JoinStates
  <2>3. y \in ReqRecord /\ y.pc = "consume" /\ y.host = join[j].host /\ y.token = join[j].token
        /\ y.code = join[j].code /\ y.name \in Names
    BY <1>0 DEF JoinRecord, ReqRecord, ReqStates
  <2>4. ReqFine(j, y, tokens)
    BY <1>0, <2>1, <2>3 DEF JoinFine, ReqFine, At
  <2> HIDE DEF y
  <2>5. ReqType' /\ req'[j] = y /\ \A k \in Joiners \ {j} : req'[k] = req[k]
    BY <1>0, <2>1, <2>3, <2>4, ReqMoves DEF ReqType, Askers
  <2>6. Paired'
    BY <1>0, <2>2, <2>3, <2>5 DEF Paired, At, Over
  <2> QED BY <1>0, <2>1, <2>2, <2>5, <2>6
          DEF TypeInv, CodeType, EntryType, ChildType, JobType, master, child
<1>6. CASE Lose(j) \/ Kill(j)
  <2>1. PICK at \in {"failed", "killed"} : GoTo(j, at)
    BY <1>6 DEF Lose, Kill
  <2>2. ~At(j, "idle") /\ UNCHANGED <<master, child, req, job, tokens>>
    BY <1>6 DEF Lose, Kill, At
  <2>3. JoinType' /\ join'[j].pc = at /\ \A k \in Joiners \ {j} : join'[k] = join[k]
    BY <1>0, <2>1, <2>2, GoType DEF JoinStates
  <2>4. Paired'
    BY <1>0, <2>2, <2>3 DEF Paired, At, Over
  <2> QED BY <1>0, <2>2, <2>3, <2>4
          DEF TypeInv, ReqType, CodeType, EntryType, ChildType, JobType, master, child
<1> QED BY <1>1, <1>2, <1>3, <1>4, <1>5, <1>6 DEF JoinStep

\* The steps of the master.
LEMMA RequestStepType ==
    ASSUME TypeInv, NEW q \in Askers, Consume(q) \/ Ping(q) \/ Add(q)
    PROVE  TypeInv'
<1> USE Constants
<1>0. /\ JoinType /\ ReqType /\ CodeType /\ EntryType /\ ChildType /\ JobType /\ Paired
      /\ req[q] \in ReqRecord /\ ReqFine(q, req[q], tokens) /\ tokens \in Nat
  BY DEF TypeInv, ReqType, ChildType
<1>1. CASE Consume(q)
  <2>1. Asks(q, "consume") /\ UNCHANGED <<table, saved, child, job, tokens>>
    BY <1>1 DEF Consume
  <2>2. Serve(q, "ping") \/ Answer(q, 400) \/ Answer(q, 403) \/ Answer(q, 429)
    BY <1>1 DEF Consume
  <2>3. JoinType' /\ ReqType' /\ Paired'
    BY <2>1, <2>2, ServeType, AnswerType DEF Asks
  <2>4. CodeType'
    BY <1>0, <1>1 DEF Consume, CodeType
  <2> QED BY <1>0, <2>1, <2>3, <2>4 DEF TypeInv, EntryType, ChildType, JobType, child
<1>2. CASE Ping(q)
  <2>1. Asks(q, "ping") /\ UNCHANGED <<master, child, job, tokens>>
    BY <1>2 DEF Ping
  <2>2. Serve(q, "add") \/ Answer(q, 502)
    BY <1>2 DEF Ping
  <2>3. JoinType' /\ ReqType' /\ Paired'
    BY <2>1, <2>2, ServeType, AnswerType DEF Asks
  <2> QED BY <1>0, <2>1, <2>3 DEF TypeInv, CodeType, EntryType, ChildType, JobType, child, master
<1>3. CASE Add(q)
  <2>1. Asks(q, "add") /\ UNCHANGED <<code, child, job, tokens>>
    BY <1>3 DEF Add
  <2>2. Answer(q, 200) \/ Answer(q, 409)
    BY <1>3 DEF Add
  <2>3. JoinType' /\ ReqType' /\ Paired'
    BY <2>1, <2>2, AnswerType DEF Asks
  <2>4. Added(q) \in Entry
    BY <1>0, <2>1 DEF Added, Entry, Asks, ReqFine, ReqRecord
  <2>5. EntryType'
    BY <1>0, <1>3, <2>4 DEF Add, Admit, EntryType
  <2> QED BY <1>0, <2>1, <2>3, <2>5 DEF TypeInv, CodeType, ChildType, JobType, child
<1> QED BY <1>1, <1>2, <1>3

LEMMA TypeStep == TypeInv /\ [Next]_vars => TypeInv'
<1> USE Constants
<1> SUFFICES ASSUME TypeInv, [Next]_vars PROVE TypeInv'
  OBVIOUS
<1>0. /\ JoinType /\ ReqType /\ CodeType /\ EntryType /\ ChildType /\ JobType /\ Paired
      /\ tokens \in Nat
  BY DEF TypeInv, ChildType
<1>a. UNCHANGED <<join, req, tokens>> => JoinType' /\ ReqType' /\ Paired'
  BY <1>0 DEF JoinType, ReqType, Paired, At
<1>1. ASSUME NEW c \in Codes, CreateCode(c) \/ Expire(c) PROVE TypeInv'
  <2>1. CodeType'
    BY <1>0, <1>1, CreatedType DEF CreateCode, Expire, CodeType
  <2>2. UNCHANGED <<table, saved, child, join, req, job, bounds>>
    BY <1>1 DEF CreateCode, Expire
  <2> QED BY <1>0, <1>a, <2>1, <2>2 DEF TypeInv, EntryType, ChildType, JobType, child, bounds
<1>2. ASSUME NEW j \in Joiners, JobDone(j) \/ JobTimeout(j) PROVE TypeInv'
  <2>1. JobType'
    BY <1>0, <1>2 DEF JobDone, JobTimeout, JobType
  <2>2. UNCHANGED <<master, child, join, req, tokens>>
    BY <1>2 DEF JobDone, JobTimeout, bounds
  <2> QED BY <1>0, <1>a, <2>1, <2>2 DEF TypeInv, CodeType, EntryType, ChildType, child, master
<1>3. ASSUME NEW h \in Hosts, ChildSave(h) \/ ChildRestart(h) PROVE TypeInv'
  <2>1. UNCHANGED <<master, join, req, job, tokens>>
    BY <1>3 DEF ChildSave, ChildRestart, bounds
  <2>2. ChildType'
    BY <1>0, <1>3 DEF ChildSave, ChildRestart, ChildType, bounds
  <2> QED BY <1>0, <1>a, <2>1, <2>2 DEF TypeInv, CodeType, EntryType, JobType, master
<1>4. ASSUME NEW h \in Hosts, NEW t \in Token, NodeAdd(h, t) PROVE TypeInv'
  <2>0. PICK name \in Names :
           req' = [req EXCEPT ![Admin] = [pc |-> "ping", host |-> h, name |-> name,
                                          code |-> NoCode, token |-> t]]
    BY <1>4 DEF NodeAdd
  <2> DEFINE y == [pc |-> "ping", host |-> h, name |-> name, code |-> NoCode, token |-> t]
  <2>1. t \in 1..tokens /\ req' = [req EXCEPT ![Admin] = y]
        /\ UNCHANGED <<master, child, join, job, tokens>>
    BY <1>4, <2>0 DEF NodeAdd
  <2>2. y \in ReqRecord /\ ReqFine(Admin, y, tokens)
    BY <2>1 DEF ReqRecord, ReqStates, ReqFine
  <2> HIDE DEF y
  <2>3. ReqType' /\ Paired'
    BY <1>0, <2>1, <2>2, ReqMoves DEF Askers, ReqType, Paired, At
  <2> QED BY <1>0, <2>1, <2>3 DEF TypeInv, JoinType, CodeType, EntryType, ChildType, JobType, master,
             child
<1>5. ASSUME NEW n \in table, NodeDelete(n) \/ \E m \in Entry : NodeUpdate(n, m) PROVE TypeInv'
  <2>1. UNCHANGED <<code, child, join, req, job, tokens>>
    BY <1>5 DEF NodeDelete, NodeUpdate
  <2>2. EntryType'
    BY <1>0, <1>5 DEF NodeDelete, NodeUpdate, Store, EntryType
  <2> QED BY <1>0, <1>a, <2>1, <2>2 DEF TypeInv, CodeType, ChildType, JobType, child
<1>6. CASE MasterRestart
  <2>1. CodeType' /\ EntryType' /\ ChildType' /\ JobType'
    BY <1>0, <1>6 DEF MasterRestart, CodeType, EntryType, ChildType, JobType, child
  <2>2. ReqType' /\ \A q \in Askers : req'[q] = NoRequest
    BY <1>0, <1>6, IdleFine DEF MasterRestart, ReqType
  <2>3. \A j \in Joiners : join'[j] = IF join[j].pc \in {"dial", "await"}
                                      THEN [join[j] EXCEPT !.pc = "failed"] ELSE join[j]
    BY <1>6 DEF MasterRestart
  <2>4. \A j \in Joiners : join'[j] \in JoinRecord /\ JoinFine(join'[j], tokens)
                           /\ join'[j].pc \notin {"dial", "await"}
    <3> SUFFICES ASSUME NEW j \in Joiners
                 PROVE  join'[j] \in JoinRecord /\ JoinFine(join'[j], tokens)
                        /\ join'[j].pc \notin {"dial", "await"}
      OBVIOUS
    <3>1. join[j] \in JoinRecord /\ JoinFine(join[j], tokens)
      BY <1>0 DEF JoinType
    <3>2. CASE join[j].pc \notin {"dial", "await"}
      BY <2>3, <3>1, <3>2
    <3>3. CASE join[j].pc \in {"dial", "await"}
      <4> DEFINE x == [join[j] EXCEPT !.pc = "failed"]
      <4>1. x \in JoinRecord /\ x.pc = "failed" /\ x.host = join[j].host /\ x.code = join[j].code
        BY <3>1 DEF JoinRecord, JoinStates
      <4>2. join'[j] = x
        BY <2>3, <3>3
      <4> HIDE DEF x
      <4> QED BY <3>1, <3>3, <4>1, <4>2 DEF JoinFine
    <3> QED BY <3>2, <3>3
  <2>5. JoinType'
    <3>1. join' \in [Joiners -> JoinRecord]
      BY <1>6, <2>3, <2>4 DEF MasterRestart
    <3> QED BY <1>6, <2>4, <3>1 DEF MasterRestart, JoinType
  <2>6. Paired'
    BY <2>2, <2>4 DEF Paired, At, Askers
  <2> QED BY <2>1, <2>2, <2>5, <2>6 DEF TypeInv
<1>7. CASE UNCHANGED vars
  BY <1>0, <1>a, <1>7
  DEF vars, master, child, bounds, TypeInv, CodeType, EntryType, ChildType, JobType
<1> QED BY <1>1, <1>2, <1>3, <1>4, <1>5, <1>6, <1>7, JoinStepType, RequestStepType
        DEF Next, JoinStep, Askers

LEMMA TypeInit == Init => TypeInv
<1> SUFFICES ASSUME Init PROVE TypeInv
  OBVIOUS
<1>1. JoinType /\ ReqType /\ Paired
  BY IdleFine DEF Init, JoinType, ReqType, Paired, At, Askers
<1>2. CodeType /\ EntryType /\ ChildType /\ JobType
  BY Constants DEF Init, CodeType, EntryType, ChildType, JobType
<1> QED BY <1>1, <1>2 DEF TypeInv

\* Every table, request, shell and job keeps its type, and what the master pings
\* or adds has a host and one of the tokens that were generated.
THEOREM NodesTypeCorrect == Spec => []TypeOK
<1>1. TypeInv => TypeOK
  <2> SUFFICES ASSUME TypeInv PROVE TypeOK
    OBVIOUS
  <2>1. \A q \in DOMAIN req : req[q] # NoRequest => req[q].host \in Hosts /\ req[q].token \in 1..tokens
    BY DEF TypeInv, ReqType, ReqFine
  <2>2. \A j \in Joiners : join[j].tries \in 0..2
    BY DEF TypeInv, JoinType, JoinRecord
  <2> QED BY <2>1, <2>2 DEF TypeInv, CodeType, EntryType, ChildType, JobType, TypeOK
<1> QED BY <1>1, TypeInit, TypeStep, PTL DEF Spec

-------------------------------------------------------------------------------
(* What a step does to the requests: one that is answered is gone, and only the  *)
(* master's three steps bring a request further.                                 *)

Past(q) == req[q].pc \in {"ping", "add"}

\* No request gets past its code, and none changes what it asks for.
NonePasses ==
    \A q \in Joiners : Past(q)' => Past(q) /\ req'[q].code = req[q].code

\* A code that is gone stays gone.
GoneStays == \A c \in Codes : code[c] = "gone" => code'[c] = "gone"

CodeInv ==
    /\ \A a \in admitted : a.code \in Codes /\ code[a.code] = "gone"
    /\ \A a, b \in admitted : a.code = b.code => a = b
    /\ \A q \in Joiners : Past(q) =>
          code[req[q].code] = "gone" /\ \A a \in admitted : a.code # req[q].code
    /\ \A p, q \in Joiners : Past(p) /\ Past(q) /\ req[p].code = req[q].code => p = q

LEMMA CodeFrame ==
    ASSUME TypeInv, CodeInv, NonePasses, GoneStays, UNCHANGED admitted
    PROVE  CodeInv'
<1>1. \A q \in Joiners : Past(q) => req[q].code \in Codes
  BY Constants DEF TypeInv, ReqType, ReqFine, Past, Askers
<1> QED BY <1>1 DEF CodeInv, NonePasses, GoneStays

LEMMA AnswerPasses ==
    ASSUME TypeInv, NEW q \in Askers, NEW status, Answer(q, status), req[q].pc # "none"
    PROVE  NonePasses
BY Answered, IdleFine DEF TypeInv, ReqType, NonePasses, Past, Askers

LEMMA CodeInvStep ==
    ASSUME TypeInv, CodeInv, [Next]_vars
    PROVE  CodeInv'
<1> USE Constants
<1>0. /\ ReqType /\ CodeType /\ Joiners \subseteq Askers /\ Admin \in Askers
      /\ \A q \in Joiners : req[q].pc # "none" => req[q].code \in Codes
      /\ req[Admin].pc # "consume"
  BY IdleFine DEF TypeInv, ReqType, ReqFine, Askers
<1>a. UNCHANGED code => GoneStays
  BY DEF GoneStays
<1>b. UNCHANGED req => NonePasses
  BY DEF NonePasses, Past
<1>c. \A c \in Codes : code[c] = "unused" /\ code' = Created(c) => GoneStays
  BY DEF GoneStays, Created
<1>1. ASSUME NEW c \in Codes, CreateCode(c) \/ Expire(c) PROVE CodeInv'
  <2>1. GoneStays
    BY <1>0, <1>1, <1>c DEF CreateCode, Expire, CodeType, GoneStays
  <2> QED BY <1>1, <1>b, <2>1, CodeFrame DEF CreateCode, Expire, history
<1>2. ASSUME NEW j \in Joiners, NEW h \in Hosts, NEW c \in Codes,
             StartJoin(j, h, c) \/ StartSSH(j, h, c)
      PROVE  CodeInv'
  BY <1>2, <1>a, <1>b, <1>c, CodeFrame DEF StartJoin, StartSSH, Claim, master
<1>3. ASSUME NEW j \in Joiners, Dial(j) \/ GenToken(j) \/ Restart(j) \/ Lose(j) \/ Kill(j)
      PROVE  CodeInv'
  BY <1>3, <1>a, <1>b, CodeFrame DEF Dial, GenToken, Restart, Lose, Kill, master, history
<1>4. ASSUME NEW j \in Joiners, Post(j) PROVE CodeInv'
  <2>1. UNCHANGED <<master, history>> /\ req'[j].pc = "consume"
        /\ \A q \in Joiners \ {j} : req'[q] = req[q]
    BY <1>0, <1>4 DEF Post, ReqType
  <2>2. NonePasses
    BY <2>1 DEF NonePasses, Past
  <2> QED BY <1>a, <2>1, <2>2, CodeFrame DEF master, history
<1>5. ASSUME NEW j \in Joiners, JobDone(j) \/ JobTimeout(j) PROVE CodeInv'
  BY <1>5, <1>a, <1>b, CodeFrame DEF JobDone, JobTimeout, master, history
<1>6. ASSUME NEW h \in Hosts, ChildSave(h) \/ ChildRestart(h) PROVE CodeInv'
  BY <1>6, <1>a, <1>b, CodeFrame DEF ChildSave, ChildRestart, master, history
<1>7. ASSUME NEW q \in Askers, Consume(q) PROVE CodeInv'
  <2>1. q \in Joiners /\ req[q].pc = "consume" /\ req[q].code \in Codes /\ UNCHANGED admitted
    BY <1>0, <1>7 DEF Consume, Asks, Askers, history
  <2>2. GoneStays
    BY <1>0, <1>7, <1>a DEF Consume, GoneStays, CodeType
  <2>3. CASE Answer(q, 400) \/ Answer(q, 403) \/ Answer(q, 429)
    BY <1>0, <2>1, <2>2, <2>3, AnswerPasses, CodeFrame
  <2>4. CASE /\ code[req[q].code] = "live" /\ Serve(q, "ping")
             /\ code' = [code EXCEPT ![req[q].code] = "gone"]
    <3>1. /\ req'[q].pc = "ping" /\ req'[q].code = req[q].code
          /\ \A p \in Joiners \ {q} : req'[p] = req[p]
      BY <1>0, <2>4 DEF Serve, ReqType, ReqRecord
    <3>2. code'[req[q].code] = "gone" /\ code[req[q].code] # "gone"
      BY <1>0, <2>1, <2>4 DEF CodeType
    <3>3. \A a \in admitted : a.code # req[q].code
      BY <3>2 DEF CodeInv
    <3>4. \A p \in Joiners : Past(p) => req[p].code # req[q].code /\ req[p].code \in Codes
      BY <1>0, <3>2 DEF CodeInv, Past
    <3>5. ~Past(q)
      BY <2>1 DEF Past
    <3>6. \A p \in Joiners \ {q} : Past(p)' => Past(p) /\ req'[p].code = req[p].code
      BY <3>1 DEF Past
    <3>7. \A p \in Joiners : Past(p)' =>
              code'[req'[p].code] = "gone" /\ \A a \in admitted' : a.code # req'[p].code
      BY <2>1, <2>2, <3>1, <3>2, <3>3, <3>4, <3>6 DEF CodeInv, GoneStays
    <3>8. \A p, r \in Joiners : Past(p)' /\ Past(r)' /\ req'[p].code = req'[r].code => p = r
      BY <3>1, <3>4, <3>6 DEF CodeInv
    <3>9. \A a \in admitted' : a.code \in Codes /\ code'[a.code] = "gone"
      BY <2>1, <2>2 DEF CodeInv, GoneStays
    <3> QED BY <2>1, <3>7, <3>8, <3>9 DEF CodeInv
  <2> QED BY <1>7, <2>3, <2>4 DEF Consume
<1>8. ASSUME NEW q \in Askers, Ping(q) PROVE CodeInv'
  <2>1. req[q].pc = "ping" /\ UNCHANGED <<code, admitted>>
    BY <1>8 DEF Ping, Asks, master, history
  <2>2. CASE Answer(q, 502)
    BY <1>0, <1>a, <2>1, <2>2, AnswerPasses, CodeFrame
  <2>3. CASE Serve(q, "add")
    <3>1. /\ req'[q].pc = "add" /\ req'[q].code = req[q].code
          /\ \A p \in Joiners \ {q} : req'[p] = req[p]
      BY <1>0, <2>3 DEF Serve, ReqType, ReqRecord
    <3>2. NonePasses
      BY <2>1, <3>1 DEF NonePasses, Past
    <3> QED BY <1>a, <2>1, <3>2, CodeFrame
  <2> QED BY <1>8, <2>2, <2>3 DEF Ping
<1>9. ASSUME NEW q \in Askers, Add(q) PROVE CodeInv'
  <2>1. req[q].pc = "add" /\ UNCHANGED code /\ (Answer(q, 409) \/ Answer(q, 200))
        /\ (UNCHANGED admitted \/ Admit(q))
    BY <1>9 DEF Add, Asks
  <2>2. NonePasses
    BY <2>1, AnswerPasses
  <2>3. CASE UNCHANGED admitted
    BY <1>a, <2>1, <2>2, <2>3, CodeFrame
  <2>4. CASE q \in Joiners /\ admitted' = admitted \cup {[code |-> req[q].code, token |-> req[q].token]}
    <3>1. Past(q) /\ req[q].code \in Codes /\ code[req[q].code] = "gone"
          /\ \A a \in admitted : a.code # req[q].code
      BY <1>0, <2>1, <2>4 DEF Past, CodeInv
    <3>2. ~Past(q)'
      BY <1>0, <2>1, Answered, IdleFine DEF Past, ReqType
    <3>3. \A p \in Joiners : Past(p)' => Past(p) /\ req'[p].code = req[p].code /\ req[p].code # req[q].code
      BY <2>2, <2>4, <3>1, <3>2 DEF NonePasses, CodeInv
    <3> DEFINE new == [code |-> req[q].code, token |-> req[q].token]
    <3>4. new.code = req[q].code /\ admitted' = admitted \cup {new}
      BY <2>4
    <3> HIDE DEF new
    <3> QED BY <2>1, <3>1, <3>3, <3>4 DEF CodeInv
  <2> QED BY <2>1, <2>3, <2>4 DEF Admit, Askers
<1>10. ASSUME NEW h \in Hosts, NEW t \in Token, NodeAdd(h, t) PROVE CodeInv'
  <2>1. UNCHANGED <<code, admitted>> /\ \A q \in Joiners : req'[q] = req[q]
    BY <1>0, <1>10 DEF NodeAdd, Claim, master, ReqType
  <2>2. NonePasses
    BY <2>1 DEF NonePasses, Past
  <2> QED BY <1>a, <2>1, <2>2, CodeFrame
<1>11. ASSUME NEW n \in table, NodeDelete(n) \/ \E m \in Entry : NodeUpdate(n, m) PROVE CodeInv'
  BY <1>11, <1>a, <1>b, CodeFrame DEF NodeDelete, NodeUpdate
<1>12. CASE MasterRestart
  <2>1. NonePasses
    BY <1>0, <1>12, IdleFine DEF MasterRestart, ReqType, NonePasses, Past
  <2>2. GoneStays
    BY <1>12 DEF MasterRestart, GoneStays
  <2> QED BY <1>12, <2>1, <2>2, CodeFrame DEF MasterRestart, history
<1>13. CASE UNCHANGED vars
  BY <1>13, <1>a, <1>b, CodeFrame DEF vars, master, history
<1> QED BY <1>1, <1>2, <1>3, <1>4, <1>5, <1>6, <1>7, <1>8, <1>9, <1>10, <1>11, <1>12, <1>13
        DEF Next, Askers

\* A one-time code lets in one node at most: a code that was consumed is never live
\* again, and at most one request is ever past it, whatever is retried, lost,
\* repeated or restarted.
THEOREM CodesUsedOnce == Spec => []CodeOnce
<1>1. Init => CodeInv
  BY IdleFine DEF Init, CodeInv, Past
<1>2. TypeInv /\ CodeInv /\ [Next]_vars => CodeInv'
  BY CodeInvStep
<1>3. CodeInv => CodeOnce
  BY DEF CodeInv, CodeOnce
<1> QED BY <1>1, <1>2, <1>3, TypeInit, TypeStep, PTL DEF Spec

-------------------------------------------------------------------------------
(* The table and its file. *)

Apart(S) ==
    \A n, m \in S : {n.host, m.host} \cap edited = {} =>
        (n.name = m.name \/ n.host = m.host => n = m)

UniqueInv == Apart(table) /\ Apart(saved)

\* What the entries become: as they were; with one more that nobody has; after an
\* edit, which is noted; or as the file has them.
TableStep ==
    \/ UNCHANGED <<table, saved>>
    \/ \E q \in Askers :
          /\ Asks(q, "add") /\ ~Taken(q) /\ table' = table \cup {Added(q)}
          /\ saved' \in {saved, table'} /\ UNCHANGED <<edited, deleted>>
    \/ \E n \in table, m \in Entry :
          /\ table' = (table \ {n}) \cup {m} /\ saved' \in {saved, table'}
          /\ {n.host, m.host} \subseteq edited'
    \/ \E n \in table :
          /\ table' = table \ {n} /\ saved' \in {saved, table'} /\ n.host \in deleted'
    \/ table' = saved /\ UNCHANGED saved

LEMMA TableMoves ==
    ASSUME [Next]_vars
    PROVE  TableStep /\ edited \subseteq edited' /\ deleted \subseteq deleted'
<1> DEFINE Kept == UNCHANGED <<table, saved, edited, deleted>>
<1>1. ASSUME NEW c \in Codes, CreateCode(c) \/ Expire(c) PROVE Kept
  BY <1>1 DEF CreateCode, Expire, history
<1>2. ASSUME NEW j \in Joiners, NEW h \in Hosts, NEW c \in Codes,
             StartJoin(j, h, c) \/ StartSSH(j, h, c)
      PROVE  Kept
  BY <1>2 DEF StartJoin, StartSSH, Claim, master
<1>3. ASSUME NEW j \in Joiners, JoinStep(j) PROVE Kept
  BY <1>3 DEF JoinStep, Dial, GenToken, Restart, Post, Lose, Kill, master, history
<1>4. ASSUME NEW j \in Joiners, JobDone(j) \/ JobTimeout(j) PROVE Kept
  BY <1>4 DEF JobDone, JobTimeout, master, history
<1>5. ASSUME NEW h \in Hosts, ChildSave(h) \/ ChildRestart(h) PROVE Kept
  BY <1>5 DEF ChildSave, ChildRestart, master, history
<1>6. ASSUME NEW q \in Askers, Consume(q) \/ Ping(q) PROVE Kept
  BY <1>6 DEF Consume, Ping, master, history
<1>7. ASSUME NEW q \in Askers, Add(q) PROVE TableStep /\ UNCHANGED <<edited, deleted>>
  BY <1>7 DEF Add, Admit, TableStep
<1>8. ASSUME NEW h \in Hosts, NEW t \in Token, NodeAdd(h, t) PROVE Kept
  BY <1>8 DEF NodeAdd, Claim, master
<1>9. ASSUME NEW n \in table, NodeDelete(n)
      PROVE  TableStep /\ edited \subseteq edited' /\ deleted \subseteq deleted'
  BY <1>9 DEF NodeDelete, Store, TableStep
<1>10. ASSUME NEW n \in table, NEW m \in Entry, NodeUpdate(n, m)
       PROVE  TableStep /\ edited \subseteq edited' /\ deleted \subseteq deleted'
  BY <1>10 DEF NodeUpdate, Store, TableStep
<1>11. CASE MasterRestart
  BY <1>11 DEF MasterRestart, TableStep, history
<1>12. CASE UNCHANGED vars
  BY <1>12 DEF vars, master, history, TableStep
<1>13. Kept => TableStep
  BY DEF TableStep
<1> QED BY <1>1, <1>2, <1>3, <1>4, <1>5, <1>6, <1>7, <1>8, <1>9, <1>10, <1>11, <1>12, <1>13
        DEF Next, JoinStep, Askers

LEMMA UniqueInvStep ==
    ASSUME TypeInv, UniqueInv, [Next]_vars
    PROVE  UniqueInv'
<1>0. edited \subseteq edited' /\ TableStep
  BY TableMoves
<1>1. CASE UNCHANGED <<table, saved>>
  BY <1>0, <1>1 DEF UniqueInv, Apart
<1>2. ASSUME NEW q \in Askers, ~Taken(q), table' = table \cup {Added(q)},
             saved' \in {saved, table'}, UNCHANGED edited
      PROVE  UniqueInv'
  <2>1. Added(q).name = req[q].name /\ Added(q).host = req[q].host
    BY DEF Added
  <2>2. \A n \in table : n.name # req[q].name /\ n.host # req[q].host
    BY <1>2 DEF Taken
  <2>3. Apart(table)'
    BY <1>2, <2>1, <2>2 DEF UniqueInv, Apart
  <2> QED BY <1>2, <2>3 DEF UniqueInv, Apart
<1>3. ASSUME NEW n \in table, NEW m \in Entry, table' = (table \ {n}) \cup {m},
             saved' \in {saved, table'}, {n.host, m.host} \subseteq edited'
      PROVE  UniqueInv'
  BY <1>0, <1>3 DEF UniqueInv, Apart
<1>4. ASSUME NEW n \in table, table' = table \ {n}, saved' \in {saved, table'} PROVE UniqueInv'
  BY <1>0, <1>4 DEF UniqueInv, Apart
<1>5. CASE table' = saved /\ UNCHANGED saved
  BY <1>0, <1>5 DEF UniqueInv, Apart
<1> QED BY <1>0, <1>1, <1>2, <1>3, <1>4, <1>5 DEF TableStep

\* However requests check and add between the steps of each other, and whatever a
\* restart brings back from the file, no two entries share a name or an address
\* unless the administrator edited one of them.
THEOREM EntriesUnique == Spec => []UniqueEntries
<1>1. Init => UniqueInv
  BY DEF Init, UniqueInv, Apart
<1>2. TypeInv /\ UniqueInv /\ [Next]_vars => UniqueInv'
  BY UniqueInvStep
<1>3. UniqueInv => UniqueEntries
  BY DEF UniqueInv, Apart, UniqueEntries
<1> QED BY <1>1, <1>2, <1>3, TypeInit, TypeStep, PTL DEF Spec

-------------------------------------------------------------------------------
(* Acknowledged bindings. *)

HasEntry(h, t) == \E n \in table \cap saved : n.host = h /\ n.token = t

\* An entry of memory and file that the administrator leaves alone stays in both.
LEMMA EntryStays ==
    ASSUME TableStep, NEW h, NEW t, h \notin edited' \cup deleted', HasEntry(h, t)
    PROVE  HasEntry(h, t)'
<1>1. PICK n \in table \cap saved : n.host = h /\ n.token = t
  BY DEF HasEntry
<1>2. n \in table' \cap saved'
  BY <1>1 DEF TableStep
<1> QED BY <1>1, <1>2 DEF HasEntry

\* Only the answer 200 makes a shell print "bound".
LEMMA BecomesBound ==
    ASSUME TypeInv, [Next]_vars, NEW j \in Joiners, At(j, "bound")'
    PROVE  \/ join'[j] = join[j]
           \/ /\ At(j, "await") /\ Asks(j, "add") /\ ~Taken(j)
              /\ join'[j].host = join[j].host /\ join'[j].token = join[j].token
              /\ table' = table \cup {Added(j)} /\ saved' = table'
<1> USE Constants
<1>0. /\ join \in [Joiners -> JoinRecord] /\ j \in Askers /\ tokens \in Nat
  BY DEF TypeInv, JoinType, ChildType, Askers
<1>a. \A k \in Joiners, at \in JoinStates \ {"bound"} : GoTo(k, at) => join'[j] = join[j]
  BY <1>0 DEF GoTo, JoinRecord, At
<1>b. \A q \in Askers : \A status \in {400, 403, 409, 429, 502} :
          req[q].pc # "none" /\ Answer(q, status) => join'[j] = join[j]
  <2> SUFFICES ASSUME NEW q \in Askers, NEW status \in {400, 403, 409, 429, 502}, req[q].pc # "none",
                      Answer(q, status)
               PROVE  join'[j] = join[j]
    OBVIOUS
  <2> QED BY Answered DEF At
<1>1. ASSUME NEW c \in Codes, CreateCode(c) \/ Expire(c) PROVE join'[j] = join[j]
  BY <1>1 DEF CreateCode, Expire
<1>2. ASSUME NEW k \in Joiners, NEW h \in Hosts, NEW c \in Codes,
             StartJoin(k, h, c) \/ StartSSH(k, h, c)
      PROVE  join'[j] = join[j]
  <2>1. PICK at \in {"token", "dial"} : join' = [join EXCEPT ![k] = Joining(h, c, at)]
    BY <1>2 DEF StartJoin, StartSSH
  <2>2. Joining(h, c, at).pc # "bound"
    BY DEF Joining
  <2>3. j # k
    BY <1>0, <2>1, <2>2 DEF At
  <2> QED BY <1>0, <2>1, <2>3
<1>3. ASSUME NEW k \in Joiners, JoinStep(k) PROVE join'[j] = join[j]
  <2>1. CASE GenToken(k)
    BY <1>0, <2>1 DEF GenToken, At, JoinRecord
  <2> QED BY <1>3, <1>a, <2>1 DEF JoinStep, Dial, Restart, Post, Lose, Kill, JoinStates
<1>4. ASSUME NEW k \in Joiners, JobDone(k) \/ JobTimeout(k) PROVE join'[j] = join[j]
  BY <1>4 DEF JobDone, JobTimeout
<1>5. ASSUME NEW h \in Hosts, ChildSave(h) \/ ChildRestart(h) PROVE join'[j] = join[j]
  BY <1>5 DEF ChildSave, ChildRestart
<1>6. ASSUME NEW q \in Askers, Consume(q) \/ Ping(q) PROVE join'[j] = join[j]
  BY <1>6, <1>b DEF Consume, Ping, Serve, Asks
<1>7. ASSUME NEW q \in Askers, Add(q), join'[j] # join[j]
      PROVE  /\ At(j, "await") /\ Asks(j, "add") /\ ~Taken(j)
             /\ join'[j].host = join[j].host /\ join'[j].token = join[j].token
             /\ table' = table \cup {Added(j)} /\ saved' = table'
  <2>1. Asks(q, "add") /\ ~Answer(q, 409)
    BY <1>7, <1>b DEF Add, Asks
  <2>2. Answer(q, 200) /\ ~Taken(q) /\ table' = table \cup {Added(q)} /\ saved' = table'
    BY <1>7, <2>1 DEF Add, Admit
  <2>3. j = q /\ At(j, "await") /\ join'[j].host = join[j].host /\ join'[j].token = join[j].token
    BY <1>7, <2>1, <2>2, Answered DEF Asks
  <2> QED BY <2>1, <2>2, <2>3
<1>8. ASSUME NEW h \in Hosts, NEW t \in Token, NodeAdd(h, t) PROVE join'[j] = join[j]
  BY <1>8 DEF NodeAdd
<1>9. ASSUME NEW n \in table, NodeDelete(n) \/ \E m \in Entry : NodeUpdate(n, m)
      PROVE  join'[j] = join[j]
  BY <1>9 DEF NodeDelete, NodeUpdate
<1>10. CASE MasterRestart
  BY <1>0, <1>10 DEF MasterRestart, At, JoinRecord
<1>11. CASE UNCHANGED vars
  BY <1>11 DEF vars
<1> QED BY <1>1, <1>2, <1>3, <1>4, <1>5, <1>6, <1>7, <1>8, <1>9, <1>10, <1>11
        DEF Next, JoinStep, Askers

BoundInv ==
    \A j \in Joiners : At(j, "bound") /\ join[j].host \notin edited \cup deleted =>
        HasEntry(join[j].host, join[j].token)

LEMMA BoundInvStep ==
    ASSUME TypeInv, BoundInv, [Next]_vars
    PROVE  BoundInv'
<1> SUFFICES ASSUME NEW j \in Joiners, At(j, "bound")', join'[j].host \notin edited' \cup deleted'
             PROVE  \E n \in table' \cap saved' : n.host = join'[j].host /\ n.token = join'[j].token
  BY DEF BoundInv, HasEntry
<1>0. TableStep /\ edited \subseteq edited' /\ deleted \subseteq deleted'
  BY TableMoves
<1>1. CASE join'[j] = join[j]
  <2>1. HasEntry(join[j].host, join[j].token)
    BY <1>0, <1>1 DEF BoundInv, At
  <2>2. \A h, t : h \notin edited' \cup deleted' /\ HasEntry(h, t) =>
            \E n \in table' \cap saved' : n.host = h /\ n.token = t
    BY <1>0, EntryStays DEF HasEntry
  <2> QED BY <1>1, <2>1, <2>2
<1>2. CASE /\ At(j, "await") /\ Asks(j, "add")
           /\ join'[j].host = join[j].host /\ join'[j].token = join[j].token
           /\ table' = table \cup {Added(j)} /\ saved' = table'
  <2>1. Added(j).host = join[j].host /\ Added(j).token = join[j].token
    BY <1>2 DEF TypeInv, Paired, Added
  <2> QED BY <1>2, <2>1
<1> QED BY <1>1, <1>2, BecomesBound

\* No binding that was acknowledged is lost: once the shell on a child has printed
\* "bound", its entry is in memory and in the file until the administrator changes
\* or deletes it, whatever else joins, fails or restarts.
THEOREM BindingsKept == Spec => []BoundStays
<1>1. Init => BoundInv
  BY IdleFine DEF Init, BoundInv, At
<1>2. TypeInv /\ BoundInv /\ [Next]_vars => BoundInv'
  BY BoundInvStep
<1>3. BoundInv => BoundStays
  BY DEF BoundInv, HasEntry, BoundStays
<1> QED BY <1>1, <1>2, <1>3, TypeInit, TypeStep, PTL DEF Spec

-------------------------------------------------------------------------------
(* Entries that answer. As long as a host is not claimed twice, one join or one   *)
(* request at most is on its way to it, and none once it has an entry; the panel   *)
(* there then runs with what its file says from the moment it is posted.           *)

Live(j, h) == join[j].host = h /\ join[j].pc \notin Over
Posted(j) == join[j].pc \in {"post", "await"}
Wants(q, h) == req[q].host = h

OneAtWork(h) ==
    /\ \A j, k \in Joiners : Live(j, h) /\ Live(k, h) => j = k
    /\ \A p, q \in Askers : Wants(p, h) /\ Wants(q, h) => p = q
    /\ \A j \in Joiners, q \in Askers : Live(j, h) /\ Wants(q, h) => q = j

Agrees(h) ==
    /\ \A j \in Joiners : Live(j, h) /\ Posted(j) => running[h] = disk[h]
    /\ \A q \in Askers : Wants(q, h) =>
          /\ running[h] = req[q].token => disk[h] = req[q].token
          /\ req[q].pc = "add" => running[h] = req[q].token

Settled(h) ==
    \A n \in table \cup saved : n.host = h =>
        /\ running[h] = n.token /\ disk[h] = n.token
        /\ \A j \in Joiners : ~Live(j, h)
        /\ \A q \in Askers : ~Wants(q, h)

HostFine(h) == OneAtWork(h) /\ Agrees(h) /\ (h \notin edited => Settled(h))

AnswerInv == \A h \in Hosts \ again : HostFine(h)

\* Nothing that is about the host begins or gets as far as the table.
Quieter(h) ==
    /\ \A j \in Joiners : Live(j, h)' => Live(j, h) /\ (Posted(j)' => Posted(j))
    /\ \A q \in Askers : Wants(q, h)' =>
          /\ Wants(q, h) /\ req'[q].token = req[q].token
          /\ req'[q].pc = "add" => req[q].pc = "add"

NoNewEntry(h) == \A n \in table' \cup saved' : n.host = h => n \in table \cup saved

LEMMA QuietFrame ==
    ASSUME NEW h \in Hosts, HostFine(h), Quieter(h), h \notin edited' => NoNewEntry(h),
           edited \subseteq edited', disk'[h] = disk[h], running'[h] = running[h]
    PROVE  HostFine(h)'
<1>1. OneAtWork(h)'
  BY DEF HostFine, OneAtWork, Quieter, Live, Wants
<1>2. Agrees(h)'
  BY DEF HostFine, Agrees, Quieter, Live, Wants, Posted
<1>3. (h \notin edited => Settled(h))'
  BY DEF HostFine, Settled, Quieter, Live, Wants, NoNewEntry
<1> QED BY <1>1, <1>2, <1>3 DEF HostFine

LEMMA GoQuiet ==
    ASSUME TypeInv, NEW j \in Joiners, NEW at, at \in {"post", "await"} => Posted(j),
           join[j].pc \notin Over,
           join'[j].pc = at, join'[j].host = join[j].host,
           \A k \in Joiners \ {j} : join'[k] = join[k], UNCHANGED req
    PROVE  \A h \in Hosts : Quieter(h)
BY DEF Quieter, Live, Posted, Wants

LEMMA AnswerQuiet ==
    ASSUME TypeInv, NEW q \in Askers, NEW status, Answer(q, status), req[q].pc # "none"
    PROVE  \A h \in Hosts : Quieter(h) /\ ~Wants(q, h)'
<1> SUFFICES ASSUME NEW h \in Hosts PROVE Quieter(h) /\ ~Wants(q, h)'
  OBVIOUS
<1>1. req'[q] = NoRequest /\ \A p \in Askers \ {q} : req'[p] = req[p]
  BY Answered DEF TypeInv, ReqType
<1>2. \A j \in Joiners : Live(j, h)' => Live(j, h) /\ (Posted(j)' => Posted(j))
  <2> SUFFICES ASSUME NEW j \in Joiners PROVE Live(j, h)' => Live(j, h) /\ (Posted(j)' => Posted(j))
    OBVIOUS
  <2>1. CASE join'[j] = join[j]
    BY <2>1 DEF Live, Posted
  <2>2. CASE At(j, "await")
    BY <2>2, Answered DEF Live, Posted, At, Over
  <2> QED BY <2>1, <2>2, Answered
<1> QED BY <1>1, <1>2, IdleFine, Constants DEF Quieter, Wants

\* Who is not over and has a request waits for it.
LEMMA LiveAwaits ==
    ASSUME TypeInv, NEW j \in Joiners, NEW h \in Hosts, Live(j, h), Wants(j, h)
    PROVE  At(j, "await")
BY IdleFine, Constants DEF TypeInv, Paired, Live, Wants, At

\* A claim of a host that is not noted as one too many finds nothing at work there.
LEMMA ClaimedFine ==
    ASSUME TypeInv, NEW h \in Hosts, NEW latest, Claim(h, latest), h \notin again'
    PROVE  /\ latest
           /\ \A n \in table \cup saved : n.host # h
           /\ \A j \in Joiners : ~Live(j, h)
           /\ \A q \in Askers : ~Wants(q, h)
BY DEF Claim, Unclaimed, Live, Wants, TypeInv, ReqType

LEMMA AgainGrows ==
    ASSUME [Next]_vars
    PROVE  again \subseteq again'
<1>1. ASSUME NEW h, NEW l, Claim(h, l) PROVE again \subseteq again'
  BY <1>1 DEF Claim
<1> QED BY <1>1 DEF Next, CreateCode, Expire, StartJoin, StartSSH, Dial, GenToken, Restart, Post,
           Lose, Kill, JobDone, JobTimeout, ChildSave, ChildRestart, Consume, Ping, Add, NodeAdd,
           NodeDelete, NodeUpdate, MasterRestart, vars, history

\* The steps of cmd_join: at most one join is at work on the host, and no request is
\* before it posts.
LEMMA AnswerJoinStep ==
    ASSUME TypeInv, NEW h \in Hosts, HostFine(h), edited \subseteq edited', h \notin again',
           NEW j \in Joiners,
           (\E g \in Hosts, c \in Codes : StartJoin(j, g, c) \/ StartSSH(j, g, c)) \/ JoinStep(j)
    PROVE  HostFine(h)'
<1> USE Constants
<1>0. /\ JoinType /\ ReqType /\ ChildType /\ Paired /\ tokens \in Nat
      /\ join[j] \in JoinRecord /\ JoinFine(join[j], tokens) /\ j \in Askers
  BY DEF TypeInv, ChildType, JoinType, Askers
<1>1. ASSUME NEW g \in Hosts, NEW c \in Codes, StartJoin(j, g, c) \/ StartSSH(j, g, c)
      PROVE  HostFine(h)'
  <2>1. PICK at \in {"token", "dial"} : join' = [join EXCEPT ![j] = Joining(g, c, at)]
    BY <1>1 DEF StartJoin, StartSSH
  <2>2. /\ join'[j].pc \in {"token", "dial"} /\ join'[j].host = g
        /\ \A k \in Joiners \ {j} : join'[k] = join[k]
    BY <1>0, <2>1 DEF Joining, JoinType
  <2>3. UNCHANGED <<table, saved, disk, running, req, edited>> /\ Claim(g, TRUE)
    BY <1>1 DEF StartJoin, StartSSH, master, child, Claim
  <2>4. CASE g = h
    <3>1. /\ \A n \in table \cup saved : n.host # h
          /\ \A k \in Joiners : ~Live(k, h)
          /\ \A q \in Askers : ~Wants(q, h)
      BY <2>3, <2>4, ClaimedFine
    <3>2. \A k \in Joiners : Live(k, h)' => k = j
      BY <2>2, <3>1 DEF Live
    <3>3. \A q \in Askers : ~Wants(q, h)'
      BY <2>3, <3>1 DEF Wants
    <3>4. ~Posted(j)'
      BY <2>2 DEF Posted
    <3> QED BY <2>3, <3>1, <3>2, <3>3, <3>4 DEF HostFine, OneAtWork, Agrees, Settled
  <2>5. CASE g # h
    <3>1. Quieter(h)
      BY <2>2, <2>3, <2>5 DEF Quieter, Live, Posted, Wants
    <3> QED BY <2>3, <3>1, QuietFrame DEF NoNewEntry
  <2> QED BY <2>4, <2>5
<1>2. ASSUME Dial(j) \/ Lose(j) \/ Kill(j) PROVE HostFine(h)'
  <2>1. PICK at \in {"token", "failed", "killed"} : GoTo(j, at)
    BY <1>2 DEF Dial, Lose, Kill
  <2>2. /\ join[j].pc \notin Over /\ UNCHANGED <<table, saved, disk, running, req, edited, tokens>>
        /\ ~At(j, "idle")
    BY <1>2 DEF Dial, Lose, Kill, At, Over, master, child, history
  <2>3. /\ join'[j].pc = at /\ join'[j].host = join[j].host
        /\ \A k \in Joiners \ {j} : join'[k] = join[k]
    BY <1>0, <2>1, <2>2, GoType DEF JoinStates
  <2>4. Quieter(h)
    BY <2>2, <2>3, GoQuiet
  <2> QED BY <2>2, <2>4, QuietFrame DEF NoNewEntry
<1>3. ASSUME GenToken(j) \/ Restart(j) PROVE HostFine(h)'
  <2>1. /\ join[j].pc \in {"token", "restart"} /\ join'[j].pc \in {"restart", "post"}
        /\ join'[j].host = join[j].host
        /\ \A k \in Joiners \ {j} : join'[k] = join[k]
        /\ UNCHANGED <<table, saved, req, edited>>
        /\ \A g \in Hosts \ {join[j].host} : disk'[g] = disk[g] /\ running'[g] = running[g]
        /\ join'[j].pc = "post" => running'[join[j].host] = disk'[join[j].host]
    BY <1>0, <1>3 DEF GenToken, Restart, At, GoTo, JoinType, JoinRecord, ChildType, JoinFine,
       master, history
  <2>2. CASE join[j].host # h
    <3>1. Quieter(h) /\ disk'[h] = disk[h] /\ running'[h] = running[h]
      BY <2>1, <2>2 DEF Quieter, Live, Posted, Wants
    <3> QED BY <2>1, <3>1, QuietFrame DEF NoNewEntry
  <2>3. CASE join[j].host = h
    <3>1. Live(j, h)
      BY <2>1, <2>3 DEF Live, Over
    <3>2. \A q \in Askers : ~Wants(q, h)'
      <4>1. ~Wants(j, h)
        BY <2>1, <3>1, LiveAwaits DEF At
      <4> QED BY <2>1, <3>1, <4>1 DEF HostFine, OneAtWork, Wants
    <3>3. \A k \in Joiners : Live(k, h)' => k = j
      BY <2>1, <3>1 DEF HostFine, OneAtWork, Live
    <3>4. h \notin edited => \A n \in table \cup saved : n.host # h
      BY <3>1 DEF HostFine, Settled
    <3>5. Agrees(h)'
      BY <2>1, <2>3, <3>2, <3>3 DEF Agrees, Posted
    <3> QED BY <2>1, <3>2, <3>3, <3>4, <3>5 DEF HostFine, OneAtWork, Settled
  <2> QED BY <2>2, <2>3
<1>4. CASE Post(j)
  <2>1. /\ At(j, "post") /\ GoTo(j, "await") /\ UNCHANGED <<table, saved, disk, running, edited, tokens>>
        /\ req[j].pc = "none"
        /\ req'[j].pc = "consume" /\ req'[j].host = join[j].host
        /\ \A q \in Askers \ {j} : req'[q] = req[q]
    <3>0. PICK name \in Names :
             req' = [req EXCEPT ![j] = [pc |-> "consume", host |-> join[j].host, name |-> name,
                                        code |-> join[j].code, token |-> join[j].token]]
      BY <1>4 DEF Post
    <3> DEFINE x == [pc |-> "consume", host |-> join[j].host, name |-> name,
                     code |-> join[j].code, token |-> join[j].token]
    <3>1. x.pc = "consume" /\ x.host = join[j].host
      OBVIOUS
    <3>2. req' = [req EXCEPT ![j] = x] /\ req[j] = NoRequest
      BY <1>4, <3>0 DEF Post
    <3> HIDE DEF x
    <3>3. req'[j] = x /\ \A q \in Askers \ {j} : req'[q] = req[q]
      BY <1>0, <3>2 DEF ReqType
    <3> QED BY <1>4, <3>1, <3>2, <3>3, IdleFine DEF Post, master, child, history, bounds
  <2>2. /\ join'[j].pc = "await" /\ join'[j].host = join[j].host
        /\ \A k \in Joiners \ {j} : join'[k] = join[k]
    BY <1>0, <2>1, GoType DEF At, JoinStates
  <2>3. CASE join[j].host # h
    <3>1. Quieter(h)
      BY <2>1, <2>2, <2>3 DEF Quieter, Live, Posted, Wants
    <3> QED BY <2>1, <3>1, QuietFrame DEF NoNewEntry
  <2>4. CASE join[j].host = h
    <3>1. Live(j, h) /\ Posted(j)
      BY <2>1, <2>4 DEF Live, Posted, At, Over
    <3>2. \A k \in Joiners : Live(k, h)' => k = j
      BY <2>2, <3>1 DEF HostFine, OneAtWork, Live
    <3>3. \A q \in Askers : Wants(q, h)' => q = j
      BY <2>1, <3>1 DEF HostFine, OneAtWork, Wants
    <3>4. running[h] = disk[h] /\ (h \notin edited => \A n \in table \cup saved : n.host # h)
      BY <3>1 DEF HostFine, Settled, Agrees
    <3>5. Agrees(h)'
      BY <2>1, <3>2, <3>3, <3>4 DEF Agrees
    <3> QED BY <2>1, <3>2, <3>3, <3>4, <3>5 DEF HostFine, OneAtWork, Settled
  <2> QED BY <2>3, <2>4
<1> QED BY <1>1, <1>2, <1>3, <1>4 DEF JoinStep

\* An entry that joins the table is the host's only one, with the token it answers to.
LEMMA AddAnswers ==
    ASSUME TypeInv, NEW h \in Hosts, HostFine(h), edited \subseteq edited',
           NEW q \in Askers, Add(q)
    PROVE  HostFine(h)'
<1>0. Asks(q, "add") /\ UNCHANGED <<disk, running, edited>>
  BY DEF Add, child
<1>1. PICK status \in {200, 409} :
          /\ Answer(q, status)
          /\ \/ UNCHANGED <<table, saved>>
             \/ table' = table \cup {Added(q)} /\ saved' \in {saved, table'}
  BY DEF Add, Admit
<1>2. Quieter(h) /\ ~Wants(q, h)'
  BY <1>0, <1>1, AnswerQuiet DEF Asks
<1>3. Added(q).host = req[q].host /\ Added(q).token = req[q].token
  BY DEF Added
<1>4. CASE req[q].host # h \/ UNCHANGED <<table, saved>>
  <2>1. NoNewEntry(h)
    BY <1>1, <1>3, <1>4 DEF NoNewEntry
  <2> QED BY <1>0, <1>2, <2>1, QuietFrame
<1>5. CASE req[q].host = h /\ table' = table \cup {Added(q)} /\ saved' \in {saved, table'}
  <2>1. OneAtWork(h) /\ Agrees(h) /\ Wants(q, h)
    BY <1>5 DEF HostFine, Wants
  <2>2. running[h] = req[q].token /\ disk[h] = req[q].token
    BY <1>0, <2>1 DEF Agrees, Asks
  <2>3. h \notin edited => \A n \in table \cup saved : n.host # h
    BY <2>1 DEF HostFine, Settled
  <2>4. \A p \in Askers : ~Wants(p, h)'
    BY <1>2, <2>1 DEF Quieter, OneAtWork
  <2>5. \A j \in Joiners : ~Live(j, h)'
    <3> SUFFICES ASSUME NEW j \in Joiners, Live(j, h)' PROVE FALSE
      OBVIOUS
    <3>1. Live(j, h)
      BY <1>2 DEF Quieter
    <3>2. j = q /\ At(j, "await")
      BY <2>1, <3>1, LiveAwaits DEF OneAtWork
    <3>3. join'[j].pc \in {"bound", "failed"}
      BY <1>0, <1>1, <3>2, Answered DEF Asks, Retried
    <3> QED BY <3>3 DEF Live, Over
  <2>6. h \notin edited => \A n \in table' \cup saved' : n.host = h => n = Added(q)
    BY <1>5, <2>3
  <2> QED BY <1>0, <1>3, <2>2, <2>4, <2>5, <2>6 DEF HostFine, OneAtWork, Agrees, Settled
<1> QED BY <1>1, <1>4, <1>5

LEMMA AnswerInvStep ==
    ASSUME TypeInv, AnswerInv, [Next]_vars
    PROVE  AnswerInv'
<1> USE Constants
<1> SUFFICES ASSUME NEW h \in Hosts, h \notin again' PROVE HostFine(h)'
  BY DEF AnswerInv
<1>0. /\ HostFine(h) /\ edited \subseteq edited' /\ Paired
      /\ req \in [Askers -> ReqRecord] /\ join \in [Joiners -> JoinRecord]
  BY AgainGrows, TableMoves DEF AnswerInv, TypeInv, ReqType, JoinType
<1>a. UNCHANGED <<join, req>> => Quieter(h)
  BY DEF Quieter, Live, Posted, Wants
<1>b. UNCHANGED <<table, saved>> => NoNewEntry(h)
  BY DEF NoNewEntry
<1>1. ASSUME NEW c \in Codes, CreateCode(c) \/ Expire(c) PROVE HostFine(h)'
  BY <1>0, <1>1, <1>a, <1>b, QuietFrame DEF CreateCode, Expire, child
<1>2. ASSUME NEW j \in Joiners, JobDone(j) \/ JobTimeout(j) PROVE HostFine(h)'
  BY <1>0, <1>2, <1>a, <1>b, QuietFrame DEF JobDone, JobTimeout, child, master
<1>3. ASSUME NEW g \in Hosts, ChildSave(g) \/ ChildRestart(g) PROVE HostFine(h)'
  <2>1. UNCHANGED <<table, saved, join, req, edited>> /\ disk[g] # running[g]
    BY <1>3 DEF ChildSave, ChildRestart, master, history
  <2>2. CASE g # h
    <3>1. disk'[h] = disk[h] /\ running'[h] = running[h]
      BY <1>3, <2>2 DEF ChildSave, ChildRestart, TypeInv, ChildType
    <3> QED BY <1>0, <2>1, <3>1, <1>a, <1>b, QuietFrame
  <2>3. CASE g = h
    <3>1. \/ running'[h] = running[h] /\ disk'[h] = running[h]
          \/ disk'[h] = disk[h] /\ running'[h] = disk[h]
      BY <1>3, <2>3 DEF ChildSave, ChildRestart, TypeInv, ChildType
    <3>2. OneAtWork(h)'
      BY <1>0, <2>1 DEF HostFine, OneAtWork, Live, Wants
    <3>3. Agrees(h)'
      BY <1>0, <2>1, <2>3, <3>1 DEF HostFine, Agrees, Live, Wants, Posted
    <3>4. (h \notin edited => Settled(h))'
      BY <1>0, <2>1, <2>3 DEF HostFine, Settled
    <3> QED BY <3>2, <3>3, <3>4 DEF HostFine
  <2> QED BY <2>2, <2>3
<1>4. ASSUME NEW q \in Askers, Consume(q) \/ Ping(q) PROVE HostFine(h)'
  <2>1. req[q].pc # "none" /\ UNCHANGED <<table, saved, disk, running, edited, tokens>>
    BY <1>4 DEF Consume, Ping, Asks, master, child, history
  <2>2. \/ \E status \in {400, 403, 429, 502} : Answer(q, status)
        \/ Serve(q, "ping")
        \/ Serve(q, "add") /\ AnswersTo(req[q].host, req[q].token)
    BY <1>4 DEF Consume, Ping
  <2>3. ASSUME NEW status, Answer(q, status) PROVE HostFine(h)'
    BY <1>0, <2>1, <2>3, <1>b, AnswerQuiet, QuietFrame
  <2>4. CASE Serve(q, "ping")
    <3>1. Quieter(h)
      BY <2>1, <2>4, ServeType DEF Quieter, Live, Posted, Wants
    <3> QED BY <1>0, <2>1, <3>1, <1>b, QuietFrame
  <2>5. CASE Serve(q, "add") /\ AnswersTo(req[q].host, req[q].token)
    <3>1. /\ UNCHANGED join /\ req'[q].host = req[q].host /\ req'[q].token = req[q].token
          /\ \A p \in Askers \ {q} : req'[p] = req[p]
      BY <2>1, <2>5, ServeType
    <3>2. \A p \in Askers : (Wants(p, h)' <=> Wants(p, h)) /\ req'[p].token = req[p].token
      BY <3>1 DEF Wants
    <3>3. OneAtWork(h)' /\ (h \notin edited => Settled(h))'
      BY <1>0, <2>1, <3>1, <3>2 DEF HostFine, OneAtWork, Settled, Live
    <3>4. Agrees(h)'
      <4>1. \A p \in Askers : Wants(p, h) /\ req'[p].pc = "add" => running[h] = req[p].token
        BY <1>0, <2>5, <3>1 DEF HostFine, Agrees, AnswersTo, Wants
      <4> QED BY <1>0, <2>1, <3>1, <3>2, <4>1 DEF HostFine, Agrees, Live, Posted
    <3> QED BY <3>3, <3>4 DEF HostFine
  <2> QED BY <2>2, <2>3, <2>4, <2>5
<1>5. ASSUME NEW g \in Hosts, NEW t \in Token, NodeAdd(g, t) PROVE HostFine(h)'
  <2>0. PICK name \in Names :
           req' = [req EXCEPT ![Admin] = [pc |-> "ping", host |-> g, name |-> name,
                                          code |-> NoCode, token |-> t]]
    BY <1>5 DEF NodeAdd
  <2> DEFINE x == [pc |-> "ping", host |-> g, name |-> name, code |-> NoCode, token |-> t]
  <2>1. /\ UNCHANGED <<table, saved, disk, running, join, edited>> /\ Claim(g, t = disk[g])
        /\ req' = [req EXCEPT ![Admin] = x] /\ req[Admin].pc = "none"
    BY <1>5, <2>0 DEF NodeAdd, Asks, Claim, master, child
  <2>2. x.pc = "ping" /\ x.host = g /\ x.token = t
    OBVIOUS
  <2> HIDE DEF x
  <2>3. req'[Admin] = x /\ \A p \in Askers \ {Admin} : req'[p] = req[p]
    BY <1>0, <2>1 DEF Askers
  <2>4. CASE g # h
    <3>1. Quieter(h)
      BY <2>1, <2>2, <2>3, <2>4 DEF Quieter, Live, Posted, Wants
    <3> QED BY <1>0, <2>1, <3>1, <1>b, QuietFrame
  <2>5. CASE g = h
    <3>1. /\ t = disk[h]
          /\ \A n \in table \cup saved : n.host # h
          /\ \A k \in Joiners : ~Live(k, h)
          /\ \A q \in Askers : ~Wants(q, h)
      BY <2>1, <2>5, ClaimedFine
    <3>2. \A q \in Askers : Wants(q, h)' => q = Admin
      BY <2>3, <3>1 DEF Wants
    <3>3. \A k \in Joiners : ~Live(k, h)'
      BY <2>1, <3>1 DEF Live
    <3> QED BY <2>1, <2>2, <2>3, <3>1, <3>2, <3>3 DEF HostFine, OneAtWork, Agrees, Settled
  <2> QED BY <2>4, <2>5
<1>6. ASSUME NEW n \in table, NodeDelete(n) PROVE HostFine(h)'
  <2>1. UNCHANGED <<join, req, disk, running, edited>> /\ NoNewEntry(h)
    BY <1>6 DEF NodeDelete, Store, child, NoNewEntry
  <2> QED BY <1>0, <2>1, <1>a, QuietFrame
<1>7. ASSUME NEW n \in table, NEW m \in Entry, NodeUpdate(n, m) PROVE HostFine(h)'
  <2>1. UNCHANGED <<join, req, disk, running>> /\ (h \notin edited' => NoNewEntry(h))
    BY <1>7 DEF NodeUpdate, Store, child, NoNewEntry
  <2> QED BY <1>0, <2>1, <1>a, QuietFrame
<1>8. CASE MasterRestart
  <2>1. /\ UNCHANGED <<saved, disk, running, edited>> /\ table' = saved
        /\ \A q \in Askers : req'[q] = NoRequest
        /\ \A j \in Joiners : join'[j] = IF join[j].pc \in {"dial", "await"}
                                         THEN [join[j] EXCEPT !.pc = "failed"] ELSE join[j]
    BY <1>0, <1>8 DEF MasterRestart, child, history
  <2>2. \A j \in Joiners : Live(j, h)' => Live(j, h) /\ (Posted(j)' => Posted(j))
    BY <1>0, <2>1 DEF Live, Posted, Over, JoinRecord
  <2>3. Quieter(h) /\ NoNewEntry(h)
    BY <2>1, <2>2, IdleFine DEF Quieter, Wants, NoNewEntry
  <2> QED BY <1>0, <2>1, <2>3, QuietFrame
<1>9. CASE UNCHANGED vars
  BY <1>0, <1>9, <1>a, <1>b, QuietFrame DEF vars, master, child, history
<1>10. ASSUME NEW j \in Joiners,
              (\E g \in Hosts, c \in Codes : StartJoin(j, g, c) \/ StartSSH(j, g, c)) \/ JoinStep(j)
       PROVE  HostFine(h)'
  BY <1>0, <1>10, AnswerJoinStep
<1>11. ASSUME NEW q \in Askers, Add(q) PROVE HostFine(h)'
  BY <1>0, <1>11, AddAnswers
<1> QED BY <1>1, <1>2, <1>3, <1>4, <1>5, <1>6, <1>7, <1>8, <1>9, <1>10, <1>11
        DEF Next, JoinStep, Askers

\* When no host is claimed twice and the token that is typed is the latest, every
\* entry that nobody edited works: the panel on its host answers to its token, now
\* and after a restart there. The interleavings in which a child saves its settings
\* over a new token, or a request outlives its shell, end in no entry.
THEOREM EntriesWork == Spec => []EntriesAnswer
<1>1. Init => AnswerInv
  BY IdleFine, Constants DEF Init, AnswerInv, HostFine, OneAtWork, Agrees, Settled, Live, Wants, Askers
<1>2. TypeInv /\ AnswerInv /\ [Next]_vars => AnswerInv'
  BY AnswerInvStep
<1>3. TypeInv /\ AnswerInv => EntriesAnswer
  BY DEF AnswerInv, HostFine, Settled, EntriesAnswer, TypeInv, EntryType, Entry
<1> QED BY <1>1, <1>2, <1>3, TypeInit, TypeStep, PTL DEF Spec

===============================================================================
