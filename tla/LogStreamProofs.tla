---------------------------- MODULE LogStreamProofs -----------------------------
(***************************************************************************)
(* Proofs about LogStream for every number of pages, jobs, events and faults and *)
(* every size of channels and connections: types, no gaps, and complete logs.     *)
(***************************************************************************)
EXTENDS LogStream, SequenceTheorems, TLAPS

-------------------------------------------------------------------------------
(* What is on a connection: the events from the last one read to the last one     *)
(* sent, each once, and the state after all of them.                               *)

Message == Jobs \X Nat

WireIs(w, j, last, sent, at) ==
    /\ w \in Seq(Message)
    /\ IF at = "ended"
       THEN /\ Len(w) >= 1 /\ w[Len(w)][1] = j /\ w[Len(w)][2] = 0 /\ last + Len(w) = sent + 1
            /\ \A i \in 1..Len(w) - 1 : w[i][1] = j /\ w[i][2] = last + i
       ELSE /\ last + Len(w) = sent
            /\ \A i \in 1..Len(w) : w[i][1] = j /\ w[i][2] = last + i

LogIs(log, j) ==
    log \in Seq(Message) /\ \A i \in 1..Len(log) : log[i][1] = j /\ log[i][2] = i

LEMMA WireEmpty ==
    ASSUME NEW j \in Jobs, NEW n \in Nat
    PROVE  \A at : at # "ended" => WireIs(<<>>, j, n, n, at)
<1>1. <<>> \in Seq(Message) /\ Len(<<>>) = 0
  BY EmptySeq
<1> QED BY <1>1 DEF WireIs

LEMMA WireSent ==
    ASSUME NEW w, NEW j \in Jobs, NEW last \in Nat, NEW sent \in Nat, NEW e \in Message,
           NEW at, at # "ended", WireIs(w, j, last, sent, at), e[1] = j
    PROVE  /\ e[2] = sent + 1 => WireIs(Append(w, e), j, last, sent + 1, at)
           /\ e[2] = 0 => WireIs(Append(w, e), j, last, sent, "ended")
           /\ Len(Append(w, e)) = Len(w) + 1
<1>1. w \in Seq(Message) /\ Len(w) \in Nat /\ last + Len(w) = sent
  BY LenProperties DEF WireIs
<1> DEFINE v == Append(w, e)
<1>2. /\ v \in Seq(Message) /\ Len(v) = Len(w) + 1 /\ v[Len(w) + 1] = e
      /\ \A i \in 1..Len(w) : v[i] = w[i]
  BY <1>1, AppendProperties
<1> HIDE DEF v
<1>3. /\ last + Len(v) = sent + 1 /\ Len(v) >= 1
      /\ \A i \in 1..Len(v) - 1 : v[i][1] = j /\ v[i][2] = last + i
      /\ v[Len(v)] = e
  <2>1. last + Len(v) = sent + 1 /\ Len(v) >= 1 /\ v[Len(v)] = e /\ 1..Len(v) - 1 = 1..Len(w)
    BY <1>1, <1>2
  <2>2. \A i \in 1..Len(w) : w[i][1] = j /\ w[i][2] = last + i
    BY DEF WireIs
  <2> QED BY <1>2, <2>1, <2>2
<1>4. ASSUME e[2] = sent + 1 PROVE WireIs(v, j, last, sent + 1, at)
  <2>1. \A i \in 1..Len(v) : i \in 1..Len(v) - 1 \/ i = Len(v)
    BY <1>1, <1>2
  <2> QED BY <1>1, <1>2, <1>3, <1>4, <2>1 DEF WireIs
<1>5. ASSUME e[2] = 0 PROVE WireIs(v, j, last, sent, "ended")
  BY <1>2, <1>3, <1>5 DEF WireIs
<1> QED BY <1>2, <1>4, <1>5 DEF v

LEMMA WireEnds ==
    ASSUME NEW w, NEW j \in Jobs, NEW last \in Nat, NEW sent \in Nat, NEW e \in Message,
           WireIs(w, j, last, sent, "state"), e[1] = j, e[2] = 0
    PROVE  WireIs(Append(w, e), j, last, sent, "ended") /\ Len(Append(w, e)) = Len(w) + 1
<1>1. "state" # "ended"
  OBVIOUS
<1> QED BY <1>1, WireSent

LEMMA WireRead ==
    ASSUME NEW w, NEW j \in Jobs, NEW last \in Nat, NEW sent \in Nat, NEW at,
           WireIs(w, j, last, sent, at), w # <<>>
    PROVE  /\ Head(w) \in Message /\ Head(w)[1] = j
           /\ IF Head(w)[2] = 0 THEN at = "ended" /\ last = sent
              ELSE /\ Head(w)[2] = last + 1 /\ last + 1 <= sent
                   /\ WireIs(Tail(w), j, last + 1, sent, at)
                   /\ Len(Tail(w)) = Len(w) - 1
<1> DEFINE v == Tail(w)
<1>1. /\ w \in Seq(Message) /\ Len(w) \in Nat \ {0} /\ Head(w) = w[1] /\ Head(w) \in Message
      /\ v \in Seq(Message) /\ Len(v) = Len(w) - 1
      /\ \A i \in 1..Len(v) : v[i] = w[i + 1]
  BY EmptySeq, HeadTailProperties DEF WireIs
<1> HIDE DEF v
<1>2. CASE Len(w) = 1 /\ at = "ended"
  <2>1. Head(w)[1] = j /\ Head(w)[2] = 0 /\ last = sent
    BY <1>1, <1>2 DEF WireIs
  <2> QED BY <1>1, <1>2, <2>1
<1>3. CASE ~(Len(w) = 1 /\ at = "ended")
  <2>1. /\ Head(w)[1] = j /\ Head(w)[2] = last + 1 /\ Head(w)[2] # 0 /\ last + 1 <= sent
        /\ Len(v) \in Nat
    BY <1>1, <1>3 DEF WireIs
  <2>0. Len(w) \in Nat /\ Len(v) \in Nat /\ Len(v) = Len(w) - 1
    BY <1>1, <2>1
  <2>2. ASSUME at = "ended" PROVE WireIs(v, j, last + 1, sent, at)
    <3>1. /\ w[Len(w)][1] = j /\ w[Len(w)][2] = 0 /\ last + Len(w) = sent + 1
          /\ \A i \in 1..Len(w) - 1 : w[i][1] = j /\ w[i][2] = last + i
      BY <2>2 DEF WireIs
    <3>a. last + Len(w) = sent + 1
      BY <3>1
    <3>b. last + 1 + Len(v) = sent + 1
      BY <2>0, <3>a
    <3>c. Len(v) >= 1 /\ v[Len(v)] = w[Len(v) + 1] /\ Len(v) + 1 = Len(w)
      BY <1>1, <1>3, <2>0, <2>2
    <3>2. Len(v) >= 1 /\ last + 1 + Len(v) = sent + 1 /\ v[Len(v)] = w[Len(w)]
      BY <3>b, <3>c
    <3>3. \A i \in 1..Len(v) - 1 : i + 1 \in 1..Len(w) - 1 /\ v[i] = w[i + 1]
      BY <1>1, <2>1
    <3>4. \A i \in 1..Len(v) - 1 : v[i][1] = j /\ v[i][2] = last + 1 + i
      <4> SUFFICES ASSUME NEW i \in 1..Len(v) - 1 PROVE v[i][1] = j /\ v[i][2] = last + 1 + i
        OBVIOUS
      <4>a. i + 1 \in 1..Len(w) - 1 /\ v[i] = w[i + 1]
        BY <3>3
      <4>b. \A k \in 1..Len(w) - 1 : w[k][1] = j /\ w[k][2] = last + k
        BY <3>1
      <4>1. v[i][1] = j /\ v[i][2] = last + (i + 1)
        BY <4>a, <4>b
      <4>2. last + (i + 1) = last + 1 + i
        BY <2>0
      <4> QED BY <4>1, <4>2
    <3> QED BY <1>1, <2>2, <3>1, <3>2, <3>4 DEF WireIs
  <2>3. ASSUME at # "ended" PROVE WireIs(v, j, last + 1, sent, at)
    <3>1. /\ last + Len(w) = sent
          /\ \A i \in 1..Len(w) : w[i][1] = j /\ w[i][2] = last + i
      BY <2>3 DEF WireIs
    <3>2. \A i \in 1..Len(v) : i + 1 \in 1..Len(w) /\ v[i] = w[i + 1]
      BY <1>1, <2>1
    <3>3. \A i \in 1..Len(v) : v[i][1] = j /\ v[i][2] = last + 1 + i
      BY <3>1, <3>2
    <3>a. last + Len(w) = sent
      BY <3>1
    <3>4. last + 1 + Len(v) = sent
      BY <2>0, <3>a
    <3> QED BY <1>1, <2>3, <3>3, <3>4 DEF WireIs
  <2>4. WireIs(v, j, last + 1, sent, at)
    BY <2>2, <2>3
  <2> QED BY <1>1, <2>1, <2>4 DEF v
<1> QED BY <1>2, <1>3

\* Numbers on a connection rise.
LEMMA WireRises ==
    ASSUME NEW w, NEW j \in Jobs, NEW last \in Nat, NEW sent \in Nat, NEW at,
           WireIs(w, j, last, sent, at)
    PROVE  \A i, k \in 1..Len(w) : i < k /\ w[k][2] # 0 => w[i][2] < w[k][2]
<1>1. Len(w) \in Nat
  BY LenProperties DEF WireIs
<1> SUFFICES ASSUME NEW i \in 1..Len(w), NEW k \in 1..Len(w), i < k, w[k][2] # 0
             PROVE  w[i][2] < w[k][2]
  OBVIOUS
<1>2. at = "ended" => k # Len(w)
  BY DEF WireIs
<1>3. w[i][2] = last + i /\ w[k][2] = last + k
  BY <1>1, <1>2 DEF WireIs
<1> QED BY <1>3

LEMMA LogShows ==
    ASSUME NEW log, NEW j \in Jobs, NEW last \in Nat, LogIs(log, j), last <= Len(log),
           NEW e \in Message, e[1] = j, e[2] = last + 1
    PROVE  /\ LogIs(Shown(log, e), j)
           /\ last + 1 <= Len(Shown(log, e))
           /\ Len(Shown(log, e)) = Len(log) \/ Len(Shown(log, e)) = last + 1
<1>1. /\ log \in Seq(Message) /\ Len(log) \in Nat
      /\ log # <<>> => Len(log) \in Nat \ {0} /\ log[Len(log)][2] = Len(log)
      /\ log = <<>> => Len(log) = 0
  BY LenProperties, EmptySeq DEF LogIs
<1>2. CASE Len(log) > last
  BY <1>1, <1>2 DEF Shown
<1>3. CASE Len(log) = last
  <2> DEFINE l == Append(log, e)
  <2>1. Shown(log, e) = l
    BY <1>1, <1>3 DEF Shown
  <2>2. /\ l \in Seq(Message) /\ Len(l) = last + 1 /\ l[last + 1] = e
        /\ \A i \in 1..last : l[i] = log[i]
    BY <1>1, <1>3, AppendProperties
  <2> HIDE DEF l
  <2>3. LogIs(l, j)
    <3>1. \A i \in 1..Len(l) : i \in 1..last \/ i = last + 1
      BY <2>2
    <3> QED BY <1>3, <2>2, <3>1 DEF LogIs
  <2> QED BY <2>1, <2>2, <2>3
<1> QED BY <1>1, <1>2, <1>3

LEMMA LogEmpty == \A j : LogIs(<<>>, j)
BY EmptySeq DEF LogIs

\* What the property says of such a log.
LEMMA LogListed ==
    ASSUME NEW log, NEW j, LogIs(log, j)
    PROVE  log = [i \in 1..Len(log) |-> <<j, i>>]
<1>1. log \in [1..Len(log) -> Message]
  BY LenProperties DEF LogIs
<1>2. \A i \in 1..Len(log) : log[i] = <<j, i>>
  <2> SUFFICES ASSUME NEW i \in 1..Len(log) PROVE log[i] = <<j, i>>
    OBVIOUS
  <2>1. log[i] \in Message /\ log[i][1] = j /\ log[i][2] = i
    BY <1>1 DEF LogIs
  <2> QED BY <2>1 DEF Message
<1> QED BY <1>1, <1>2

-------------------------------------------------------------------------------
(* The invariant: of the panel, and of a stream s, a connection w and a page g.    *)

StreamPcs == {"off", "snapshot", "drain", "loop", "lastSnapshot", "lastDrain", "state", "ended"}
Ending == {"lastSnapshot", "lastDrain", "state", "ended"}
JobStates == {"none", "running", "finished", "done", "gone"}

StreamRecord == [pc : StreamPcs, job : 0..MaxJobs, chan : Seq(Nat), sent : Nat, upto : Nat]
Answers == [job : 0..MaxJobs, running : BOOLEAN]
PageRecord ==
    [job : 0..MaxJobs, running : BOOLEAN, asks : BOOLEAN, told : SUBSET Answers, es : BOOLEAN,
     live : BOOLEAN, last : Nat, log : Seq(Message), finished : BOOLEAN, sleeps : BOOLEAN]

PanelFine ==
    /\ events \in [Jobs -> Nat] /\ job \in [Jobs -> JobStates] /\ current \in 0..MaxJobs
    /\ \A j \in Jobs : events[j] <= MaxEvents \/ (job[j] \in {"done", "gone"} /\ events[j] <= MaxEvents + 1)

\* A handler that is at the job's end has sent, or is about to send, all its events.
StreamFine(s, w, g, ev, jb, cur) ==
    IF s.pc = "off" THEN s = NoStream /\ w = <<>>
    ELSE /\ g.es /\ s.job = g.job /\ s.job = cur
         /\ Len(s.chan) <= Cap /\ Len(w) <= Window
         /\ s.sent <= ev[cur] /\ s.upto <= ev[cur]
         /\ WireIs(w, cur, g.last, s.sent, s.pc)
         /\ s.pc \in Ending => jb[cur] = "done"
         /\ s.pc = "lastDrain" => s.upto = ev[cur]
         /\ s.pc \in {"state", "ended"} => s.sent = ev[cur]

\* An answer on its way is of the job there is, unless the panel ended since, and what the
\* page shows is that job's.
Timely(a, log, ev, cur) ==
    cur \in {0, a.job} /\ (a.job # 0 => LogIs(log, a.job) /\ Len(log) <= ev[a.job])

\* A page that will show the log of another job has an empty one.
PageFine(g, ev, jb, cur) ==
    /\ \A a \in g.told : Timely(a, g.log, ev, cur)
    /\ g.es => g.job \in Jobs /\ cur \in {0, g.job} /\ g.last <= Len(g.log)
    /\ g.job # 0 => LogIs(g.log, g.job) /\ Len(g.log) <= ev[g.job]
    /\ g.job # cur /\ cur # 0 /\ (g.asks \/ g.running) => g.log = <<>>
    /\ g.finished => /\ g.job # 0 /\ ~g.es /\ jb[g.job] \in {"done", "gone"}
                     /\ Len(g.log) = ev[g.job]

Fine(s, w, g, ev, jb, cur) ==
    /\ s \in StreamRecord /\ g \in PageRecord
    /\ StreamFine(s, w, g, ev, jb, cur) /\ PageFine(g, ev, jb, cur)

TablesFine == DOMAIN stream = Pages /\ DOMAIN wire = Pages /\ DOMAIN page = Pages
              /\ stream = [p \in Pages |-> stream[p]] /\ wire = [p \in Pages |-> wire[p]]
              /\ page = [p \in Pages |-> page[p]]

StreamInv ==
    /\ PanelFine /\ TablesFine
    /\ \A p \in Pages : Fine(stream[p], wire[p], page[p], events, job, current)

LEMMA Constants ==
    /\ Cap \in Nat \ {0} /\ Window \in Nat \ {0} /\ MaxJobs \in Nat /\ MaxEvents \in Nat
    /\ Jobs \subseteq 0..MaxJobs /\ 0 \in 0..MaxJobs /\ 0 \notin Jobs
    /\ 0..MaxJobs \ {0} \subseteq Jobs
BY StreamAssumption DEF Jobs

LEMMA NoneFine ==
    /\ NoStream \in StreamRecord /\ NoStream.pc = "off" /\ Loaded \in PageRecord
    /\ \A w, g, ev, jb, cur : w = <<>> => StreamFine(NoStream, w, g, ev, jb, cur)
<1>1. NoStream \in StreamRecord /\ NoStream.pc = "off"
  BY EmptySeq, Constants DEF NoStream, StreamRecord, StreamPcs
<1>2. Loaded \in PageRecord
  BY EmptySeq, Constants DEF Loaded, PageRecord
<1> QED BY <1>1, <1>2 DEF StreamFine

\* One page moves, with its stream and its connection.
LEMMA OnePage ==
    ASSUME StreamInv, UNCHANGED panel, NEW p \in Pages, NEW s, NEW w, NEW g,
           Fine(s, w, g, events, job, current),
           stream' = [stream EXCEPT ![p] = s], wire' = [wire EXCEPT ![p] = w],
           page' = [page EXCEPT ![p] = g]
    PROVE  StreamInv'
<1>1. TablesFine'
  BY DEF StreamInv, TablesFine
<1>2. stream'[p] = s /\ wire'[p] = w /\ page'[p] = g
  BY DEF StreamInv, TablesFine
<1>3. \A q \in Pages \ {p} : stream'[q] = stream[q] /\ wire'[q] = wire[q] /\ page'[q] = page[q]
  BY DEF StreamInv, TablesFine
<1>4. UNCHANGED <<events, job, current>>
  BY DEF panel
<1>5. \A q \in Pages : Fine(stream'[q], wire'[q], page'[q], events, job, current)
  BY <1>2, <1>3 DEF StreamInv
<1>6. PanelFine'
  BY <1>4 DEF StreamInv, PanelFine
<1> QED BY <1>1, <1>4, <1>5, <1>6 DEF StreamInv

\* What does not move is as if it were written again.
LEMMA SameHere ==
    ASSUME StreamInv, NEW p \in Pages
    PROVE  /\ stream = [stream EXCEPT ![p] = stream[p]]
           /\ wire = [wire EXCEPT ![p] = wire[p]]
           /\ page = [page EXCEPT ![p] = page[p]]
           /\ Fine(stream[p], wire[p], page[p], events, job, current)
           /\ PanelFine
BY DEF StreamInv, TablesFine

-------------------------------------------------------------------------------
(* The handler. *)

LEMMA Step_Connect ==
    ASSUME StreamInv, NEW p \in Pages, Connect(p)
    PROVE  StreamInv'
<1> USE Constants
<1>0. /\ Fine(stream[p], wire[p], page[p], events, job, current) /\ PanelFine
      /\ stream[p] = NoStream /\ wire[p] = <<>> /\ page[p].es /\ page[p] \in PageRecord
  BY SameHere DEF Connect, At, Fine, StreamFine
<1>1. CASE current = 0
  <2> DEFINE g == Closed(p)
  <2>1. /\ g \in PageRecord /\ ~g.es /\ g.job = page[p].job /\ g.log = page[p].log
        /\ g.asks = page[p].asks /\ g.running = page[p].running /\ g.finished = page[p].finished
        /\ g.told = page[p].told
    BY <1>0 DEF Closed, PageRecord
  <2>2. page' = [page EXCEPT ![p] = g] /\ UNCHANGED <<panel, stream, wire>>
    BY <1>1 DEF Connect
  <2> HIDE DEF g
  <2>3. Fine(stream[p], wire[p], g, events, job, current)
    BY <1>0, <2>1, NoneFine DEF Fine, PageFine
  <2> QED BY <2>2, <2>3, OnePage, SameHere
<1>2. CASE current # 0
  <2> DEFINE s == [NoStream EXCEPT !.pc = "snapshot", !.job = current, !.sent = page[p].last]
  <2>1. /\ s \in StreamRecord /\ s.pc = "snapshot" /\ s.job = current /\ s.sent = page[p].last
        /\ s.upto = 0 /\ s.chan = <<>>
    BY <1>0, EmptySeq DEF NoStream, StreamRecord, StreamPcs, PanelFine, PageRecord
  <2>2. stream' = [stream EXCEPT ![p] = s] /\ UNCHANGED <<panel, page, wire>>
    BY <1>2 DEF Connect
  <2> HIDE DEF s
  <2>3. /\ page[p].job = current /\ current \in Jobs /\ page[p].last \in Nat
        /\ page[p].last <= Len(page[p].log) /\ Len(page[p].log) <= events[current]
        /\ events[current] \in Nat /\ Len(page[p].log) \in Nat
    BY <1>0, <1>2, LenProperties DEF Fine, PageFine, PageRecord, PanelFine
  <2>4. WireIs(wire[p], current, page[p].last, s.sent, s.pc)
    <3>1. "snapshot" # "ended"
      OBVIOUS
    <3>2. WireIs(<<>>, current, page[p].last, page[p].last, "snapshot")
      BY <2>3, <3>1, WireEmpty
    <3>3. wire[p] = <<>>
      BY <1>0
    <3> QED BY <2>1, <3>2, <3>3
  <2>5. Len(s.chan) = 0 /\ Len(wire[p]) = 0
    BY <1>0, <2>1, EmptySeq
  <2>6. s.sent <= events[current] /\ s.upto <= events[current]
    BY <2>1, <2>3
  <2>7. StreamFine(s, wire[p], page[p], events, job, current)
    <3>1. Len(s.chan) <= Cap /\ Len(wire[p]) <= Window
      BY <2>5
    <3> QED BY <1>0, <2>1, <2>3, <2>4, <2>6, <3>1 DEF StreamFine, Ending
  <2>8. Fine(s, wire[p], page[p], events, job, current)
    BY <1>0, <2>1, <2>7 DEF Fine
  <2>9. wire' = [wire EXCEPT ![p] = wire[p]] /\ page' = [page EXCEPT ![p] = page[p]]
    BY <2>2, SameHere
  <2> QED BY <2>2, <2>8, <2>9, OnePage
<1> QED BY <1>1, <1>2

\* What every step of a handler that serves a page finds.
LEMMA Serving ==
    ASSUME StreamInv, NEW p \in Pages, ~At(p, "off")
    PROVE  /\ stream[p] \in StreamRecord /\ page[p] \in PageRecord /\ page[p].es
           /\ stream[p].job = current /\ page[p].job = current /\ current \in Jobs
           /\ events[current] \in Nat /\ page[p].last \in Nat /\ page[p].last <= Len(page[p].log)
           /\ stream[p].sent \in Nat /\ stream[p].upto \in Nat
           /\ stream[p].sent <= events[current] /\ stream[p].upto <= events[current]
           /\ Len(stream[p].chan) <= Cap /\ Len(wire[p]) <= Window /\ Len(wire[p]) \in Nat
           /\ WireIs(wire[p], current, page[p].last, stream[p].sent, stream[p].pc)
           /\ stream[p].pc \in Ending => job[current] = "done"
           /\ stream[p].pc = "lastDrain" => stream[p].upto = events[current]
           /\ stream[p].pc \in {"state", "ended"} => stream[p].sent = events[current]
           /\ PageFine(page[p], events, job, current)
<1>1. /\ Fine(stream[p], wire[p], page[p], events, job, current) /\ PanelFine
      /\ StreamFine(stream[p], wire[p], page[p], events, job, current) /\ stream[p].pc # "off"
  BY SameHere DEF At, Fine
<1>2. stream[p] \in StreamRecord /\ page[p] \in PageRecord /\ PageFine(page[p], events, job, current)
  BY <1>1 DEF Fine
<1>3. page[p].es /\ stream[p].job = current /\ page[p].job = current /\ current \in Jobs
  BY <1>1, <1>2 DEF StreamFine, PageFine
<1>4. Len(wire[p]) \in Nat
  BY <1>1, LenProperties DEF StreamFine, WireIs
<1>5. events[current] \in Nat /\ page[p].last \in Nat /\ stream[p].sent \in Nat /\ stream[p].upto \in Nat
  BY <1>1, <1>2, <1>3 DEF StreamRecord, PageRecord, PanelFine
<1>6. page[p].last <= Len(page[p].log)
  BY <1>2, <1>3 DEF PageFine
<1> QED BY <1>1, <1>2, <1>3, <1>4, <1>5, <1>6 DEF StreamFine

\* A handler that goes on with the same page and connection.
LEMMA HandlerMoves ==
    ASSUME StreamInv, NEW p \in Pages, ~At(p, "off"), NEW s \in StreamRecord,
           stream' = [stream EXCEPT ![p] = s], UNCHANGED <<panel, wire, page>>,
           s.pc # "off", s.pc = "ended" <=> At(p, "ended"),
           s.job = stream[p].job, s.sent = stream[p].sent, s.upto <= events[current],
           Len(s.chan) <= Cap, s.pc \in Ending => job[current] = "done",
           s.pc = "lastDrain" => s.upto = events[current],
           s.pc \in {"state", "ended"} => s.sent = events[current]
    PROVE  StreamInv'
<1>1. StreamFine(s, wire[p], page[p], events, job, current)
  <2>1. WireIs(wire[p], current, page[p].last, s.sent, s.pc)
    BY Serving DEF At, WireIs
  <2> QED BY <2>1, Serving DEF StreamFine
<1>2. Fine(s, wire[p], page[p], events, job, current)
  BY <1>1, Serving DEF Fine
<1>3. wire' = [wire EXCEPT ![p] = wire[p]] /\ page' = [page EXCEPT ![p] = page[p]]
  BY SameHere
<1> QED BY <1>2, <1>3, OnePage

LEMMA Step_Serve ==
    ASSUME StreamInv, NEW p \in Pages, Serve(p)
    PROVE  StreamInv'
<1> USE Constants
<1>0. ~At(p, "off")
  BY DEF Serve, Snapshot, Send, Drained, Receive, SeeDone, SendState, At
<1>s. /\ stream[p] \in StreamRecord /\ stream[p].job = current /\ current \in Jobs
      /\ events[current] \in Nat
      /\ stream[p].sent \in Nat /\ stream[p].upto \in Nat
      /\ stream[p].sent <= events[current] /\ stream[p].upto <= events[current]
      /\ Len(stream[p].chan) <= Cap
  BY <1>0, Serving
<1>1. CASE Snapshot(p)
  <2> DEFINE pc == IF At(p, "snapshot") THEN "drain" ELSE "lastDrain"
             s == [stream[p] EXCEPT !.upto = events[stream[p].job], !.pc = pc]
  <2>1. /\ stream[p].pc \in {"snapshot", "lastSnapshot"}
        /\ stream' = [stream EXCEPT ![p] = s] /\ UNCHANGED <<panel, wire, page>>
    BY <1>1 DEF Snapshot
  <2>2. /\ s \in StreamRecord /\ s.pc = pc /\ s.job = stream[p].job /\ s.sent = stream[p].sent
        /\ s.upto = events[current] /\ s.chan = stream[p].chan
    BY <1>s, <2>1 DEF StreamRecord, StreamPcs
  <2> HIDE DEF s
  <2>3. pc = "lastDrain" => job[current] = "done"
    BY <1>0, <2>1, Serving DEF At, Ending
  <2>4. s.upto <= events[current]
    BY <1>s, <2>2
  <2> QED BY <1>0, <1>s, <2>1, <2>2, <2>3, <2>4, HandlerMoves DEF At, Ending
<1>2. CASE Send(p)
  <2> DEFINE e == <<stream[p].job, stream[p].sent + 1>>
             s == [stream[p] EXCEPT !.sent = @ + 1]
             w == Append(wire[p], e)
  <2>1. /\ stream[p].pc \in {"drain", "lastDrain"} /\ stream[p].sent < stream[p].upto
        /\ Len(wire[p]) < Window /\ UNCHANGED <<panel, page>>
        /\ stream' = [stream EXCEPT ![p] = s] /\ wire' = [wire EXCEPT ![p] = w]
    BY <1>2 DEF Send
  <2>2. /\ s \in StreamRecord /\ s.pc = stream[p].pc /\ s.job = stream[p].job
        /\ s.sent = stream[p].sent + 1 /\ s.upto = stream[p].upto /\ s.chan = stream[p].chan
    BY <1>s DEF StreamRecord
  <2>3. e \in Message /\ e[1] = current /\ e[2] = stream[p].sent + 1
    BY <1>s DEF Message
  <2> HIDE DEF s, e
  <2>4. WireIs(wire[p], current, page[p].last, stream[p].sent, stream[p].pc)
    BY <1>0, Serving
  <2>5. WireIs(w, current, page[p].last, s.sent, s.pc) /\ Len(w) = Len(wire[p]) + 1
    <3>1. stream[p].pc # "ended"
      BY <2>1
    <3>2. page[p].last \in Nat
      BY <1>0, Serving
    <3>s. current \in Jobs /\ stream[p].sent \in Nat
      BY <1>s
    <3>3. WireIs(w, current, page[p].last, stream[p].sent + 1, stream[p].pc)
          /\ Len(w) = Len(wire[p]) + 1
      BY <3>s, <2>3, <2>4, <3>1, <3>2, WireSent
    <3> QED BY <2>2, <3>1, <3>3
  <2> HIDE DEF w
  <2>6. Len(w) <= Window /\ s.sent <= events[current] /\ s.upto <= events[current]
    <3>1. Len(wire[p]) \in Nat
      BY <1>0, Serving
    <3> QED BY <1>s, <2>1, <2>2, <2>5, <3>1
  <2>7. StreamFine(s, w, page[p], events, job, current)
    BY <1>0, <1>s, <2>1, <2>2, <2>5, <2>6, Serving DEF StreamFine
  <2>8. Fine(s, w, page[p], events, job, current)
    BY <1>0, <2>2, <2>7, Serving DEF Fine
  <2>9. page' = [page EXCEPT ![p] = page[p]]
    BY <2>1, SameHere
  <2> QED BY <2>1, <2>8, <2>9, OnePage
<1>3. CASE Drained(p)
  <2> DEFINE pc == IF At(p, "drain") THEN "loop" ELSE "state"
             s == [stream[p] EXCEPT !.pc = pc, !.upto = 0]
  <2>1. /\ stream[p].pc \in {"drain", "lastDrain"} /\ stream[p].sent >= stream[p].upto
        /\ stream' = [stream EXCEPT ![p] = s] /\ UNCHANGED <<panel, wire, page>>
    BY <1>3 DEF Drained
  <2>2. /\ s \in StreamRecord /\ s.pc = pc /\ s.job = stream[p].job /\ s.sent = stream[p].sent
        /\ s.upto = 0 /\ s.chan = stream[p].chan
    BY <1>s DEF StreamRecord, StreamPcs
  <2> HIDE DEF s
  <2>3. pc = "state" => job[current] = "done" /\ stream[p].upto = events[current]
    BY <1>0, <2>1, Serving DEF At, Ending
  <2>4. s.upto <= events[current] /\ (pc = "state" => s.sent = events[current])
    BY <1>s, <2>1, <2>2, <2>3
  <2> QED BY <1>0, <1>s, <2>1, <2>2, <2>3, <2>4, HandlerMoves DEF At, Ending
<1>4. CASE Receive(p)
  <2> DEFINE r == Received(p)
  <2>1. /\ stream[p].pc = "loop" /\ stream[p].chan # <<>> /\ UNCHANGED <<panel, wire, page>>
        /\ stream' = [stream EXCEPT ![p] = IF Head(stream[p].chan) > stream[p].sent
                                           THEN [r EXCEPT !.pc = "snapshot"] ELSE r]
    BY <1>4 DEF Receive, At
  <2>2. /\ r \in StreamRecord /\ r.pc = "loop" /\ r.job = stream[p].job
        /\ r.sent = stream[p].sent /\ r.upto = stream[p].upto /\ r.chan = Tail(stream[p].chan)
    <3>1. stream[p].chan \in Seq(Nat) /\ Tail(stream[p].chan) \in Seq(Nat)
      BY <1>s, <2>1, HeadTailProperties DEF StreamRecord
    <3> QED BY <1>s, <2>1, <3>1 DEF Received, StreamRecord
  <2> HIDE DEF r
  <2>3. Len(r.chan) <= Cap
    <3>1. stream[p].chan \in Seq(Nat)
      BY <1>s DEF StreamRecord
    <3>2. Len(stream[p].chan) \in Nat /\ Len(Tail(stream[p].chan)) = Len(stream[p].chan) - 1
      BY <2>1, <3>1, HeadTailProperties, LenProperties
    <3>3. Len(r.chan) = Len(stream[p].chan) - 1
      BY <2>2, <3>2
    <3> QED BY <1>s, <3>2, <3>3
  <2> DEFINE q == [r EXCEPT !.pc = "snapshot"]
  <2>4. /\ q \in StreamRecord /\ q.pc = "snapshot" /\ q.job = r.job
        /\ q.sent = r.sent /\ q.upto = r.upto /\ q.chan = r.chan
    BY <2>2 DEF StreamRecord, StreamPcs
  <2> HIDE DEF q
  <2>5. PICK s \in {r, q} : stream' = [stream EXCEPT ![p] = s]
    BY <2>1 DEF q
  <2>6. /\ s \in StreamRecord /\ s.pc \in {"loop", "snapshot"} /\ s.job = stream[p].job
        /\ s.sent = stream[p].sent /\ s.upto = stream[p].upto /\ Len(s.chan) <= Cap
    BY <2>2, <2>3, <2>4, <2>5
  <2> QED BY <1>0, <1>s, <2>1, <2>5, <2>6, HandlerMoves DEF At, Ending
<1>5. CASE SeeDone(p)
  <2> DEFINE s == [stream[p] EXCEPT !.pc = "lastSnapshot"]
  <2>1. /\ stream[p].pc = "loop" /\ job[current] = "done" /\ UNCHANGED <<panel, wire, page>>
        /\ stream' = [stream EXCEPT ![p] = s]
    BY <1>s, <1>5 DEF SeeDone, Goes, At
  <2>2. /\ s \in StreamRecord /\ s.pc = "lastSnapshot" /\ s.job = stream[p].job
        /\ s.sent = stream[p].sent /\ s.upto = stream[p].upto /\ s.chan = stream[p].chan
    BY <1>s DEF StreamRecord, StreamPcs
  <2> HIDE DEF s
  <2> QED BY <1>0, <1>s, <2>1, <2>2, HandlerMoves DEF At, Ending
<1>6. CASE SendState(p)
  <2> DEFINE e == <<stream[p].job, 0>>
             s == [stream[p] EXCEPT !.pc = "ended"]
             w == Append(wire[p], e)
  <2>1. /\ stream[p].pc = "state" /\ Len(wire[p]) < Window /\ UNCHANGED <<panel, page>>
        /\ stream' = [stream EXCEPT ![p] = s] /\ wire' = [wire EXCEPT ![p] = w]
    BY <1>6 DEF SendState, Goes, At
  <2>2. /\ s \in StreamRecord /\ s.pc = "ended" /\ s.job = stream[p].job
        /\ s.sent = stream[p].sent /\ s.upto = stream[p].upto /\ s.chan = stream[p].chan
    BY <1>s DEF StreamRecord, StreamPcs
  <2>3. e \in Message /\ e[1] = current /\ e[2] = 0
    BY <1>s DEF Message
  <2> HIDE DEF s, e
  <2>4. WireIs(wire[p], current, page[p].last, stream[p].sent, stream[p].pc)
    BY <1>0, Serving
  <2>5. WireIs(w, current, page[p].last, s.sent, s.pc) /\ Len(w) = Len(wire[p]) + 1
    <3>2. page[p].last \in Nat
      BY <1>0, Serving
    <3>3. WireIs(w, current, page[p].last, stream[p].sent, "ended") /\ Len(w) = Len(wire[p]) + 1
      <4>1. WireIs(wire[p], current, page[p].last, stream[p].sent, "state")
        BY <2>1, <2>4
      <4>2. current \in Jobs /\ stream[p].sent \in Nat
        BY <1>s
      <4> HIDE DEF w
      <4>3. /\ WireIs(Append(wire[p], e), current, page[p].last, stream[p].sent, "ended")
            /\ Len(Append(wire[p], e)) = Len(wire[p]) + 1
        BY <2>3, <3>2, <4>1, <4>2, WireEnds
      <4> QED BY <4>3 DEF w
    <3> QED BY <2>2, <3>3
  <2> HIDE DEF w
  <2>6. Len(w) <= Window
    <3>1. Len(wire[p]) \in Nat
      BY <1>0, Serving
    <3> QED BY <2>1, <2>5, <3>1
  <2>7. StreamFine(s, w, page[p], events, job, current)
    BY <1>0, <1>s, <2>1, <2>2, <2>5, <2>6, Serving DEF StreamFine, Ending
  <2>8. Fine(s, w, page[p], events, job, current)
    BY <1>0, <2>2, <2>7, Serving DEF Fine
  <2>9. page' = [page EXCEPT ![p] = page[p]]
    BY <2>1, SameHere
  <2> QED BY <2>1, <2>8, <2>9, OnePage
<1> QED BY <1>1, <1>2, <1>3, <1>4, <1>5, <1>6 DEF Serve

-------------------------------------------------------------------------------
(* The page. *)

\* A page that leaves its stream.
LEMMA PageLeaves ==
    ASSUME StreamInv, NEW p \in Pages, UNCHANGED panel, Off(p), NEW g \in PageRecord,
           page' = [page EXCEPT ![p] = g], PageFine(g, events, job, current)
    PROVE  StreamInv'
<1>1. Fine(NoStream, <<>>, g, events, job, current)
  BY NoneFine DEF Fine
<1> QED BY <1>1, OnePage DEF Off

\* A page whose stream and connection stay, and which shows what it showed.
LEMMA PageKeeps ==
    ASSUME StreamInv, NEW p \in Pages, NEW g \in PageRecord, UNCHANGED <<panel, stream, wire>>,
           page' = [page EXCEPT ![p] = g], g.es = page[p].es, g.job = page[p].job,
           g.last = page[p].last, PageFine(g, events, job, current)
    PROVE  StreamInv'
<1>1. /\ stream[p] \in StreamRecord
      /\ StreamFine(stream[p], wire[p], page[p], events, job, current)
  BY SameHere DEF Fine
<1>2. Fine(stream[p], wire[p], g, events, job, current)
  BY <1>1 DEF Fine, StreamFine
<1>3. stream' = [stream EXCEPT ![p] = stream[p]] /\ wire' = [wire EXCEPT ![p] = wire[p]]
  BY SameHere
<1> QED BY <1>2, <1>3, OnePage

LEMMA Step_Ask ==
    ASSUME StreamInv, NEW p \in Pages, Ask(p)
    PROVE  StreamInv'
<1> USE Constants
<1>0. /\ PanelFine /\ page[p] \in PageRecord /\ PageFine(page[p], events, job, current)
      /\ page[p].running \/ page[p].asks
  BY SameHere DEF Ask, Fine
<1>1. PICK a \in Answers : a = [job |-> current, running |-> Runs]
  <2>1. current \in 0..MaxJobs /\ Runs \in BOOLEAN
    BY <1>0 DEF Runs, PanelFine
  <2> QED BY <2>1 DEF Answers
<1> DEFINE g == [page[p] EXCEPT !.told = @ \union {a}, !.asks = FALSE]
<1>2. page' = [page EXCEPT ![p] = g] /\ UNCHANGED <<panel, stream, wire>>
  BY <1>1 DEF Ask
<1>3. /\ g \in PageRecord /\ g.es = page[p].es /\ g.job = page[p].job /\ g.last = page[p].last
      /\ g.log = page[p].log /\ g.finished = page[p].finished /\ ~g.asks
      /\ g.running = page[p].running /\ g.told = page[p].told \union {a}
  BY <1>0 DEF PageRecord
<1> HIDE DEF g
<1>4. current # 0 => LogIs(g.log, current) /\ Len(g.log) <= events[current]
  <2>1. CASE g.job = current
    BY <1>0, <1>3, <2>1 DEF PageFine
  <2>2. CASE g.job # current /\ current # 0
    <3>1. g.log = <<>> /\ events[current] \in Nat
      BY <1>0, <1>3, <2>2 DEF PageFine, PanelFine
    <3> QED BY <3>1, LogEmpty, EmptySeq
  <2> QED BY <2>1, <2>2
<1>5. Timely(a, g.log, events, current)
  BY <1>1, <1>4 DEF Timely
<1>6. PageFine(g, events, job, current)
  BY <1>0, <1>3, <1>5 DEF PageFine
<1> QED BY <1>2, <1>3, <1>6, PageKeeps

LEMMA Step_Learn ==
    ASSUME StreamInv, NEW p \in Pages, Learn(p)
    PROVE  StreamInv'
<1> USE Constants
<1>0. PanelFine /\ page[p] \in PageRecord /\ PageFine(page[p], events, job, current)
  BY SameHere DEF Fine
<1>1. PICK now \in page[p].told :
         LET rest == page[p].told \ {now} IN
         IF now.job = page[p].job
         THEN /\ page' = [page EXCEPT ![p].running = now.running, ![p].told = rest]
              /\ UNCHANGED <<stream, wire>>
         ELSE /\ page' = [page EXCEPT ![p] = [@ EXCEPT
                    !.job = now.job, !.running = now.running, !.told = rest,
                    !.es = now.job # 0, !.live = now.running, !.last = 0, !.finished = FALSE]]
              /\ Off(p)
  BY DEF Learn
<1>2. UNCHANGED panel
  BY DEF Learn
<1>3. /\ now.job \in 0..MaxJobs /\ now.running \in BOOLEAN /\ page[p].told \in SUBSET Answers
      /\ Timely(now, page[p].log, events, current)
  BY <1>0 DEF PageRecord, Answers, PageFine
<1> DEFINE rest == page[p].told \ {now}
<1>a. rest \in SUBSET Answers /\ rest \subseteq page[p].told
  BY <1>3
<1>4. CASE now.job = page[p].job
  <2> DEFINE g == [page[p] EXCEPT !.running = now.running, !.told = rest]
  <2>1. page' = [page EXCEPT ![p] = g] /\ UNCHANGED <<panel, stream, wire>>
    BY <1>1, <1>2, <1>4
  <2> HIDE DEF rest
  <2>2. /\ g \in PageRecord /\ g.es = page[p].es /\ g.job = page[p].job
        /\ g.last = page[p].last /\ g.log = page[p].log /\ g.finished = page[p].finished
        /\ g.told = rest
    BY <1>0, <1>3, <1>a DEF PageRecord
  <2> HIDE DEF g
  <2>3. current \in {0, g.job}
    BY <1>3, <1>4, <2>2 DEF Timely
  <2>4. PageFine(g, events, job, current)
    BY <1>0, <1>a, <2>2, <2>3 DEF PageFine
  <2> QED BY <2>1, <2>2, <2>4, PageKeeps
<1>5. CASE now.job # page[p].job
  <2> DEFINE g == [page[p] EXCEPT !.job = now.job, !.running = now.running, !.told = rest,
                     !.es = (now.job # 0), !.live = now.running, !.last = 0, !.finished = FALSE]
  <2>1. page' = [page EXCEPT ![p] = g] /\ Off(p)
    BY <1>1, <1>5
  <2> HIDE DEF rest
  <2>2. /\ g \in PageRecord /\ g.es = (now.job # 0) /\ g.job = now.job /\ g.last = 0
        /\ g.log = page[p].log /\ g.finished = FALSE /\ g.told = rest
    BY <1>0, <1>3, <1>a DEF PageRecord
  <2> HIDE DEF g
  <2>3. Len(g.log) \in Nat
    BY <2>2, LenProperties DEF PageRecord
  <2>4. current \in {0, g.job} /\ (g.job # 0 => g.job \in Jobs)
    BY <1>3, <2>2 DEF Timely
  <2>5. g.job # 0 => LogIs(g.log, g.job) /\ Len(g.log) <= events[g.job]
    BY <1>3, <2>2 DEF Timely
  <2>6. \A a \in g.told : Timely(a, g.log, events, current)
    BY <1>0, <1>a, <2>2 DEF PageFine
  <2>7. g.last <= Len(g.log)
    BY <2>2, <2>3
  <2>8. PageFine(g, events, job, current)
    BY <2>2, <2>4, <2>5, <2>6, <2>7 DEF PageFine
  <2> QED BY <1>2, <2>1, <2>2, <2>8, PageLeaves
<1> QED BY <1>4, <1>5

LEMMA Step_Lose ==
    ASSUME StreamInv, NEW p \in Pages, Lose(p)
    PROVE  StreamInv'
<1>0. page[p] \in PageRecord /\ PageFine(page[p], events, job, current)
  BY SameHere DEF Fine
<1> DEFINE g == [page[p] EXCEPT !.told = {}]
<1>1. page' = [page EXCEPT ![p] = g] /\ UNCHANGED <<panel, stream, wire>>
  BY DEF Lose
<1>2. /\ g \in PageRecord /\ g.job = page[p].job /\ g.log = page[p].log /\ g.told = {}
      /\ g.asks = page[p].asks /\ g.running = page[p].running /\ g.last = page[p].last
      /\ g.finished = page[p].finished /\ g.es = page[p].es
  BY <1>0 DEF PageRecord
<1> HIDE DEF g
<1>3. PageFine(g, events, job, current)
  BY <1>0, <1>2 DEF PageFine
<1> QED BY <1>1, <1>2, <1>3, PageKeeps

LEMMA Step_Read ==
    ASSUME StreamInv, NEW p \in Pages, PageReads(p)
    PROVE  StreamInv'
<1> USE Constants
<1> DEFINE e == Head(wire[p])
           s == stream[p]
           g == page[p]
<1>0. wire[p] # <<>> /\ UNCHANGED panel
  BY DEF PageReads
<1>1. ~At(p, "off")
  BY <1>0, SameHere DEF Fine, StreamFine, At
<1>2. /\ g \in PageRecord /\ g.es /\ g.job = current /\ current \in Jobs /\ g.last \in Nat
      /\ g.last <= Len(g.log) /\ events[current] \in Nat /\ PageFine(g, events, job, current)
      /\ WireIs(wire[p], current, g.last, s.sent, s.pc)
      /\ s \in StreamRecord /\ s.sent \in Nat /\ s.sent <= events[current]
  BY <1>1, Serving
<1>a. WireIs(wire[p], current, g.last, s.sent, s.pc) /\ wire[p] # <<>>
  BY <1>0, <1>2
<1>b. current \in Jobs /\ g.last \in Nat /\ s.sent \in Nat
  BY <1>2
<1> HIDE DEF g, s
<1>3. /\ e \in Message /\ e[1] = current
      /\ IF e[2] = 0 THEN s.pc = "ended" /\ g.last = s.sent
         ELSE /\ e[2] = g.last + 1 /\ g.last + 1 <= s.sent
              /\ WireIs(Tail(wire[p]), current, g.last + 1, s.sent, s.pc)
              /\ Len(Tail(wire[p])) = Len(wire[p]) - 1
  BY <1>a, <1>b, WireRead
<1> HIDE DEF e
<1> USE DEF g, s
<1>4. /\ LogIs(g.log, current) /\ Len(g.log) <= events[current] /\ Len(g.log) \in Nat
      /\ g.log \in Seq(Message)
  BY <1>2, LenProperties DEF PageFine, LogIs
<1>5. CASE e[2] = 0
  <2> DEFINE h == [Closed(p) EXCEPT !.finished = TRUE, !.asks = TRUE]
  <2>1. page' = [page EXCEPT ![p] = h] /\ Off(p)
    BY <1>5 DEF PageReads, e
  <2>2. /\ h \in PageRecord /\ ~h.es /\ h.job = current /\ h.log = g.log /\ h.told = g.told
    BY <1>2 DEF Closed, PageRecord
  <2> HIDE DEF h
  <2>3. job[current] = "done" /\ s.sent = events[current]
    BY <1>1, <1>3, <1>5, Serving DEF Ending
  <2>4. Len(h.log) = events[current]
    BY <1>2, <1>3, <1>4, <1>5, <2>2, <2>3
  <2>5. PageFine(h, events, job, current)
    <3>1. events[current] <= events[current]
      BY <1>2
    <3> QED BY <1>2, <1>4, <2>2, <2>3, <2>4, <3>1 DEF PageFine
  <2> QED BY <1>0, <2>1, <2>2, <2>5, PageLeaves
<1>6. CASE e[2] # 0
  <2> DEFINE h == [g EXCEPT !.last = e[2], !.log = Shown(@, e)]
             w == Tail(wire[p])
  <2>1. page' = [page EXCEPT ![p] = h] /\ wire' = [wire EXCEPT ![p] = w] /\ UNCHANGED stream
    BY <1>6 DEF PageReads, e
  <2>2. e[2] = g.last + 1 /\ g.last + 1 \in Nat
    BY <1>2, <1>3, <1>6
  <2>3. /\ LogIs(Shown(g.log, e), current) /\ g.last + 1 <= Len(Shown(g.log, e))
        /\ Len(Shown(g.log, e)) = Len(g.log) \/ Len(Shown(g.log, e)) = g.last + 1
    BY <1>2, <1>3, <1>4, <2>2, LogShows
  <2>4. Shown(g.log, e) \in Seq(Message)
    BY <2>3 DEF LogIs
  <2>5. /\ h \in PageRecord /\ h.es /\ h.job = current /\ h.last = g.last + 1
        /\ h.log = Shown(g.log, e) /\ h.finished = g.finished /\ h.told = g.told
    <3>1. e[2] \in Nat
      BY <2>2
    <3> QED BY <1>2, <2>2, <2>4, <3>1 DEF PageRecord
  <2> HIDE DEF h
  <2>6. Len(h.log) <= events[current]
    <3>1. g.last + 1 <= events[current]
      BY <1>2, <1>3, <1>6
    <3> QED BY <1>2, <1>4, <2>3, <2>5, <3>1
  <2>7. PageFine(h, events, job, current)
    <3>1. \A a \in h.told : a.job = current
      BY <1>2, <2>5, Constants DEF PageFine, Timely
    <3>2. \A a \in h.told : Timely(a, h.log, events, current)
      BY <2>3, <2>5, <2>6, <3>1 DEF Timely
    <3> QED BY <1>2, <2>3, <2>5, <2>6, <3>2 DEF PageFine
  <2>8. StreamFine(s, w, h, events, job, current)
    <3>1. WireIs(w, current, h.last, s.sent, s.pc)
      BY <1>3, <1>6, <2>5
    <3>2. Len(w) <= Window
      <4>1. Len(wire[p]) \in Nat /\ Len(wire[p]) <= Window
        BY <1>1, Serving
      <4> QED BY <1>3, <1>6, <4>1
    <3> HIDE DEF w
    <3> QED BY <1>1, <2>5, <3>1, <3>2, Serving DEF StreamFine, At
  <2>9. Fine(s, w, h, events, job, current)
    BY <1>2, <2>5, <2>7, <2>8 DEF Fine
  <2>10. stream' = [stream EXCEPT ![p] = s]
    BY <2>1, SameHere
  <2> QED BY <1>0, <2>1, <2>9, <2>10, OnePage
<1> QED BY <1>5, <1>6
\* A page that closes its EventSource, or turns over, keeps what it shows.
LEMMA PageStays ==
    ASSUME NEW g, NEW h, NEW ev, NEW jb, NEW cur, PageFine(g, ev, jb, cur),
           h.job = g.job, h.log = g.log, h.asks = g.asks, h.running = g.running,
           h.told \subseteq g.told,
           h.finished = g.finished, ~h.es \/ (h.es = g.es /\ h.last = g.last)
    PROVE  PageFine(h, ev, jb, cur)
BY DEF PageFine

LEMMA ClosedPage ==
    ASSUME NEW p \in Pages, page[p] \in PageRecord
    PROVE  LET h == Closed(p) IN
           /\ h \in PageRecord /\ ~h.es /\ h.job = page[p].job /\ h.log = page[p].log
           /\ h.asks = page[p].asks /\ h.running = page[p].running
           /\ h.finished = page[p].finished /\ h.told = page[p].told
BY DEF Closed, PageRecord

LEMMA Step_Break ==
    ASSUME StreamInv, NEW p \in Pages, Break(p)
    PROVE  StreamInv'
<1>0. page[p] \in PageRecord /\ PageFine(page[p], events, job, current)
  BY SameHere DEF Fine
<1>1. Off(p) /\ UNCHANGED panel
  BY DEF Break
<1>2. CASE page[p].live
  <2>1. page' = [page EXCEPT ![p] = page[p]]
    BY <1>2 DEF Break
  <2> QED BY <1>0, <1>1, <2>1, PageLeaves
<1>3. CASE ~page[p].live
  <2> DEFINE h == Closed(p)
  <2>1. page' = [page EXCEPT ![p] = h]
    BY <1>3 DEF Break
  <2>2. /\ h \in PageRecord /\ ~h.es /\ h.job = page[p].job /\ h.log = page[p].log
        /\ h.asks = page[p].asks /\ h.running = page[p].running /\ h.finished = page[p].finished
        /\ h.told = page[p].told
    BY <1>0, ClosedPage
  <2> HIDE DEF h
  <2>3. PageFine(h, events, job, current)
    BY <1>0, <2>2, PageStays
  <2> QED BY <1>1, <2>1, <2>2, <2>3, PageLeaves
<1> QED BY <1>2, <1>3

LEMMA Step_Sleep ==
    ASSUME StreamInv, NEW p \in Pages, Sleep(p)
    PROVE  StreamInv'
<1>0. /\ page[p] \in PageRecord /\ PageFine(page[p], events, job, current)
      /\ stream[p] \in StreamRecord
      /\ StreamFine(stream[p], wire[p], page[p], events, job, current)
  BY SameHere DEF Fine
<1> DEFINE h == [page[p] EXCEPT !.sleeps = ~@]
<1>1. page' = [page EXCEPT ![p] = h] /\ UNCHANGED <<panel, stream, wire>>
  BY DEF Sleep
<1>2. /\ h \in PageRecord /\ h.job = page[p].job /\ h.log = page[p].log /\ h.asks = page[p].asks
      /\ h.running = page[p].running /\ h.finished = page[p].finished /\ h.es = page[p].es
      /\ h.last = page[p].last /\ h.told = page[p].told
  BY <1>0 DEF PageRecord
<1> HIDE DEF h
<1>3. PageFine(h, events, job, current)
  BY <1>0, <1>2, PageStays
<1>4. StreamFine(stream[p], wire[p], h, events, job, current)
  BY <1>0, <1>2 DEF StreamFine
<1>5. Fine(stream[p], wire[p], h, events, job, current)
  BY <1>0, <1>2, <1>3, <1>4 DEF Fine
<1> QED BY <1>1, <1>5, OnePage, SameHere

\* An empty log is that of any job.
LEMMA ClearedTimely ==
    ASSUME StreamInv, NEW p \in Pages, NEW a \in page[p].told
    PROVE  Timely(a, <<>>, events, current)
<1>1. /\ page[p] \in PageRecord /\ PageFine(page[p], events, job, current)
      /\ events \in [Jobs -> Nat]
  BY SameHere DEF Fine, PanelFine
<1>2. a.job \in 0..MaxJobs /\ current \in {0, a.job}
  BY <1>1 DEF PageRecord, Answers, PageFine, Timely
<1>3. a.job # 0 => events[a.job] \in Nat
  BY <1>1, <1>2, Constants
<1>4. Len(<<>>) = 0
  BY EmptySeq
<1> QED BY <1>2, <1>3, <1>4, LogEmpty DEF Timely

LEMMA Step_Retry ==
    ASSUME StreamInv, NEW p \in Pages, Retry(p)
    PROVE  StreamInv'
<1>0. page[p] \in PageRecord /\ PageFine(page[p], events, job, current)
  BY SameHere DEF Fine
<1> DEFINE h == [Loaded EXCEPT !.asks = FALSE, !.told = page[p].told]
<1>1. page' = [page EXCEPT ![p] = h] /\ Off(p) /\ UNCHANGED panel
  BY DEF Retry
<1>2. /\ h \in PageRecord /\ ~h.es /\ h.job = 0 /\ ~h.asks /\ ~h.running /\ ~h.finished
      /\ h.log = <<>> /\ h.told = page[p].told
  BY <1>0, NoneFine DEF Loaded, PageRecord
<1> HIDE DEF h
<1>3. \A a \in h.told : Timely(a, h.log, events, current)
  BY <1>0, <1>2, ClearedTimely DEF PageFine
<1>4. PageFine(h, events, job, current)
  BY <1>2, <1>3 DEF PageFine
<1> QED BY <1>1, <1>2, <1>4, PageLeaves

\* When nobody follows, no handler serves.
LEMMA Unfollowed ==
    ASSUME StreamInv, Settled, NobodyFollows, NEW p \in Pages
    PROVE  /\ stream[p] = NoStream /\ wire[p] = <<>> /\ page[p] \in PageRecord
           /\ ~page[p].es /\ ~page[p].running /\ (page[p].asks => page[p].log = <<>>)
           /\ page[p].told = {} /\ PageFine(page[p], events, job, current)
<1>1. /\ ~page[p].es /\ ~page[p].running /\ (page[p].asks => page[p].log = <<>>)
      /\ page[p].told = {}
  BY DEF NobodyFollows
<1>2. /\ page[p] \in PageRecord /\ PageFine(page[p], events, job, current)
      /\ StreamFine(stream[p], wire[p], page[p], events, job, current)
  BY SameHere DEF Fine
<1> QED BY <1>1, <1>2 DEF StreamFine

LEMMA Step_RollBack ==
    ASSUME StreamInv, Settled, NEW p \in Pages, RollBack(p)
    PROVE  StreamInv'
<1>0. /\ stream[p] = NoStream /\ wire[p] = <<>> /\ page[p] \in PageRecord /\ ~page[p].es
      /\ page[p].told = {} /\ PageFine(page[p], events, job, current)
  BY Unfollowed DEF RollBack
<1> DEFINE h == [page[p] EXCEPT !.log = <<>>, !.finished = FALSE, !.asks = TRUE]
<1>1. page' = [page EXCEPT ![p] = h] /\ UNCHANGED <<panel, stream, wire>>
  BY DEF RollBack
<1>2. /\ h \in PageRecord /\ ~h.es /\ h.job = page[p].job /\ h.log = <<>> /\ ~h.finished
      /\ h.told = {}
  BY <1>0, EmptySeq DEF PageRecord
<1> HIDE DEF h
<1>3. h.job # 0 => Len(h.log) <= events[h.job]
  <2>1. h.job # 0 => events[h.job] \in Nat
    BY <1>2, SameHere, Constants DEF PageRecord, PanelFine
  <2>2. Len(h.log) = 0
    BY <1>2, EmptySeq
  <2> QED BY <2>1, <2>2
<1>4. PageFine(h, events, job, current)
  BY <1>2, <1>3, LogEmpty DEF PageFine
<1>5. Fine(stream[p], wire[p], h, events, job, current)
  BY <1>0, <1>2, <1>4, NoneFine DEF Fine
<1> QED BY <1>1, <1>5, OnePage, SameHere
-------------------------------------------------------------------------------
(* The job and the panel. *)

\* A job goes on: its handlers and pages keep up with the numbers, or lag behind.
LEMMA JobMoves ==
    ASSUME StreamInv, NEW j \in Jobs, job[j] \in {"running", "finished"},
           UNCHANGED <<current, wire, page>>, events' \in [Jobs -> Nat],
           job' \in [Jobs -> JobStates], job'[j] # "none",
           \A k \in Jobs \ {j} : events'[k] = events[k] /\ job'[k] = job[k],
           events[j] <= events'[j],
           events'[j] <= MaxEvents \/ (job'[j] = "done" /\ events'[j] <= MaxEvents + 1),
           stream' = [p \in Pages |-> stream'[p]],
           \A p \in Pages : \/ stream'[p] = stream[p]
                            \/ /\ stream'[p] \in StreamRecord /\ ~At(p, "off")
                               /\ Len(stream'[p].chan) <= Cap
                               /\ stream'[p].pc = stream[p].pc /\ stream'[p].job = stream[p].job
                               /\ stream'[p].sent = stream[p].sent
                               /\ stream'[p].upto = stream[p].upto
    PROVE  StreamInv'
<1> USE Constants
<1>0. PanelFine /\ TablesFine /\ events \in [Jobs -> Nat]
  BY DEF StreamInv, PanelFine
<1>1. PanelFine'
  BY <1>0 DEF PanelFine
<1>2. TablesFine'
  BY <1>0 DEF TablesFine
<1>3. \A k \in Jobs : events[k] \in Nat /\ events'[k] \in Nat /\ events[k] <= events'[k]
  BY <1>0
<1>4. ASSUME NEW p \in Pages PROVE Fine(stream[p], wire[p], page[p], events, job, current)'
  <2>0. /\ stream[p] \in StreamRecord /\ page[p] \in PageRecord
        /\ PageFine(page[p], events, job, current)
        /\ StreamFine(stream[p], wire[p], page[p], events, job, current)
    BY SameHere DEF Fine
  <2>1. PageFine(page[p], events', job', current)
    <3>1. page[p].job # 0 => page[p].job \in Jobs
      BY <2>0 DEF PageRecord
    <3>2. page[p].job # 0 => Len(page[p].log) <= events'[page[p].job]
      <4>1. page[p].job # 0 => /\ Len(page[p].log) <= events[page[p].job]
                               /\ Len(page[p].log) \in Nat
        BY <2>0, LenProperties DEF PageFine, PageRecord
      <4>2. page[p].job # 0 => /\ events[page[p].job] \in Nat /\ events'[page[p].job] \in Nat
                               /\ events[page[p].job] <= events'[page[p].job]
        BY <1>3, <3>1
      <4> QED BY <4>1, <4>2
    <3>3. page[p].finished => page[p].job \in Jobs \ {j}
      BY <2>0, <3>1 DEF PageFine
    <3>4. ASSUME NEW a \in page[p].told PROVE Timely(a, page[p].log, events', current)
      <4>1. a.job # 0 => a.job \in Jobs
        BY <2>0 DEF PageRecord, Answers
      <4>2. Len(page[p].log) \in Nat
        BY <2>0, LenProperties DEF PageRecord
      <4>3. a.job # 0 => Len(page[p].log) <= events[a.job]
        BY <2>0 DEF PageFine, Timely
      <4>4. a.job # 0 => /\ events[a.job] \in Nat /\ events'[a.job] \in Nat
                         /\ events[a.job] <= events'[a.job]
        BY <1>3, <4>1
      <4>5. a.job # 0 => Len(page[p].log) <= events'[a.job]
        BY <4>2, <4>3, <4>4
      <4> QED BY <2>0, <4>5 DEF PageFine, Timely
    <3> QED BY <2>0, <3>2, <3>3, <3>4 DEF PageFine
  <2>2. CASE At(p, "off")
    <3>1. stream[p] = NoStream /\ wire[p] = <<>> /\ stream'[p] = stream[p]
      BY <2>0, <2>2 DEF At, StreamFine
    <3> QED BY <2>0, <2>1, <3>1, NoneFine DEF Fine
  <2>3. CASE ~At(p, "off")
    <3>1. /\ stream'[p] \in StreamRecord /\ Len(stream'[p].chan) <= Cap
          /\ stream'[p].pc = stream[p].pc /\ stream'[p].job = stream[p].job
          /\ stream'[p].sent = stream[p].sent /\ stream'[p].upto = stream[p].upto
      BY <2>3, Serving
    <3>2. /\ current \in Jobs /\ stream[p].sent \in Nat /\ stream[p].upto \in Nat
          /\ stream[p].sent <= events[current] /\ stream[p].upto <= events[current]
      BY <2>3, Serving
    <3>3. stream[p].sent <= events'[current] /\ stream[p].upto <= events'[current]
      BY <1>3, <3>2
    <3>4. stream[p].pc \in Ending => events'[current] = events[current] /\ job'[current] = "done"
      <4>1. stream[p].pc \in Ending => current \in Jobs \ {j} /\ job[current] = "done"
        BY <2>3, Serving
      <4> QED BY <4>1
    <3>5. StreamFine(stream'[p], wire[p], page[p], events', job', current)
      BY <2>3, <3>1, <3>3, <3>4, Serving DEF StreamFine, At, Ending
    <3> QED BY <2>0, <2>1, <3>1, <3>5 DEF Fine
  <2> QED BY <2>2, <2>3
<1> QED BY <1>1, <1>2, <1>4 DEF StreamInv

\* An event that is offered disturbs a handler in its channel only.
LEMMA Offered ==
    ASSUME StreamInv, NEW j \in Jobs, NEW e \in Nat, NEW p \in Pages
    PROVE  LET s == Offer(p, j, e) IN
           \/ s = stream[p]
           \/ /\ s \in StreamRecord /\ ~At(p, "off") /\ Len(s.chan) <= Cap
              /\ s.pc = stream[p].pc /\ s.job = stream[p].job
              /\ s.sent = stream[p].sent /\ s.upto = stream[p].upto
<1> DEFINE c == Append(stream[p].chan, e)
           s == [stream[p] EXCEPT !.chan = c]
<1>1. CASE Subscribed(p) /\ stream[p].job = j /\ Len(stream[p].chan) < Cap
  <2>1. stream[p] \in StreamRecord /\ ~At(p, "off")
    BY <1>1, Serving DEF Subscribed
  <2>2. stream[p].chan \in Seq(Nat)
    BY <2>1 DEF StreamRecord
  <2>3. c \in Seq(Nat) /\ Len(c) = Len(stream[p].chan) + 1 /\ Len(stream[p].chan) \in Nat
    BY <2>2, AppendProperties, LenProperties
  <2> HIDE DEF c
  <2>4. Len(c) <= Cap
    BY <1>1, <2>3, Constants
  <2>5. /\ s \in StreamRecord /\ s.chan = c /\ s.pc = stream[p].pc /\ s.job = stream[p].job
        /\ s.sent = stream[p].sent /\ s.upto = stream[p].upto
    BY <2>1, <2>3 DEF StreamRecord
  <2>6. Offer(p, j, e) = s
    BY <1>1 DEF Offer, c
  <2> QED BY <2>1, <2>4, <2>5, <2>6
<1>2. CASE ~(Subscribed(p) /\ stream[p].job = j /\ Len(stream[p].chan) < Cap)
  BY <1>2 DEF Offer
<1> QED BY <1>1, <1>2

LEMMA EventAppended ==
    ASSUME StreamInv, NEW j \in Jobs, AppendEvent(j)
    PROVE  /\ UNCHANGED <<current, wire, page>> /\ events' \in [Jobs -> Nat]
           /\ events[j] \in Nat /\ events'[j] = events[j] + 1
           /\ \A k \in Jobs \ {j} : events'[k] = events[k]
           /\ stream' = [p \in Pages |-> stream'[p]]
           /\ \A p \in Pages : \/ stream'[p] = stream[p]
                               \/ /\ stream'[p] \in StreamRecord /\ ~At(p, "off")
                                  /\ Len(stream'[p].chan) <= Cap
                                  /\ stream'[p].pc = stream[p].pc
                                  /\ stream'[p].job = stream[p].job
                                  /\ stream'[p].sent = stream[p].sent
                                  /\ stream'[p].upto = stream[p].upto
<1>1. events \in [Jobs -> Nat]
  BY DEF StreamInv, PanelFine
<1>2. events' = [events EXCEPT ![j] = @ + 1] /\ UNCHANGED <<current, wire, page>>
  BY DEF AppendEvent
<1>3. /\ events' \in [Jobs -> Nat] /\ events[j] \in Nat /\ events'[j] = events[j] + 1
      /\ \A k \in Jobs \ {j} : events'[k] = events[k]
  BY <1>1, <1>2
<1>4. stream' = [p \in Pages |-> Offer(p, j, events'[j])]
  BY DEF AppendEvent
<1>5. \A p \in Pages : stream'[p] = Offer(p, j, events'[j])
  BY <1>4
<1>6. events'[j] \in Nat
  BY <1>3
<1>7. stream' = [p \in Pages |-> stream'[p]]
  BY <1>4
<1> QED BY <1>2, <1>3, <1>5, <1>6, <1>7, Offered

LEMMA Step_Job ==
    ASSUME StreamInv, NEW j \in Jobs, Work(j) \/ Finish(j) \/ LastWords(j)
    PROVE  StreamInv'
<1> USE Constants
<1>0. /\ PanelFine /\ TablesFine /\ events \in [Jobs -> Nat] /\ job \in [Jobs -> JobStates]
      /\ events[j] \in Nat
  BY DEF StreamInv, PanelFine
<1>1. CASE Work(j)
  <2>1. /\ job[j] = "running" /\ events[j] < MaxEvents /\ AppendEvent(j) /\ UNCHANGED job
    BY <1>1 DEF Work
  <2>2. events[j] <= events'[j] /\ events'[j] <= MaxEvents
    BY <1>0, <2>1, EventAppended
  <2> QED BY <1>0, <2>1, <2>2, EventAppended, JobMoves
<1>2. CASE Finish(j)
  <2>1. /\ job[j] = "running" /\ job' = [job EXCEPT ![j] = "finished"]
        /\ UNCHANGED <<events, current, stream, wire, page>>
    BY <1>2 DEF Finish, Turns, Silently
  <2>2. events[j] <= MaxEvents /\ events[j] <= events'[j]
    BY <1>0, <2>1 DEF PanelFine
  <2>3. job' \in [Jobs -> JobStates] /\ job'[j] # "none"
    BY <1>0, <2>1 DEF JobStates
  <2> QED BY <1>0, <2>1, <2>2, <2>3, JobMoves DEF TablesFine
<1>3. CASE LastWords(j)
  <2>1. job[j] = "finished" /\ job' = [job EXCEPT ![j] = "done"] /\ AppendEvent(j)
    BY <1>3 DEF LastWords, Turns
  <2>2. events[j] <= MaxEvents
    BY <1>0, <2>1 DEF PanelFine
  <2>3. events[j] <= events'[j] /\ events'[j] <= MaxEvents + 1
    BY <1>0, <2>1, <2>2, EventAppended
  <2>4. job' \in [Jobs -> JobStates] /\ job'[j] = "done"
    BY <1>0, <2>1 DEF JobStates
  <2>5. \A k \in Jobs \ {j} : job'[k] = job[k]
    BY <1>0, <2>1
  <2> QED BY <1>0, <2>1, <2>3, <2>4, <2>5, EventAppended, JobMoves
<1> QED BY <1>1, <1>2, <1>3

\* A job is started when no page follows one.
LEMMA NewJobStarts ==
    ASSUME StreamInv, Settled, NewJob, page' = [p \in Pages |-> page'[p]],
           DOMAIN page' = Pages,
           \A p \in Pages : \/ page'[p] = page[p]
                            \/ /\ page'[p] \in PageRecord /\ ~page'[p].es
                               /\ page'[p].job = 0 /\ page'[p].log = <<>> /\ ~page'[p].finished
                               /\ page'[p].told = {}
    PROVE  StreamInv'
<1> USE Constants
<1>0. /\ PanelFine /\ TablesFine /\ events \in [Jobs -> Nat] /\ job \in [Jobs -> JobStates]
  BY DEF StreamInv, PanelFine
<1>1. PICK j \in Jobs : job[j] = "none" /\ job' = [job EXCEPT ![j] = "running"] /\ current' = j
  BY DEF NewJob
<1>2. NobodyFollows /\ UNCHANGED <<events, stream, wire>>
  BY DEF NewJob
<1>3. PanelFine'
  BY <1>0, <1>1, <1>2 DEF PanelFine, JobStates
<1>4. TablesFine'
  BY <1>0, <1>2 DEF TablesFine
<1>5. ASSUME NEW p \in Pages PROVE Fine(stream[p], wire[p], page[p], events, job, current)'
  <2>0. /\ stream[p] = NoStream /\ wire[p] = <<>> /\ page[p] \in PageRecord
        /\ ~page[p].es /\ ~page[p].running /\ (page[p].asks => page[p].log = <<>>)
        /\ page[p].told = {} /\ PageFine(page[p], events, job, current)
    BY <1>2, Unfollowed
  <2>1. PageFine(page[p], events', job', current')
    <3>1. page[p].finished => page[p].job \in Jobs \ {j}
      BY <1>1, <2>0 DEF PageFine, PageRecord
    <3>2. \A k \in Jobs \ {j} : job'[k] = job[k]
      BY <1>0, <1>1
    <3> QED BY <1>2, <2>0, <3>1, <3>2 DEF PageFine
  <2>2. page'[p] \in PageRecord /\ PageFine(page'[p], events', job', current')
    BY <2>0, <2>1 DEF PageFine
  <2> QED BY <1>2, <2>0, <2>2, NoneFine DEF Fine
<1> QED BY <1>3, <1>4, <1>5 DEF StreamInv

LEMMA Step_Start ==
    ASSUME StreamInv, Settled, NEW p \in Pages, Start(p)
    PROVE  StreamInv'
<1>0. page[p].job = 0 /\ NewJob /\ NobodyFollows /\ TablesFine
  BY DEF Start, NewJob, StreamInv
<1> DEFINE h == [page[p] EXCEPT !.log = <<>>, !.asks = TRUE]
<1>1. page' = [page EXCEPT ![p] = h]
  BY DEF Start
<1>2. /\ page[p] \in PageRecord /\ ~page[p].es /\ ~page[p].finished /\ page[p].told = {}
  BY <1>0, Unfollowed DEF PageFine
<1>3. /\ h \in PageRecord /\ ~h.es /\ h.job = 0 /\ h.log = <<>> /\ ~h.finished /\ h.told = {}
  BY <1>0, <1>2, EmptySeq DEF PageRecord
<1> HIDE DEF h
<1>4. /\ DOMAIN page' = Pages /\ page' = [q \in Pages |-> page'[q]]
      /\ \A q \in Pages : page'[q] = page[q] \/ page'[q] = h
  BY <1>0, <1>1 DEF TablesFine
<1> QED BY <1>0, <1>3, <1>4, NewJobStarts

LEMMA Step_StartElsewhere ==
    ASSUME StreamInv, Settled, StartElsewhere
    PROVE  StreamInv'
<1>1. NewJob /\ UNCHANGED page /\ TablesFine
  BY DEF StartElsewhere, StreamInv
<1>2. page' = [p \in Pages |-> page'[p]] /\ DOMAIN page' = Pages
  BY <1>1 DEF TablesFine
<1> QED BY <1>1, <1>2, NewJobStarts

LEMMA Step_Crash ==
    ASSUME StreamInv, Crash
    PROVE  StreamInv'
<1> USE Constants
<1>0. /\ PanelFine /\ TablesFine /\ events \in [Jobs -> Nat] /\ job \in [Jobs -> JobStates]
  BY DEF StreamInv, PanelFine
<1>1. /\ job' = [j \in Jobs |-> IF job[j] = "none" THEN "none" ELSE "gone"]
      /\ current' = 0 /\ UNCHANGED events
      /\ stream' = [p \in Pages |-> NoStream] /\ wire' = [p \in Pages |-> <<>>]
      /\ page' = [p \in Pages |-> IF At(p, "off") \/ page[p].live THEN page[p] ELSE Closed(p)]
  BY DEF Crash
<1>2. PanelFine'
  BY <1>0, <1>1 DEF PanelFine, JobStates
<1>3. TablesFine'
  BY <1>1 DEF TablesFine
<1>4. ASSUME NEW p \in Pages PROVE Fine(stream[p], wire[p], page[p], events, job, current)'
  <2>0. page[p] \in PageRecord /\ PageFine(page[p], events, job, current)
    BY SameHere DEF Fine
  <2>1. PageFine(page[p], events', job', current')
    <3>1. page[p].finished => page[p].job \in Jobs /\ job[page[p].job] # "none"
      BY <2>0 DEF PageFine, PageRecord
    <3>2. page[p].finished => job'[page[p].job] = "gone"
      BY <1>1, <3>1
    <3> QED BY <1>1, <2>0, <3>2 DEF PageFine, Timely
  <2>2. page'[p] \in {page[p], Closed(p)}
    BY <1>1
  <2>3. Closed(p) \in PageRecord /\ PageFine(Closed(p), events', job', current')
    <3> DEFINE h == Closed(p)
    <3>1. /\ h \in PageRecord /\ ~h.es /\ h.job = page[p].job /\ h.log = page[p].log
          /\ h.asks = page[p].asks /\ h.running = page[p].running
          /\ h.finished = page[p].finished /\ h.told = page[p].told
      BY <2>0, ClosedPage
    <3> HIDE DEF h
    <3>2. PageFine(h, events', job', current')
      BY <2>1, <3>1, PageStays
    <3> QED BY <3>1, <3>2 DEF h
  <2>4. page'[p] \in PageRecord /\ PageFine(page'[p], events', job', current')
    BY <2>0, <2>1, <2>2, <2>3
  <2>5. stream'[p] = NoStream /\ wire'[p] = <<>>
    BY <1>1
  <2> QED BY <2>4, <2>5, NoneFine DEF Fine
<1> QED BY <1>2, <1>3, <1>4 DEF StreamInv
-------------------------------------------------------------------------------
(* The theorems. *)

LEMMA InitFine == Init => StreamInv
<1> SUFFICES ASSUME Init PROVE StreamInv
  OBVIOUS
<1> USE Constants
<1>1. PanelFine /\ TablesFine
  BY DEF Init, PanelFine, TablesFine, JobStates
<1>2. ASSUME NEW p \in Pages PROVE Fine(stream[p], wire[p], page[p], events, job, current)
  <2>1. stream[p] = NoStream /\ wire[p] = <<>> /\ page[p] = Loaded
    BY DEF Init
  <2>2. PageFine(Loaded, events, job, current)
    BY DEF Loaded, PageFine
  <2> QED BY <2>1, <2>2, NoneFine DEF Fine
<1> QED BY <1>1, <1>2 DEF StreamInv

LEMMA NextFine ==
    ASSUME Settled PROVE StreamInv /\ [Next]_vars => StreamInv'
<1> SUFFICES ASSUME StreamInv, [Next]_vars PROVE StreamInv'
  OBVIOUS
<1>1. CASE \E j \in Jobs : Work(j) \/ Finish(j) \/ LastWords(j)
  BY <1>1, Step_Job
<1>2. CASE \E p \in Pages : Connect(p) \/ Serve(p) \/ PageReads(p) \/ Break(p) \/ Sleep(p)
  BY <1>2, Step_Connect, Step_Serve, Step_Read, Step_Break, Step_Sleep
<1>7. CASE \E p \in Pages : Ask(p) \/ Learn(p) \/ Lose(p)
  BY <1>7, Step_Ask, Step_Learn, Step_Lose
<1>3. CASE \E p \in Pages : Start(p) \/ Retry(p) \/ RollBack(p)
  BY <1>3, Step_Start, Step_Retry, Step_RollBack
<1>4. CASE StartElsewhere
  BY <1>4, Step_StartElsewhere
<1>5. CASE Crash
  BY <1>5, Step_Crash
<1>6. CASE UNCHANGED vars
  BY <1>6 DEF vars, StreamInv, PanelFine, TablesFine
<1> QED BY <1>1, <1>2, <1>7, <1>3, <1>4, <1>5, <1>6 DEF Next

\* What the invariant says of the page's log, its end and the types.
LEMMA FineTypes == StreamInv => TypeOK
<1> SUFFICES ASSUME StreamInv PROVE TypeOK
  OBVIOUS
<1> USE Constants
<1>1. PanelFine
  BY DEF StreamInv
<1>2. /\ events \in [Jobs -> 0..MaxEvents + 1] /\ current \in 0..MaxJobs
      /\ job \in [Jobs -> {"none", "running", "finished", "done", "gone"}]
  <2>1. events \in [Jobs -> Nat] /\ \A j \in Jobs : events[j] <= MaxEvents + 1
    BY <1>1 DEF PanelFine
  <2> QED BY <1>1, <2>1 DEF PanelFine, JobStates
<1>3. ASSUME NEW p \in Pages
      PROVE  /\ Len(stream[p].chan) <= Cap /\ Len(wire[p]) <= Window
             /\ stream[p].job # 0 => /\ stream[p].sent \in 0..events[stream[p].job]
                                     /\ stream[p].upto \in 0..events[stream[p].job]
             /\ \A i, j \in 1..Len(wire[p]) :
                   i < j /\ wire[p][j][2] # 0 => wire[p][i][2] < wire[p][j][2]
  <2>1. CASE At(p, "off")
    <3>1. stream[p] = NoStream /\ wire[p] = <<>>
      BY <2>1, SameHere DEF At, Fine, StreamFine
    <3>2. Len(stream[p].chan) = 0 /\ Len(wire[p]) = 0 /\ stream[p].job = 0
      BY <3>1, EmptySeq DEF NoStream
    <3> QED BY <3>2
  <2>2. CASE ~At(p, "off")
    <3>1. \A i, j \in 1..Len(wire[p]) :
             i < j /\ wire[p][j][2] # 0 => wire[p][i][2] < wire[p][j][2]
      BY <2>2, Serving, WireRises
    <3>2. Len(stream[p].chan) <= Cap /\ Len(wire[p]) <= Window
      BY <2>2, Serving
    <3>3. /\ stream[p].sent \in 0..events[stream[p].job]
          /\ stream[p].upto \in 0..events[stream[p].job]
      BY <2>2, Serving
    <3> QED BY <3>1, <3>2, <3>3
  <2> QED BY <2>1, <2>2
<1> QED BY <1>2, <1>3 DEF TypeOK

LEMMA FineLogs == StreamInv => NoGaps /\ Complete
<1> SUFFICES ASSUME StreamInv, NEW p \in Pages
             PROVE  /\ page[p].job # 0 =>
                          page[p].log = [i \in 1..Len(page[p].log) |-> <<page[p].job, i>>]
                    /\ page[p].finished => Len(page[p].log) = events[page[p].job]
  BY DEF NoGaps, Complete
<1>1. PageFine(page[p], events, job, current)
  BY SameHere DEF Fine
<1> QED BY <1>1, LogListed DEF PageFine

LEMMA Invariant == ASSUME Settled PROVE Spec => []StreamInv
BY InitFine, NextFine, PTL DEF Spec

\* Whatever the channels and the connections hold, no handler sends what there is not, or
\* sends an event twice, and no channel or connection holds more than it has room for.
THEOREM StreamsTypeCorrect == ASSUME Settled PROVE Spec => []TypeOK
BY Invariant, FineTypes, PTL

\* A page that shows a job shows that job's events from the first on, none left out, none
\* twice and none of another job, however often its connection broke, the panel ended or
\* the channel was full, when jobs are started and logs cleared only while no page still
\* follows one.
THEOREM NothingSkipped == ASSUME Settled PROVE Spec => []NoGaps
BY Invariant, FineLogs, PTL

\* A page that was told the end has the last words too, under the same condition.
THEOREM EndIsComplete == ASSUME Settled PROVE Spec => []Complete
BY Invariant, FineLogs, PTL

===============================================================================
