------------------------------- MODULE LogStream -------------------------------
(***************************************************************************)
(* The log of an installation as the wizard shows it: internal/installer/logbuf *)
(* (events with numbers, subscribers with a bounded channel), the event stream   *)
(* of internal/api/handlers_install, and the page InstallWizard.                 *)
(*                                                                              *)
(* A job appends; each stream is a goroutine that serves one job; a page reads   *)
(* what its connection brings, may sleep, and connects again with the number it   *)
(* saw last, whatever job there is then. Jobs are lost with the panel.            *)
(***************************************************************************)
EXTENDS Naturals, Sequences, FiniteSets

CONSTANTS
    Pages,     \* pages that show the wizard
    Settled,   \* a job is started, or its log cleared, when no page still follows one or
               \* waits for the state
    Cap,       \* room in a subscriber's channel (512)
    Window,    \* what a connection holds before writing blocks
    MaxAsks,   \* bound on the different answers on their way to a page
    MaxJobs,   \* bound on jobs
    MaxEvents, \* bound on the events of a job, which then only says its last words
    MaxFaults  \* bound on connections that break and restarts of the panel

ASSUME StreamAssumption ==
    /\ Settled \in BOOLEAN
    /\ {Cap, Window, MaxAsks, MaxJobs} \subseteq Nat \ {0}
    /\ {MaxEvents, MaxFaults} \subseteq Nat

VARIABLES
    events,  \* LogBuffer.evs of each job: how many events there are
    job,     \* each job: it runs, has its final state, and closes its channel at last
    current, \* Engine.job, 0: none
    stream,  \* the handler that serves each page
    wire,    \* what is on its connection: <<job, number>>, number 0 for the state
    page,    \* what each page knows and shows
    faults   \* faults so far

vars == <<events, job, current, stream, wire, page, faults>>
panel == <<events, job, current>>

Jobs == 1..MaxJobs
NoStream == [pc |-> "off", job |-> 0, chan |-> <<>>, sent |-> 0, upto |-> 0]

\* A page that was just loaded. job, running: of the state it learnt last; asks: it wants to
\* know it; told: the answers on their way; es: it has an EventSource; live: the job ran when that was opened; last:
\* the number the EventSource saw last; finished: it was told the final state; sleeps: its
\* browser does nothing.
Loaded == [job |-> 0, running |-> FALSE, asks |-> TRUE, told |-> {}, es |-> FALSE,
           live |-> FALSE, last |-> 0, log |-> <<>>, finished |-> FALSE, sleeps |-> FALSE]

Init ==
    /\ events = [j \in Jobs |-> 0] /\ job = [j \in Jobs |-> "none"] /\ current = 0
    /\ stream = [p \in Pages |-> NoStream]
    /\ wire = [p \in Pages |-> <<>>]
    /\ page = [p \in Pages |-> Loaded]
    /\ faults = 0

-------------------------------------------------------------------------------
(* The job. *)

At(p, at) == stream[p].pc = at
Subscribed(p) == ~At(p, "off")

Closed(p) == [page[p] EXCEPT !.es = FALSE, !.live = FALSE, !.last = 0]

\* Variant: a channel without a bound.
OfferAlways(p, j, e) ==
    IF Subscribed(p) /\ stream[p].job = j
    THEN [stream[p] EXCEPT !.chan = Append(@, e)] ELSE stream[p]

\* A subscriber whose channel is full does not get the event.
Offer(p, j, e) ==
    IF Subscribed(p) /\ stream[p].job = j /\ Len(stream[p].chan) < Cap
    THEN [stream[p] EXCEPT !.chan = Append(@, e)] ELSE stream[p]

\* Variant: the job waits for room in every channel.
AppendBlocks(j) ==
    /\ \A p \in Pages : Subscribed(p) => Len(stream[p].chan) < Cap
    /\ events' = [events EXCEPT ![j] = @ + 1]
    /\ stream' = [p \in Pages |-> Offer(p, j, events'[j])]
    /\ UNCHANGED <<current, wire, page, faults>>

\* LogBuffer.Append, under its lock.
AppendEvent(j) ==
    /\ events' = [events EXCEPT ![j] = @ + 1]
    /\ stream' = [p \in Pages |-> Offer(p, j, events'[j])]
    /\ UNCHANGED <<current, wire, page, faults>>

Turns(j, from, to) == job[j] = from /\ job' = [job EXCEPT ![j] = to]
Silently == UNCHANGED <<events, current, stream, wire, page, faults>>

Work(j) ==
    /\ job[j] = "running" /\ events[j] < MaxEvents
    /\ AppendEvent(j) /\ UNCHANGED job

\* The state is set before the last event, and the channel is closed after it.
Finish(j) == Turns(j, "running", "finished") /\ Silently
LastWords(j) == Turns(j, "finished", "done") /\ AppendEvent(j)

\* The panel ends and comes back; its journal stays, its jobs do not.
Crash ==
    /\ faults < MaxFaults /\ faults' = faults + 1
    /\ job' = [j \in Jobs |-> IF job[j] = "none" THEN "none" ELSE "gone"]
    /\ current' = 0
    /\ stream' = [p \in Pages |-> NoStream] /\ wire' = [p \in Pages |-> <<>>]
    /\ page' = [p \in Pages |-> IF At(p, "off") \/ page[p].live THEN page[p]
                                ELSE Closed(p)]
    /\ UNCHANGED events

-------------------------------------------------------------------------------
(* handleInstallEvents. *)

Goes(p, at) == stream' = [stream EXCEPT ![p].pc = at]

\* The EventSource connects, with the number of the event it saw last; without a job it
\* is refused and gives up.
Connect(p) ==
    /\ At(p, "off") /\ page[p].es /\ ~page[p].sleeps
    /\ IF current = 0
       THEN page' = [page EXCEPT ![p] = Closed(p)] /\ UNCHANGED stream
       ELSE /\ stream' = [stream EXCEPT ![p] = [NoStream EXCEPT
                             !.pc = "snapshot", !.job = current, !.sent = page[p].last]]
            /\ UNCHANGED page
    /\ UNCHANGED <<panel, wire, faults>>

\* drain: LogBuffer.Snapshot after what was sent, then its events one by one.
Snapshot(p) ==
    /\ stream[p].pc \in {"snapshot", "lastSnapshot"}
    /\ stream' = [stream EXCEPT ![p].upto = events[stream[p].job],
                                ![p].pc = IF At(p, "snapshot") THEN "drain" ELSE "lastDrain"]
    /\ UNCHANGED <<panel, wire, page, faults>>

Send(p) ==
    /\ stream[p].pc \in {"drain", "lastDrain"} /\ stream[p].sent < stream[p].upto
    /\ Len(wire[p]) < Window
    /\ wire' = [wire EXCEPT ![p] = Append(@, <<stream[p].job, stream[p].sent + 1>>)]
    /\ stream' = [stream EXCEPT ![p].sent = @ + 1]
    /\ UNCHANGED <<panel, page, faults>>

Drained(p) ==
    /\ stream[p].pc \in {"drain", "lastDrain"} /\ stream[p].sent >= stream[p].upto
    /\ stream' = [stream EXCEPT ![p].pc = IF At(p, "drain") THEN "loop" ELSE "state",
                                ![p].upto = 0]
    /\ UNCHANGED <<panel, wire, page, faults>>

Received(p) == [stream[p] EXCEPT !.chan = Tail(@)]

\* Variant: the event that was received is the one that is sent.
ReceiveSends(p) ==
    /\ At(p, "loop") /\ stream[p].chan # <<>> /\ Len(wire[p]) < Window
    /\ IF Head(stream[p].chan) > stream[p].sent
       THEN /\ wire' = [wire EXCEPT ![p] = Append(@, <<stream[p].job, Head(stream[p].chan)>>)]
            /\ stream' = [stream EXCEPT ![p] = [Received(p) EXCEPT !.sent = Head(stream[p].chan)]]
       ELSE stream' = [stream EXCEPT ![p] = Received(p)] /\ UNCHANGED wire
    /\ UNCHANGED <<panel, page, faults>>

\* An event from the channel only says that there is something to drain.
Receive(p) ==
    /\ At(p, "loop") /\ stream[p].chan # <<>>
    /\ stream' = [stream EXCEPT ![p] =
         IF Head(@.chan) > @.sent THEN [Received(p) EXCEPT !.pc = "snapshot"] ELSE Received(p)]
    /\ UNCHANGED <<panel, wire, page, faults>>

\* Variant: the end of the job ends the stream as it is.
SeeDoneAtOnce(p) ==
    /\ At(p, "loop") /\ job[stream[p].job] = "done"
    /\ Goes(p, "state")
    /\ UNCHANGED <<panel, wire, page, faults>>

\* Variant: the end is noticed only when an event comes.
SeeDoneByEvent(p) ==
    /\ At(p, "loop") /\ job[stream[p].job] = "done" /\ stream[p].chan # <<>>
    /\ Goes(p, "lastSnapshot")
    /\ UNCHANGED <<panel, wire, page, faults>>

\* The job is done: drain once more, whatever is left in the channel.
SeeDone(p) ==
    /\ At(p, "loop") /\ job[stream[p].job] = "done"
    /\ Goes(p, "lastSnapshot")
    /\ UNCHANGED <<panel, wire, page, faults>>

SendState(p) ==
    /\ At(p, "state") /\ Len(wire[p]) < Window
    /\ wire' = [wire EXCEPT ![p] = Append(@, <<stream[p].job, 0>>)]
    /\ Goes(p, "ended")
    /\ UNCHANGED <<panel, page, faults>>

Serve(p) ==
    \/ Snapshot(p) \/ Send(p) \/ Drained(p)
    \/ Receive(p) \/ SeeDone(p) \/ SendState(p)

-------------------------------------------------------------------------------
(* The page. *)

Off(p) ==
    /\ stream' = [stream EXCEPT ![p] = NoStream]
    /\ wire' = [wire EXCEPT ![p] = <<>>]

Runs == current # 0 /\ job[current] = "running"

\* loadState, every two seconds while the page believes that the job runs: the panel
\* answers, and the page waits for the answer.
Ask(p) ==
    /\ ~page[p].sleeps /\ (page[p].running \/ page[p].asks)
    /\ Cardinality(page[p].told) < MaxAsks
    /\ page' = [page EXCEPT ![p].told = @ \union {[job |-> current, running |-> Runs]},
                            ![p].asks = FALSE]
    /\ UNCHANGED <<panel, stream, wire, faults>>

\* An answer comes, in whatever order. When the job is another one the EventSource is
\* replaced; the log stays. (With OpenVPN installed the page shows that instead of the
\* log, and goes on doing all this.)
Learn(p) ==
    /\ ~page[p].sleeps
    /\ \E now \in page[p].told :
          LET rest == page[p].told \ {now} IN
          IF now.job = page[p].job
          THEN /\ page' = [page EXCEPT ![p].running = now.running, ![p].told = rest]
               /\ UNCHANGED <<stream, wire>>
          ELSE /\ page' = [page EXCEPT ![p] = [@ EXCEPT
                     !.job = now.job, !.running = now.running, !.told = rest,
                     !.es = now.job # 0, !.live = now.running, !.last = 0, !.finished = FALSE]]
               /\ Off(p)
    /\ UNCHANGED <<panel, faults>>

\* Answers that do not come are ignored.
Lose(p) ==
    /\ faults < MaxFaults /\ faults' = faults + 1
    /\ page[p].told # {} /\ page' = [page EXCEPT ![p].told = {}]
    /\ UNCHANGED <<panel, stream, wire>>

\* Only the numbers are compared: an event that is not newer than the last one shown is
\* skipped, whatever job it is of.
Shown(log, e) == IF log # <<>> /\ log[Len(log)][2] >= e[2] THEN log ELSE Append(log, e)

\* The state event ends the stream.
PageReads(p) ==
    /\ wire[p] # <<>> /\ ~page[p].sleeps
    /\ LET e == Head(wire[p]) IN
       IF e[2] = 0
       THEN /\ page' = [page EXCEPT ![p] = [Closed(p) EXCEPT !.finished = TRUE, !.asks = TRUE]]
            /\ Off(p)
       ELSE /\ page' = [page EXCEPT ![p].last = e[2], ![p].log = Shown(@, e)]
            /\ wire' = [wire EXCEPT ![p] = Tail(@)]
            /\ UNCHANGED stream
    /\ UNCHANGED <<panel, faults>>

\* The connection breaks, and what is on it is lost. An EventSource that was opened
\* after the job's end is closed then.
Break(p) ==
    /\ faults < MaxFaults /\ faults' = faults + 1
    /\ ~At(p, "off")
    /\ page' = [page EXCEPT ![p] = IF page[p].live THEN @ ELSE Closed(p)]
    /\ Off(p)
    /\ UNCHANGED panel

\* A laptop is closed, a tab is put to sleep, and wakes up again or never.
Sleep(p) == page' = [page EXCEPT ![p].sleeps = ~@] /\ UNCHANGED <<panel, stream, wire, faults>>

\* Every page that shows a log has learnt of the end of its job.
NobodyFollows ==
    Settled => \A p \in Pages :
                  /\ ~page[p].es /\ ~page[p].running /\ page[p].told = {}
                  /\ page[p].asks => page[p].log = <<>>

\* Engine.Start refuses only while a job runs: the last one may have its last words still
\* to say.
NewJob ==
    /\ ~Runs /\ NobodyFollows
    /\ \E j \in Jobs :
          /\ job[j] = "none" /\ \A k \in 1..(j - 1) : job[k] # "none"
          /\ job' = [job EXCEPT ![j] = "running"] /\ current' = j
    /\ UNCHANGED <<events, stream, wire, faults>>

\* The form is there when the page knows of no job.
Start(p) ==
    /\ page[p].job = 0 /\ ~page[p].sleeps
    /\ NewJob
    /\ page' = [page EXCEPT ![p].log = <<>>, ![p].asks = TRUE]

StartElsewhere == NewJob /\ UNCHANGED page

\* The button that goes back to the form after a job that failed; it closes the stream.
Retry(p) ==
    /\ page[p].job # 0 /\ ~page[p].running /\ ~page[p].sleeps
    /\ page' = [page EXCEPT ![p] = [Loaded EXCEPT !.asks = FALSE, !.told = page[p].told]]
    /\ Off(p)
    /\ UNCHANGED <<panel, faults>>

\* The button that rolls a residue back clears the log and leaves the stream.
RollBack(p) ==
    /\ ~page[p].running /\ ~page[p].sleeps /\ ~Runs /\ NobodyFollows
    /\ page' = [page EXCEPT ![p].log = <<>>, ![p].finished = FALSE, ![p].asks = TRUE]
    /\ UNCHANGED <<panel, stream, wire, faults>>

Next ==
    \/ \E j \in Jobs : Work(j) \/ Finish(j) \/ LastWords(j)
    \/ \E p \in Pages : Connect(p) \/ Serve(p) \/ PageReads(p) \/ Break(p) \/ Sleep(p)
    \/ \E p \in Pages : Ask(p) \/ Learn(p) \/ Lose(p)
    \/ \E p \in Pages : Start(p) \/ Retry(p) \/ RollBack(p)
    \/ StartElsewhere
    \/ Crash

Spec == Init /\ [][Next]_vars

\* Goroutines run once they can; a browser that is awake reads and connects again. A step of
\* the installation may take for ever, and so may a sleep.
FairSpec ==
    /\ Spec
    /\ \A j \in Jobs : WF_vars(LastWords(j))
    /\ \A p \in Pages : WF_vars(Serve(p)) /\ WF_vars(Connect(p)) /\ WF_vars(PageReads(p))

-------------------------------------------------------------------------------
(* Properties. *)

\* Every variable has its type; channels and connections keep to their room, and a
\* handler sends what there is and no event twice.
TypeOK ==
    /\ events \in [Jobs -> 0..MaxEvents + 1] /\ current \in 0..MaxJobs
    /\ job \in [Jobs -> {"none", "running", "finished", "done", "gone"}]
    /\ \A p \in Pages :
          /\ Len(stream[p].chan) <= Cap /\ Len(wire[p]) <= Window
          /\ stream[p].job # 0 => /\ stream[p].sent \in 0..events[stream[p].job]
                                  /\ stream[p].upto \in 0..events[stream[p].job]
          /\ \A i, j \in 1..Len(wire[p]) :
                i < j /\ wire[p][j][2] # 0 => wire[p][i][2] < wire[p][j][2]

\* The log of a page that shows a job has that job's events up to the last it shows, once
\* and in order, whatever was dropped from the channel or lost with a connection, and
\* none of another job.
NoGaps ==
    \A p \in Pages : page[p].job # 0 =>
        page[p].log = [i \in 1..Len(page[p].log) |-> <<page[p].job, i>>]

\* A page that was told the job's final state has the whole log, the last words too.
Complete ==
    \A p \in Pages : page[p].finished => Len(page[p].log) = events[page[p].job]

\* No page can hold the installation up, were it never to read again.
JobEnds == \A j \in Jobs : job[j] = "finished" ~> job[j] \in {"done", "gone"}

Follows(p, j) == page[p].job = j /\ page[p].es /\ page[p].live

\* A page that follows a job to its end and is awake for good at last shows that it has
\* finished, unless the panel ends.
Finishes ==
    \A p \in Pages, j \in Jobs :
        <>[]~page[p].sleeps => (Follows(p, j) /\ job[j] = "done" ~>
                                   page[p].finished \/ page[p].job # j \/ job[j] = "gone")

\* Every event is shown, also while a step of the installation hangs after it: one
\* that the channel had no room for is caught up by its number (logbuf.go:
\* 订阅方消费太慢就丢给它自己按 Seq 补).
Prompt ==
    \A p \in Pages, j \in Jobs, n \in 1..MaxEvents + 1 :
        Follows(p, j) /\ events[j] >= n ~>
            page[p].last >= n \/ ~Follows(p, j) \/ page[p].sleeps

===============================================================================
