-------------------------------- MODULE LogFanout --------------------------------
(***************************************************************************)
(* Log lines on their way to browsers.  Two streams work alike: a run's    *)
(* log (Hub.BroadcastRunLog and handleRunLogsWS) and the server's console  *)
(* (ConsoleHub and handleConsoleWS).  A writer copies the subscribers      *)
(* under a lock and sends to each after releasing it, dropping the line    *)
(* for a viewer whose channel is full; a viewer subscribes, catches up,    *)
(* forwards its channel to the browser, and in the end unsubscribes and    *)
(* closes the channel.  The console also keeps its last lines in a ring.   *)
(***************************************************************************)
EXTENDS Naturals, Sequences, FiniteSets

CONSTANTS
    Viewers,    \* websocket connections of browsers, each used once
    Writers,    \* goroutines that log or handle an agent's messages
    Size,       \* consoleHistorySize (500 in the code)
    BufCap,     \* capacity of a viewer's channel (512 and 64 in the code)
    MaxLines    \* bound on the console's lines

ASSUME FanoutAssumption ==
    /\ Size \in Nat \ {0} /\ BufCap \in Nat \ {0} /\ MaxLines \in Nat
    /\ IsFiniteSet(Viewers)

VARIABLES
    history,    \* ConsoleHub.history; line numbers, 0 for nil
    head, full, \* next write position; the ring has wrapped
    count,      \* history: console lines written
    status,     \* backup_runs.status of the run whose log is streamed
    reported,   \* its agent has reported job_done or job_failed
    subs,       \* subscribers of each stream
    chan,       \* contents of each viewer's channel
    closed,     \* viewers whose channel is closed
    wpc,        \* where each writer is
    wline,      \* the line it sends
    wsubs,      \* its copy of the subscribers, those not yet served
    phase,      \* where each viewer's handler is
    stream,     \* the stream it watches
    alive,      \* viewers whose browser is still there
    from,       \* console lines before the oldest one replayed to each viewer
    seen,       \* lines written to each browser
    missed      \* history: lines a viewer did not get, full buffers and panics

ringVars   == <<history, head, full, count>>
runVars    == <<status, reported>>
writerVars == <<wpc, wline, wsubs>>
viewVars   == <<phase, stream, alive, from, seen>>
vars == <<history, head, full, count, status, reported, subs, chan, closed, wpc, wline, wsubs,
          phase, stream, alive, from, seen, missed>>

Streams == {"console", "run"}
\* Console lines are numbered from 1; a run's lines are told apart as these two.
ProgressLine == 0
EndLine == 1

Queued(v) == {chan[v][i] : i \in DOMAIN chan[v]}

TypeOK ==
    /\ history \in [0 .. Size - 1 -> Nat]
    /\ head \in 0 .. Size - 1 /\ full \in BOOLEAN /\ count \in Nat
    /\ status \in {"running", "ended", "cancelled"} /\ reported \in BOOLEAN
    /\ subs \in [Streams -> SUBSET Viewers]
    /\ chan \in [Viewers -> Seq(Nat)]
    /\ \A v \in Viewers : Len(chan[v]) <= BufCap
    /\ closed \subseteq Viewers
    /\ wpc \in [Writers -> {"idle", "verdict", "sending", "panicked"}]
    /\ wline \in [Writers -> Nat]
    /\ wsubs \in [Writers -> SUBSET Viewers]
    /\ phase \in [Viewers -> {"new", "joining", "streaming", "leaving", "removed", "done"}]
    /\ stream \in [Viewers -> Streams]
    /\ alive \subseteq Viewers
    /\ from \in [Viewers -> Nat]
    /\ seen \in [Viewers -> SUBSET Nat]
    /\ missed \in [Viewers -> SUBSET Nat]

Init ==
    /\ history = [i \in 0 .. Size - 1 |-> 0]
    /\ head = 0 /\ full = FALSE /\ count = 0
    /\ status = "running" /\ reported = FALSE
    /\ subs = [s \in Streams |-> {}]
    /\ chan = [v \in Viewers |-> <<>>]
    /\ closed = {}
    /\ wpc = [w \in Writers |-> "idle"]
    /\ wline = [w \in Writers |-> 0]
    /\ wsubs = [w \in Writers |-> {}]
    /\ phase = [v \in Viewers |-> "new"]
    /\ stream \in [Viewers -> Streams]
    /\ alive = Viewers
    /\ from = [v \in Viewers |-> 0]
    /\ seen = [v \in Viewers |-> {}]
    /\ missed = [v \in Viewers |-> {}]

-----------------------------------------------------------------------------
(* The ring of the console *)

\* Faulty variant: full is true only just after the ring has wrapped.
AppendHistoryForgets(line) ==
    /\ history' = [history EXCEPT ![head] = line]
    /\ head' = IF head + 1 = Size THEN 0 ELSE head + 1
    /\ full' = (head' = 0)

\* h.head = (h.head + 1) % consoleHistorySize
AppendHistory(line) ==
    /\ history' = [history EXCEPT ![head] = line]
    /\ head' = IF head + 1 = Size THEN 0 ELSE head + 1
    /\ full' = (full \/ head' = 0)

\* ConsoleHub.snapshot: from head to the end and then up to head.
snapshot ==
    IF full
    THEN [i \in 1 .. Size |-> history[IF head + i <= Size THEN head + i - 1
                                                          ELSE head + i - 1 - Size]]
    ELSE [i \in 1 .. head |-> history[i - 1]]

-----------------------------------------------------------------------------
(* Writers *)

\* The critical section: the line and a copy of the subscribers.
Broadcast(w, s, line) ==
    /\ wline' = [wline EXCEPT ![w] = line]
    /\ wsubs' = [wsubs EXCEPT ![w] = subs[s]]
    /\ wpc' = [wpc EXCEPT ![w] = IF subs[s] = {} THEN "idle" ELSE "sending"]

\* ConsoleHub.Write: the server logs, or an agent_log message arrives.
Write(w) ==
    /\ wpc[w] = "idle"
    /\ count < MaxLines
    /\ count' = count + 1
    /\ AppendHistory(count + 1)
    /\ Broadcast(w, "console", count + 1)
    /\ UNCHANGED <<runVars, subs, chan, closed, viewVars, missed>>

\* job_progress
Progress(w) ==
    /\ wpc[w] = "idle"
    /\ ~reported
    /\ Broadcast(w, "run", ProgressLine)
    /\ UNCHANGED <<ringVars, runVars, subs, chan, closed, viewVars, missed>>

\* job_done or job_failed: the UPDATE, which may fail; then a line follows.  A
\* job_failed of a cancelled run changes and says nothing.
Verdict(w) ==
    /\ wpc[w] = "idle"
    /\ ~reported
    /\ reported' = TRUE
    /\ \/ status' \in {"ended", status} /\ wpc' = [wpc EXCEPT ![w] = "verdict"]
       \/ status = "cancelled" /\ UNCHANGED <<status, wpc>>
    /\ UNCHANGED <<ringVars, subs, chan, closed, wline, wsubs, viewVars, missed>>

\* BroadcastRunLog of "completed: ..." or "failed: ...".
Announce(w) ==
    /\ wpc[w] = "verdict"
    /\ Broadcast(w, "run", EndLine)
    /\ UNCHANGED <<ringVars, runVars, subs, chan, closed, viewVars, missed>>

\* handleCancelRun, which tested the status earlier: nothing is broadcast.
Cancel ==
    /\ status # "cancelled"
    /\ status' = "cancelled"
    /\ UNCHANGED <<ringVars, reported, subs, chan, closed, writerVars, viewVars, missed>>

Room(v) == Len(chan[v]) < BufCap

\* select { case ch <- line: default: }: a full channel drops the line.
SendTo(w, v) ==
    /\ wpc[w] = "sending" /\ v \in wsubs[w] /\ v \notin closed
    /\ IF Room(v)
       THEN chan' = [chan EXCEPT ![v] = Append(@, wline[w])] /\ UNCHANGED missed
       ELSE missed' = [missed EXCEPT ![v] = @ \cup {wline[w]}] /\ UNCHANGED chan
    /\ wsubs' = [wsubs EXCEPT ![w] = @ \ {v}]
    /\ wpc' = [wpc EXCEPT ![w] = IF wsubs[w] = {v} THEN "idle" ELSE "sending"]
    /\ UNCHANGED <<ringVars, runVars, subs, closed, wline, viewVars>>

\* A send on a channel closed since the copy panics; the others get nothing.
SendPanics(w, v) ==
    /\ wpc[w] = "sending" /\ v \in wsubs[w] /\ v \in closed
    /\ wpc' = [wpc EXCEPT ![w] = "panicked"]
    /\ missed' = [u \in Viewers |-> IF u \in wsubs[w] THEN missed[u] \cup {wline[w]}
                                                      ELSE missed[u]]
    /\ wsubs' = [wsubs EXCEPT ![w] = {}]
    /\ UNCHANGED <<ringVars, runVars, subs, chan, closed, wline, viewVars>>

-----------------------------------------------------------------------------
(* Viewers *)

\* SubscribeRunLogs and ConsoleHub.subscribe.
Subscribe(v) ==
    /\ phase[v] = "new"
    /\ phase' = [phase EXCEPT ![v] = "joining"]
    /\ subs' = [subs EXCEPT ![stream[v]] = @ \cup {v}]
    /\ UNCHANGED <<ringVars, runVars, chan, closed, writerVars, stream, alive, from,
                   seen, missed>>

\* The browser is sent the history.
Replay(v) ==
    /\ from' = [from EXCEPT ![v] = count - Len(snapshot)]
    /\ seen' = [seen EXCEPT ![v] = {snapshot[i] : i \in DOMAIN snapshot}]
    /\ UNCHANGED <<ringVars, runVars, chan, closed, writerVars, stream, alive, missed>>

CatchUp(v) ==
    /\ phase[v] = "joining"
    /\ phase' = [phase EXCEPT ![v] = "streaming"]
    /\ Replay(v)
    /\ UNCHANGED subs

\* Faulty variant: the history is replayed before the viewer subscribes.
JoinConsoleLate(v) ==
    /\ stream[v] = "console"
    /\ \/ /\ phase[v] = "new"
          /\ phase' = [phase EXCEPT ![v] = "joining"]
          /\ Replay(v)
          /\ UNCHANGED subs
       \/ /\ phase[v] = "joining"
          /\ phase' = [phase EXCEPT ![v] = "streaming"]
          /\ subs' = [subs EXCEPT !["console"] = @ \cup {v}]
          /\ UNCHANGED <<ringVars, runVars, chan, closed, writerVars, stream, alive, from,
                         seen, missed>>

\* handleConsoleWS: subscribe, then snapshot.
JoinConsole(v) == stream[v] = "console" /\ (Subscribe(v) \/ CatchUp(v))

\* The row is read: a run that is not running has no stream.
CheckStatus(v) ==
    /\ phase[v] = "joining"
    /\ phase' = [phase EXCEPT ![v] = IF status = "running" THEN "streaming" ELSE "leaving"]
    /\ UNCHANGED <<ringVars, runVars, subs, chan, closed, writerVars, stream, alive, from,
                   seen, missed>>

\* Faulty variant: the status is read before the viewer subscribes.
JoinRunLate(v) ==
    /\ stream[v] = "run"
    /\ \/ /\ phase[v] = "new" /\ status = "running"
          /\ phase' = [phase EXCEPT ![v] = "joining"]
          /\ UNCHANGED subs
       \/ /\ phase[v] = "joining"
          /\ phase' = [phase EXCEPT ![v] = "streaming"]
          /\ subs' = [subs EXCEPT !["run"] = @ \cup {v}]
    /\ UNCHANGED <<ringVars, runVars, chan, closed, writerVars, stream, alive, from,
                   seen, missed>>

\* handleRunLogsWS: subscribe, then check that the run is not finished.
JoinRun(v) == stream[v] = "run" /\ (Subscribe(v) \/ CheckStatus(v))

Deliver(v) ==
    /\ phase[v] = "streaming"
    /\ chan[v] # <<>>
    /\ seen' = [seen EXCEPT ![v] = @ \cup {Head(chan[v])}]
    /\ chan' = [chan EXCEPT ![v] = Tail(@)]
    /\ UNCHANGED <<ringVars, runVars, subs, closed, writerVars, phase, stream, alive,
                   from, missed>>

BrowserGone(v) ==
    /\ v \in alive /\ phase[v] # "new"
    /\ alive' = alive \ {v}
    /\ UNCHANGED <<ringVars, runVars, subs, chan, closed, writerVars, phase, stream, from,
                   seen, missed>>

\* Faulty variant: no pings and no reads; only writing a line may fail.
LeaveOnLine(v) ==
    /\ phase[v] \in {"joining", "streaming"} /\ chan[v] # <<>>
    /\ phase' = [phase EXCEPT ![v] = "leaving"]
    /\ UNCHANGED <<ringVars, runVars, subs, chan, closed, writerVars, stream, alive, from,
                   seen, missed>>

\* A write, a ping or the console's read fails, also on a browser that is slow.
Leave(v) ==
    /\ phase[v] \in {"joining", "streaming"}
    /\ phase' = [phase EXCEPT ![v] = "leaving"]
    /\ UNCHANGED <<ringVars, runVars, subs, chan, closed, writerVars, stream, alive, from,
                   seen, missed>>

\* UnsubscribeRunLogs closes the channel under the lock, ConsoleHub.unsubscribe
\* after it.
Unsubscribe(v) ==
    /\ phase[v] = "leaving"
    /\ subs' = [subs EXCEPT ![stream[v]] = @ \ {v}]
    /\ IF stream[v] = "run"
       THEN closed' = closed \cup {v} /\ phase' = [phase EXCEPT ![v] = "done"]
       ELSE phase' = [phase EXCEPT ![v] = "removed"] /\ UNCHANGED closed
    /\ UNCHANGED <<ringVars, runVars, chan, writerVars, stream, alive, from, seen, missed>>

CloseChan(v) ==
    /\ phase[v] = "removed"
    /\ closed' = closed \cup {v}
    /\ phase' = [phase EXCEPT ![v] = "done"]
    /\ UNCHANGED <<ringVars, runVars, subs, chan, writerVars, stream, alive, from, seen,
                   missed>>

WriterStep(w) ==
    \/ Write(w) \/ Progress(w) \/ Verdict(w) \/ Announce(w)
    \/ \E v \in Viewers : SendTo(w, v) \/ SendPanics(w, v)

ViewerStep(v) ==
    \/ JoinConsole(v) \/ JoinRun(v) \/ Deliver(v) \/ BrowserGone(v) \/ Leave(v)
    \/ Unsubscribe(v) \/ CloseChan(v)

Next ==
    \/ \E w \in Writers : WriterStep(w)
    \/ \E v \in Viewers : ViewerStep(v)
    \/ Cancel

Spec == Init /\ [][Next]_vars

\* Goroutines run; a ping, a read or a write fails in time on a connection whose
\* browser is gone.  Whoever logs, reports, cancels or opens a page owes nothing.
Fairness ==
    /\ \A w \in Writers :
          /\ WF_vars(Announce(w))
          /\ \A v \in Viewers : WF_vars(SendTo(w, v) \/ SendPanics(w, v))
    /\ \A v \in Viewers :
          /\ WF_vars(phase[v] = "joining" /\ (JoinConsole(v) \/ JoinRun(v)))
          /\ WF_vars(Deliver(v))
          /\ WF_vars(v \notin alive /\ Leave(v))
          /\ WF_vars(Unsubscribe(v)) /\ WF_vars(CloseChan(v))

FairSpec == Spec /\ Fairness

-----------------------------------------------------------------------------
(* Properties *)

\* The ring holds the last Size lines, oldest first, however often it wrapped.
RingIsTail ==
    /\ Len(snapshot) = IF count < Size THEN count ELSE Size
    /\ \A i \in DOMAIN snapshot : snapshot[i] = count - Len(snapshot) + i

\* A line that has still to be sent to a viewer.
Pending(v, line) == \E w \in Writers : wline[w] = line /\ v \in wsubs[w]
Owed(v, line) == line \in seen[v] \cup Queued(v) \cup missed[v] \/ Pending(v, line)

\* Replay and stream join without a gap: a console viewer gets every line since
\* the oldest one replayed, but for those dropped on its full channel, although
\* lines are written between its subscription and its snapshot.
ConsoleHasNoGap ==
    \A v \in Viewers : stream[v] = "console" /\ phase[v] = "streaming" =>
        \A n \in from[v] + 1 .. count : Owed(v, n)

\* A viewer that follows a run's log is told of its end: it subscribed before it
\* found the run running, so the last line of a run that ended since is on its
\* way to it, unless its channel was full.
ViewerLearnsEnd ==
    \A v \in Viewers : stream[v] = "run" /\ phase[v] = "streaming" /\ status = "ended" =>
        Owed(v, EndLine) \/ \E w \in Writers : wpc[w] = "verdict"

\* The channel of a browser that is gone is unsubscribed and closed in the end:
\* subscribers do not pile up, however fast lines are written.
GoneIsFreed == \A v \in Viewers : v \notin alive ~> phase[v] = "done"
=============================================================================
