------------------------------- MODULE ConsolePage -------------------------------
(***************************************************************************)
(* The Console page of the web interface (web/src/pages/Console.tsx): one  *)
(* websocket that reconnects three seconds after it closed, a list of the  *)
(* last lines, and a Pause button that diverts lines to a buffer.          *)
(*                                                                         *)
(* Every event handler runs to its end before the next one, with the       *)
(* rendering and the effects it causes.  A page that is left keeps its     *)
(* sockets and timers for a while; its state and references are gone.      *)
(*                                                                         *)
(* Of the server (internal/api/console.go) the module has what the page    *)
(* sees of it: the lines, the history that is replayed, the stream of the  *)
(* connection in use with the lines that are dropped from it, the end of   *)
(* that stream and a restart.  LogFanout has the ring and the channels.    *)
(***************************************************************************)
EXTENDS Integers, Sequences

CONSTANTS
    Sockets,    \* WebSocket objects; a closed one that nothing refers to is reused
    NoSocket,   \* wsRef.current = null
    Cap,        \* lines kept (2000 in the code)
    History,    \* lines the server replays to a new connection (500)
    MaxLines,   \* bound on the lines the server logs
    MaxIds      \* bound on the lines one visit to the page receives

ASSUME ConsolePageAssumption ==
    /\ NoSocket \notin Sockets
    /\ Cap \in Nat \ {0} /\ History \in Nat \ {0}
    /\ MaxLines \in Nat /\ MaxIds \in Nat

VARIABLES
    mounted,    \* the page is shown
    sock,       \* readyState of every socket
    cur,        \* wsRef.current
    timers,     \* sockets whose close started a reconnection timer
    connected,  \* what the badge says
    paused,
    entries,    \* the lines shown
    buffer,     \* bufferRef.current: the lines withheld by Pause
    lastId,     \* idRef.current
    log,        \* lines the servers have logged; a line is known by its number
    start,      \* lines logged when the server was last started
    peer,       \* the socket whose other end handleConsoleWS serves
    due,        \* lines on their way to the socket in use, in their order
    sending,    \* lines whose writers have still to send them to that connection
    seen,       \* the lines this visit to the page received
    dropped,    \* lines the connection in use was not sent
    forgot      \* the lines up to this one were no longer replayed to it

view == <<paused, entries, buffer, lastId>>
stream == <<peer, due, sending, dropped, forgot>>
server == <<log, start>>
vars == <<mounted, sock, cur, timers, connected, view, server, stream, seen>>

\* An entry, by its id.
Entry == Nat

TypeOK ==
    /\ mounted \in BOOLEAN /\ connected \in BOOLEAN /\ paused \in BOOLEAN
    /\ sock \in [Sockets -> {"connecting", "open", "closing", "closed"}]
    /\ cur \in Sockets \cup {NoSocket}
    /\ timers \subseteq Sockets
    /\ entries \in Seq(Entry) /\ buffer \in Seq(Entry)
    /\ Len(entries) <= Cap + 1
    /\ lastId \in Nat /\ log \in Nat /\ start \in 0 .. log
    /\ peer \in Sockets \cup {NoSocket}
    /\ due \in Seq(Nat) /\ sending \subseteq Nat
    /\ seen \subseteq Nat /\ dropped \subseteq Nat /\ forgot \in Nat

Init ==
    /\ mounted = FALSE
    /\ sock = [s \in Sockets |-> "closed"]
    /\ cur = NoSocket /\ timers = {}
    /\ connected = FALSE /\ paused = FALSE
    /\ entries = <<>> /\ buffer = <<>> /\ lastId = 0
    /\ log = 0 /\ start = 0
    /\ peer = NoSocket /\ due = <<>> /\ sending = {}
    /\ seen = {} /\ dropped = {} /\ forgot = 0

Live(s) == sock[s] \in {"connecting", "open"}

-----------------------------------------------------------------------------
(* Connection *)

\* An object nobody refers to any more.
Fresh(s) == sock[s] = "closed" /\ s \notin timers /\ s # cur

\* connect: there is always a token here, or the page would not be shown.
Connect(s) ==
    /\ Fresh(s)
    /\ sock' = [sock EXCEPT ![s] = "connecting"]
    /\ cur' = s

Mount(s) ==
    /\ ~mounted /\ mounted' = TRUE
    /\ Connect(s)
    /\ connected' = FALSE /\ paused' = FALSE
    /\ entries' = <<>> /\ buffer' = <<>> /\ lastId' = 0 /\ seen' = {}
    /\ UNCHANGED <<timers, server, stream>>

\* What the server has forgotten: the lines before its start and before the last
\* History lines.
Forgotten == IF log - History > start THEN log - History ELSE start

\* snapshot: the other lines, oldest first.
Replay == [i \in 1 .. log - Forgotten |-> Forgotten + i]

\* Faulty variant: a new connection is not sent the history.
OnOpenNoReplay(s) ==
    /\ sock[s] = "connecting"
    /\ sock' = [sock EXCEPT ![s] = "open"]
    /\ connected' = TRUE
    /\ peer' = s /\ due' = <<>> /\ sending' = {}
    /\ dropped' = {} /\ forgot' = Forgotten
    /\ UNCHANGED <<mounted, cur, timers, view, server, seen>>

\* handleConsoleWS accepts, subscribes and replays the history; lines that were
\* logged between the two will be sent again.
OnOpen(s) ==
    /\ sock[s] = "connecting"
    /\ sock' = [sock EXCEPT ![s] = "open"]
    /\ connected' = TRUE
    /\ peer' = s /\ due' = Replay
    /\ \E n \in Forgotten .. log : sending' = (n + 1) .. log
    /\ dropped' = {} /\ forgot' = Forgotten
    /\ UNCHANGED <<mounted, cur, timers, view, server, seen>>

\* The connection in use is over, with what was on its way.
Disconnected == peer' = NoSocket /\ due' = <<>> /\ sending' = {} /\ UNCHANGED <<dropped, forgot>>

\* Faulty variant: the badge is left alone.
OnCloseQuiet(s) ==
    /\ sock[s] # "closed"
    /\ sock' = [sock EXCEPT ![s] = "closed"]
    /\ timers' = timers \cup {s}
    /\ IF s = cur THEN Disconnected ELSE UNCHANGED stream
    /\ UNCHANGED <<mounted, cur, connected, view, server, seen>>

\* Faulty variant: no timer is started.
OnCloseForGood(s) ==
    /\ sock[s] # "closed"
    /\ sock' = [sock EXCEPT ![s] = "closed"]
    /\ connected' = (connected /\ cur # s)
    /\ IF s = cur THEN Disconnected ELSE UNCHANGED stream
    /\ UNCHANGED <<mounted, cur, timers, view, server, seen>>

\* onclose, after an error or without: a page that was left has no badge.
OnClose(s) ==
    /\ sock[s] # "closed"
    /\ sock' = [sock EXCEPT ![s] = "closed"]
    /\ timers' = timers \cup {s}
    /\ connected' = (connected /\ cur # s)
    /\ IF s = cur THEN Disconnected ELSE UNCHANGED stream
    /\ UNCHANGED <<mounted, cur, view, server, seen>>

\* Faulty variant: every close of a socket connects again.
TimerAlways(s, n) ==
    /\ s \in timers /\ timers' = timers \ {s}
    /\ Connect(n)
    /\ UNCHANGED <<mounted, connected, view, server, stream, seen>>

\* The timer of onclose: only the socket in use is replaced.
Timer(s, n) ==
    /\ s \in timers /\ timers' = timers \ {s}
    /\ IF cur = s THEN Connect(n) ELSE n = s /\ UNCHANGED <<sock, cur>>
    /\ UNCHANGED <<mounted, connected, view, server, stream, seen>>

\* The cleanup of the effect: close() on a socket that is closed does nothing.
Unmount ==
    /\ mounted /\ mounted' = FALSE
    /\ sock' = [s \in Sockets |-> IF s = cur /\ Live(s) THEN "closing" ELSE sock[s]]
    /\ cur' = NoSocket
    /\ connected' = FALSE /\ paused' = FALSE
    /\ entries' = <<>> /\ buffer' = <<>> /\ lastId' = 0 /\ seen' = {}
    /\ Disconnected
    /\ UNCHANGED <<timers, server>>

-----------------------------------------------------------------------------
(* Lines *)

\* slice(-Cap)
Keep(q) == SubSeq(q, IF Len(q) <= Cap THEN 1 ELSE Len(q) - Cap + 1, Len(q))

Show(e) == entries' = Append(Keep(entries), e)

\* onmessage: a socket that is closing delivers nothing.
OnMessage(s) ==
    /\ sock[s] = "open" /\ due # <<>> /\ lastId < MaxIds
    /\ due' = Tail(due) /\ seen' = seen \cup {Head(due)}
    /\ lastId' = lastId + 1
    /\ IF paused THEN buffer' = Append(buffer, lastId') /\ UNCHANGED entries
                 ELSE Show(lastId') /\ UNCHANGED buffer
    /\ UNCHANGED <<mounted, sock, cur, timers, connected, paused, server,
                   peer, sending, dropped, forgot>>

Pause ==
    /\ mounted /\ ~paused
    /\ paused' = TRUE
    /\ UNCHANGED <<mounted, sock, cur, timers, connected, entries, buffer, lastId, server, stream, seen>>

\* Faulty variant: Resume forgets the lines that came meanwhile.
ResumeOnly ==
    /\ mounted /\ paused
    /\ paused' = FALSE
    /\ UNCHANGED <<mounted, sock, cur, timers, connected, entries, buffer, lastId, server, stream, seen>>

\* Resume, and the effect that empties the buffer.
Resume ==
    /\ mounted /\ paused
    /\ paused' = FALSE
    /\ entries' = Keep(entries \o buffer) /\ buffer' = <<>>
    /\ UNCHANGED <<mounted, sock, cur, timers, connected, lastId, server, stream, seen>>

Clear ==
    /\ mounted
    /\ entries' = <<>> /\ buffer' = <<>>
    /\ UNCHANGED <<mounted, sock, cur, timers, connected, paused, lastId, server, stream, seen>>

-----------------------------------------------------------------------------
(* The server *)

\* ConsoleHub.Write puts a line into the history and notes who is subscribed,
LogLine ==
    /\ log < MaxLines
    /\ log' = log + 1
    /\ sending' = IF peer = NoSocket THEN sending ELSE sending \cup {log'}
    /\ UNCHANGED <<mounted, sock, cur, timers, connected, view, start,
                   peer, due, dropped, forgot, seen>>

\* and sends it, after it has released the lock: lines of two writers overtake
\* each other.  A full channel takes none; nor do those that come after a closed
\* one, where the writer panics.
SendLine(n) ==
    /\ n \in sending /\ sending' = sending \ {n}
    /\ \/ due' = Append(due, n) /\ UNCHANGED dropped
       \/ dropped' = dropped \cup {n} /\ UNCHANGED due
    /\ UNCHANGED <<mounted, sock, cur, timers, connected, view, server, peer, forgot, seen>>

\* handleConsoleWS ends: a ping or a line could not be written.
HangUp ==
    /\ peer # NoSocket
    /\ peer' = NoSocket /\ sending' = {}
    /\ UNCHANGED <<mounted, sock, cur, timers, connected, view, server,
                   due, dropped, forgot, seen>>

\* The server goes down and comes up again, with an empty history.
Restart ==
    /\ start' = log
    /\ peer' = NoSocket /\ sending' = {}
    /\ UNCHANGED <<mounted, sock, cur, timers, connected, view, log,
                   due, dropped, forgot, seen>>

-----------------------------------------------------------------------------
Next ==
    \/ \E s \in Sockets :
        \/ Mount(s) \/ OnOpen(s) \/ OnClose(s) \/ OnMessage(s)
        \/ \E n \in Sockets : Timer(s, n)
    \/ Unmount \/ Pause \/ Resume \/ Clear
    \/ LogLine \/ (\E n \in sending : SendLine(n)) \/ HangUp \/ Restart

Spec == Init /\ [][Next]_vars

\* Timers fire and closing sockets close.  A server that is up answers in the
\* end, however often a connection fails.
Fairness ==
    /\ \A s \in Sockets :
        /\ WF_vars(\E n \in Sockets : Timer(s, n))
        /\ WF_vars(sock[s] = "closing" /\ OnClose(s))
        /\ SF_vars(OnOpen(s))

FairSpec == Spec /\ Fairness

-----------------------------------------------------------------------------
(* Properties *)

\* There is one connection: whatever closes, fires and is left behind, a socket
\* that connects or is open is the one the page uses, and a page that was left
\* has none.
OneConnection == \A s \in Sockets : Live(s) => s = cur /\ mounted

\* The badge says Live exactly while the socket in use is open.
BadgeTellsTruth == connected <=> cur # NoSocket /\ sock[cur] = "open"

\* Pausing and resuming neither loses, repeats nor reorders a line: what is
\* shown and then what is withheld are the last lines received, without a hole,
\* and nothing is withheld unless the page is paused.
NothingLost ==
    /\ \A i \in 1 .. Len(entries \o buffer) :
            (entries \o buffer)[i] = lastId - Len(entries \o buffer) + i
    /\ buffer # <<>> => paused

\* A reconnection leaves no gap of its own: while the page is served, every line
\* there has been was received, now or before the interruption, or is on its way,
\* but for those the server had forgotten when the page connected and those it
\* dropped since.
NoLineSkipped ==
    cur # NoSocket /\ peer = cur =>
        \A n \in 1 .. log : \/ n \in seen \cup sending \cup dropped
                            \/ n <= forgot
                            \/ \E i \in 1 .. Len(due) : due[i] = n

\* A page that stays shows the live badge again after every interruption.
Reconnects == mounted ~> (connected \/ ~mounted)
=============================================================================
