---------------------------- MODULE ConsoleAdminProofs ----------------------------
(***************************************************************************)
(* Theorems about ConsolePage, for every number of sockets, every size of  *)
(* the list and of the history, and any number of lines; and, from         *)
(* "AdminPages" on, about AdminPages, for every page, any number of rows,  *)
(* revisions, requests and saves.  The two specifications share no name.   *)
(***************************************************************************)
EXTENDS ConsolePage, AdminPages, TLAPS, SequenceTheorems

USE ConsolePageAssumption DEF ConsolePageAssumption

(* Sequences of lines *)

\* The lines of q are numbered without a hole and end with number k.
EndsWith(q, k) == \A i \in 1 .. Len(q) : q[i] = k - Len(q) + i

\* slice(-Cap) keeps the last lines.
LEMMA KeepLast ==
    ASSUME NEW q \in Seq(Entry), NEW k \in Nat, EndsWith(q, k)
    PROVE  /\ Keep(q) \in Seq(Entry) /\ Len(Keep(q)) <= Cap
           /\ EndsWith(Keep(q), k)
<1>1. CASE Len(q) <= Cap
    <2>1. Keep(q) = SubSeq(q, 1, Len(q))
        BY <1>1 DEF Keep
    <2>2. Keep(q) = q
        BY <2>1
    <2>3. QED BY <1>1, <2>2
<1>2. CASE Len(q) > Cap
    <2>1. Keep(q) = SubSeq(q, Len(q) - Cap + 1, Len(q))
        <3>1. Len(q) \in Nat /\ ~(Len(q) <= Cap)
            BY <1>2
        <3>2. QED BY <3>1 DEF Keep
    <2>2. Keep(q) \in Seq(Entry) /\ Len(Keep(q)) = Cap
        BY <1>2, <2>1
    <2>3. \A i \in 1 .. Cap : Keep(q)[i] = q[Len(q) - Cap + i]
        BY <1>2, <2>1
    <2>4. ASSUME NEW i \in 1 .. Cap PROVE Keep(q)[i] = k - Cap + i
        <3>1. Len(q) - Cap + i \in 1 .. Len(q)
            BY <1>2
        <3>2. q[Len(q) - Cap + i] = k - Len(q) + (Len(q) - Cap + i)
            BY <3>1 DEF EndsWith
        <3>3. QED BY <2>3, <3>2
    <2>5. QED BY <2>2, <2>4 DEF EndsWith
<1>3. QED BY <1>1, <1>2

\* The next line continues the numbers.
LEMMA AppendNext ==
    ASSUME NEW q \in Seq(Entry), NEW k \in Nat, EndsWith(q, k)
    PROVE  /\ Append(q, k + 1) \in Seq(Entry) /\ Len(Append(q, k + 1)) = Len(q) + 1
           /\ EndsWith(Append(q, k + 1), k + 1)
<1> DEFINE e == k + 1
<1>0. e \in Entry
    BY DEF Entry
<1>1. Append(q, e) \in Seq(Entry) /\ Len(Append(q, e)) = Len(q) + 1
    BY <1>0
<1>2. ASSUME NEW i \in 1 .. Len(q) + 1 PROVE Append(q, e)[i] = (k + 1) - (Len(q) + 1) + i
    <2>1. CASE i = Len(q) + 1
        BY <2>1
    <2>2. CASE i \in 1 .. Len(q)
        BY <2>2 DEF EndsWith
    <2>3. QED BY <2>1, <2>2
<1>3. QED BY <1>1, <1>2 DEF EndsWith

-----------------------------------------------------------------------------
(* The connection *)

\* A timer is of a socket that has closed, and only a page that is shown refers
\* to a socket.
ConnectionInv ==
    /\ timers \subseteq Sockets /\ \A s \in timers : sock[s] = "closed"
    /\ mounted \in BOOLEAN /\ (mounted <=> cur # NoSocket)
    /\ connected \in BOOLEAN
    /\ sock \in [Sockets -> {"connecting", "open", "closing", "closed"}]
    /\ cur \in Sockets \cup {NoSocket}
    /\ OneConnection /\ BadgeTellsTruth

\* The lines shown and withheld, and their numbers.
LinesInv ==
    /\ paused \in BOOLEAN
    /\ entries \in Seq(Entry) /\ buffer \in Seq(Entry) /\ Len(entries) <= Cap + 1
    /\ lastId \in Nat
    /\ EndsWith(entries \o buffer, lastId)
    /\ buffer # <<>> => paused

\* A line the page need not miss, or whose loss has a reason.
Accounted(n) ==
    \/ n \in seen \cup sending \cup dropped
    \/ n <= forgot
    \/ \E i \in 1 .. Len(due) : due[i] = n

\* The server serves the socket in use, which is open, or none.
StreamInv ==
    /\ log \in Nat /\ start \in 0 .. log
    /\ peer \in Sockets \cup {NoSocket}
    /\ due \in Seq(Nat) /\ sending \subseteq Nat
    /\ seen \subseteq Nat /\ dropped \subseteq Nat /\ forgot \in Nat
    /\ peer # NoSocket => /\ peer = cur /\ sock[cur] = "open"
                          /\ \A n \in 1 .. log : Accounted(n)

LEMMA InitInv == Init => ConnectionInv /\ LinesInv /\ StreamInv
<1>1. SUFFICES ASSUME Init PROVE ConnectionInv /\ LinesInv /\ StreamInv
    OBVIOUS
<1>2. ConnectionInv
    BY <1>1 DEF Init, ConnectionInv, OneConnection, BadgeTellsTruth, Live
<1>3. entries = <<>> /\ buffer = <<>> /\ entries \o buffer = <<>>
    BY <1>1 DEF Init
<1>4. EndsWith(entries \o buffer, lastId)
    BY <1>3 DEF EndsWith
<1>5. paused \in BOOLEAN /\ (buffer # <<>> => paused)
    BY <1>1 DEF Init
<1>6. entries \in Seq(Entry) /\ buffer \in Seq(Entry) /\ Len(entries) <= Cap + 1 /\ lastId \in Nat
    BY <1>1 DEF Init
<1>7. LinesInv
    BY <1>4, <1>5, <1>6 DEF LinesInv
<1>8. StreamInv
    BY <1>1 DEF Init, StreamInv
<1>9. QED BY <1>2, <1>7, <1>8

\* Whatever opens, closes, fires, is mounted and unmounted, one socket is used.
LEMMA ConnectionStep == ConnectionInv /\ [Next]_vars => ConnectionInv'
<1>1. SUFFICES ASSUME ConnectionInv, [Next]_vars PROVE ConnectionInv'
    OBVIOUS
<1> USE <1>1 DEF ConnectionInv, OneConnection, BadgeTellsTruth, Live
<1>2. ASSUME NEW s \in Sockets, Mount(s) PROVE ConnectionInv'
    BY <1>2 DEF Mount, Connect, Fresh
<1>3. ASSUME NEW s \in Sockets, OnOpen(s) PROVE ConnectionInv'
    <2>1. s = cur /\ mounted /\ sock' = [sock EXCEPT ![s] = "open"] /\ connected' = TRUE
        BY <1>3 DEF OnOpen
    <2>2. s \notin timers
        BY <1>3 DEF OnOpen
    <2>3. UNCHANGED <<mounted, cur, timers>>
        BY <1>3 DEF OnOpen
    <2>4. QED BY <2>1, <2>2, <2>3
<1>4. ASSUME NEW s \in Sockets, OnClose(s) PROVE ConnectionInv'
    <2>1. /\ sock' = [sock EXCEPT ![s] = "closed"] /\ timers' = timers \cup {s}
          /\ connected' = (connected /\ cur # s) /\ UNCHANGED <<mounted, cur>>
        BY <1>4 DEF OnClose
    <2>2. BadgeTellsTruth'
        BY <2>1
    <2>3. OneConnection'
        BY <2>1
    <2>4. QED BY <2>1, <2>2, <2>3
<1>5. ASSUME NEW s \in Sockets, NEW n \in Sockets, Timer(s, n) PROVE ConnectionInv'
    <2>1. timers' = timers \ {s} /\ sock[s] = "closed" /\ UNCHANGED <<mounted, connected>>
        BY <1>5 DEF Timer
    <2>2. CASE cur = s
        <3>1. ~connected /\ n # s /\ sock[n] = "closed" /\ n \notin timers
            BY <1>5, <2>1, <2>2 DEF Timer, Connect, Fresh
        <3>2. sock' = [sock EXCEPT ![n] = "connecting"] /\ cur' = n
            BY <1>5, <2>2 DEF Timer, Connect
        <3>3. mounted
            BY <2>2
        <3>4. OneConnection' /\ BadgeTellsTruth'
            BY <2>1, <2>2, <3>1, <3>2, <3>3
        <3>5. QED BY <2>1, <3>1, <3>2, <3>3, <3>4
    <2>3. CASE cur # s
        <3>1. UNCHANGED <<sock, cur>>
            BY <1>5, <2>3 DEF Timer
        <3>2. QED BY <2>1, <3>1
    <2>4. QED BY <2>2, <2>3
<1>6. ASSUME Unmount PROVE ConnectionInv'
    BY <1>6 DEF Unmount
<1>7. ASSUME UNCHANGED <<mounted, sock, cur, timers, connected>> PROVE ConnectionInv'
    BY <1>7
<1>8. ASSUME NEW s \in Sockets, OnMessage(s) PROVE ConnectionInv'
    BY <1>7, <1>8 DEF OnMessage
<1>9. ASSUME NEW n \in sending, SendLine(n) PROVE ConnectionInv'
    BY <1>7, <1>9 DEF SendLine
<1>10. Pause \/ Resume \/ Clear \/ LogLine \/ HangUp \/ Restart \/ UNCHANGED vars => ConnectionInv'
    BY <1>7 DEF Pause, Resume, Clear, LogLine, HangUp, Restart, vars
<1>11. QED BY <1>2, <1>3, <1>4, <1>5, <1>6, <1>8, <1>9, <1>10 DEF Next

-----------------------------------------------------------------------------
(* The lines *)

\* A page that is new, or gone, has none.
LEMMA NoLines ==
    ASSUME entries' = <<>>, buffer' = <<>>, lastId' \in Nat
    PROVE  EndsWith(entries' \o buffer', lastId')
BY DEF EndsWith

\* Neither a message, nor Pause, Resume or Clear leaves a hole.
LEMMA LinesStep == LinesInv /\ [Next]_vars => LinesInv'
<1>1. SUFFICES ASSUME LinesInv, [Next]_vars PROVE LinesInv'
    OBVIOUS
<1> USE <1>1
<1>2. ASSUME UNCHANGED view PROVE LinesInv'
    BY <1>2 DEF LinesInv, view
<1>3. ASSUME NEW s \in Sockets, OnMessage(s) PROVE LinesInv'
    <2>1. lastId' = lastId + 1 /\ lastId' \in Nat /\ lastId' \in Entry /\ paused' = paused
        BY <1>3 DEF OnMessage, LinesInv, Entry
    <2>2. CASE paused
        <3>1. buffer' = Append(buffer, lastId') /\ entries' = entries
            BY <1>3, <2>2 DEF OnMessage
        <3>2. entries' \o buffer' = Append(entries \o buffer, lastId')
            BY <2>1, <3>1 DEF LinesInv
        <3>3. EndsWith(entries' \o buffer', lastId')
            <4>1. entries \o buffer \in Seq(Entry) /\ EndsWith(entries \o buffer, lastId) /\ lastId \in Nat
                BY DEF LinesInv
            <4>2. EndsWith(Append(entries \o buffer, lastId + 1), lastId + 1)
                BY <4>1, AppendNext
            <4>3. QED BY <2>1, <3>2, <4>2
        <3>4. QED BY <2>1, <2>2, <3>1, <3>3 DEF LinesInv
    <2>3. CASE ~paused
        <3>1. entries' = Append(Keep(entries), lastId + 1) /\ buffer' = buffer
            BY <1>3, <2>1, <2>3 DEF OnMessage, Show
        <3>2. buffer = <<>> /\ entries \o buffer = entries
            BY <2>3 DEF LinesInv
        <3>3. Keep(entries) \in Seq(Entry) /\ Len(Keep(entries)) <= Cap /\ EndsWith(Keep(entries), lastId)
            BY <3>2, KeepLast DEF LinesInv
        <3>4. entries' \in Seq(Entry) /\ Len(entries') <= Cap + 1 /\ EndsWith(entries', lastId')
            BY <2>1, <3>1, <3>3, AppendNext DEF LinesInv
        <3>5. entries' \o buffer' = entries'
            BY <3>1, <3>2, <3>4
        <3>6. QED BY <2>1, <2>3, <3>1, <3>2, <3>4, <3>5 DEF LinesInv
    <2>4. QED BY <2>2, <2>3 DEF LinesInv
<1>4. ASSUME Resume PROVE LinesInv'
    <2>1. entries' = Keep(entries \o buffer) /\ buffer' = <<>> /\ paused' = FALSE /\ lastId' = lastId
        BY <1>4 DEF Resume
    <2>2. entries \o buffer \in Seq(Entry)
        BY DEF LinesInv
    <2>3. entries' \in Seq(Entry) /\ Len(entries') <= Cap /\ EndsWith(entries', lastId')
        BY <2>1, <2>2, KeepLast DEF LinesInv
    <2>4. entries' \o buffer' = entries'
        BY <2>1, <2>3
    <2>5. paused' \in BOOLEAN /\ (buffer' # <<>> => paused')
        BY <2>1
    <2>6. buffer' \in Seq(Entry) /\ Len(entries') <= Cap + 1
        BY <2>1, <2>3
    <2>7. QED BY <2>1, <2>3, <2>4, <2>5, <2>6 DEF LinesInv
<1>5. ASSUME entries' = <<>>, buffer' = <<>>, lastId' \in Nat, paused' \in BOOLEAN
      PROVE  LinesInv'
    <2>1. EndsWith(entries' \o buffer', lastId')
        BY <1>5, NoLines
    <2>2. buffer' # <<>> => paused'
        BY <1>5
    <2>3. entries' \in Seq(Entry) /\ buffer' \in Seq(Entry) /\ Len(entries') <= Cap + 1
        BY <1>5
    <2>4. QED BY <1>5, <2>1, <2>2, <2>3 DEF LinesInv
<1>6. ASSUME NEW s \in Sockets, Mount(s) PROVE LinesInv'
    BY <1>5, <1>6 DEF Mount
<1>7. Unmount \/ Clear => LinesInv'
    <2>1. ASSUME Unmount PROVE LinesInv'
        <3>1. lastId' \in Nat /\ paused' \in BOOLEAN
            BY <2>1 DEF Unmount
        <3>2. entries' = <<>> /\ buffer' = <<>>
            BY <2>1 DEF Unmount
        <3>3. QED BY <1>5, <3>1, <3>2
    <2>2. ASSUME Clear PROVE LinesInv'
        <3>1. lastId' \in Nat /\ paused' \in BOOLEAN
            BY <2>2 DEF Clear, LinesInv
        <3>2. entries' = <<>> /\ buffer' = <<>>
            BY <2>2 DEF Clear
        <3>3. QED BY <1>5, <3>1, <3>2
    <2>3. QED BY <2>1, <2>2
<1>8. Pause => LinesInv'
    BY DEF Pause, LinesInv
<1>9. ASSUME NEW s \in Sockets, OnOpen(s) \/ OnClose(s) PROVE LinesInv'
    BY <1>2, <1>9 DEF OnOpen, OnClose
<1>10. ASSUME NEW s \in Sockets, NEW n \in Sockets, Timer(s, n) PROVE LinesInv'
    BY <1>2, <1>10 DEF Timer
<1>11. ASSUME NEW n \in sending, SendLine(n) PROVE LinesInv'
    BY <1>2, <1>11 DEF SendLine
<1>12. LogLine \/ HangUp \/ Restart \/ UNCHANGED vars => LinesInv'
    BY <1>2 DEF LogLine, HangUp, Restart, vars
<1>13. QED BY <1>3, <1>4, <1>6, <1>7, <1>8, <1>9, <1>10, <1>11, <1>12 DEF Next

-----------------------------------------------------------------------------
(* The stream *)

\* What the server has not forgotten is replayed.
LEMMA ReplayCovers ==
    ASSUME NEW L \in Nat, log = L, start \in 0 .. L
    PROVE  /\ Forgotten \in 0 .. L /\ Replay \in Seq(Nat) /\ Len(Replay) = L - Forgotten
           /\ \A n \in 1 .. L : n <= Forgotten \/ \E i \in 1 .. Len(Replay) : Replay[i] = n
<1>1. Forgotten \in 0 .. L
    BY DEF Forgotten
<1>2. PICK f \in 0 .. L : f = Forgotten
    BY <1>1
<1>3. Replay = [i \in 1 .. L - f |-> f + i] /\ L - f \in Nat /\ f \in Nat
    BY <1>2 DEF Replay
<1>4. Replay \in Seq(Nat) /\ Len(Replay) = L - f
    <2>1. DOMAIN Replay = 1 .. L - f /\ \A i \in 1 .. L - f : Replay[i] \in Nat
        BY <1>3
    <2>2. \A i \in 1 .. L - f : f + i \in Nat
        BY <1>3
    <2>3. Replay \in Seq(Nat)
        BY <1>3, <2>2
    <2>4. QED BY <1>3, <2>1, <2>3
<1>5. ASSUME NEW n \in 1 .. L, ~(n <= f) PROVE \E i \in 1 .. Len(Replay) : Replay[i] = n
    <2>1. n - f \in 1 .. L - f
        BY <1>5
    <2>2. Replay[n - f] = n
        BY <1>3, <2>1
    <2>3. QED BY <1>4, <2>1, <2>2
<1>6. QED BY <1>1, <1>2, <1>4, <1>5

\* Nothing is said of a page that is not served.
LEMMA StreamOver ==
    ASSUME StreamInv, peer' = NoSocket, due' = <<>> \/ due' = due,
           sending' = {}, log' = log, start' \in 0 .. log,
           UNCHANGED <<dropped, forgot>>, seen' = {} \/ seen' = seen
    PROVE  StreamInv'
<1>1. due' \in Seq(Nat) /\ seen' \subseteq Nat
    <2>1. due \in Seq(Nat) /\ <<>> \in Seq(Nat)
        BY DEF StreamInv
    <2>2. seen' \subseteq Nat
        BY DEF StreamInv
    <2>3. QED BY <2>1, <2>2
<1>2. log' \in Nat /\ start' \in 0 .. log' /\ sending' \subseteq Nat
    BY DEF StreamInv
<1>3. dropped' \subseteq Nat /\ forgot' \in Nat
    BY DEF StreamInv
<1>4. QED BY <1>1, <1>2, <1>3 DEF StreamInv

\* The next line due is received, and no line is missed.
LEMMA StreamMessage ==
    ASSUME StreamInv, NEW s \in Sockets, OnMessage(s)
    PROVE  StreamInv'
<1>1. /\ due # <<>> /\ due' = Tail(due) /\ seen' = seen \cup {Head(due)}
      /\ UNCHANGED <<sock, cur, log, start, peer, sending, dropped, forgot>>
    BY DEF OnMessage, server
<1>2. due \in Seq(Nat) /\ Head(due) = due[1] /\ due[1] \in Nat /\ due' \in Seq(Nat)
      /\ Len(due') = Len(due) - 1 /\ \A i \in 1 .. Len(due) - 1 : due'[i] = due[i + 1]
    BY <1>1 DEF StreamInv
<1>3. ASSUME NEW n \in Nat, Accounted(n) PROVE Accounted(n)'
    <2>1. CASE n \in seen \cup sending \cup dropped \/ n <= forgot
        BY <1>1, <2>1 DEF Accounted
    <2>2. CASE \E i \in 1 .. Len(due) : due[i] = n
        <3>1. PICK i \in 1 .. Len(due) : due[i] = n
            BY <2>2
        <3>2. CASE i = 1
            BY <1>1, <1>2, <3>1, <3>2 DEF Accounted
        <3>3. CASE i # 1
            <4>1. i - 1 \in 1 .. Len(due') /\ due'[i - 1] = n
                BY <1>2, <3>1, <3>3
            <4>2. QED BY <4>1 DEF Accounted
        <3>4. QED BY <3>2, <3>3
    <2>3. QED BY <1>3, <2>1, <2>2 DEF Accounted
<1>4. peer' # NoSocket => \A n \in 1 .. log' : Accounted(n)'
    BY <1>1, <1>3 DEF StreamInv
<1>5. seen' \subseteq Nat
    BY <1>1, <1>2 DEF StreamInv
<1>6. QED BY <1>1, <1>2, <1>4, <1>5 DEF StreamInv

\* A line is sent or dropped.
LEMMA StreamSend ==
    ASSUME StreamInv, NEW k \in sending, SendLine(k)
    PROVE  StreamInv'
<1>1. /\ sending' = sending \ {k} /\ UNCHANGED <<sock, cur, log, start, peer, forgot, seen>>
      /\ \/ due' = Append(due, k) /\ dropped' = dropped
         \/ dropped' = dropped \cup {k} /\ due' = due
    BY DEF SendLine, server
<1>2. due \in Seq(Nat) /\ k \in Nat
    BY DEF StreamInv
<1>3. due' \in Seq(Nat) /\ dropped' \subseteq Nat /\ sending' \subseteq Nat
    <2>1. Append(due, k) \in Seq(Nat)
        BY <1>2
    <2>2. dropped \cup {k} \subseteq Nat /\ sending \ {k} \subseteq Nat /\ dropped \subseteq Nat
        BY <1>2 DEF StreamInv
    <2>3. QED BY <1>1, <1>2, <2>1, <2>2
<1>4. /\ \A i \in 1 .. Len(due) : i \in 1 .. Len(due') /\ due'[i] = due[i]
      /\ dropped \subseteq dropped'
      /\ k \in dropped' \/ \E i \in 1 .. Len(due') : due'[i] = k
    <2>1. CASE due' = due /\ dropped' = dropped \cup {k}
        BY <2>1
    <2>2. CASE due' = Append(due, k) /\ dropped' = dropped
        <3>1. Len(due') = Len(due) + 1 /\ due'[Len(due) + 1] = k /\ Len(due) + 1 \in 1 .. Len(due')
            BY <1>2, <2>2
        <3>2. \A i \in 1 .. Len(due) : i \in 1 .. Len(due') /\ due'[i] = due[i]
            BY <1>2, <2>2
        <3>3. QED BY <2>2, <3>1, <3>2
    <2>3. QED BY <1>1, <2>1, <2>2
<1>5. \A n \in Nat : Accounted(n) => Accounted(n)'
    BY <1>1, <1>4 DEF Accounted
<1>6. peer' # NoSocket => \A n \in 1 .. log' : Accounted(n)'
    BY <1>1, <1>5 DEF StreamInv
<1>7. QED BY <1>1, <1>3, <1>6 DEF StreamInv

LEMMA StreamStep == ConnectionInv /\ StreamInv /\ [Next]_vars => StreamInv'
<1>1. SUFFICES ASSUME ConnectionInv, StreamInv, [Next]_vars PROVE StreamInv'
    OBVIOUS
<1> USE <1>1
<1>2. ASSUME NEW s \in Sockets, Mount(s) PROVE StreamInv'
    <2>1. peer = NoSocket
        BY <1>2 DEF Mount, ConnectionInv, StreamInv
    <2>2. UNCHANGED <<log, start, peer, due, sending, dropped, forgot>> /\ seen' = {}
        BY <1>2 DEF Mount, server, stream
    <2>3. QED BY <2>1, <2>2 DEF StreamInv
<1>3. ASSUME NEW s \in Sockets, OnOpen(s) PROVE StreamInv'
    <2>1. /\ s = cur /\ sock' = [sock EXCEPT ![s] = "open"]
          /\ peer' = s /\ due' = Replay /\ dropped' = {} /\ forgot' = Forgotten
          /\ UNCHANGED <<cur, log, start, seen>>
        BY <1>3 DEF OnOpen, server, ConnectionInv, OneConnection, Live
    <2>2. \E n \in Forgotten .. log : sending' = (n + 1) .. log
        BY <1>3 DEF OnOpen
    <2>3. log \in Nat /\ start \in 0 .. log
        BY DEF StreamInv
    <2>4. /\ Forgotten \in 0 .. log /\ Replay \in Seq(Nat)
          /\ \A n \in 1 .. log : n <= Forgotten \/ \E i \in 1 .. Len(Replay) : Replay[i] = n
        BY <2>3, ReplayCovers
    <2>5. sending' \subseteq Nat
        BY <2>2, <2>3, <2>4
    <2>6. \A n \in 1 .. log' : Accounted(n)'
        BY <2>1, <2>4 DEF Accounted
    <2>7. sock'[cur'] = "open"
        BY <2>1 DEF ConnectionInv
    <2>8. forgot' \in Nat /\ due' \in Seq(Nat) /\ log' \in Nat /\ start' \in 0 .. log'
        BY <2>1, <2>3, <2>4
    <2>9. QED BY <2>1, <2>5, <2>6, <2>7, <2>8 DEF StreamInv
<1>4. ASSUME NEW s \in Sockets, OnClose(s) PROVE StreamInv'
    <2>1. sock' = [sock EXCEPT ![s] = "closed"] /\ UNCHANGED <<cur, log, start, seen>>
        BY <1>4 DEF OnClose, server
    <2>2. CASE s = cur
        BY <1>4, <2>1, <2>2, StreamOver DEF OnClose, Disconnected, StreamInv
    <2>3. CASE s # cur
        <3>1. UNCHANGED <<peer, due, sending, dropped, forgot>>
            BY <1>4, <2>3 DEF OnClose, stream
        <3>2. peer # NoSocket => sock'[cur] = sock[cur]
            BY <2>1, <2>3 DEF ConnectionInv, StreamInv
        <3>3. \A n : Accounted(n)' = Accounted(n)
            BY <2>1, <3>1 DEF Accounted
        <3>4. QED BY <2>1, <3>1, <3>2, <3>3 DEF StreamInv
    <2>4. QED BY <2>2, <2>3
<1>5. ASSUME NEW s \in Sockets, NEW n \in Sockets, Timer(s, n) PROVE StreamInv'
    <2>1. /\ UNCHANGED <<log, start, peer, due, sending, dropped, forgot, seen>>
          /\ sock[s] = "closed"
        BY <1>5 DEF Timer, server, stream, ConnectionInv
    <2>2. CASE cur = s
        <3>1. peer = NoSocket
            BY <2>1, <2>2 DEF StreamInv
        <3>2. QED BY <2>1, <3>1 DEF StreamInv
    <2>3. CASE cur # s
        <3>1. UNCHANGED <<sock, cur>>
            BY <1>5, <2>3 DEF Timer
        <3>2. \A k : Accounted(k)' = Accounted(k)
            BY <2>1 DEF Accounted
        <3>3. QED BY <2>1, <3>1, <3>2 DEF StreamInv
    <2>4. QED BY <2>2, <2>3
<1>6. ASSUME Unmount PROVE StreamInv'
    BY <1>6, StreamOver DEF Unmount, Disconnected, server, StreamInv
<1>7. ASSUME UNCHANGED <<sock, cur, server, stream, seen>> PROVE StreamInv'
    <2>1. UNCHANGED <<sock, cur, log, start, peer, due, sending, dropped, forgot, seen>>
        BY <1>7 DEF server, stream
    <2>2. \A n : Accounted(n)' = Accounted(n)
        BY <2>1 DEF Accounted
    <2>3. QED BY <2>1, <2>2 DEF StreamInv
<1>8. Pause \/ Resume \/ Clear \/ UNCHANGED vars => StreamInv'
    BY <1>7 DEF Pause, Resume, Clear, vars
<1>9. ASSUME LogLine PROVE StreamInv'
    <2>1. /\ log' = log + 1 /\ UNCHANGED <<sock, cur, start, peer, due, dropped, forgot, seen>>
          /\ sending' = IF peer = NoSocket THEN sending ELSE sending \cup {log'}
        BY <1>9 DEF LogLine
    <2>2. log' \in Nat /\ start' \in 0 .. log' /\ sending' \subseteq Nat
        BY <2>1 DEF StreamInv
    <2>3. ASSUME peer # NoSocket, NEW n \in 1 .. log' PROVE Accounted(n)'
        <3>1. CASE n = log'
            BY <2>1, <2>3, <3>1 DEF Accounted
        <3>2. CASE n \in 1 .. log
            <4>1. Accounted(n)
                BY <2>3, <3>2 DEF StreamInv
            <4>2. QED BY <2>1, <4>1 DEF Accounted
        <3>3. QED BY <2>1, <3>1, <3>2 DEF StreamInv
    <2>4. QED BY <2>1, <2>2, <2>3 DEF StreamInv
<1>10. HangUp \/ Restart => StreamInv'
    BY StreamOver DEF HangUp, Restart, server, StreamInv
<1>11. QED BY <1>2, <1>3, <1>4, <1>5, <1>6, <1>8, <1>9, <1>10, StreamMessage, StreamSend DEF Next

-----------------------------------------------------------------------------
(* Theorems *)

THEOREM Inductive == Spec => [](ConnectionInv /\ LinesInv /\ StreamInv)
<1>1. (ConnectionInv /\ LinesInv /\ StreamInv) /\ [Next]_vars
        => (ConnectionInv /\ LinesInv /\ StreamInv)'
    BY ConnectionStep, LinesStep, StreamStep
<1>2. QED BY InitInv, <1>1, PTL DEF Spec

\* Every variable of the Console page keeps its type; the list stays short.
THEOREM TypeCorrect == Spec => []TypeOK
<1>1. ConnectionInv /\ LinesInv /\ StreamInv => TypeOK
    BY DEF ConnectionInv, LinesInv, StreamInv, TypeOK
<1>2. QED BY <1>1, Inductive, PTL

\* The page has one connection, and none once it is left.
THEOREM OneConnectionHolds == Spec => []OneConnection
<1>1. ConnectionInv => OneConnection
    BY DEF ConnectionInv
<1>2. QED BY <1>1, Inductive, PTL

\* The badge says what the socket in use is.
THEOREM BadgeTellsTruthHolds == Spec => []BadgeTellsTruth
<1>1. ConnectionInv => BadgeTellsTruth
    BY DEF ConnectionInv
<1>2. QED BY <1>1, Inductive, PTL

\* Pausing and resuming loses, repeats and reorders nothing.
THEOREM NothingLostHolds == Spec => []NothingLost
<1>1. LinesInv => NothingLost
    BY DEF LinesInv, NothingLost, EndsWith
<1>2. QED BY <1>1, Inductive, PTL

\* However often the page reconnects, a line it has not received is on its way,
\* was dropped from the connection in use or was no longer in the history.
THEOREM NoLineSkippedHolds == Spec => []NoLineSkipped
<1>1. StreamInv => NoLineSkipped
    BY DEF StreamInv, NoLineSkipped, Accounted
<1>2. QED BY <1>1, Inductive, PTL

-----------------------------------------------------------------------------
(* AdminPages: the cached query of a page, whatever set D its data is of *)

\* Every operation on a query keeps its type.
LEMMA QueryOps ==
    ASSUME NEW D, NEW q \in Query(D), NEW active \in BOOLEAN, NEW d \in D
    PROVE  /\ Fetching(q) \in Query(D) /\ Observed(q) \subseteq Query(D)
           /\ Aborted(q) \in Query(D) /\ Invalidated(q, active) \in Query(D)
           /\ Answered(q, d) \in Query(D) /\ Received(q) \in Query(D)
           /\ Failed(q) \in Query(D) /\ Empty \in Query(D)
<1>1. Fetching(q) \in Query(D)
    BY DEF Query, Fetching
<1>2. Observed(q) \subseteq Query(D)
    BY <1>1 DEF Observed
<1>3. Invalidated(q, active) \in Query(D)
    BY <1>1 DEF Query, Invalidated
<1>4. Aborted(q) \in Query(D) /\ Answered(q, d) \in Query(D)
    BY DEF Query, Aborted, Answered
<1>5. Received(q) \in Query(D) /\ Failed(q) \in Query(D) /\ Empty \in Query(D)
    BY DEF Query, Received, Failed, Empty
<1>6. QED BY <1>1, <1>2, <1>3, <1>4, <1>5

-----------------------------------------------------------------------------
(* AdminPages: the form of a job *)

USE JobFormAssumption DEF JobFormAssumption

\* The job that is saved and the form describe a source of their own type.
FormInv ==
    /\ FormTypeOK /\ SourceFitsType
    /\ form.source \in {"none", Fits(form.type)}

LEMMA FormStart == FormInit => FormInv
<1>1. EmptyForm \in Form /\ EmptyForm.source = "none"
    BY DEF EmptyForm, Form
<1>2. QED BY <1>1 DEF FormInit, FormInv, FormTypeOK, SourceFitsType

\* Editing the form leaves the dialog open and the job alone.
LEMMA FormEdited ==
    ASSUME FormInv, form' \in Form, form'.source \in {"none", Fits(form'.type)},
           custom' \in BOOLEAN, UNCHANGED <<dialog, job>>
    PROVE  FormInv'
BY DEF FormInv, FormTypeOK, SourceFitsType, Fits

LEMMA FormStep == FormInv /\ [FormNext]_formVars => FormInv'
<1> SUFFICES ASSUME FormInv, [FormNext]_formVars PROVE FormInv'
    OBVIOUS
<1>1. /\ form \in Form /\ custom \in BOOLEAN /\ EmptyForm \in Form
      /\ EmptyForm.source = "none" /\ job \in Form
    BY DEF FormInv, FormTypeOK, EmptyForm, Form
<1>2. CASE OpenCreate
    BY <1>1, <1>2 DEF OpenCreate, FormInv, FormTypeOK, SourceFitsType, Fits
<1>3. CASE OpenEdit
    BY <1>1, <1>3 DEF OpenEdit, FormInv, FormTypeOK, SourceFitsType, Fits
<1>4. CASE CloseDialog
    BY <1>4 DEF CloseDialog, FormInv, FormTypeOK, SourceFitsType, Fits
<1>5. CASE Fill
    <2>1. PICK g \in SUBSET Required : form' = [form EXCEPT !.given = g]
        BY <1>5 DEF Fill
    <2>2. form' \in Form /\ form'.source = form.source /\ form'.type = form.type
        BY <1>1, <2>1 DEF Form
    <2>3. QED BY <1>1, <1>5, <2>2, FormEdited DEF Fill, FormInv
<1>6. CASE SetSource
    <2>1. form' \in Form /\ form'.source = Fits(form'.type)
        BY <1>1, <1>6 DEF SetSource, Form, Fits
    <2>2. QED BY <1>1, <1>6, <2>1, FormEdited DEF SetSource
<1>7. CASE ChooseSchedule
    <2>1. form' \in Form /\ form'.source = form.source /\ form'.type = form.type
        BY <1>1, <1>7 DEF ChooseSchedule, Form
    <2>2. QED BY <1>7, <2>1, FormEdited DEF ChooseSchedule, FormInv
<1>8. CASE Save
    BY <1>1, <1>8 DEF Save, FormInv, FormTypeOK, SourceFitsType, Fits
<1>9. ASSUME NEW t \in JobTypes, SetType(t) PROVE FormInv'
    <2>1. form' \in Form /\ form'.source = "none"
        BY <1>1, <1>9 DEF SetType, Form
    <2>2. QED BY <1>1, <1>9, <2>1, FormEdited DEF SetType
<1>10. ASSUME NEW c \in {"preset", "other"}, TypeSchedule(c) PROVE FormInv'
    <2>1. form' \in Form /\ form'.source = form.source /\ form'.type = form.type
        BY <1>1, <1>10 DEF TypeSchedule, Form
    <2>2. QED BY <1>1, <1>10, <2>1, FormEdited DEF TypeSchedule, FormInv
<1>11. CASE UNCHANGED formVars
    BY <1>1, <1>11, FormEdited DEF formVars, FormInv
<1>12. QED
    BY <1>2, <1>3, <1>4, <1>5, <1>6, <1>7, <1>8, <1>9, <1>10, <1>11 DEF FormNext

-----------------------------------------------------------------------------
(* AdminPages: the settings *)

USE SettingsAssumption DEF SettingsAssumption

Phases == {"free", "sent", "waiting", "deleted", "ok", "refused"}
SaveRecord == [phase : Phases, val : Vals \cup {Unset}, found : SUBSET Row, mine : BOOLEAN]

\* The form and the cached answer.
FieldsInv ==
    /\ shown \in BOOLEAN /\ initialized \in BOOLEAN
    /\ cfg \in Query(Vals \cup {Unset})
    /\ config \in Vals /\ typed \in Vals \cup {Unset}
    /\ TypingIsKept

\* What is saved has a configuration.
RowsInv ==
    /\ stored \subseteq Row /\ commits \in 0 .. MaxSaves
    /\ saves \in [Savers -> SaveRecord] /\ raced \in BOOLEAN
    /\ \A s \in Savers : saves[s].phase # "free" => saves[s].val \in Vals

\* Unless two saves have overlapped, one at most is in its transaction, which
\* deletes every row there is.
SavesInv ==
    raced \/ /\ \A s, t \in Savers : InTransaction(s) /\ InTransaction(t) => s = t
             /\ \A s \in Savers : InTransaction(s) => saves[s].found = stored
             /\ LastSaveWins

SettingsInv == FieldsInv /\ RowsInv /\ SavesInv

LEMMA SettingsStart == SettingsInit => SettingsInv
<1> SUFFICES ASSUME SettingsInit PROVE SettingsInv
    OBVIOUS
<1>1. FieldsInv
    BY DEF SettingsInit, FieldsInv, TypingIsKept, Query, Empty
<1>2. RowsInv
    <2>1. Idle \in SaveRecord /\ Idle.phase = "free"
        BY DEF Idle, SaveRecord, Phases
    <2>2. saves \in [Savers -> SaveRecord] /\ \A s \in Savers : saves[s].phase = "free"
        BY <2>1 DEF SettingsInit
    <2>3. commits \in 0 .. MaxSaves
        BY DEF SettingsInit
    <2>4. stored \subseteq Row /\ raced \in BOOLEAN
        BY DEF SettingsInit
    <2>5. QED BY <2>2, <2>3, <2>4 DEF RowsInv
<1>3. SavesInv
    BY DEF SettingsInit, SavesInv, InTransaction, LastSaveWins, Idle
<1>4. QED BY <1>1, <1>2, <1>3 DEF SettingsInv

\* The effect that fills the form empties what was typed.
LEMMA LoadFills ==
    ASSUME FieldsInv, NEW q \in Query(Vals \cup {Unset}), NEW ini \in BOOLEAN,
           Load(q, ini), shown' \in BOOLEAN
    PROVE  FieldsInv'
BY DEF Load, FieldsInv, TypingIsKept

LEMMA FieldsStep == FieldsInv /\ RowsInv /\ [SettingsNext]_settingsVars => FieldsInv'
<1> SUFFICES ASSUME FieldsInv, RowsInv, [SettingsNext]_settingsVars PROVE FieldsInv'
    OBVIOUS
<1> USE DEF FieldsInv
<1>1. ASSUME cfg' \in Query(Vals \cup {Unset}), UNCHANGED <<shown, config, initialized, typed>>
      PROVE  FieldsInv'
    BY <1>1 DEF TypingIsKept
<1>2. CASE EnterSettings
    <2>1. PICK q \in Observed(cfg) : Load(q, FALSE)
        BY <1>2 DEF EnterSettings
    <2>2. q \in Query(Vals \cup {Unset})
        BY <2>1, QueryOps
    <2>3. shown' \in BOOLEAN
        BY <1>2 DEF EnterSettings
    <2>4. QED BY <2>1, <2>2, <2>3, LoadFills
<1>3. CASE LeaveSettings
    <2>1. cfg' \in Query(Vals \cup {Unset})
        BY <1>3, QueryOps DEF LeaveSettings
    <2>2. QED BY <1>3, <2>1 DEF LeaveSettings, TypingIsKept
<1>4. CASE RefetchSettings
    <2>1. cfg' \in Query(Vals \cup {Unset})
        BY <1>4, QueryOps DEF RefetchSettings
    <2>2. QED BY <1>1, <1>4, <2>1 DEF RefetchSettings
<1>5. CASE ReadSettings
    <2>1. PICK v \in {r.val : r \in stored} \cup {Unset} : cfg' = Answered(cfg, v)
        BY <1>5 DEF ReadSettings
    <2>2. v \in Vals \cup {Unset}
        BY <2>1 DEF RowsInv, Row
    <2>3. cfg' \in Query(Vals \cup {Unset})
        BY <2>1, <2>2, QueryOps
    <2>4. QED BY <1>1, <1>5, <2>3 DEF ReadSettings
<1>6. CASE FetchSettingsFails
    <2>1. cfg' \in Query(Vals \cup {Unset})
        BY <1>6, QueryOps DEF FetchSettingsFails
    <2>2. QED BY <1>1, <1>6, <2>1 DEF FetchSettingsFails
<1>7. CASE ReceiveSettings
    <2>1. Received(cfg) \in Query(Vals \cup {Unset})
        BY QueryOps
    <2>2. QED BY <1>7, <2>1, LoadFills DEF ReceiveSettings
<1>8. ASSUME NEW v \in Vals, Edit(v) PROVE FieldsInv'
    BY <1>8 DEF Edit, TypingIsKept
<1>9. ASSUME NEW s \in Savers,
             \/ SubmitSettings(s) \/ SubmitElsewhere(s) \/ SaveAnswered(s)
             \/ BeginDelete(s) \/ Delete(s) \/ Commit(s) \/ Rollback(s)
      PROVE  FieldsInv'
    <2>1. UNCHANGED <<shown, cfg, config, initialized, typed>>
        BY <1>9 DEF SubmitSettings, SubmitElsewhere, SaveAnswered, BeginDelete, Delete, Commit, Rollback
    <2>2. QED BY <1>1, <2>1
<1>10. CASE UNCHANGED settingsVars
    BY <1>1, <1>10 DEF settingsVars
<1>11. QED
    BY <1>2, <1>3, <1>4, <1>5, <1>6, <1>7, <1>8, <1>9, <1>10 DEF SettingsNext

\* The steps that replace one record of saves.
LEMMA OneSave ==
    ASSUME RowsInv, NEW s \in Savers, NEW r \in SaveRecord, saves' = [saves EXCEPT ![s] = r],
           r.phase # "free" => r.val \in Vals,
           stored' \subseteq Row, commits' \in 0 .. MaxSaves, raced' \in BOOLEAN
    PROVE  /\ RowsInv' /\ saves'[s] = r
           /\ \A t \in Savers \ {s} : saves'[t] = saves[t]
BY DEF RowsInv

\* What each step of a save makes of its record.
LEMMA RowsStep ==
    ASSUME FieldsInv, RowsInv, NEW s \in Savers,
           \/ SubmitSettings(s) \/ SubmitElsewhere(s) \/ SaveAnswered(s)
           \/ BeginDelete(s) \/ Delete(s) \/ Commit(s) \/ Rollback(s)
    PROVE  /\ RowsInv'
           /\ \A t \in Savers \ {s} : saves'[t] = saves[t]
           /\ saves'[s].phase = "waiting" => BeginDelete(s) /\ saves'[s].found = stored
           /\ saves'[s].phase = "deleted" => Delete(s) /\ saves'[s].found = saves[s].found \cap stored
<1>1. /\ saves[s] \in SaveRecord /\ stored \subseteq Row /\ commits \in 0 .. MaxSaves
      /\ raced \in BOOLEAN /\ config \in Vals /\ DOMAIN saves = Savers
      /\ saves[s].phase # "free" => saves[s].val \in Vals
    BY DEF RowsInv, FieldsInv
<1>2. CASE SubmitSettings(s)
    <2> DEFINE r == [Idle EXCEPT !.phase = "sent", !.val = config, !.mine = TRUE]
    <2>1. r \in SaveRecord /\ r.phase = "sent" /\ r.val \in Vals
        BY <1>1 DEF SaveRecord, Phases, Idle
    <2>2. saves' = [saves EXCEPT ![s] = r] /\ UNCHANGED <<stored, commits, raced>>
        BY <1>2 DEF SubmitSettings
    <2> HIDE DEF r
    <2>3. QED BY <1>1, <2>1, <2>2, OneSave
<1>3. CASE SubmitElsewhere(s)
    <2>1. PICK v \in Vals : saves' = [saves EXCEPT ![s] = [Idle EXCEPT !.phase = "sent", !.val = v]]
        BY <1>3 DEF SubmitElsewhere
    <2> DEFINE r == [Idle EXCEPT !.phase = "sent", !.val = v]
    <2>2. r \in SaveRecord /\ r.phase = "sent" /\ r.val \in Vals
        BY DEF SaveRecord, Phases, Idle
    <2>3. saves' = [saves EXCEPT ![s] = r] /\ UNCHANGED <<stored, commits, raced>>
        BY <1>3, <2>1 DEF SubmitElsewhere
    <2> HIDE DEF r
    <2>4. QED BY <1>1, <2>2, <2>3, OneSave
<1>4. CASE SaveAnswered(s)
    <2>1. Idle \in SaveRecord /\ Idle.phase = "free"
        BY DEF Idle, SaveRecord, Phases
    <2>2. QED BY <1>1, <1>4, <2>1, OneSave DEF SaveAnswered
<1>5. CASE BeginDelete(s)
    <2> DEFINE r == [saves[s] EXCEPT !.phase = "waiting", !.found = stored]
    <2>1. r \in SaveRecord /\ r.phase = "waiting" /\ r.found = stored /\ r.val = saves[s].val
        BY <1>1 DEF SaveRecord, Phases
    <2>2. saves' = [saves EXCEPT ![s] = r] /\ saves[s].phase = "sent"
        BY <1>1, <1>5 DEF BeginDelete
    <2>3. UNCHANGED <<stored, commits>> /\ raced' \in BOOLEAN
        BY <1>1, <1>5 DEF BeginDelete
    <2> HIDE DEF r
    <2>4. QED BY <1>1, <1>5, <2>1, <2>2, <2>3, OneSave
<1>6. CASE Delete(s)
    <2> DEFINE r == [saves[s] EXCEPT !.phase = "deleted", !.found = saves[s].found \cap stored]
    <2>1. /\ r \in SaveRecord /\ r.phase = "deleted" /\ r.val = saves[s].val
          /\ r.found = saves[s].found \cap stored
        BY <1>1 DEF SaveRecord, Phases
    <2>2. saves' = [saves EXCEPT ![s] = r] /\ saves[s].phase = "waiting"
        BY <1>1, <1>6 DEF Delete
    <2>3. UNCHANGED <<stored, commits, raced>>
        BY <1>6 DEF Delete
    <2> HIDE DEF r
    <2>4. QED BY <1>1, <1>6, <2>1, <2>2, <2>3, OneSave
<1>7. CASE Commit(s)
    <2> DEFINE r == [saves[s] EXCEPT !.phase = "ok", !.found = {}]
               n == [id |-> commits + 1, val |-> saves[s].val]
    <2>1. r \in SaveRecord /\ r.phase = "ok" /\ r.val = saves[s].val
        BY <1>1 DEF SaveRecord, Phases
    <2>2. saves' = [saves EXCEPT ![s] = r] /\ saves[s].phase = "deleted"
        BY <1>1, <1>7 DEF Commit
    <2>3. /\ commits' \in 0 .. MaxSaves /\ commits' = commits + 1 /\ raced' = raced
          /\ commits + 1 \in 1 .. MaxSaves
        BY <1>1, <1>7 DEF Commit
    <2>4. n \in Row
        BY <1>1, <2>2, <2>3 DEF Row
    <2>5. stored' \subseteq Row
        BY <1>1, <1>7, <2>4 DEF Commit
    <2> HIDE DEF r, n
    <2>6. QED BY <1>1, <2>1, <2>2, <2>3, <2>5, OneSave
<1>8. CASE Rollback(s)
    <2> DEFINE r == [saves[s] EXCEPT !.phase = "refused", !.found = {}]
    <2>1. r \in SaveRecord /\ r.phase = "refused" /\ r.val = saves[s].val
        BY <1>1 DEF SaveRecord, Phases
    <2>2. saves' = [saves EXCEPT ![s] = r] /\ saves[s].phase # "free"
        BY <1>1, <1>8 DEF Rollback
    <2>3. UNCHANGED <<stored, commits, raced>>
        BY <1>8 DEF Rollback
    <2> HIDE DEF r
    <2>4. QED BY <1>1, <2>1, <2>2, <2>3, OneSave
<1>9. QED BY <1>2, <1>3, <1>4, <1>5, <1>6, <1>7, <1>8

\* Two saves that are in their transactions have overlapped.
LEMMA SavesStep ==
    ASSUME FieldsInv, RowsInv, SavesInv, NEW s \in Savers,
           \/ SubmitSettings(s) \/ SubmitElsewhere(s) \/ SaveAnswered(s)
           \/ BeginDelete(s) \/ Delete(s) \/ Commit(s) \/ Rollback(s)
    PROVE  SavesInv'
<1>1. CASE raced'
    BY <1>1 DEF SavesInv
<1>2. CASE ~raced'
    <2>1. ~raced
        BY <1>2 DEF SubmitSettings, SubmitElsewhere, SaveAnswered, BeginDelete, Delete, Commit, Rollback
    <2>2. /\ \A t, u \in Savers : InTransaction(t) /\ InTransaction(u) => t = u
          /\ \A t \in Savers : InTransaction(t) => saves[t].found = stored
          /\ LastSaveWins
        BY <2>1 DEF SavesInv
    <2>3. /\ \A t \in Savers \ {s} : saves'[t] = saves[t]
          /\ saves'[s].phase = "waiting" => BeginDelete(s) /\ saves'[s].found = stored
          /\ saves'[s].phase = "deleted" => Delete(s) /\ saves'[s].found = saves[s].found \cap stored
        BY RowsStep
    <2>4. \A t \in Savers \ {s} : InTransaction(t)' <=> InTransaction(t)
        BY <2>3 DEF InTransaction
    <2>5. InTransaction(s)' => InTransaction(s) \/ \A t \in Savers : ~InTransaction(t)
        BY <1>2, <2>3 DEF InTransaction, BeginDelete, Delete
    <2>6. \A t, u \in Savers : InTransaction(t)' /\ InTransaction(u)' => t = u
        BY <2>2, <2>4, <2>5
    <2>7. CASE Commit(s)
        <3>1. InTransaction(s) /\ ~InTransaction(s)'
            BY <2>3, <2>7 DEF Commit, InTransaction, BeginDelete, Delete
        <3>2. \A t \in Savers : ~InTransaction(t)'
            BY <2>2, <2>4, <3>1
        <3>3. stored' = {[id |-> commits + 1, val |-> saves[s].val]}
            BY <2>2, <2>7, <3>1 DEF Commit
        <3>4. stored' \subseteq Row /\ commits' = commits + 1
            BY <2>7, RowsStep DEF RowsInv, Commit
        <3>5. LastSaveWins'
            BY <3>3, <3>4 DEF LastSaveWins
        <3>6. QED BY <2>6, <3>2, <3>5 DEF SavesInv
    <2>8. CASE ~Commit(s)
        <3>1. UNCHANGED <<stored, commits>>
            BY <2>8 DEF SubmitSettings, SubmitElsewhere, SaveAnswered, BeginDelete, Delete, Rollback
        <3>2. LastSaveWins'
            BY <2>1, <2>2, <3>1 DEF LastSaveWins
        <3>3. InTransaction(s)' => saves'[s].found = stored
            BY <2>2, <2>3 DEF InTransaction, Delete
        <3>4. \A t \in Savers : InTransaction(t)' => saves'[t].found = stored'
            BY <2>2, <2>3, <2>4, <3>1, <3>3
        <3>5. QED BY <2>6, <3>2, <3>4 DEF SavesInv
    <2>9. QED BY <2>7, <2>8
<1>3. QED BY <1>1, <1>2

LEMMA SettingsStep == SettingsInv /\ [SettingsNext]_settingsVars => SettingsInv'
<1> SUFFICES ASSUME SettingsInv, [SettingsNext]_settingsVars PROVE SettingsInv'
    OBVIOUS
<1>1. FieldsInv /\ RowsInv /\ SavesInv
    BY DEF SettingsInv
<1>2. FieldsInv'
    BY <1>1, FieldsStep
<1>3. ASSUME saves' = saves, UNCHANGED <<stored, commits, raced>> PROVE RowsInv' /\ SavesInv'
    BY <1>1, <1>3 DEF RowsInv, SavesInv, LastSaveWins, InTransaction
<1>4. CASE LeaveSettings
    <2>1. /\ saves' \in [Savers -> SaveRecord] /\ UNCHANGED <<stored, commits, raced>>
          /\ \A s \in Savers : /\ saves'[s].phase = saves[s].phase /\ saves'[s].val = saves[s].val
                               /\ saves'[s].found = saves[s].found
        BY <1>1, <1>4 DEF LeaveSettings, RowsInv, SaveRecord
    <2>2. RowsInv'
        BY <1>1, <2>1 DEF RowsInv
    <2>3. SavesInv'
        BY <1>1, <2>1 DEF SavesInv, LastSaveWins, InTransaction
    <2>4. QED BY <1>2, <2>2, <2>3 DEF SettingsInv
<1>5. CASE \/ EnterSettings \/ RefetchSettings \/ ReadSettings
           \/ FetchSettingsFails \/ ReceiveSettings \/ \E v \in Vals : Edit(v)
    BY <1>2, <1>3, <1>5 DEF SettingsInv, EnterSettings, RefetchSettings, ReadSettings,
        FetchSettingsFails, ReceiveSettings, Edit
<1>6. ASSUME NEW s \in Savers,
             \/ SubmitSettings(s) \/ SubmitElsewhere(s) \/ SaveAnswered(s)
             \/ BeginDelete(s) \/ Delete(s) \/ Commit(s) \/ Rollback(s)
      PROVE  SettingsInv'
    BY <1>1, <1>2, <1>6, RowsStep, SavesStep DEF SettingsInv
<1>7. CASE UNCHANGED settingsVars
    BY <1>2, <1>3, <1>7 DEF settingsVars, SettingsInv
<1>8. QED BY <1>4, <1>5, <1>6, <1>7 DEF SettingsNext

-----------------------------------------------------------------------------
(* AdminPages: each page changes its list by the operations of ListPage,   *)
(* whatever they do to the state of the page itself.                       *)

ListMove ==
    \/ Enter(ui') \/ Leave(ui') \/ Network
    \/ \E k \in Kinds, id \in Ids \cup {Nobody} : Send(k, id)
    \/ \E s \in Slots : Succeeded(s) \/ Rejected(s)
    \/ UNCHANGED listVars

LEMMA NetworkMoves ==
    ASSUME Jobs!Network \/ Storage!Network \/ Agents!Network
    PROVE  Network /\ UNCHANGED <<page, place, acked, ui>>
<1>1. Jobs!Refetch \/ Storage!Refetch \/ Agents!Refetch => Refetch
    BY DEF Jobs!Refetch, Jobs!Active, Jobs!Fetching, Storage!Refetch, Storage!Active,
        Storage!Fetching, Agents!Refetch, Agents!Active, Agents!Fetching, Refetch, Active, Fetching
<1>2. Jobs!ReadRows \/ Storage!ReadRows \/ Agents!ReadRows => ReadRows
    BY DEF Jobs!ReadRows, Jobs!Answered, Storage!ReadRows, Storage!Answered,
        Agents!ReadRows, Agents!Answered, ReadRows, Answered
<1>3. Jobs!FetchFails \/ Storage!FetchFails \/ Agents!FetchFails => FetchFails
    BY DEF Jobs!FetchFails, Jobs!Failed, Storage!FetchFails, Storage!Failed,
        Agents!FetchFails, Agents!Failed, FetchFails, Failed
<1>4. Jobs!Receive \/ Storage!Receive \/ Agents!Receive => Receive
    BY DEF Jobs!Receive, Jobs!Received, Jobs!Empty, Storage!Receive, Storage!Received, Storage!Empty,
        Agents!Receive, Agents!Received, Agents!Empty, Receive, Received, Empty
<1>5. Jobs!Collect \/ Storage!Collect \/ Agents!Collect => Collect
    BY DEF Jobs!Collect, Jobs!Empty, Jobs!Active, Storage!Collect, Storage!Empty, Storage!Active,
        Agents!Collect, Agents!Empty, Agents!Active, Collect, Empty, Active
<1>6. \A s : Jobs!Serve(s) \/ Storage!Serve(s) \/ Agents!Serve(s) => Serve(s)
    BY DEF Jobs!Serve, Jobs!Applied, Jobs!Ids, Jobs!Exists, Jobs!MaxRev, Jobs!Gone,
        Storage!Serve, Storage!Applied, Storage!Ids, Storage!Exists, Storage!MaxRev, Storage!Gone,
        Agents!Serve, Agents!Applied, Agents!Ids, Agents!Exists, Agents!MaxRev, Agents!Gone,
        Serve, Applied, Ids, Exists, MaxRev, Gone
<1>7. \A s : Jobs!Refuse(s) \/ Storage!Refuse(s) \/ Agents!Refuse(s) => Refuse(s)
    BY DEF Jobs!Refuse, Storage!Refuse, Agents!Refuse, Refuse
<1>8. \A id : Jobs!Elsewhere(id) \/ Storage!Elsewhere(id) \/ Agents!Elsewhere(id) => Elsewhere(id)
    BY DEF Jobs!Elsewhere, Jobs!MaxRev, Jobs!Gone, Storage!Elsewhere, Storage!MaxRev, Storage!Gone,
        Agents!Elsewhere, Agents!MaxRev, Agents!Gone, Elsewhere, MaxRev, Gone
<1>9. Network
    BY <1>1, <1>2, <1>3, <1>4, <1>5, <1>6, <1>7, <1>8
    DEF Jobs!Network, Jobs!Slots, Jobs!Ids, Storage!Network, Storage!Slots, Storage!Ids,
        Agents!Network, Agents!Slots, Agents!Ids, Network, Slots, Ids
<1>10. QED
    BY <1>9 DEF Network, Refetch, ReadRows, FetchFails, Receive, Collect, Serve, Refuse, Elsewhere

LEMMA SendMoves ==
    ASSUME NEW k, NEW id, Jobs!Send(k, id) \/ Storage!Send(k, id) \/ Agents!Send(k, id)
    PROVE  Send(k, id)
BY DEF Jobs!Send, Jobs!Slots, Jobs!Free, Storage!Send, Storage!Slots, Storage!Free,
    Agents!Send, Agents!Slots, Agents!Free, Send, Slots, Free

LEMMA DoneMoves ==
    ASSUME NEW s
    PROVE  /\ Jobs!Succeeded(s) \/ Storage!Succeeded(s) \/ Agents!Succeeded(s) => Succeeded(s)
           /\ Jobs!Rejected(s) \/ Storage!Rejected(s) \/ Agents!Rejected(s) => Rejected(s)
BY DEF Jobs!Succeeded, Jobs!Rejected, Jobs!Free, Jobs!Active, Jobs!Loading, Jobs!Invalidated,
    Jobs!Fetching, Storage!Succeeded, Storage!Rejected, Storage!Free, Storage!Active,
    Storage!Loading, Storage!Invalidated, Storage!Fetching, Agents!Succeeded, Agents!Rejected,
    Agents!Free, Agents!Active, Agents!Loading, Agents!Invalidated, Agents!Fetching,
    Succeeded, Rejected, Free, Active, Loading, Invalidated, Fetching

LEMMA VisitMoves ==
    ASSUME NEW blank
    PROVE  /\ Jobs!Enter(blank) \/ Storage!Enter(blank) \/ Agents!Enter(blank)
                => Enter(ui') /\ ui' = blank /\ UNCHANGED <<page, muts>>
           /\ Jobs!Leave(blank) \/ Storage!Leave(blank) \/ Agents!Leave(blank)
                => Leave(ui') /\ ui' = blank /\ UNCHANGED page
BY DEF Jobs!Enter, Jobs!Leave, Jobs!Observed, Jobs!Aborted, Jobs!Fetching, Jobs!Slots,
    Storage!Enter, Storage!Leave, Storage!Observed, Storage!Aborted, Storage!Fetching, Storage!Slots,
    Agents!Enter, Agents!Leave, Agents!Observed, Agents!Aborted, Agents!Fetching, Agents!Slots,
    Enter, Leave, Observed, Aborted, Fetching, Slots

-----------------------------------------------------------------------------
(* AdminPages: the list of a page and the requests that change it *)

USE ListPageAssumption DEF ListPageAssumption

Request == [kind : Kinds, id : Ids \cup {Nobody}, phase : {"free", "sent", "ok", "refused"},
            rev : 0 .. Gone, mine : BOOLEAN, last : BOOLEAN]

\* What d says of a row is not older than what the page was told of it.
UpToDate(d) == \A id \in Ids : d[id] >= acked[id]

\* What the page was told, and what it is being told, is not newer than the rows.
NewsInv ==
    /\ \A id \in Ids : acked[id] <= srv[id]
    /\ \A s \in Slots : muts[s].phase = "ok" =>
            muts[s].id \in Ids /\ muts[s].rev <= srv[muts[s].id]

\* A list nobody observes is not fetched; an answer under way and data that is
\* not invalidated are up to date, and so is what is shown as final.
CacheInv ==
    /\ ~Active => query.fetch = "idle"
    /\ query.fetch = "answered" => UpToDate(query.snap)
    /\ query.data # NoData /\ ~query.invalid => UpToDate(query.data)
    /\ Active /\ query.fetch = "idle" /\ ~query.broken => UpToDate(query.data)

ListInv == ListTypeOK /\ NewsInv /\ CacheInv

LEMMA RevsAreNat == ASSUME page \in Pages PROVE MaxRev \in Nat /\ Gone \in Nat /\ MaxRev < Gone
BY DEF MaxRev, Gone

\* One request is replaced.
LEMMA OneRequest ==
    ASSUME ListTypeOK, UNCHANGED page, NEW s \in Slots, NEW r \in Request,
           muts' = [muts EXCEPT ![s] = r]
    PROVE  /\ muts' \in [Slots -> Request] /\ muts'[s] = r
           /\ \A t \in Slots \ {s} : muts'[t] = muts[t]
BY DEF ListTypeOK, Request, Slots, Ids, Gone, MaxRev

\* The request the server has handled.
LEMMA ServeStep ==
    ASSUME ListTypeOK, NEW s \in Slots, Serve(s)
    PROVE  /\ muts' \in [Slots -> Request] /\ srv' \in Rows
           /\ \A id \in Ids : srv[id] <= srv'[id]
           /\ \A t \in Slots \ {s} : muts'[t] = muts[t]
           /\ muts'[s].phase = "ok" => muts'[s].id \in Ids /\ muts'[s].rev = srv'[muts'[s].id]
           /\ UNCHANGED <<page, place, query, acked, ui>>
           /\ muts[s].phase # "free"
           /\ muts'[s].kind = muts[s].kind /\ muts'[s].mine = muts[s].mine
           /\ muts'[s].last = muts[s].last
<1>1. PICK id \in Ids :
        /\ Applied(muts[s], id)
        /\ \/ muts' = [muts EXCEPT ![s].phase = "ok", ![s].id = id, ![s].rev = srv'[id]]
           \/ muts' = [muts EXCEPT ![s].phase = "refused"]
    BY DEF Serve
<1>2. MaxRev \in Nat /\ Gone \in Nat /\ MaxRev < Gone /\ Gone = MaxRev + 1
    BY RevsAreNat DEF ListTypeOK, Gone
<1>3. /\ srv \in [Ids -> 0 .. Gone] /\ muts[s] \in Request /\ muts \in [Slots -> Request]
    BY DEF ListTypeOK, Rows, Request
<1>4. UNCHANGED <<page, place, query, acked, ui>> /\ muts[s].phase = "sent"
    BY DEF Serve
<1>5. srv' \in [Ids -> 0 .. Gone] /\ \A i \in Ids : srv[i] <= srv'[i]
    BY <1>1, <1>2, <1>3 DEF Applied, Exists
<1>6. CASE muts' = [muts EXCEPT ![s].phase = "ok", ![s].id = id, ![s].rev = srv'[id]]
    <2>1. PICK r : r = [muts[s] EXCEPT !.phase = "ok", !.id = id, !.rev = srv'[id]]
        OBVIOUS
    <2>2. /\ r \in Request /\ r.phase = "ok" /\ r.id = id /\ r.rev = srv'[id]
          /\ r.kind = muts[s].kind /\ r.mine = muts[s].mine /\ r.last = muts[s].last
        BY <1>3, <1>5, <2>1 DEF Request
    <2>3. muts' = [muts EXCEPT ![s] = r]
        BY <1>3, <1>6, <2>1
    <2>4. QED BY <1>4, <1>5, <2>2, <2>3, OneRequest DEF Rows, Ids, Gone, MaxRev
<1>7. CASE muts' = [muts EXCEPT ![s].phase = "refused"]
    <2>1. PICK r : r = [muts[s] EXCEPT !.phase = "refused"]
        OBVIOUS
    <2>2. /\ r \in Request /\ r.phase = "refused"
          /\ r.kind = muts[s].kind /\ r.mine = muts[s].mine /\ r.last = muts[s].last
        BY <1>3, <2>1 DEF Request
    <2>3. muts' = [muts EXCEPT ![s] = r]
        BY <1>3, <1>7, <2>1
    <2>4. QED BY <1>4, <1>5, <2>2, <2>3, OneRequest DEF Rows, Ids, Gone, MaxRev
<1>8. QED BY <1>1, <1>6, <1>7

\* The request that is refused, whatever its handling.
LEMMA RefuseStep ==
    ASSUME ListTypeOK, NEW s \in Slots, Refuse(s)
    PROVE  /\ muts' \in [Slots -> Request] /\ UNCHANGED <<page, place, srv, query, acked, ui>>
           /\ \A t \in Slots \ {s} : muts'[t] = muts[t]
           /\ muts'[s].phase = "refused" /\ muts[s].phase # "free"
           /\ muts'[s].kind = muts[s].kind /\ muts'[s].mine = muts[s].mine
           /\ muts'[s].last = muts[s].last
<1>1. muts[s] \in Request /\ muts \in [Slots -> Request]
    BY DEF ListTypeOK, Request
<1>2. PICK r : r = [muts[s] EXCEPT !.phase = "refused"]
    OBVIOUS
<1>3. /\ r \in Request /\ r.phase = "refused"
      /\ r.kind = muts[s].kind /\ r.mine = muts[s].mine /\ r.last = muts[s].last
    BY <1>1, <1>2 DEF Request
<1>4. muts' = [muts EXCEPT ![s] = r]
    BY <1>1, <1>2 DEF Refuse
<1>5. UNCHANGED <<page, place, srv, query, acked, ui>> /\ muts[s].phase = "sent"
    BY DEF Refuse
<1>6. /\ muts' \in [Slots -> Request] /\ muts'[s] = r
      /\ \A t \in Slots \ {s} : muts'[t] = muts[t]
    BY <1>3, <1>4, <1>5, OneRequest
<1>7. QED BY <1>3, <1>5, <1>6

\* A request that ends makes room for another.
LEMMA EndStep ==
    ASSUME ListTypeOK, NEW s \in Slots, Succeeded(s) \/ Rejected(s)
    PROVE  /\ muts' \in [Slots -> Request] /\ UNCHANGED <<page, place, srv>>
           /\ \A t \in Slots \ {s} : muts'[t] = muts[t]
           /\ muts'[s] = Free /\ muts[s].phase \in {"ok", "refused"}
<1>1. Gone \in Nat
    BY RevsAreNat DEF ListTypeOK
<1>2. Free \in Request
    BY <1>1 DEF Free, Request, Kinds
<1>3. muts' = [muts EXCEPT ![s] = Free] /\ UNCHANGED page
    BY DEF Succeeded, Rejected
<1>4. QED BY <1>2, <1>3, OneRequest DEF Succeeded, Rejected

\* The request that is sent.
LEMMA SendStep ==
    ASSUME ListTypeOK, NEW k \in Kinds, NEW id \in Ids \cup {Nobody}, Send(k, id)
    PROVE  /\ muts' \in [Slots -> Request] /\ UNCHANGED <<page, place, srv, query, acked>>
           /\ \E s \in Slots :
                /\ muts'[s].phase = "sent" /\ muts'[s].kind = k
                /\ muts'[s].mine /\ muts'[s].last
                /\ \A t \in Slots \ {s} :
                    /\ muts'[t].phase = muts[t].phase /\ muts'[t].id = muts[t].id
                    /\ muts'[t].rev = muts[t].rev /\ muts'[t].kind = muts[t].kind
                    /\ muts'[t].mine = muts[t].mine
                    /\ muts[t].kind # k => muts'[t] = muts[t]
<1>1. Gone \in Nat
    BY RevsAreNat DEF ListTypeOK
<1>2. muts \in [Slots -> Request]
    BY DEF ListTypeOK, Request
<1>3. PICK s \in Slots :
        muts' = [t \in Slots |->
                    IF t = s THEN [kind |-> k, id |-> id, phase |-> "sent", rev |-> 0,
                                   mine |-> TRUE, last |-> TRUE]
                    ELSE IF muts[t].kind = k THEN [muts[t] EXCEPT !.last = FALSE]
                    ELSE muts[t]]
    BY DEF Send
<1>4. PICK r : r = [kind |-> k, id |-> id, phase |-> "sent", rev |-> 0,
                    mine |-> TRUE, last |-> TRUE]
    OBVIOUS
<1>5. r \in Request /\ r.phase = "sent" /\ r.kind = k /\ r.mine /\ r.last
    BY <1>1, <1>4 DEF Request
<1>6. muts'[s] = r
    BY <1>3, <1>4
<1>7. \A t \in Slots \ {s} :
        /\ muts'[t] \in Request
        /\ muts'[t].phase = muts[t].phase /\ muts'[t].id = muts[t].id
        /\ muts'[t].rev = muts[t].rev /\ muts'[t].kind = muts[t].kind
        /\ muts'[t].mine = muts[t].mine
        /\ muts[t].kind # k => muts'[t] = muts[t]
    <2> SUFFICES ASSUME NEW t \in Slots \ {s}
                 PROVE  /\ muts'[t] \in Request
                        /\ muts'[t].phase = muts[t].phase /\ muts'[t].id = muts[t].id
                        /\ muts'[t].rev = muts[t].rev /\ muts'[t].kind = muts[t].kind
                        /\ muts'[t].mine = muts[t].mine
                        /\ muts[t].kind # k => muts'[t] = muts[t]
        OBVIOUS
    <2>1. muts[t] \in Request
        BY <1>2
    <2>2. CASE muts[t].kind = k
        <3>1. muts'[t] = [muts[t] EXCEPT !.last = FALSE]
            BY <1>3, <2>2
        <3>2. QED BY <2>1, <2>2, <3>1 DEF Request
    <2>3. CASE muts[t].kind # k
        <3>1. muts'[t] = muts[t]
            BY <1>3, <2>3
        <3>2. QED BY <2>1, <3>1
    <2>4. QED BY <2>2, <2>3
<1>8. muts' \in [Slots -> Request]
    <2>1. \A t \in Slots : muts'[t] \in Request
        BY <1>5, <1>6, <1>7
    <2>2. muts' = [t \in Slots |-> muts'[t]]
        BY <1>3
    <2>3. QED BY <2>1, <2>2
<1>9. UNCHANGED <<page, place, srv, query, acked>>
    BY DEF Send
<1>10. QED BY <1>5, <1>6, <1>7, <1>8, <1>9

\* The page is left: its requests go on without it.
LEMMA LeaveStep ==
    ASSUME ListTypeOK, Leave(ui')
    PROVE  /\ muts' \in [Slots -> Request] /\ UNCHANGED <<page, srv, acked>>
           /\ \A t \in Slots :
                /\ muts'[t].phase = muts[t].phase /\ muts'[t].id = muts[t].id
                /\ muts'[t].rev = muts[t].rev /\ ~muts'[t].mine
<1>1. muts \in [Slots -> Request]
    BY DEF ListTypeOK, Request
<1>2. muts' = [s \in Slots |-> [muts[s] EXCEPT !.mine = FALSE, !.last = FALSE]]
    BY DEF Leave
<1>3. \A t \in Slots :
        /\ muts'[t] \in Request
        /\ muts'[t].phase = muts[t].phase /\ muts'[t].id = muts[t].id
        /\ muts'[t].rev = muts[t].rev /\ ~muts'[t].mine
    <2> SUFFICES ASSUME NEW t \in Slots
                 PROVE  /\ muts'[t] \in Request
                        /\ muts'[t].phase = muts[t].phase /\ muts'[t].id = muts[t].id
                        /\ muts'[t].rev = muts[t].rev /\ ~muts'[t].mine
        OBVIOUS
    <2>1. muts[t] \in Request /\ muts'[t] = [muts[t] EXCEPT !.mine = FALSE, !.last = FALSE]
        BY <1>1, <1>2
    <2>2. QED BY <2>1 DEF Request
<1>4. muts' \in [Slots -> Request]
    <2>1. muts' = [t \in Slots |-> muts'[t]]
        BY <1>2
    <2>2. QED BY <1>3, <2>1
<1>5. QED BY <1>3, <1>4 DEF Leave

\* The fields of a query after each operation.
LEMMA QueryFields ==
    ASSUME NEW D, NEW q \in Query(D), NEW d
    PROVE  /\ Fetching(q).fetch = "sent" /\ Fetching(q).data = q.data
           /\ Fetching(q).invalid = q.invalid
           /\ Aborted(q).fetch = "idle" /\ Aborted(q).data = q.data
           /\ Aborted(q).invalid = q.invalid
           /\ Answered(q, d).fetch = "answered" /\ Answered(q, d).snap = d
           /\ Answered(q, d).data = q.data /\ Answered(q, d).invalid = q.invalid
           /\ Received(q).fetch = "idle" /\ Received(q).data = q.snap
           /\ Failed(q).fetch = "idle" /\ Failed(q).broken /\ Failed(q).invalid
           /\ Empty.fetch = "idle" /\ Empty.data = NoData
<1>1. Fetching(q).fetch = "sent" /\ Fetching(q).data = q.data /\ Fetching(q).invalid = q.invalid
    BY DEF Query, Fetching
<1>2. Aborted(q).fetch = "idle" /\ Aborted(q).data = q.data /\ Aborted(q).invalid = q.invalid
    BY DEF Query, Aborted
<1>3. /\ Answered(q, d).fetch = "answered" /\ Answered(q, d).snap = d
      /\ Answered(q, d).data = q.data /\ Answered(q, d).invalid = q.invalid
    BY DEF Query, Answered
<1>4. /\ Received(q).fetch = "idle" /\ Received(q).data = q.snap
      /\ Empty.fetch = "idle" /\ Empty.data = NoData
    BY DEF Received, Empty
<1>5. Failed(q).fetch = "idle" /\ Failed(q).broken /\ Failed(q).invalid
    BY DEF Query, Failed
<1>6. QED BY <1>1, <1>2, <1>3, <1>4, <1>5

\* An invalidation marks the data and restarts any fetch but the first.
LEMMA InvalidatedFields ==
    ASSUME NEW D, NEW q \in Query(D), NEW active \in BOOLEAN
    PROVE  /\ Invalidated(q, active).invalid
           /\ active /\ ~Loading(q) => Invalidated(q, active).fetch = "sent"
           /\ ~active \/ Loading(q) => Invalidated(q, active).fetch = q.fetch
                                       /\ Invalidated(q, active).snap = q.snap
<1>1. CASE active /\ (q.fetch = "idle" \/ q.data # NoData)
    <2>1. Fetching(q) \in Query(D) /\ Fetching(q).fetch = "sent"
        BY DEF Query, Fetching
    <2>2. Invalidated(q, active) = [Fetching(q) EXCEPT !.invalid = TRUE]
        BY <1>1 DEF Invalidated
    <2>3. QED BY <1>1, <2>1, <2>2 DEF Query, Loading
<1>2. CASE ~(active /\ (q.fetch = "idle" \/ q.data # NoData))
    <2>1. Invalidated(q, active) = [q EXCEPT !.invalid = TRUE]
        BY <1>2 DEF Invalidated
    <2>2. QED BY <1>2, <2>1 DEF Query, Loading
<1>3. QED BY <1>1, <1>2

\* Everything about the list but its query.
LEMMA RequestsKept ==
    ASSUME ListTypeOK, ListMove
    PROVE  /\ page' = page /\ place' \in {"page", "observer", "away"} /\ srv' \in Rows
           /\ muts' \in [Slots -> Request]
<1>0. /\ page \in Pages /\ place \in {"page", "observer", "away"} /\ srv \in Rows
      /\ muts \in [Slots -> Request]
    BY DEF ListTypeOK, Request
<1>1. CASE Enter(ui')
    BY <1>0, <1>1 DEF Enter
<1>2. CASE Leave(ui')
    BY <1>0, <1>2, LeaveStep DEF Leave
<1>3. CASE Refetch \/ ReadRows \/ FetchFails \/ Receive \/ Collect
    BY <1>0, <1>3 DEF Refetch, ReadRows, FetchFails, Receive, Collect
<1>4. ASSUME NEW s \in Slots, Serve(s) \/ Refuse(s)
      PROVE  /\ page' = page /\ place' = place /\ srv' \in Rows /\ muts' \in [Slots -> Request]
    BY <1>0, <1>4, ServeStep, RefuseStep
<1>5. ASSUME NEW id \in Ids, Elsewhere(id)
      PROVE  /\ page' = page /\ place' = place /\ srv' \in Rows /\ muts' \in [Slots -> Request]
    BY <1>0, <1>5, RevsAreNat DEF Elsewhere, Rows
<1>6. ASSUME NEW k \in Kinds, NEW id \in Ids \cup {Nobody}, Send(k, id)
      PROVE  /\ page' = page /\ place' = place /\ srv' = srv /\ muts' \in [Slots -> Request]
    BY <1>6, SendStep
<1>7. ASSUME NEW s \in Slots, Succeeded(s) \/ Rejected(s)
      PROVE  /\ page' = page /\ place' = place /\ srv' = srv /\ muts' \in [Slots -> Request]
    BY <1>7, EndStep
<1>8. CASE UNCHANGED listVars
    BY <1>0, <1>8 DEF listVars
<1>9. QED
    BY <1>0, <1>1, <1>2, <1>3, <1>4, <1>5, <1>6, <1>7, <1>8 DEF ListMove, Network

\* The news: an answer tells of a row as it is, and rows only get newer.
LEMMA NewsStep ==
    ASSUME ListTypeOK, NewsInv, ListMove
    PROVE  NewsInv' /\ acked' \in Rows
<1>0. /\ page \in Pages /\ acked \in [Ids -> 0 .. Gone] /\ srv \in [Ids -> 0 .. Gone]
      /\ muts \in [Slots -> Request] /\ Gone \in Nat /\ page' = page
    BY RevsAreNat, RequestsKept DEF ListTypeOK, Request, Rows
<1>1. ASSUME UNCHANGED acked, \A id \in Ids : srv[id] <= srv'[id], srv' \in Rows,
             \A s \in Slots : muts'[s].phase = "ok" =>
                \/ /\ muts[s].phase = "ok" /\ muts'[s].id = muts[s].id
                   /\ muts'[s].rev = muts[s].rev
                \/ muts'[s].id \in Ids /\ muts'[s].rev <= srv'[muts'[s].id]
      PROVE  NewsInv' /\ acked' \in Rows
    <2>1. \A id \in Ids : acked'[id] <= srv'[id]
        BY <1>0, <1>1 DEF NewsInv, Rows
    <2>2. ASSUME NEW s \in Slots, muts'[s].phase = "ok"
          PROVE  muts'[s].id \in Ids /\ muts'[s].rev <= srv'[muts'[s].id]
        <3>1. CASE muts'[s].id \in Ids /\ muts'[s].rev <= srv'[muts'[s].id]
            BY <3>1
        <3>2. CASE /\ muts[s].phase = "ok" /\ muts'[s].id = muts[s].id
                   /\ muts'[s].rev = muts[s].rev
            <4>1. muts[s].rev \in 0 .. Gone
                BY <1>0 DEF Request
            <4>2. muts[s].id \in Ids /\ muts[s].rev <= srv[muts[s].id]
                BY <3>2 DEF NewsInv
            <4>3. QED BY <1>0, <1>1, <3>2, <4>1, <4>2 DEF Rows
        <3>3. QED BY <1>1, <2>2, <3>1, <3>2
    <2>3. QED BY <1>0, <1>1, <2>1, <2>2 DEF NewsInv, Ids, Slots, Rows, Gone, MaxRev
<1>2. \A id \in Ids : srv[id] <= srv[id]
    BY <1>0
<1>3. CASE Enter(ui')
    BY <1>0, <1>1, <1>2, <1>3 DEF Enter, Rows
<1>4. CASE Leave(ui')
    BY <1>0, <1>1, <1>2, <1>4, LeaveStep DEF Rows
<1>5. CASE Refetch \/ ReadRows \/ FetchFails \/ Receive \/ Collect
    BY <1>0, <1>1, <1>2, <1>5 DEF Refetch, ReadRows, FetchFails, Receive, Collect, Rows
<1>6. ASSUME NEW s \in Slots, Serve(s) PROVE NewsInv' /\ acked' \in Rows
    <2>1. /\ srv' \in Rows /\ \A id \in Ids : srv[id] <= srv'[id]
          /\ \A t \in Slots \ {s} : muts'[t] = muts[t]
          /\ muts'[s].phase = "ok" => muts'[s].id \in Ids /\ muts'[s].rev = srv'[muts'[s].id]
          /\ UNCHANGED acked
        BY <1>6, ServeStep
    <2>2. muts'[s].phase = "ok" => muts'[s].id \in Ids /\ muts'[s].rev <= srv'[muts'[s].id]
        BY <1>0, <2>1 DEF Rows
    <2>3. QED BY <1>1, <2>1, <2>2
<1>7. ASSUME NEW s \in Slots, Refuse(s) PROVE NewsInv' /\ acked' \in Rows
    <2>1. \A t \in Slots : muts'[t].phase = "ok" => muts'[t] = muts[t]
        BY <1>7, RefuseStep
    <2>2. QED BY <1>0, <1>1, <1>2, <1>7, <2>1, RefuseStep DEF Rows
<1>8. ASSUME NEW id \in Ids, Elsewhere(id) PROVE NewsInv' /\ acked' \in Rows
    <2>1. /\ srv' \in Rows /\ \A i \in Ids : srv[i] <= srv'[i]
        BY <1>0, <1>8 DEF Elsewhere, Rows
    <2>2. QED BY <1>1, <1>8, <2>1 DEF Elsewhere
<1>9. ASSUME NEW k \in Kinds, NEW id \in Ids \cup {Nobody}, Send(k, id)
      PROVE  NewsInv' /\ acked' \in Rows
    BY <1>0, <1>1, <1>2, <1>9, SendStep DEF Rows
<1>10. ASSUME NEW s \in Slots, Rejected(s) PROVE NewsInv' /\ acked' \in Rows
    <2>1. UNCHANGED <<srv, acked>> /\ \A t \in Slots : muts'[t].phase = "ok" => muts'[t] = muts[t]
        BY <1>10, EndStep DEF Rejected, Free
    <2>2. QED BY <1>0, <1>1, <1>2, <2>1 DEF Rows
<1>11. ASSUME NEW s \in Slots, Succeeded(s) PROVE NewsInv' /\ acked' \in Rows
    <2>1. UNCHANGED srv /\ \A t \in Slots : muts'[t].phase = "ok" => muts'[t] = muts[t]
        BY <1>11, EndStep DEF Free
    <2>2. /\ muts[s].id \in Ids /\ muts[s].rev <= srv[muts[s].id] /\ muts[s].rev \in 0 .. Gone
          /\ acked' = acked \/ acked' = [acked EXCEPT ![muts[s].id] = muts[s].rev]
        BY <1>0, <1>11 DEF Succeeded, NewsInv, Request
    <2>3. acked' \in [Ids -> 0 .. Gone] /\ \A id \in Ids : acked'[id] <= srv[id]
        BY <1>0, <2>2 DEF NewsInv
    <2>4. QED BY <1>0, <2>1, <2>3 DEF NewsInv, Rows, Ids, Slots, Gone, MaxRev
<1>12. CASE UNCHANGED listVars
    BY <1>0, <1>1, <1>2, <1>12 DEF listVars, Rows
<1>13. QED
    BY <1>3, <1>4, <1>5, <1>6, <1>7, <1>8, <1>9, <1>10, <1>11, <1>12 DEF ListMove, Network

\* A page shows a list that was fetched, or fetches it.
LEMMA CacheObserved ==
    ASSUME ListTypeOK, CacheInv, NEW q \in Query(Rows), q.fetch = "idle",
           q.data = query.data, q.invalid = query.invalid,
           query' \in Observed(q), Active', UNCHANGED <<page, acked>>
    PROVE  query' \in Query(Rows) /\ CacheInv'
<1>1. /\ Fetching(q) \in Query(Rows) /\ Fetching(q).fetch = "sent"
      /\ Fetching(q).data = query.data /\ Fetching(q).invalid = query.invalid
    <2>1. srv \in Rows /\ Active \in BOOLEAN
        BY DEF ListTypeOK, Active
    <2>2. QED BY <2>1, QueryOps, QueryFields
<1>2. query' = Fetching(q) \/ (query' = q /\ q.data # NoData /\ ~q.invalid)
    BY DEF Observed
<1>3. CASE query' = Fetching(q)
    <2>1. query'.fetch = "sent" /\ query'.data = query.data /\ query'.invalid = query.invalid
        BY <1>1, <1>3
    <2>2. QED BY <1>1, <1>3, <2>1 DEF CacheInv, UpToDate, Ids
<1>4. CASE query' = q /\ q.data # NoData /\ ~q.invalid
    BY <1>4 DEF CacheInv, UpToDate, Ids
<1>5. QED BY <1>2, <1>3, <1>4

LEMMA CacheStep ==
    ASSUME ListTypeOK, CacheInv, NewsInv, ListMove
    PROVE  query' \in Query(Rows) /\ CacheInv'
<1>1. /\ query \in Query(Rows) /\ srv \in Rows /\ page' = page /\ Active \in BOOLEAN
      /\ acked \in [Ids -> 0 .. Gone] /\ srv \in [Ids -> 0 .. Gone] /\ Gone \in Nat
    BY RevsAreNat, RequestsKept DEF ListTypeOK, Rows, Active
<1>2. CASE UNCHANGED <<place, query, acked>>
    BY <1>1, <1>2 DEF CacheInv, UpToDate, Ids, Active
<1>3. Aborted(query) \in Query(Rows)
    BY <1>1, QueryOps
<1>4. CASE Enter(ui')
    <2>1. PICK q : q = IF place = "observer" THEN Aborted(query) ELSE query
        OBVIOUS
    <2>2. query' \in Observed(q) /\ UNCHANGED <<page, acked>>
        BY <1>4, <2>1 DEF Enter
    <2>3. /\ q \in Query(Rows) /\ q.fetch = "idle" /\ q.data = query.data
          /\ q.invalid = query.invalid
        <3>1. CASE place = "observer"
            BY <1>1, <1>3, <2>1, <3>1, QueryFields
        <3>2. CASE place # "observer"
            BY <1>1, <1>4, <2>1, <3>2 DEF CacheInv, Active, Enter, ListTypeOK
        <3>3. QED BY <3>1, <3>2
    <2>4. Active'
        BY <1>4 DEF Enter, Active
    <2>5. QED BY <2>2, <2>3, <2>4, CacheObserved
<1>5. CASE Leave(ui')
    <2>1. /\ Aborted(query).fetch = "idle" /\ Aborted(query).data = query.data
          /\ Aborted(query).invalid = query.invalid
        BY <1>1, QueryFields
    <2>2. CASE place' = "away" /\ query' = Aborted(query)
        BY <1>1, <1>3, <1>5, <2>1, <2>2 DEF Leave, CacheInv, UpToDate, Ids, Active
    <2>3. CASE place' = "observer" /\ query' \in Observed(Aborted(query))
        BY <1>3, <1>5, <2>1, <2>3, CacheObserved DEF Leave, Active
    <2>4. QED BY <1>5, <2>2, <2>3 DEF Leave
<1>6. CASE Refetch
    <2>1. /\ Fetching(query) \in Query(Rows) /\ Fetching(query).fetch = "sent"
          /\ Fetching(query).data = query.data /\ Fetching(query).invalid = query.invalid
        BY <1>1, QueryOps, QueryFields
    <2>2. QED BY <1>1, <1>6, <2>1 DEF Refetch, CacheInv, UpToDate, Ids, Active
<1>7. CASE ReadRows
    <2>1. Answered(query, srv) \in Query(Rows)
        BY <1>1, QueryOps
    <2>2. /\ Answered(query, srv).fetch = "answered" /\ Answered(query, srv).snap = srv
          /\ Answered(query, srv).data = query.data /\ Answered(query, srv).invalid = query.invalid
        BY <1>1, QueryFields
    <2>3. UpToDate(srv)
        BY <1>1 DEF NewsInv, UpToDate
    <2>4. QED BY <1>1, <1>7, <2>1, <2>2, <2>3 DEF ReadRows, CacheInv, UpToDate, Ids, Active
<1>8. CASE FetchFails
    <2>1. /\ Failed(query) \in Query(Rows) /\ Failed(query).fetch = "idle"
          /\ Failed(query).broken /\ Failed(query).invalid
        BY <1>1, QueryOps, QueryFields
    <2>2. QED BY <1>1, <1>8, <2>1 DEF FetchFails, CacheInv, UpToDate, Ids, Active
<1>9. CASE Receive
    <2>1. /\ Received(query) \in Query(Rows) /\ Received(query).fetch = "idle"
          /\ Received(query).data = query.snap
        BY <1>1, QueryOps, QueryFields
    <2>2. UpToDate(query.snap)
        BY <1>9 DEF Receive, CacheInv
    <2>3. QED BY <1>1, <1>9, <2>1, <2>2 DEF Receive, CacheInv, UpToDate, Ids, Active
<1>10. CASE Collect
    <2>1. Empty \in Query(Rows) /\ Empty.fetch = "idle" /\ Empty.data = NoData
        BY <1>1, QueryOps, QueryFields
    <2>2. QED BY <1>1, <1>10, <2>1 DEF Collect, CacheInv, UpToDate, Ids, Active
<1>11. ASSUME NEW s \in Slots, Serve(s) \/ Refuse(s) PROVE UNCHANGED <<place, query, acked>>
    BY <1>11, ServeStep, RefuseStep
<1>12. ASSUME NEW id \in Ids, Elsewhere(id) PROVE UNCHANGED <<place, query, acked>>
    BY <1>12 DEF Elsewhere
<1>13. ASSUME NEW k \in Kinds, NEW id \in Ids \cup {Nobody}, Send(k, id)
       PROVE  UNCHANGED <<place, query, acked>>
    BY <1>13, SendStep
<1>14. ASSUME NEW s \in Slots, Rejected(s) PROVE UNCHANGED <<place, query, acked>>
    BY <1>14 DEF Rejected
<1>15. ASSUME NEW s \in Slots, Succeeded(s) PROVE query' \in Query(Rows) /\ CacheInv'
    <2>1. CASE muts[s].kind = "trigger"
        BY <1>2, <1>15, <2>1 DEF Succeeded
    <2>2. CASE muts[s].kind # "trigger"
        <3>1. query' = Invalidated(query, Active) /\ UNCHANGED place
            BY <1>15, <2>2 DEF Succeeded
        <3>2. /\ query' \in Query(Rows) /\ query'.invalid
              /\ Active /\ ~Loading(query) => query'.fetch = "sent"
              /\ ~Active \/ Loading(query) => query'.fetch = query.fetch /\ query'.snap = query.snap
            BY <1>1, <3>1, QueryOps, InvalidatedFields
        <3>3. CASE Active /\ ~Loading(query)
            BY <1>1, <3>1, <3>2, <3>3 DEF CacheInv, Active
        <3>4. CASE ~Active
            BY <1>1, <3>1, <3>2, <3>4 DEF CacheInv, Active
        <3>5. CASE Active /\ Loading(query)
            <4>1. acked' = acked /\ query.fetch # "idle"
                BY <1>15, <3>5 DEF Succeeded, Loading
            <4>2. QED BY <1>1, <3>1, <3>2, <3>5, <4>1 DEF CacheInv, Active, UpToDate, Ids
        <3>6. QED BY <3>3, <3>4, <3>5
    <2>3. QED BY <2>1, <2>2
<1>16. CASE UNCHANGED listVars
    BY <1>2, <1>16 DEF listVars
<1>17. QED
    BY <1>2, <1>4, <1>5, <1>6, <1>7, <1>8, <1>9, <1>10, <1>11, <1>12, <1>13, <1>14, <1>15, <1>16
    DEF ListMove, Network

LEMMA ListStep == ListInv /\ ListMove => ListInv' /\ page' = page
<1> SUFFICES ASSUME ListInv, ListMove PROVE ListInv' /\ page' = page
    OBVIOUS
<1>1. /\ page' = page /\ place' \in {"page", "observer", "away"} /\ srv' \in Rows
      /\ muts' \in [Slots -> Request] /\ NewsInv' /\ acked' \in Rows
      /\ query' \in Query(Rows) /\ CacheInv' /\ page \in Pages
    BY RequestsKept, NewsStep, CacheStep DEF ListInv, ListTypeOK
<1>2. ListTypeOK'
    BY <1>1 DEF ListTypeOK, Request, Rows, Ids, Slots, Gone, MaxRev
<1>3. QED BY <1>1, <1>2 DEF ListInv

-----------------------------------------------------------------------------
(* AdminPages: the dialogs *)

JobsInv == ui \in Jobs!JobsUI /\ Jobs!DialogIsWhole

LEMMA JobsMoves ==
    ASSUME JobsInv, Jobs!Next
    PROVE  ListMove
<1>1. ui.editing \in Ids \cup {Nobody} /\ ui.confirm \in Ids \cup {Nobody}
    BY DEF JobsInv, Jobs!JobsUI, Jobs!Ids, Ids
<1>2. CASE Jobs!Enter(Jobs!Blank) \/ Jobs!Leave(Jobs!Blank) \/ Jobs!Network
    BY <1>2, VisitMoves, NetworkMoves DEF ListMove
<1>3. CASE Jobs!OpenCreate \/ Jobs!Dismiss \/ Jobs!CancelDelete
           \/ \E id \in Jobs!Ids : Jobs!OpenEdit(id) \/ Jobs!AskDelete(id)
    BY <1>3 DEF Jobs!OpenCreate, Jobs!Dismiss, Jobs!CancelDelete, Jobs!OpenEdit, Jobs!AskDelete,
        Jobs!listVars, listVars, ListMove
<1>4. CASE \/ Jobs!Submit \/ Jobs!ConfirmDelete
           \/ \E id \in Jobs!Ids : Jobs!Toggle(id) \/ Jobs!Trigger(id)
    <2>1. \E k \in Kinds, id \in Ids \cup {Nobody} : Jobs!Send(k, id)
        BY <1>1, <1>4 DEF Jobs!Submit, Jobs!ConfirmDelete, Jobs!Toggle, Jobs!Trigger, Jobs!Ids, Ids,
            Kinds
    <2>2. QED BY <2>1, SendMoves DEF ListMove
<1>5. CASE \E s \in Jobs!Slots : \/ Jobs!CreateDone(s) \/ Jobs!UpdateDone(s) \/ Jobs!DeleteDone(s)
                                 \/ Jobs!ToggleDone(s) \/ Jobs!TriggerDone(s) \/ Jobs!Failing(s)
    <2>1. \E s \in Slots : Jobs!Succeeded(s) \/ Jobs!Rejected(s)
        BY <1>5 DEF Jobs!CreateDone, Jobs!UpdateDone, Jobs!DeleteDone, Jobs!ToggleDone,
            Jobs!TriggerDone, Jobs!Failing, Jobs!Slots, Slots
    <2>2. QED BY <2>1, DoneMoves DEF ListMove
<1>6. QED BY <1>2, <1>3, <1>4, <1>5 DEF Jobs!Next

LEMMA JobsStep ==
    ASSUME JobsInv, Jobs!Next, UNCHANGED page
    PROVE  JobsInv'
<1> USE DEF Jobs!JobsUI, Jobs!Blank, Jobs!Ids, Jobs!DialogIsWhole, JobsInv
<1>1. CASE Jobs!Enter(Jobs!Blank) \/ Jobs!Leave(Jobs!Blank)
    <2>1. ui' = Jobs!Blank
        BY <1>1, VisitMoves
    <2>2. QED BY <2>1
<1>2. ASSUME UNCHANGED ui PROVE JobsInv'
    BY <1>2
<1>3. CASE Jobs!Network
    BY <1>2, <1>3, NetworkMoves
<1>4. ASSUME ui' = Jobs!Closed PROVE JobsInv'
    BY <1>4 DEF Jobs!Closed
<1>5. CASE Jobs!OpenCreate \/ \E id \in Jobs!Ids : Jobs!OpenEdit(id)
    BY <1>5 DEF Jobs!OpenCreate, Jobs!OpenEdit
<1>6. CASE Jobs!Dismiss
    BY <1>4, <1>6 DEF Jobs!Dismiss
<1>7. ASSUME NEW c \in Ids \cup {Nobody}, ui' = [ui EXCEPT !.confirm = c] PROVE JobsInv'
    BY <1>7 DEF Ids
<1>8. CASE Jobs!CancelDelete \/ \E id \in Jobs!Ids : Jobs!AskDelete(id)
    BY <1>7, <1>8 DEF Jobs!CancelDelete, Jobs!AskDelete, Ids
<1>9. CASE \/ Jobs!Submit \/ Jobs!ConfirmDelete
           \/ \E id \in Jobs!Ids : Jobs!Toggle(id) \/ Jobs!Trigger(id)
    BY <1>2, <1>9 DEF Jobs!Submit, Jobs!ConfirmDelete, Jobs!Toggle, Jobs!Trigger
<1>10. CASE \E s \in Jobs!Slots : \/ Jobs!CreateDone(s) \/ Jobs!UpdateDone(s) \/ Jobs!DeleteDone(s)
                                  \/ Jobs!ToggleDone(s) \/ Jobs!TriggerDone(s) \/ Jobs!Failing(s)
    <2>1. ui' = ui \/ ui' = Jobs!Closed \/ ui' = [ui EXCEPT !.confirm = Nobody]
        BY <1>10 DEF Jobs!CreateDone, Jobs!UpdateDone, Jobs!DeleteDone, Jobs!ToggleDone,
            Jobs!TriggerDone, Jobs!Failing
    <2>2. QED BY <1>2, <1>4, <1>7, <2>1
<1>11. QED BY <1>1, <1>3, <1>5, <1>6, <1>8, <1>9, <1>10 DEF Jobs!Next

\* A destination's dialog starts with no config, and one of another type is dropped.
StorageInv == ui \in Storage!StorageUI /\ Storage!ConfigIsOfDestination

LEMMA StorageMoves ==
    ASSUME StorageInv, Storage!Next
    PROVE  ListMove
<1>1. ui.editing \in Ids \cup {Nobody} /\ ui.confirm \in Ids \cup {Nobody}
    BY DEF StorageInv, Storage!StorageUI, Storage!Ids, Ids
<1>2. CASE Storage!Enter(Storage!Blank) \/ Storage!Leave(Storage!Blank) \/ Storage!Network
    BY <1>2, VisitMoves, NetworkMoves DEF ListMove
<1>3. CASE \/ Storage!OpenCreate \/ Storage!Dismiss \/ Storage!CancelDelete \/ Storage!SetConfig
           \/ \E t \in Types : Storage!SetType(t)
           \/ \E id \in Storage!Ids : Storage!OpenEdit(id) \/ Storage!AskDelete(id)
    BY <1>3 DEF Storage!OpenCreate, Storage!Dismiss, Storage!CancelDelete, Storage!SetConfig,
        Storage!SetType, Storage!OpenEdit, Storage!AskDelete, Storage!listVars, listVars, ListMove
<1>4. CASE Storage!Submit \/ Storage!ConfirmDelete
    <2>1. \E k \in Kinds, id \in Ids \cup {Nobody} : Storage!Send(k, id)
        BY <1>1, <1>4 DEF Storage!Submit, Storage!ConfirmDelete, Kinds
    <2>2. QED BY <2>1, SendMoves DEF ListMove
<1>5. CASE \E s \in Storage!Slots : \/ Storage!CreateDone(s) \/ Storage!UpdateDone(s)
                                    \/ Storage!DeleteDone(s) \/ Storage!Failing(s)
    <2>1. \E s \in Slots : Storage!Succeeded(s) \/ Storage!Rejected(s)
        BY <1>5 DEF Storage!CreateDone, Storage!UpdateDone, Storage!DeleteDone, Storage!Failing,
            Storage!Slots, Slots
    <2>2. QED BY <2>1, DoneMoves DEF ListMove
<1>6. QED BY <1>2, <1>3, <1>4, <1>5 DEF Storage!Next

LEMMA StorageStep ==
    ASSUME StorageInv, Storage!Next, UNCHANGED page
    PROVE  StorageInv'
<1> USE DEF Storage!StorageUI, Storage!Blank, Storage!Ids, Storage!ConfigIsOfDestination, StorageInv
<1>1. CASE Storage!Enter(Storage!Blank) \/ Storage!Leave(Storage!Blank)
    <2>1. ui' = Storage!Blank
        BY <1>1, VisitMoves
    <2>2. QED BY <2>1, AdminPagesAssumption DEF AdminPagesAssumption
<1>2. ASSUME UNCHANGED ui PROVE StorageInv'
    BY <1>2
<1>3. CASE Storage!Network
    BY <1>2, <1>3, NetworkMoves
<1>4. ASSUME ui' = Storage!Closed PROVE StorageInv'
    BY <1>4 DEF Storage!Closed
<1>5. CASE Storage!OpenCreate
    BY <1>5, AdminPagesAssumption DEF AdminPagesAssumption, Storage!OpenCreate
<1>6. CASE \E id \in Storage!Ids : Storage!OpenEdit(id)
    <2>1. PICK id \in Storage!Ids, t \in Types :
            ui' = [Storage!Blank EXCEPT !.open = TRUE, !.editing = id, !.of = id, !.type = t]
        BY <1>6 DEF Storage!OpenEdit
    <2>2. /\ ui'.of = ui'.editing /\ ui'.config = "none"
          /\ ui' \in Storage!StorageUI
        BY <2>1
    <2>3. QED BY <2>2
<1>7. CASE Storage!SetConfig \/ \E t \in Types : Storage!SetType(t)
    <2>1. CASE Storage!SetConfig
        BY <2>1 DEF Storage!SetConfig
    <2>2. ASSUME NEW t \in Types, Storage!SetType(t) PROVE StorageInv'
        BY <2>2 DEF Storage!SetType
    <2>3. QED BY <1>7, <2>1, <2>2
<1>8. CASE Storage!Dismiss
    BY <1>4, <1>8 DEF Storage!Dismiss
<1>9. ASSUME NEW c \in Ids \cup {Nobody}, ui' = [ui EXCEPT !.confirm = c] PROVE StorageInv'
    BY <1>9 DEF Ids
<1>10. CASE Storage!CancelDelete \/ \E id \in Storage!Ids : Storage!AskDelete(id)
    BY <1>9, <1>10 DEF Storage!CancelDelete, Storage!AskDelete, Ids
<1>11. CASE Storage!Submit \/ Storage!ConfirmDelete
    BY <1>2, <1>11 DEF Storage!Submit, Storage!ConfirmDelete
<1>12. CASE \E s \in Storage!Slots : \/ Storage!CreateDone(s) \/ Storage!UpdateDone(s)
                                     \/ Storage!DeleteDone(s) \/ Storage!Failing(s)
    <2>1. ui' = ui \/ ui' = Storage!Closed \/ ui' = [ui EXCEPT !.confirm = Nobody]
        BY <1>12 DEF Storage!CreateDone, Storage!UpdateDone, Storage!DeleteDone, Storage!Failing
    <2>2. QED BY <1>2, <1>4, <1>9, <2>1
<1>13. QED BY <1>1, <1>3, <1>5, <1>6, <1>7, <1>8, <1>10, <1>11, <1>12 DEF Storage!Next

\* The creations of agents whose keys the page still waits for.
Awaited(s) == muts[s].kind = "create" /\ muts[s].mine

\* There is one at most, the button knows of it, and none while a key is shown.
KeyInv ==
    /\ \A s, t \in Slots : Awaited(s) /\ Awaited(t) => s = t
    /\ \A s \in Slots : Awaited(s) => muts[s].last
    /\ ui.modal = "instructions" => \A s \in Slots : ~Awaited(s)

AgentsInv == ui \in Agents!AgentsUI

LEMMA AgentsMoves ==
    ASSUME AgentsInv, Agents!Next
    PROVE  ListMove
<1>1. ui.confirm \in Ids \cup {Nobody}
    BY DEF AgentsInv, Agents!AgentsUI, Agents!Ids, Ids
<1>2. CASE Agents!Enter(Agents!Blank) \/ Agents!Leave(Agents!Blank) \/ Agents!Network
    BY <1>2, VisitMoves, NetworkMoves DEF ListMove
<1>3. CASE \/ Agents!OpenNewAgent \/ Agents!CloseModal \/ Agents!CancelDelete
           \/ \E id \in Agents!Ids : Agents!AskDelete(id)
    BY <1>3 DEF Agents!OpenNewAgent, Agents!CloseModal, Agents!CancelDelete, Agents!AskDelete,
        Agents!listVars, listVars, ListMove
<1>4. CASE Agents!HandleCreate \/ Agents!ConfirmDelete
    <2>1. \E k \in Kinds, id \in Ids \cup {Nobody} : Agents!Send(k, id)
        BY <1>1, <1>4 DEF Agents!HandleCreate, Agents!ConfirmDelete, Kinds
    <2>2. QED BY <2>1, SendMoves DEF ListMove
<1>5. CASE \E s \in Agents!Slots : Agents!CreateDone(s) \/ Agents!DeleteDone(s) \/ Agents!Failing(s)
    <2>1. \E s \in Slots : Agents!Succeeded(s) \/ Agents!Rejected(s)
        BY <1>5 DEF Agents!CreateDone, Agents!DeleteDone, Agents!Failing, Agents!Slots, Slots
    <2>2. QED BY <2>1, DoneMoves DEF ListMove
<1>6. QED BY <1>2, <1>3, <1>4, <1>5 DEF Agents!Next

\* A request that ends was under way, and the row it answers for is of the page.
LEMMA AnsweredRow ==
    ASSUME ListInv, NEW s \in Slots, Succeeded(s)
    PROVE  muts[s].id \in Ids
BY DEF ListInv, NewsInv, Succeeded

LEMMA AgentsStep ==
    ASSUME ListInv, AgentsInv, Agents!Next, UNCHANGED page
    PROVE  AgentsInv'
<1> USE DEF Agents!AgentsUI, Agents!Blank, Agents!Ids, AgentsInv
<1>1. CASE Agents!Enter(Agents!Blank) \/ Agents!Leave(Agents!Blank)
    <2>1. ui' = Agents!Blank
        BY <1>1, VisitMoves
    <2>2. QED BY <2>1
<1>2. CASE Agents!Network
    BY <1>2, NetworkMoves
<1>3. CASE Agents!OpenNewAgent \/ Agents!CloseModal
    BY <1>3 DEF Agents!OpenNewAgent, Agents!CloseModal
<1>4. CASE Agents!CancelDelete \/ \E id \in Agents!Ids : Agents!AskDelete(id)
    BY <1>4 DEF Agents!CancelDelete, Agents!AskDelete
<1>5. CASE Agents!HandleCreate \/ Agents!ConfirmDelete
    BY <1>5 DEF Agents!HandleCreate, Agents!ConfirmDelete
<1>6. ASSUME NEW s \in Slots, Agents!CreateDone(s) PROVE AgentsInv'
    <2>1. muts[s].id \in RowIds[page]
        BY <1>6, DoneMoves, AnsweredRow DEF Agents!CreateDone, Ids
    <2>2. QED BY <1>6, <2>1 DEF Agents!CreateDone
<1>7. ASSUME NEW s \in Slots, Agents!DeleteDone(s) \/ Agents!Failing(s) PROVE AgentsInv'
    BY <1>7 DEF Agents!DeleteDone, Agents!Failing
<1>8. QED BY <1>1, <1>2, <1>3, <1>4, <1>5, <1>6, <1>7 DEF Agents!Next, Agents!Slots, Slots

\* Nothing becomes awaited but what this step sends; a key that is shown is
\* not yet there or was there before.
LEMMA KeysKept ==
    ASSUME ListInv, AgentsInv, KeyInv, Agents!Next, UNCHANGED page
    PROVE  KeyInv' /\ Agents!KeyStep
<1>1. ASSUME \A s \in Slots : Awaited(s)' => Awaited(s) /\ muts'[s].last = muts[s].last,
             ui'.modal = "instructions" => ui.modal = "instructions" \/ \A s \in Slots : ~Awaited(s)'
      PROVE  KeyInv'
    BY <1>1 DEF KeyInv, Slots
<1>2. /\ ui.modal \in {"none", "form", "instructions"}
      /\ \A s \in Slots : muts[s] \in Request
    BY DEF AgentsInv, Agents!AgentsUI, ListInv, ListTypeOK, Request
<1>3. CASE Agents!Enter(Agents!Blank)
    <2>1. ui'.modal = "none" /\ muts' = muts
        BY <1>3, VisitMoves DEF Agents!Blank
    <2>2. QED BY <1>1, <2>1 DEF Awaited, Agents!KeyStep
<1>4. CASE Agents!Leave(Agents!Blank)
    <2>1. ui'.modal = "none" /\ \A s \in Slots : ~Awaited(s)'
        BY <1>4, VisitMoves, LeaveStep DEF Agents!Blank, ListInv, Awaited
    <2>2. QED BY <1>1, <2>1 DEF Agents!KeyStep
<1>5. CASE Agents!Network
    <2>1. Network /\ UNCHANGED ui
        BY <1>5, NetworkMoves
    <2>2. \A s \in Slots : /\ muts'[s].kind = muts[s].kind /\ muts'[s].mine = muts[s].mine
                           /\ muts'[s].last = muts[s].last
        <3>1. CASE \/ Refetch \/ ReadRows \/ FetchFails \/ Receive \/ Collect
                   \/ \E id \in Ids : Elsewhere(id)
            BY <3>1 DEF Refetch, ReadRows, FetchFails, Receive, Collect, Elsewhere
        <3>2. ASSUME NEW s \in Slots, Serve(s) \/ Refuse(s), NEW t \in Slots
              PROVE  /\ muts'[t].kind = muts[t].kind /\ muts'[t].mine = muts[t].mine
                     /\ muts'[t].last = muts[t].last
            BY <3>2, ServeStep, RefuseStep DEF ListInv
        <3>3. QED BY <2>1, <3>1, <3>2 DEF Network
    <2>3. QED BY <1>1, <2>1, <2>2 DEF Awaited, Agents!KeyStep
<1>6. CASE \/ Agents!OpenNewAgent \/ Agents!CloseModal \/ Agents!CancelDelete
           \/ \E id \in Agents!Ids : Agents!AskDelete(id)
    <2>1. /\ muts' = muts
          /\ \/ ui'.modal \in {"none", "form"} /\ ui.modal # "instructions"
             \/ ui'.modal = "none"
             \/ ui'.modal = ui.modal /\ ui'.key = ui.key
        BY <1>6 DEF Agents!OpenNewAgent, Agents!CloseModal, Agents!CancelDelete, Agents!AskDelete,
            Agents!Uncovered, Agents!Blank, Agents!listVars, AgentsInv, Agents!AgentsUI
    <2>2. QED BY <1>1, <2>1 DEF Awaited, Agents!KeyStep
<1>7. CASE Agents!ConfirmDelete
    <2>1. Send("delete", ui.confirm) /\ UNCHANGED ui
        BY <1>7, SendMoves DEF Agents!ConfirmDelete
    <2>2. ui.confirm \in Ids \cup {Nobody} /\ "delete" \in Kinds
        BY DEF AgentsInv, Agents!AgentsUI, Agents!Ids, Ids, Kinds
    <2>3. \A s \in Slots : Awaited(s)' => Awaited(s) /\ muts'[s] = muts[s]
        BY <2>1, <2>2, SendStep DEF ListInv, Awaited
    <2>4. QED BY <1>1, <2>1, <2>3 DEF Agents!KeyStep
<1>8. CASE Agents!HandleCreate
    <2>1. Send("create", Nobody) /\ UNCHANGED ui /\ ui.modal = "form"
        BY <1>8, SendMoves DEF Agents!HandleCreate
    <2>2. \A s \in Slots : ~Awaited(s)
        BY <1>8 DEF Agents!HandleCreate, Agents!Pending, Agents!Slots, Slots, KeyInv, Awaited
    <2>3. "create" \in Kinds /\ Nobody \in Ids \cup {Nobody}
        BY DEF Kinds
    <2>4. PICK s \in Slots :
            /\ muts'[s].last
            /\ \A t \in Slots \ {s} : muts'[t].kind = muts[t].kind /\ muts'[t].mine = muts[t].mine
        BY <2>1, <2>3, SendStep DEF ListInv
    <2>5. \A t \in Slots : Awaited(t)' => t = s
        BY <2>2, <2>4 DEF Awaited
    <2>6. QED BY <2>1, <2>4, <2>5 DEF KeyInv, Slots, Agents!KeyStep
<1>9. ASSUME NEW s \in Slots,
             \/ Agents!CreateDone(s) \/ Agents!DeleteDone(s) \/ Agents!Failing(s)
      PROVE  KeyInv' /\ Agents!KeyStep
    <2>1. Succeeded(s) \/ Rejected(s)
        BY <1>9, DoneMoves DEF Agents!CreateDone, Agents!DeleteDone, Agents!Failing
    <2>2. \A t \in Slots : Awaited(t)' => Awaited(t) /\ muts'[t] = muts[t] /\ t # s
        BY <2>1, EndStep DEF ListInv, Awaited, Free
    <2>3. CASE Agents!CreateDone(s) /\ muts[s].mine
        <3>1. Awaited(s)
            BY <2>3 DEF Agents!CreateDone, Awaited
        <3>2. (\A t \in Slots : ~Awaited(t)') /\ ui.modal # "instructions"
            BY <2>2, <3>1 DEF KeyInv
        <3>3. QED BY <1>1, <2>2, <3>2 DEF Agents!KeyStep
    <2>4. CASE ~(Agents!CreateDone(s) /\ muts[s].mine)
        <3>1. ui'.modal = ui.modal /\ ui'.key = ui.key
            BY <1>9, <2>4 DEF Agents!CreateDone, Agents!DeleteDone, Agents!Failing, AgentsInv,
                Agents!AgentsUI
        <3>2. QED BY <1>1, <2>2, <3>1 DEF Agents!KeyStep
    <2>5. QED BY <2>3, <2>4
<1>10. QED
    BY <1>3, <1>4, <1>5, <1>6, <1>7, <1>8, <1>9 DEF Agents!Next, Agents!Slots, Slots

-----------------------------------------------------------------------------
(* AdminPages: the invariant *)

AdminInv ==
    /\ FormInv /\ SettingsInv /\ ListInv
    /\ page = "jobs" => JobsInv
    /\ page = "storage" => StorageInv
    /\ page \notin {"jobs", "storage"} => AgentsInv
    /\ page = "agents" => KeyInv

LEMMA ListStart ==
    ASSUME NEW blank, ListInit(blank)
    PROVE  ListInv /\ ui = blank /\ \A s \in Slots : ~Awaited(s)
<1>1. /\ page \in Pages /\ place = "away" /\ srv \in [Ids -> {0, 1}] /\ query = Empty
      /\ acked = [id \in Ids |-> 0] /\ muts = [s \in Slots |-> Free] /\ ui = blank
    BY DEF ListInit
<1>2. MaxRev \in Nat /\ Gone \in Nat /\ MaxRev < Gone
    BY <1>1, RevsAreNat
<1>3. srv \in Rows /\ acked \in Rows
    <2>1. 0 \in 0 .. Gone
        BY <1>2
    <2>2. 1 \in 0 .. Gone
        BY <1>2
    <2>3. QED BY <1>1, <2>1, <2>2 DEF Rows
<1>4. Free \in Request /\ Free.phase = "free" /\ Free.kind = "none"
    BY <1>2 DEF Free, Request, Kinds
<1>5. muts \in [Slots -> Request] /\ \A s \in Slots : muts[s].phase = "free" /\ muts[s].kind = "none"
    BY <1>1, <1>4
<1>6. query \in Query(Rows) /\ query.fetch = "idle" /\ query.data = NoData
    BY <1>1 DEF Empty, Query
<1>7. ListTypeOK
    BY <1>1, <1>3, <1>5, <1>6 DEF ListTypeOK, Request
<1>8. NewsInv
    BY <1>1, <1>5 DEF NewsInv
<1>9. CacheInv
    BY <1>1, <1>6 DEF CacheInv, Active
<1>10. QED BY <1>1, <1>5, <1>7, <1>8, <1>9 DEF ListInv, Awaited

LEMMA AdminStart == InitAll => AdminInv
<1> SUFFICES ASSUME InitAll PROVE AdminInv
    OBVIOUS
<1>1. FormInv /\ SettingsInv
    BY FormStart, SettingsStart DEF InitAll, AdminInit
<1>2. CASE page = "jobs"
    <2>1. Jobs!ListInit(Jobs!Blank)
        BY <1>2 DEF InitAll, AdminInit, Jobs!Init
    <2>2. ListInit(Jobs!Blank)
        BY <2>1 DEF Jobs!ListInit, ListInit, Jobs!Ids, Ids, Jobs!Slots, Slots, Jobs!Empty, Empty,
            Jobs!Free, Free
    <2>3. ListInv /\ ui = Jobs!Blank
        BY <2>2, ListStart
    <2>4. JobsInv
        BY <2>3 DEF JobsInv, Jobs!JobsUI, Jobs!Blank, Jobs!DialogIsWhole
    <2>5. QED BY <1>1, <1>2, <2>3, <2>4 DEF AdminInv
<1>3. CASE page = "storage"
    <2>1. Storage!ListInit(Storage!Blank)
        BY <1>3 DEF InitAll, AdminInit, Storage!Init
    <2>2. ListInit(Storage!Blank)
        BY <2>1 DEF Storage!ListInit, ListInit, Storage!Ids, Ids, Storage!Slots, Slots,
            Storage!Empty, Empty, Storage!Free, Free
    <2>3. ListInv /\ ui = Storage!Blank
        BY <2>2, ListStart
    <2>4. StorageInv
        BY <2>3, AdminPagesAssumption
        DEF AdminPagesAssumption, StorageInv, Storage!StorageUI, Storage!Blank,
            Storage!ConfigIsOfDestination
    <2>5. QED BY <1>1, <1>3, <2>3, <2>4 DEF AdminInv
<1>4. CASE page \notin {"jobs", "storage"}
    <2>1. Agents!ListInit(Agents!Blank)
        BY <1>4 DEF InitAll, AdminInit, Agents!Init
    <2>2. ListInit(Agents!Blank)
        BY <2>1 DEF Agents!ListInit, ListInit, Agents!Ids, Ids, Agents!Slots, Slots,
            Agents!Empty, Empty, Agents!Free, Free
    <2>3. ListInv /\ ui = Agents!Blank /\ \A s \in Slots : ~Awaited(s)
        BY <2>2, ListStart
    <2>4. AgentsInv
        BY <2>3 DEF AgentsInv, Agents!AgentsUI, Agents!Blank
    <2>5. KeyInv
        BY <2>3 DEF KeyInv
    <2>6. QED BY <1>1, <1>4, <2>3, <2>4, <2>5 DEF AdminInv
<1>5. QED BY <1>2, <1>3, <1>4

\* The page a behaviour is about does not change, and only its part of the
\* state does.
LEMMA AdminStep == AdminInv /\ [AdminNext]_adminVars => AdminInv' /\ page' = page
<1> SUFFICES ASSUME AdminInv, [AdminNext]_adminVars PROVE AdminInv' /\ page' = page
    OBVIOUS
<1>1. FormInv' /\ SettingsInv'
    <2>1. [FormNext]_formVars /\ [SettingsNext]_settingsVars
        BY DEF AdminNext, adminVars
    <2>2. QED BY <2>1, FormStep, SettingsStep DEF AdminInv
<1>2. CASE UNCHANGED lists
    <2>1. UNCHANGED <<page, place, srv, query, acked, muts, ui>>
        BY <1>2 DEF lists, listVars
    <2>2. ListInv'
        <3>1. ListMove
            BY <2>1 DEF ListMove, listVars
        <3>2. QED BY <3>1, ListStep DEF AdminInv
    <2>3. JobsInv => JobsInv'
        BY <2>1 DEF JobsInv, Jobs!JobsUI, Jobs!Ids, Jobs!DialogIsWhole
    <2>4. StorageInv => StorageInv'
        BY <2>1 DEF StorageInv, Storage!StorageUI, Storage!Ids, Storage!ConfigIsOfDestination
    <2>5. (AgentsInv => AgentsInv') /\ (KeyInv => KeyInv')
        BY <2>1 DEF AgentsInv, Agents!AgentsUI, Agents!Ids, KeyInv, Awaited, Slots
    <2>6. QED BY <1>1, <2>1, <2>2, <2>3, <2>4, <2>5 DEF AdminInv
<1>3. CASE page = "jobs" /\ Jobs!Next
    <2>1. ListInv' /\ page' = page
        BY <1>3, JobsMoves, ListStep DEF AdminInv
    <2>2. QED BY <1>1, <1>3, <2>1, JobsStep DEF AdminInv
<1>4. CASE page = "storage" /\ Storage!Next
    <2>1. ListInv' /\ page' = page
        BY <1>4, StorageMoves, ListStep DEF AdminInv
    <2>2. QED BY <1>1, <1>4, <2>1, StorageStep DEF AdminInv
<1>5. CASE page = "agents" /\ Agents!Next
    <2>1. ListInv' /\ page' = page
        BY <1>5, AgentsMoves, ListStep DEF AdminInv
    <2>2. QED BY <1>1, <1>5, <2>1, AgentsStep, KeysKept DEF AdminInv
<1>6. QED BY <1>2, <1>3, <1>4, <1>5 DEF AdminNext, adminVars

THEOREM AdminInductive == AdminSpec => []AdminInv
<1>1. QED BY AdminStart, AdminStep, PTL DEF AdminSpec

-----------------------------------------------------------------------------
(* AdminPages: the theorems *)

\* Every variable of the pages keeps its type: a form is of a job there is, a
\* request of a row of its page, and a revision within its bounds.
THEOREM AdminTypeCorrect == AdminSpec => []AdminTypeOK
<1>1. AdminInv => AdminTypeOK
    <2> SUFFICES ASSUME AdminInv PROVE AdminTypeOK
        OBVIOUS
    <2>1. FormTypeOK
        BY DEF AdminInv, FormInv
    <2>2. SettingsTypeOK
        BY DEF AdminInv, SettingsInv, FieldsInv, RowsInv, SaveRecord, Phases, SettingsTypeOK
    <2>3. ListTypeOK
        BY DEF AdminInv, ListInv
    <2>4. Jobs!ListTypeOK /\ Storage!ListTypeOK /\ Agents!ListTypeOK
        BY <2>3 DEF ListTypeOK, Rows, Ids, Slots, Gone, MaxRev, Kinds, Query,
            Jobs!ListTypeOK, Jobs!Rows, Jobs!Ids, Jobs!Slots, Jobs!Gone, Jobs!MaxRev, Jobs!Kinds,
            Jobs!Query, Storage!ListTypeOK, Storage!Rows, Storage!Ids, Storage!Slots, Storage!Gone,
            Storage!MaxRev, Storage!Kinds, Storage!Query, Agents!ListTypeOK, Agents!Rows,
            Agents!Ids, Agents!Slots, Agents!Gone, Agents!MaxRev, Agents!Kinds, Agents!Query
    <2>5. CASE page = "jobs"
        BY <2>1, <2>2, <2>4, <2>5 DEF AdminInv, AdminTypeOK, JobsInv, Jobs!JobsTypeOK
    <2>6. CASE page = "storage"
        BY <2>1, <2>2, <2>4, <2>6 DEF AdminInv, AdminTypeOK, StorageInv, Storage!StorageTypeOK
    <2>7. CASE page \notin {"jobs", "storage"}
        BY <2>1, <2>2, <2>4, <2>7 DEF AdminInv, AdminTypeOK, AgentsInv, Agents!AgentsTypeOK
    <2>8. QED BY <2>5, <2>6, <2>7
<1>2. QED BY <1>1, AdminInductive, PTL

\* A page that shows its list as final shows what its own requests were told of
\* (the invalidations of Jobs.tsx, Storage.tsx and Agents.tsx), for any number
\* of rows, revisions and requests.
THEOREM ReadYourWritesHolds == AdminSpec => []ReadYourWrites
<1>1. AdminInv => ReadYourWrites
    BY DEF AdminInv, ListInv, CacheInv, UpToDate, Active, ReadYourWrites
<1>2. QED BY <1>1, AdminInductive, PTL

\* The dialog of Jobs.tsx shows the job it will write.
THEOREM DialogIsWholeHolds == AdminSpec => []DialogIsWhole
<1>1. AdminInv => DialogIsWhole
    BY DEF AdminInv, JobsInv, DialogIsWhole
<1>2. QED BY <1>1, AdminInductive, PTL

\* What Storage.tsx saves for a destination belongs to it.
THEOREM ConfigIsOfDestinationHolds == AdminSpec => []ConfigIsOfDestination
<1>1. AdminInv => ConfigIsOfDestination
    BY DEF AdminInv, StorageInv, ConfigIsOfDestination
<1>2. QED BY <1>1, AdminInductive, PTL

\* No late answer replaces the key that Agents.tsx shows.
THEOREM KeyIsNotReplacedHolds == AdminSpec => KeyIsNotReplaced
<1>1. AdminInv /\ [AdminNext]_adminVars => [page = "agents" => Agents!KeyStep]_adminVars
    <2> SUFFICES ASSUME AdminInv, [AdminNext]_adminVars, page = "agents", ~UNCHANGED adminVars
                 PROVE  Agents!KeyStep
        OBVIOUS
    <2>1. CASE Agents!Next
        <3>1. page' = page
            BY AdminStep
        <3>2. QED BY <2>1, <3>1, KeysKept DEF AdminInv
    <2>2. QED BY <2>1 DEF AdminNext
<1>2. QED BY <1>1, AdminInductive, PTL DEF AdminSpec, KeyIsNotReplaced

\* A job that Jobs.tsx saves describes a source of its own type.
THEOREM SourceFitsTypeHolds == AdminSpec => []SourceFitsType
<1>1. AdminInv => SourceFitsType
    BY DEF AdminInv, FormInv
<1>2. QED BY <1>1, AdminInductive, PTL

\* No answer overwrites what is typed into Settings.tsx after it was filled.
THEOREM TypingIsKeptHolds == AdminSpec => []TypingIsKept
<1>1. AdminInv => TypingIsKept
    BY DEF AdminInv, SettingsInv, FieldsInv
<1>2. QED BY <1>1, AdminInductive, PTL

\* Saves that do not overlap leave one row, the last, for any number of saves
\* (handleUpdateNotificationSettings).
THEOREM LastSaveWinsHolds == AdminSpec => []LastSaveWins
<1>1. AdminInv => LastSaveWins
    BY DEF AdminInv, SettingsInv, SavesInv, LastSaveWins
<1>2. QED BY <1>1, AdminInductive, PTL

\* A configuration that is stored is never absent again, overlapping saves and
\* failing statements included.
THEOREM ConfigurationStaysHolds == AdminSpec => ConfigurationStays
<1>1. [AdminNext]_adminVars => [stored # {} => stored' # {}]_settingsVars
    <2> SUFFICES ASSUME [AdminNext]_adminVars, stored # {}, ~UNCHANGED settingsVars
                 PROVE  stored' # {}
        OBVIOUS
    <2>1. SettingsNext
        BY DEF AdminNext, adminVars
    <2>2. ASSUME NEW s \in Savers, Commit(s) PROVE stored' # {}
        BY <2>2 DEF Commit
    <2>3. \/ UNCHANGED stored
          \/ \E s \in Savers : Commit(s)
        BY <2>1 DEF SettingsNext, EnterSettings, LeaveSettings, RefetchSettings, ReadSettings,
            FetchSettingsFails, ReceiveSettings, Edit, SubmitSettings, SubmitElsewhere,
            SaveAnswered, BeginDelete, Delete, Rollback
    <2>4. QED BY <2>2, <2>3
<1>2. QED BY <1>1, PTL DEF AdminSpec, ConfigurationStays
=============================================================================
