----------------------------- MODULE LogFanoutProofs -----------------------------
(***************************************************************************)
(* Theorems about LogFanout: the console's ring, for every size of it.     *)
(***************************************************************************)
EXTENDS LogFanout, TLAPS, SequenceTheorems

USE FanoutAssumption DEF FanoutAssumption

(* Where each line is: below head are the newest lines, and, once the ring *)
(* has wrapped, from head on the ones before them.                         *)
RingInv ==
    /\ history \in [0 .. Size - 1 -> Nat]
    /\ head \in 0 .. Size - 1 /\ full \in BOOLEAN /\ count \in Nat
    /\ count >= head
    /\ ~full => count = head
    /\ full => count >= Size + head
    /\ \A i \in 0 .. head - 1 : history[i] = count - head + i + 1
    /\ full => \A i \in head .. Size - 1 : history[i] = count - Size - head + i + 1

\* The first line of the console finds an empty ring (NewConsoleHub).
LEMMA RingInit == Init => RingInv
<1>1. SUFFICES ASSUME Init PROVE RingInv
    OBVIOUS
<1>2. history = [i \in 0 .. Size - 1 |-> 0] /\ head = 0 /\ full = FALSE /\ count = 0
    BY <1>1 DEF Init
<1>3. history \in [0 .. Size - 1 -> Nat] /\ head \in 0 .. Size - 1
    BY <1>2
<1>4. \A i \in 0 .. head - 1 : history[i] = count - head + i + 1
    BY <1>2
<1>5. ~full /\ full \in BOOLEAN
    BY <1>2
<1>6. count \in Nat /\ count >= head /\ count = head
    BY <1>2
<1>7. QED BY <1>3, <1>4, <1>5, <1>6 DEF RingInv

\* ConsoleHub.Write keeps every line in its place, also when head wraps.
LEMMA RingWrite ==
    ASSUME RingInv, count' = count + 1, AppendHistory(count + 1)
    PROVE  RingInv'
<1>1. CASE head + 1 = Size
    <2>1. head' = 0 /\ full' = TRUE
        BY <1>1 DEF AppendHistory
    <2>2. \A i \in 0 .. Size - 1 : history'[i] = count' - Size + i + 1
        <3>1. TAKE i \in 0 .. Size - 1
        <3>2. CASE i = head
            BY <1>1, <3>2 DEF AppendHistory, RingInv
        <3>3. CASE i # head
            BY <1>1, <3>3 DEF AppendHistory, RingInv
        <3>4. QED BY <3>2, <3>3
    <2>3. history' \in [0 .. Size - 1 -> Nat] /\ count' \in Nat /\ count' >= Size
        BY <1>1 DEF AppendHistory, RingInv
    <2>4. QED BY <2>1, <2>2, <2>3 DEF RingInv
<1>2. CASE head + 1 # Size
    <2>1. head' = head + 1 /\ full' = full /\ head' \in 1 .. Size - 1
        BY <1>2 DEF AppendHistory, RingInv
    <2>2. history' \in [0 .. Size - 1 -> Nat] /\ count' \in Nat
        BY DEF AppendHistory, RingInv
    <2>3. \A i \in 0 .. head' - 1 : history'[i] = count' - head' + i + 1
        BY <2>1, SMTT(30) DEF AppendHistory, RingInv
    <2>4. full' => \A i \in head' .. Size - 1 : history'[i] = count' - Size - head' + i + 1
        BY <2>1 DEF AppendHistory, RingInv
    <2>5. QED BY <2>1, <2>2, <2>3, <2>4 DEF RingInv
<1>3. QED BY <1>1, <1>2

\* Nothing but ConsoleHub.Write touches the ring.
LEMMA RingStep == RingInv /\ [Next]_vars => RingInv'
<1>1. SUFFICES ASSUME RingInv, [Next]_vars PROVE RingInv'
    OBVIOUS
<1>2. CASE UNCHANGED ringVars
    BY <1>1, <1>2 DEF RingInv, ringVars
<1>3. ASSUME NEW w \in Writers, Write(w) PROVE RingInv'
    BY <1>1, <1>3, RingWrite DEF Write
<1>4. ASSUME NEW w \in Writers, WriterStep(w) PROVE UNCHANGED ringVars \/ Write(w)
    BY <1>4 DEF WriterStep, Progress, Verdict, Announce, SendTo, SendPanics
<1>5. ASSUME NEW v \in Viewers, ViewerStep(v) PROVE UNCHANGED ringVars
    BY <1>5 DEF ViewerStep, JoinConsole, JoinRun, Subscribe, CatchUp, Replay, CheckStatus,
                Deliver, BrowserGone, Leave, Unsubscribe, CloseChan
<1>6. Cancel => UNCHANGED ringVars
    BY DEF Cancel
<1>7. UNCHANGED vars => UNCHANGED ringVars
    BY DEF vars, ringVars
<1>8. QED BY <1>1, <1>2, <1>3, <1>4, <1>5, <1>6, <1>7 DEF Next

\* The loops of ConsoleHub.snapshot read the lines oldest first.
LEMMA RingRead == RingInv => RingIsTail
<1>1. SUFFICES ASSUME RingInv PROVE RingIsTail
    OBVIOUS
<1>2. CASE full
    <2>1. snapshot = [i \in 1 .. Size |-> history[IF head + i <= Size THEN head + i - 1
                                                    ELSE head + i - 1 - Size]]
        BY <1>2 DEF snapshot
    <2>2. DOMAIN snapshot = 1 .. Size
        BY <2>1
    <2>3. \A i \in 1 .. Size : snapshot[i] = count - Size + i
        <3>1. TAKE i \in 1 .. Size
        <3>2. CASE head + i <= Size
            BY <1>1, <1>2, <2>1, <3>2 DEF RingInv
        <3>3. CASE ~(head + i <= Size)
            BY <1>1, <1>2, <2>1, <3>3 DEF RingInv
        <3>4. QED BY <3>2, <3>3
    <2>4. snapshot \in Seq(Nat)
        BY <1>1, <2>1, <2>2, <1>2 DEF RingInv
    <2>5. Len(snapshot) = Size
        BY <2>2, <2>4
    <2>6. QED BY <1>1, <1>2, <2>2, <2>3, <2>5 DEF RingIsTail, RingInv
<1>3. CASE ~full
    <2>1. snapshot = [i \in 1 .. head |-> history[i - 1]]
        BY <1>3 DEF snapshot
    <2>2. DOMAIN snapshot = 1 .. head /\ head \in Nat /\ count = head
        BY <1>1, <1>3, <2>1 DEF RingInv
    <2>3. \A i \in 1 .. head : snapshot[i] = i /\ snapshot[i] \in Nat
        BY <1>1, <1>3, <2>1 DEF RingInv
    <2>4. snapshot \in [1 .. head -> Nat]
        BY <2>1, <2>3
    <2>5. snapshot \in Seq(Nat)
        BY <2>2, <2>4
    <2>6. Len(snapshot) = head
        BY <2>2, <2>5
    <2>7. QED BY <1>1, <2>2, <2>3, <2>6 DEF RingIsTail, RingInv
<1>4. QED BY <1>1, <1>2, <1>3 DEF RingInv

\* A new viewer of the console is always shown the last Size lines, in order.
THEOREM RingIsTailHolds == Spec => []RingIsTail
<1>1. Spec => []RingInv
    BY RingInit, RingStep, PTL DEF Spec
<1>2. QED BY <1>1, RingRead, PTL

-----------------------------------------------------------------------------
(* Types *)

\* Every field of the server is made before its first use.
LEMMA TypeInit == Init => TypeOK
<1>1. SUFFICES ASSUME Init PROVE TypeOK
    OBVIOUS
<1>2. chan = [v \in Viewers |-> <<>>] /\ chan \in [Viewers -> Seq(Nat)]
    BY <1>1 DEF Init
<1>3. \A v \in Viewers : Len(chan[v]) <= BufCap
    BY <1>2
<1>4. history \in [0 .. Size - 1 -> Nat] /\ head \in 0 .. Size - 1 /\ count \in Nat
    BY <1>1 DEF Init
<1>5. full \in BOOLEAN /\ reported \in BOOLEAN
    BY <1>1 DEF Init
<1>6. QED BY <1>1, <1>2, <1>3, <1>4, <1>5 DEF Init, TypeOK, Streams

\* A critical section leaves its writer typed.
LEMMA BroadcastType ==
    ASSUME TypeOK, NEW w \in Writers, NEW s \in Streams, NEW line \in Nat,
           Broadcast(w, s, line)
    PROVE  /\ wpc' \in [Writers -> {"idle", "verdict", "sending", "panicked"}]
           /\ wline' \in [Writers -> Nat]
           /\ wsubs' \in [Writers -> SUBSET Viewers]
BY DEF Broadcast, TypeOK

\* The writers' steps keep the types, and no channel exceeds its capacity.
LEMMA WriterType ==
    ASSUME TypeOK, RingInv', NEW w \in Writers, WriterStep(w)
    PROVE  TypeOK'
<1>1. CASE Write(w)
    <2>1. /\ wpc' \in [Writers -> {"idle", "verdict", "sending", "panicked"}]
          /\ wline' \in [Writers -> Nat]
          /\ wsubs' \in [Writers -> SUBSET Viewers]
        BY <1>1, BroadcastType DEF Write, Streams, TypeOK
    <2>2. UNCHANGED <<status, reported, subs, chan, closed, phase, stream, alive, from,
                      seen, missed>>
        BY <1>1 DEF Write, runVars, viewVars
    <2>3. QED BY <2>1, <2>2 DEF TypeOK, RingInv
<1>2. CASE Progress(w) \/ Announce(w)
    <2>1. /\ wpc' \in [Writers -> {"idle", "verdict", "sending", "panicked"}]
          /\ wline' \in [Writers -> Nat]
          /\ wsubs' \in [Writers -> SUBSET Viewers]
        BY <1>2, BroadcastType DEF Progress, Announce, Streams, ProgressLine, EndLine
    <2>2. UNCHANGED <<history, head, full, count, status, reported, subs, chan, closed,
                      phase, stream, alive, from, seen, missed>>
        BY <1>2 DEF Progress, Announce, ringVars, runVars, viewVars
    <2>3. QED BY <2>1, <2>2 DEF TypeOK
<1>3. CASE Verdict(w)
    <2>1. /\ wpc' \in [Writers -> {"idle", "verdict", "sending", "panicked"}]
          /\ status' \in {"running", "ended", "cancelled"}
          /\ reported' = TRUE
        BY <1>3 DEF Verdict, TypeOK
    <2>2. UNCHANGED <<history, head, full, count, subs, chan, closed, wline, wsubs, phase,
                      stream, alive, from, seen, missed>>
        BY <1>3 DEF Verdict, ringVars, viewVars
    <2>3. QED BY <2>1, <2>2 DEF TypeOK
<1>4. ASSUME NEW v \in Viewers, SendTo(w, v) PROVE TypeOK'
    <2>1. chan[v] \in Seq(Nat) /\ wline[w] \in Nat /\ Len(chan[v]) \in Nat
        BY DEF TypeOK
    <2>2. /\ Append(chan[v], wline[w]) \in Seq(Nat)
          /\ Len(Append(chan[v], wline[w])) = Len(chan[v]) + 1
        BY <2>1
    <2>3. /\ chan' \in [Viewers -> Seq(Nat)] /\ missed' \in [Viewers -> SUBSET Nat]
          /\ \A u \in Viewers : Len(chan'[u]) <= BufCap
        <3>1. CASE Room(v)
            <4>1. chan' = [chan EXCEPT ![v] = Append(chan[v], wline[w])] /\ missed' = missed
                BY <1>4, <3>1 DEF SendTo
            <4>2. Len(chan[v]) + 1 <= BufCap
                BY <2>1, <3>1 DEF Room
            <4>3. QED BY <2>2, <4>1, <4>2 DEF TypeOK
        <3>2. CASE ~Room(v)
            <4>1. chan' = chan /\ missed' = [missed EXCEPT ![v] = @ \cup {wline[w]}]
                BY <1>4, <3>2 DEF SendTo
            <4>2. QED BY <2>1, <4>1 DEF TypeOK
        <3>3. QED BY <3>1, <3>2
    <2>4. /\ wsubs' \in [Writers -> SUBSET Viewers]
          /\ wpc' \in [Writers -> {"idle", "verdict", "sending", "panicked"}]
        BY <1>4 DEF SendTo, TypeOK
    <2>5. UNCHANGED <<history, head, full, count, status, reported, subs, closed, wline,
                      phase, stream, alive, from, seen>>
        BY <1>4 DEF SendTo, ringVars, runVars, viewVars
    <2>6. QED BY <2>3, <2>4, <2>5 DEF TypeOK
<1>5. ASSUME NEW v \in Viewers, SendPanics(w, v) PROVE TypeOK'
    <2>1. missed' \in [Viewers -> SUBSET Nat]
        BY <1>5 DEF SendPanics, TypeOK
    <2>2. /\ wsubs' \in [Writers -> SUBSET Viewers]
          /\ wpc' \in [Writers -> {"idle", "verdict", "sending", "panicked"}]
        BY <1>5 DEF SendPanics, TypeOK
    <2>3. UNCHANGED <<history, head, full, count, status, reported, subs, chan, closed,
                      wline, phase, stream, alive, from, seen>>
        BY <1>5 DEF SendPanics, ringVars, runVars, viewVars
    <2>4. QED BY <2>1, <2>2, <2>3 DEF TypeOK
<1>6. QED BY <1>1, <1>2, <1>3, <1>4, <1>5 DEF WriterStep

\* A viewer is sent lines of the ring, and no more lines than were written.
LEMMA ReplayType ==
    ASSUME RingInv
    PROVE  count - Len(snapshot) \in Nat /\ {snapshot[i] : i \in DOMAIN snapshot} \subseteq Nat
<1>1. RingIsTail
    BY RingRead
<1>2. Len(snapshot) \in Nat /\ Len(snapshot) <= count
    BY <1>1 DEF RingIsTail, RingInv
<1>3. QED BY <1>1, <1>2 DEF RingIsTail, RingInv

\* The viewers' steps keep the types.
LEMMA ViewerType ==
    ASSUME TypeOK, RingInv, NEW v \in Viewers, ViewerStep(v)
    PROVE  TypeOK'
<1> USE DEF ringVars, runVars, writerVars
<1>1. CASE Subscribe(v)
    <2>1. subs' \in [Streams -> SUBSET Viewers]
        BY <1>1 DEF Subscribe, TypeOK
    <2>2. QED BY <1>1, <2>1 DEF Subscribe, TypeOK
<1>2. CASE CatchUp(v)
    <2>1. from' \in [Viewers -> Nat] /\ seen' \in [Viewers -> SUBSET Nat]
        BY <1>2, ReplayType DEF CatchUp, Replay, TypeOK
    <2>2. QED BY <1>2, <2>1 DEF CatchUp, Replay, TypeOK
<1>3. CASE CheckStatus(v)
    BY <1>3 DEF CheckStatus, TypeOK
<1>4. CASE Deliver(v)
    <2>1. chan' \in [Viewers -> Seq(Nat)] /\ seen' \in [Viewers -> SUBSET Nat]
        BY <1>4 DEF Deliver, TypeOK
    <2>2. \A u \in Viewers : Len(chan'[u]) <= BufCap
        BY <1>4 DEF Deliver, TypeOK
    <2>3. QED BY <1>4, <2>1, <2>2 DEF Deliver, TypeOK
<1>5. CASE BrowserGone(v) \/ Leave(v) \/ CloseChan(v)
    BY <1>5 DEF BrowserGone, Leave, CloseChan, TypeOK
<1>6. CASE Unsubscribe(v)
    <2>1. subs' \in [Streams -> SUBSET Viewers]
        BY <1>6 DEF Unsubscribe, TypeOK
    <2>2. /\ phase' \in {[phase EXCEPT ![v] = "done"], [phase EXCEPT ![v] = "removed"]}
          /\ closed' \in {closed, closed \cup {v}}
        BY <1>6 DEF Unsubscribe
    <2>3. /\ closed' \subseteq Viewers
          /\ phase' \in [Viewers -> {"new", "joining", "streaming", "leaving", "removed", "done"}]
        BY <2>2 DEF TypeOK
    <2>4. UNCHANGED <<history, head, full, count, status, reported, chan, wpc, wline, wsubs,
                      stream, alive, from, seen, missed>>
        BY <1>6 DEF Unsubscribe
    <2>5. QED BY <2>1, <2>3, <2>4 DEF TypeOK
<1>7. QED BY <1>1, <1>2, <1>3, <1>4, <1>5, <1>6 DEF ViewerStep, JoinConsole, JoinRun

LEMMA TypeStep == TypeOK /\ RingInv /\ [Next]_vars => TypeOK'
<1>1. SUFFICES ASSUME TypeOK, RingInv, [Next]_vars PROVE TypeOK'
    OBVIOUS
<1>2. RingInv'
    BY <1>1, RingStep
<1>3. CASE Cancel
    BY <1>1, <1>3 DEF Cancel, TypeOK, ringVars, writerVars, viewVars
<1>4. CASE UNCHANGED vars
    BY <1>1, <1>4 DEF vars, TypeOK
<1>5. QED BY <1>1, <1>2, <1>3, <1>4, WriterType, ViewerType DEF Next

\* Every variable of the streams keeps its type; no channel exceeds its capacity.
THEOREM TypeCorrect == Spec => []TypeOK
<1>1. Init => TypeOK /\ RingInv
    BY TypeInit, RingInit
<1>2. TypeOK /\ RingInv /\ [Next]_vars => (TypeOK /\ RingInv)'
    BY TypeStep, RingStep
<1>3. QED BY <1>1, <1>2, PTL DEF Spec

-----------------------------------------------------------------------------
(* A line owed to a viewer stays owed until the viewer has it *)

\* Only a writer that is sending has viewers left to serve.
WriterInv == \A w \in Writers : wpc[w] # "sending" => wsubs[w] = {}

\* What is in a channel, after a send and after a receive.
LEMMA AppendElements ==
    ASSUME NEW q \in Seq(Nat), NEW x \in Nat
    PROVE  /\ \E i \in DOMAIN Append(q, x) : Append(q, x)[i] = x
           /\ \A i \in DOMAIN q : i \in DOMAIN Append(q, x) /\ Append(q, x)[i] = q[i]
<1>1. Len(q) + 1 \in DOMAIN Append(q, x) /\ Append(q, x)[Len(q) + 1] = x
    OBVIOUS
<1>2. QED BY <1>1

LEMMA TailElements ==
    ASSUME NEW q \in Seq(Nat), q # <<>>, NEW y, \E i \in DOMAIN q : q[i] = y
    PROVE  y = Head(q) \/ \E i \in DOMAIN Tail(q) : Tail(q)[i] = y
<1>1. PICK i \in DOMAIN q : q[i] = y
    OBVIOUS
<1>2. CASE i = 1
    BY <1>1, <1>2
<1>3. CASE i # 1
    <2>1. i - 1 \in DOMAIN Tail(q) /\ Tail(q)[i - 1] = y
        BY <1>1, <1>3
    <2>2. QED BY <2>1
<1>4. QED BY <1>2, <1>3

\* The ways to be owed a line, one by one.
LEMMA OwedCases ==
    ASSUME NEW u, NEW line
    PROVE  Owed(u, line) <=> \/ line \in seen[u] \/ line \in missed[u]
                             \/ \E i \in DOMAIN chan[u] : chan[u][i] = line
                             \/ \E w \in Writers : wline[w] = line /\ u \in wsubs[w]
BY DEF Owed, Queued, Pending

\* A new broadcast takes no other line from anybody.
LEMMA OwedBroadcast ==
    ASSUME TypeOK, WriterInv, NEW w \in Writers, NEW s, NEW line, wpc[w] # "sending",
           Broadcast(w, s, line), UNCHANGED <<seen, chan, missed>>,
           NEW u \in Viewers, NEW l, Owed(u, l)
    PROVE  Owed(u, l)'
<1>1. CASE \E x \in Writers : wline[x] = l /\ u \in wsubs[x]
    <2>1. PICK x \in Writers : wline[x] = l /\ u \in wsubs[x]
        BY <1>1
    <2>2. x # w
        BY <2>1 DEF WriterInv
    <2>3. wline'[x] = l /\ u \in wsubs'[x]
        BY <2>1, <2>2 DEF Broadcast, TypeOK
    <2>4. QED BY <2>3 DEF Owed, Pending
<1>2. CASE l \in seen[u] \cup Queued(u) \cup missed[u]
    BY <1>2 DEF Owed, Queued
<1>3. QED BY <1>1, <1>2 DEF Owed, Pending

\* A send moves its line from the writer to the channel or to the dropped ones.
LEMMA OwedSend ==
    ASSUME TypeOK, NEW w \in Writers, NEW v \in Viewers, SendTo(w, v),
           NEW u \in Viewers, NEW l, Owed(u, l)
    PROVE  Owed(u, l)'
<1>1. chan[v] \in Seq(Nat) /\ wline[w] \in Nat /\ seen' = seen /\ wline' = wline
    BY DEF TypeOK, SendTo, viewVars
<1>2. CASE Room(v)
    <2>1. chan' = [chan EXCEPT ![v] = Append(chan[v], wline[w])] /\ missed' = missed
        BY <1>2 DEF SendTo
    <2>2. \A i \in DOMAIN chan[u] : chan[u][i] = l
                => \E k \in DOMAIN chan'[u] : chan'[u][k] = l
        <3>1. CASE u = v
            <4>1. chan'[u] = Append(chan[v], wline[w])
                BY <2>1, <3>1 DEF TypeOK
            <4>2. \A i \in DOMAIN chan[v] :
                      /\ i \in DOMAIN Append(chan[v], wline[w])
                      /\ Append(chan[v], wline[w])[i] = chan[v][i]
                BY <1>1, AppendElements
            <4>3. QED BY <3>1, <4>1, <4>2
        <3>2. CASE u # v
            BY <2>1, <3>2 DEF TypeOK
        <3>3. QED BY <3>1, <3>2
    <2>3. ASSUME NEW x \in Writers, wline[x] = l, u \in wsubs[x]
          PROVE  \/ wline'[x] = l /\ u \in wsubs'[x]
                 \/ \E k \in DOMAIN chan'[u] : chan'[u][k] = l
        <3>1. CASE x = w /\ u = v
            <4>1. chan'[u] = Append(chan[v], wline[w])
                BY <2>1, <3>1 DEF TypeOK
            <4>2. \E k \in DOMAIN Append(chan[v], wline[w]) :
                      Append(chan[v], wline[w])[k] = wline[w]
                BY <1>1, AppendElements
            <4>3. QED BY <2>3, <3>1, <4>1, <4>2
        <3>2. CASE ~(x = w /\ u = v)
            BY <1>1, <2>3, <3>2 DEF SendTo, TypeOK
        <3>3. QED BY <3>1, <3>2
    <2>4. QED BY <1>1, <2>1, <2>2, <2>3 DEF Owed, Pending, Queued
<1>3. CASE ~Room(v)
    <2>1. chan' = chan /\ missed' = [missed EXCEPT ![v] = @ \cup {wline[w]}]
        BY <1>3 DEF SendTo
    <2>2. missed[u] \subseteq missed'[u]
        BY <2>1 DEF TypeOK
    <2>3. ASSUME NEW x \in Writers, wline[x] = l, u \in wsubs[x]
          PROVE  (wline'[x] = l /\ u \in wsubs'[x]) \/ l \in missed'[u]
        <3>1. CASE x = w /\ u = v
            BY <2>1, <2>3, <3>1 DEF TypeOK
        <3>2. CASE ~(x = w /\ u = v)
            BY <1>1, <2>3, <3>2 DEF SendTo, TypeOK
        <3>3. QED BY <3>1, <3>2
    <2>4. QED BY <1>1, <2>1, <2>2, <2>3 DEF Owed, Pending, Queued
<1>4. QED BY <1>2, <1>3

\* A panic counts the line as missed by everyone not served yet.
LEMMA OwedPanic ==
    ASSUME TypeOK, NEW w \in Writers, NEW v \in Viewers, SendPanics(w, v),
           NEW u \in Viewers, NEW l, Owed(u, l)
    PROVE  Owed(u, l)'
<1>1. seen' = seen /\ chan' = chan /\ wline' = wline
    BY DEF SendPanics, viewVars
<1>2. missed[u] \subseteq missed'[u]
    BY DEF SendPanics
<1>3. ASSUME NEW x \in Writers, wline[x] = l, u \in wsubs[x]
      PROVE  (wline'[x] = l /\ u \in wsubs'[x]) \/ l \in missed'[u]
    <2>1. CASE x = w
        BY <1>3, <2>1 DEF SendPanics
    <2>2. CASE x # w
        BY <1>1, <1>3, <2>2 DEF SendPanics, TypeOK
    <2>3. QED BY <2>1, <2>2
<1>4. QED BY <1>1, <1>2, <1>3 DEF Owed, Pending, Queued

\* A receive moves the line from the channel to the browser.
LEMMA OwedDeliver ==
    ASSUME TypeOK, NEW v \in Viewers, Deliver(v), NEW u \in Viewers, NEW l, Owed(u, l)
    PROVE  Owed(u, l)'
<1>1. chan[v] \in Seq(Nat) /\ chan[v] # <<>>
    BY DEF Deliver, TypeOK
<1>2. UNCHANGED <<missed, wline, wsubs>>
    BY DEF Deliver, writerVars
<1>3. seen[u] \subseteq seen'[u]
    BY DEF Deliver, TypeOK
<1>4. ASSUME NEW i \in DOMAIN chan[u], chan[u][i] = l
      PROVE  l \in seen'[u] \/ \E k \in DOMAIN chan'[u] : chan'[u][k] = l
    <2>1. CASE u = v
        <3>1. l = Head(chan[v]) \/ \E k \in DOMAIN Tail(chan[v]) : Tail(chan[v])[k] = l
            BY <1>1, <1>4, <2>1, TailElements
        <3>2. seen'[u] = seen[u] \cup {Head(chan[v])} /\ chan'[u] = Tail(chan[v])
            BY <2>1 DEF Deliver, TypeOK
        <3>3. QED BY <3>1, <3>2
    <2>2. CASE u # v
        BY <1>4, <2>2 DEF Deliver, TypeOK
    <2>3. QED BY <2>1, <2>2
<1>5. QED BY <1>2, <1>3, <1>4 DEF Owed, Pending, Queued

\* A viewer that has caught up is owed what it was owed, after any step.
LEMMA OwedKept ==
    ASSUME TypeOK, WriterInv, [Next]_vars,
           NEW u \in Viewers, phase[u] # "joining", NEW l, Owed(u, l)
    PROVE  Owed(u, l)'
<1>1. CASE UNCHANGED <<seen, chan, missed, wline, wsubs>>
    BY <1>1 DEF Owed, Pending, Queued
<1>2. ASSUME NEW w \in Writers, WriterStep(w) PROVE Owed(u, l)'
    <2>1. CASE Write(w)
        BY <2>1, OwedBroadcast DEF Write, viewVars
    <2>2. CASE Progress(w)
        BY <2>2, OwedBroadcast DEF Progress, viewVars
    <2>3. CASE Announce(w)
        BY <2>3, OwedBroadcast DEF Announce, viewVars
    <2>4. CASE Verdict(w)
        BY <1>1, <2>4 DEF Verdict, viewVars
    <2>5. QED BY <1>2, <2>1, <2>2, <2>3, <2>4, OwedSend, OwedPanic DEF WriterStep
<1>3. ASSUME NEW v \in Viewers, ViewerStep(v) PROVE Owed(u, l)'
    <2>1. CASE CatchUp(v)
        <3>1. u # v
            BY <2>1 DEF CatchUp
        <3>2. UNCHANGED <<chan, missed, wline, wsubs>> /\ seen'[u] = seen[u]
            BY <2>1, <3>1 DEF CatchUp, Replay, writerVars, TypeOK
        <3>3. QED BY <3>2 DEF Owed, Pending, Queued
    <2>2. CASE Deliver(v)
        BY <2>2, OwedDeliver
    <2>3. CASE \/ Subscribe(v) \/ CheckStatus(v) \/ BrowserGone(v) \/ Leave(v)
               \/ Unsubscribe(v) \/ CloseChan(v)
        BY <1>1, <2>3 DEF Subscribe, CheckStatus, BrowserGone, Leave, Unsubscribe, CloseChan,
                          writerVars
    <2>4. QED BY <1>3, <2>1, <2>2, <2>3 DEF ViewerStep, JoinConsole, JoinRun
<1>4. CASE Cancel \/ UNCHANGED vars
    BY <1>1, <1>4 DEF Cancel, vars, writerVars, viewVars
<1>5. QED BY <1>2, <1>3, <1>4 DEF Next

-----------------------------------------------------------------------------
(* Subscribe first, look later *)

\* A viewer that has joined is subscribed; a verdict was reported.
JoinInv ==
    /\ \A v \in Viewers : phase[v] \in {"joining", "streaming"} => v \in subs[stream[v]]
    /\ status = "ended" => reported

FanoutInv == TypeOK /\ RingInv /\ WriterInv /\ JoinInv /\ ConsoleHasNoGap /\ ViewerLearnsEnd

LEMMA FanoutInit == Init => FanoutInv
<1>1. SUFFICES ASSUME Init PROVE FanoutInv
    OBVIOUS
<1>2. TypeOK /\ RingInv
    BY <1>1, TypeInit, RingInit
<1>3. /\ \A v \in Viewers : phase[v] = "new"
      /\ \A w \in Writers : wsubs[w] = {}
      /\ status = "running"
    BY <1>1 DEF Init
<1>4. QED BY <1>2, <1>3 DEF FanoutInv, WriterInv, JoinInv, ConsoleHasNoGap, ViewerLearnsEnd

\* A goroutine that stops sending has served or given up every viewer.
LEMMA WriterInvStep == TypeOK /\ WriterInv /\ [Next]_vars => WriterInv'
<1>1. SUFFICES ASSUME TypeOK, WriterInv, [Next]_vars PROVE WriterInv'
    OBVIOUS
<1>2. CASE UNCHANGED <<wpc, wsubs>>
    BY <1>1, <1>2 DEF WriterInv
<1>3. ASSUME NEW w \in Writers, WriterStep(w) PROVE WriterInv'
    <2>1. ASSUME NEW s, NEW line, Broadcast(w, s, line) PROVE WriterInv'
        <3>1. wpc'[w] # "sending" => wsubs'[w] = {}
            BY <1>1, <2>1 DEF Broadcast, TypeOK
        <3>2. \A x \in Writers \ {w} : wpc'[x] = wpc[x] /\ wsubs'[x] = wsubs[x]
            BY <1>1, <2>1 DEF Broadcast, TypeOK
        <3>3. QED BY <1>1, <3>1, <3>2 DEF WriterInv
    <2>2. CASE Verdict(w)
        BY <1>1, <2>2 DEF Verdict, WriterInv, TypeOK
    <2>3. ASSUME NEW v \in Viewers, SendTo(w, v) \/ SendPanics(w, v) PROVE WriterInv'
        <3>1. wpc'[w] # "sending" => wsubs'[w] = {}
            <4>1. CASE SendTo(w, v)
                <5>1. /\ wsubs'[w] = wsubs[w] \ {v}
                      /\ wpc'[w] = IF wsubs[w] = {v} THEN "idle" ELSE "sending"
                    BY <1>1, <4>1 DEF SendTo, TypeOK
                <5>2. QED BY <5>1
            <4>2. CASE SendPanics(w, v)
                BY <1>1, <4>2 DEF SendPanics, TypeOK
            <4>3. QED BY <2>3, <4>1, <4>2
        <3>2. \A x \in Writers \ {w} : wpc'[x] = wpc[x] /\ wsubs'[x] = wsubs[x]
            BY <1>1, <2>3 DEF SendTo, SendPanics, TypeOK
        <3>3. QED BY <1>1, <3>1, <3>2 DEF WriterInv
    <2>4. QED BY <1>3, <2>1, <2>2, <2>3 DEF WriterStep, Write, Progress, Announce
<1>4. ASSUME NEW v \in Viewers, ViewerStep(v) PROVE UNCHANGED <<wpc, wsubs>>
    BY <1>4 DEF ViewerStep, JoinConsole, JoinRun, Subscribe, CatchUp, Replay, CheckStatus,
                Deliver, BrowserGone, Leave, Unsubscribe, CloseChan, writerVars
<1>5. Cancel \/ UNCHANGED vars => UNCHANGED <<wpc, wsubs>>
    BY DEF Cancel, vars, writerVars
<1>6. QED BY <1>1, <1>2, <1>3, <1>4, <1>5 DEF Next

\* What each kind of step does to the viewers' registration.
LEMMA JoinInvStep == TypeOK /\ JoinInv /\ [Next]_vars => JoinInv'
<1>1. SUFFICES ASSUME TypeOK, JoinInv, [Next]_vars PROVE JoinInv'
    OBVIOUS
<1>2. ASSUME NEW w \in Writers, WriterStep(w) PROVE JoinInv'
    <2>1. UNCHANGED <<phase, subs, stream>>
        BY <1>2 DEF WriterStep, Write, Progress, Verdict, Announce, SendTo, SendPanics,
                    viewVars
    <2>2. status' = "ended" => reported'
        BY <1>1, <1>2 DEF JoinInv, WriterStep, Write, Progress, Verdict, Announce, SendTo,
                          SendPanics, runVars
    <2>3. QED BY <1>1, <2>1, <2>2 DEF JoinInv
<1>3. ASSUME NEW v \in Viewers, ViewerStep(v) PROVE JoinInv'
    <2>1. UNCHANGED <<status, reported, stream>>
        BY <1>3 DEF ViewerStep, JoinConsole, JoinRun, Subscribe, CatchUp, Replay, CheckStatus,
                    Deliver, BrowserGone, Leave, Unsubscribe, CloseChan, runVars
    <2>2. CASE Subscribe(v)
        <3>1. /\ phase' = [phase EXCEPT ![v] = "joining"]
              /\ subs' = [subs EXCEPT ![stream[v]] = @ \cup {v}]
            BY <2>2 DEF Subscribe
        <3>2. \A u \in Viewers : phase'[u] \in {"joining", "streaming"} => u \in subs'[stream[u]]
            BY <1>1, <3>1 DEF JoinInv, TypeOK
        <3>3. QED BY <1>1, <2>1, <3>2 DEF JoinInv
    <2>3. CASE CatchUp(v) \/ CheckStatus(v) \/ Deliver(v) \/ BrowserGone(v) \/ Leave(v)
               \/ CloseChan(v)
        BY <1>1, <2>1, <2>3 DEF CatchUp, Replay, CheckStatus, Deliver, BrowserGone, Leave,
                                CloseChan, JoinInv, TypeOK
    <2>4. CASE Unsubscribe(v)
        <3>1. /\ subs' = [subs EXCEPT ![stream[v]] = @ \ {v}]
              /\ phase' \in {[phase EXCEPT ![v] = "done"], [phase EXCEPT ![v] = "removed"]}
            BY <2>4 DEF Unsubscribe
        <3>2. \A u \in Viewers : phase'[u] \in {"joining", "streaming"} => u \in subs'[stream[u]]
            BY <1>1, <3>1 DEF JoinInv, TypeOK
        <3>3. QED BY <1>1, <2>1, <3>2 DEF JoinInv
    <2>5. QED BY <1>3, <2>2, <2>3, <2>4 DEF ViewerStep, JoinConsole, JoinRun
<1>4. CASE Cancel
    BY <1>1, <1>4 DEF Cancel, JoinInv, viewVars
<1>5. CASE UNCHANGED vars
    BY <1>1, <1>5 DEF vars, JoinInv
<1>6. QED BY <1>1, <1>2, <1>3, <1>4, <1>5 DEF Next

\* A viewer starts streaming in one of two ways only, and is never moved.
LEMMA StartsStreaming ==
    ASSUME TypeOK, [Next]_vars, NEW v \in Viewers, phase'[v] = "streaming"
    PROVE  /\ stream' = stream
           /\ \/ phase[v] = "streaming" /\ from'[v] = from[v]
              \/ stream[v] = "console" /\ CatchUp(v)
              \/ stream[v] = "run" /\ CheckStatus(v)
<1>1. CASE UNCHANGED <<stream, phase, from>>
    BY <1>1
<1>2. ASSUME NEW w \in Writers, WriterStep(w) PROVE UNCHANGED <<stream, phase, from>>
    BY <1>2 DEF WriterStep, Write, Progress, Verdict, Announce, SendTo, SendPanics, viewVars
<1>3. ASSUME NEW u \in Viewers, ViewerStep(u)
      PROVE  /\ stream' = stream
             /\ \/ phase[v] = "streaming" /\ from'[v] = from[v]
                \/ stream[v] = "console" /\ CatchUp(v)
                \/ stream[v] = "run" /\ CheckStatus(v)
    <2>1. CASE stream[u] = "console" /\ CatchUp(u)
        <3>1. CASE u = v
            BY <2>1, <3>1 DEF CatchUp, Replay
        <3>2. CASE u # v
            BY <2>1, <3>2 DEF CatchUp, Replay, TypeOK
        <3>3. QED BY <3>1, <3>2
    <2>2. CASE stream[u] = "run" /\ CheckStatus(u)
        <3>1. CASE u = v
            BY <2>2, <3>1 DEF CheckStatus
        <3>2. CASE u # v
            BY <2>2, <3>2 DEF CheckStatus, TypeOK
        <3>3. QED BY <3>1, <3>2
    <2>3. CASE Subscribe(u) \/ Deliver(u) \/ BrowserGone(u) \/ Leave(u) \/ Unsubscribe(u)
               \/ CloseChan(u)
        BY <2>3 DEF Subscribe, Deliver, BrowserGone, Leave, Unsubscribe, CloseChan, TypeOK
    <2>4. QED BY <1>3, <2>1, <2>2, <2>3 DEF ViewerStep, JoinConsole, JoinRun
<1>4. Cancel \/ UNCHANGED vars => UNCHANGED <<stream, phase, from>>
    BY DEF Cancel, vars, viewVars
<1>5. QED BY <1>1, <1>2, <1>3, <1>4 DEF Next

\* Only ConsoleHub.Write adds a line, and it owes it to every subscriber.
LEMMA NewLine ==
    ASSUME TypeOK, RingInv, [Next]_vars, count' # count
    PROVE  /\ count' = count + 1
           /\ \E w \in Writers : wline'[w] = count + 1 /\ wsubs'[w] = subs["console"]
<1>1. ASSUME NEW w \in Writers, WriterStep(w) PROVE Write(w)
    BY <1>1 DEF WriterStep, Progress, Verdict, Announce, SendTo, SendPanics, ringVars
<1>2. ASSUME NEW v \in Viewers, ViewerStep(v) PROVE FALSE
    BY <1>2 DEF ViewerStep, JoinConsole, JoinRun, Subscribe, CatchUp, Replay, CheckStatus,
                Deliver, BrowserGone, Leave, Unsubscribe, CloseChan, ringVars
<1>3. ~Cancel /\ ~UNCHANGED vars
    BY DEF Cancel, vars, ringVars
<1>4. PICK w \in Writers : Write(w)
    BY <1>1, <1>2, <1>3 DEF Next
<1>5. wline'[w] = count + 1 /\ wsubs'[w] = subs["console"]
    BY <1>4 DEF Write, Broadcast, TypeOK
<1>6. QED BY <1>4, <1>5 DEF Write

\* The snapshot covers what was written before it, the subscription the rest.
LEMMA NoGapStep == FanoutInv /\ [Next]_vars => ConsoleHasNoGap'
<1>1. SUFFICES ASSUME FanoutInv, [Next]_vars, NEW v \in Viewers,
                      stream'[v] = "console", phase'[v] = "streaming",
                      NEW n \in from'[v] + 1 .. count'
               PROVE  Owed(v, n)'
    BY DEF ConsoleHasNoGap
<1> USE DEF FanoutInv
<1>2. count \in Nat /\ from[v] \in Nat /\ stream[v] = "console"
    BY <1>1, StartsStreaming DEF TypeOK
<1>3. CASE CatchUp(v)
    <2>1. /\ from'[v] = count - Len(snapshot) /\ count' = count
          /\ seen'[v] = {snapshot[i] : i \in DOMAIN snapshot}
        BY <1>1, <1>3 DEF CatchUp, Replay, ringVars, TypeOK
    <2>2. RingIsTail
        BY <1>1, RingRead
    <2>3. /\ Len(snapshot) \in Nat /\ Len(snapshot) <= count
          /\ DOMAIN snapshot = 1 .. Len(snapshot)
        <3>1. CASE full
            BY <1>1, <2>2, <3>1 DEF RingIsTail, RingInv, snapshot
        <3>2. CASE ~full
            BY <1>1, <2>2, <3>2 DEF RingIsTail, RingInv, snapshot
        <3>3. QED BY <3>1, <3>2
    <2>4. n \in count - Len(snapshot) + 1 .. count
        BY <1>1, <2>1
    <2>5. n - (count - Len(snapshot)) \in 1 .. Len(snapshot)
        BY <1>2, <2>3, <2>4
    <2>6. snapshot[n - (count - Len(snapshot))] = n
        BY <1>2, <2>2, <2>3, <2>4, <2>5 DEF RingIsTail
    <2>7. n \in seen'[v]
        BY <2>1, <2>3, <2>5, <2>6
    <2>8. QED BY <2>7 DEF Owed
<1>4. CASE phase[v] = "streaming" /\ from'[v] = from[v]
    <2>1. CASE n \in from[v] + 1 .. count
        <3>1. Owed(v, n)
            BY <1>1, <1>2, <1>4, <2>1 DEF ConsoleHasNoGap
        <3>2. QED BY <1>1, <1>4, <3>1, OwedKept
    <2>2. CASE n \notin from[v] + 1 .. count
        <3>1. count' # count
            BY <1>1, <1>4, <2>2
        <3>2. PICK w \in Writers : wline'[w] = count + 1 /\ wsubs'[w] = subs["console"]
            BY <1>1, <3>1, NewLine
        <3>3. n = count + 1
            BY <1>1, <1>2, <1>4, <2>2, <3>1, NewLine
        <3>4. v \in subs["console"]
            BY <1>1, <1>2, <1>4 DEF JoinInv
        <3>5. QED BY <3>2, <3>3, <3>4 DEF Owed, Pending
    <2>3. QED BY <2>1, <2>2
<1>5. QED BY <1>1, <1>2, <1>3, <1>4, StartsStreaming

\* A verdict being announced stays so, or its last line is owed to the subscribers.
LEMMA VerdictStep ==
    ASSUME TypeOK, [Next]_vars, NEW w \in Writers, wpc[w] = "verdict"
    PROVE  \/ wpc'[w] = "verdict"
           \/ wline'[w] = EndLine /\ wsubs'[w] = subs["run"]
<1>1. CASE wpc' = wpc
    BY <1>1
<1>2. ASSUME NEW x \in Writers, WriterStep(x)
      PROVE  \/ wpc'[w] = "verdict"
             \/ wline'[w] = EndLine /\ wsubs'[w] = subs["run"]
    <2>1. CASE x = w /\ Announce(w)
        BY <2>1 DEF Announce, Broadcast, TypeOK
    <2>2. CASE x = w /\ ~Announce(w)
        BY <1>2, <2>2 DEF WriterStep, Write, Progress, Verdict, SendTo, SendPanics
    <2>3. CASE x # w
        BY <1>2, <2>3 DEF WriterStep, Write, Progress, Verdict, Announce, Broadcast, SendTo,
                          SendPanics, TypeOK
    <2>4. QED BY <2>1, <2>2, <2>3
<1>3. ASSUME NEW v \in Viewers, ViewerStep(v) PROVE wpc' = wpc
    BY <1>3 DEF ViewerStep, JoinConsole, JoinRun, Subscribe, CatchUp, Replay, CheckStatus,
                Deliver, BrowserGone, Leave, Unsubscribe, CloseChan, writerVars
<1>4. Cancel \/ UNCHANGED vars => wpc' = wpc
    BY DEF Cancel, vars, writerVars
<1>5. QED BY <1>1, <1>2, <1>3, <1>4 DEF Next

\* A run that ends has somebody who is about to announce it.
LEMMA EndStep ==
    ASSUME TypeOK, [Next]_vars, status # "ended", status' = "ended"
    PROVE  \E w \in Writers : wpc'[w] = "verdict"
<1>1. ASSUME NEW w \in Writers, WriterStep(w) PROVE wpc'[w] = "verdict"
    BY <1>1 DEF WriterStep, Write, Progress, Verdict, Announce, SendTo, SendPanics, runVars,
                TypeOK
<1>2. ASSUME NEW v \in Viewers, ViewerStep(v) PROVE FALSE
    BY <1>2 DEF ViewerStep, JoinConsole, JoinRun, Subscribe, CatchUp, Replay, CheckStatus,
                Deliver, BrowserGone, Leave, Unsubscribe, CloseChan, runVars
<1>3. ~Cancel /\ ~UNCHANGED vars
    BY DEF Cancel, vars
<1>4. QED BY <1>1, <1>2, <1>3 DEF Next

\* handleRunLogsWS found the run running after it subscribed.
LEMMA LearnsStep == FanoutInv /\ [Next]_vars => ViewerLearnsEnd'
<1>1. SUFFICES ASSUME FanoutInv, [Next]_vars, NEW v \in Viewers, stream'[v] = "run",
                      phase'[v] = "streaming", status' = "ended"
               PROVE  Owed(v, EndLine)' \/ \E w \in Writers : wpc'[w] = "verdict"
    BY DEF ViewerLearnsEnd
<1> USE DEF FanoutInv
<1>2. stream[v] = "run"
    BY <1>1, StartsStreaming
<1>3. phase[v] = "streaming"
    <2>1. CASE CheckStatus(v)
        <3>1. status' = status
            BY <2>1 DEF CheckStatus, runVars
        <3>2. phase'[v] = "leaving"
            BY <1>1, <2>1, <3>1 DEF CheckStatus, TypeOK
        <3>3. QED BY <1>1, <3>2
    <2>2. QED BY <1>1, <1>2, <2>1, StartsStreaming
<1>4. CASE status # "ended"
    BY <1>1, <1>4, EndStep
<1>5. CASE status = "ended" /\ Owed(v, EndLine)
    BY <1>1, <1>3, <1>5, OwedKept
<1>6. ASSUME NEW w \in Writers, wpc[w] = "verdict"
      PROVE  Owed(v, EndLine)' \/ \E x \in Writers : wpc'[x] = "verdict"
    <2>1. v \in subs["run"]
        BY <1>1, <1>2, <1>3 DEF JoinInv
    <2>2. CASE wline'[w] = EndLine /\ wsubs'[w] = subs["run"]
        BY <2>1, <2>2 DEF Owed, Pending
    <2>3. QED BY <1>1, <1>6, <2>2, VerdictStep
<1>7. QED BY <1>1, <1>2, <1>3, <1>4, <1>5, <1>6 DEF ViewerLearnsEnd

LEMMA FanoutInvariant == Spec => []FanoutInv
<1>1. FanoutInv /\ [Next]_vars => FanoutInv'
    BY TypeStep, RingStep, WriterInvStep, JoinInvStep, NoGapStep, LearnsStep DEF FanoutInv
<1>2. QED BY <1>1, FanoutInit, PTL DEF Spec

\* Replay and stream of the console join without a gap, for any number of viewers,
\* writers and lines, and for every size of the ring and of the channels.
THEOREM ConsoleHasNoGapHolds == Spec => []ConsoleHasNoGap
<1>1. FanoutInv => ConsoleHasNoGap
    BY DEF FanoutInv
<1>2. QED BY <1>1, FanoutInvariant, PTL

\* A viewer of a run that ends is told, unless its channel is full.
THEOREM ViewerLearnsEndHolds == Spec => []ViewerLearnsEnd
<1>1. FanoutInv => ViewerLearnsEnd
    BY DEF FanoutInv
<1>2. QED BY <1>1, FanoutInvariant, PTL
=============================================================================
