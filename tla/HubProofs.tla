------------------------------- MODULE HubProofs -------------------------------
(***************************************************************************)
(* Proofs about Hub, for any number of agents, connections and callers,    *)
(* any channel capacities, with or without database faults.                *)
(***************************************************************************)
EXTENDS Hub, TLAPS

-----------------------------------------------------------------------------
(* Facts about the queues *)

NoDup(q) == \A i, j \in DOMAIN q : i # j => q[i] # q[j]

\* Sending to a channel adds one connection to what it holds.
LEMMA ElemsAppend ==
    ASSUME NEW S, NEW q \in Seq(S), NEW x \in S
    PROVE  Elems(Append(q, x)) = Elems(q) \cup {x}
<1> DEFINE r == Append(q, x)
<1>1. /\ DOMAIN r = 1 .. Len(q) + 1
      /\ DOMAIN q = 1 .. Len(q)
      /\ \A i \in DOMAIN q : r[i] = q[i]
      /\ r[Len(q) + 1] = x
  OBVIOUS
<1>2. DOMAIN r = DOMAIN q \cup {Len(q) + 1}
  BY <1>1
<1> QED  BY <1>1, <1>2, ZenonT(60) DEF Elems

\* Receiving from a channel takes its head and leaves its tail.
LEMMA ElemsHeadTail ==
    ASSUME NEW S, NEW q \in Seq(S), q # <<>>
    PROVE  Elems(q) = {Head(q)} \cup Elems(Tail(q))
<1>1. /\ DOMAIN q = 1 .. Len(q) /\ Len(q) \in Nat \ {0}
      /\ DOMAIN Tail(q) = 1 .. Len(q) - 1
      /\ Head(q) = q[1]
      /\ \A i \in 1 .. Len(q) - 1 : Tail(q)[i] = q[i + 1]
  OBVIOUS
<1>2. ASSUME NEW x \in Elems(q) PROVE x \in {Head(q)} \cup Elems(Tail(q))
  <2>1. PICK i \in 1 .. Len(q) : x = q[i]
    BY <1>1 DEF Elems
  <2>2. CASE i = 1
    BY <2>1, <2>2, <1>1
  <2>3. CASE i # 1
    <3>1. i - 1 \in 1 .. Len(q) - 1 /\ Tail(q)[i - 1] = q[i]
      BY <2>1, <2>3, <1>1
    <3> QED  BY <3>1, <2>1, <1>1 DEF Elems
  <2> QED  BY <2>2, <2>3
<1>3. ASSUME NEW x \in {Head(q)} \cup Elems(Tail(q)) PROVE x \in Elems(q)
  BY <1>1, <1>3 DEF Elems
<1> QED  BY <1>2, <1>3

\* What a channel holds stays distinct when something new is sent to it, and
\* the received head is not in what stays.
LEMMA NoDupAppend ==
    ASSUME NEW S, NEW q \in Seq(S), NEW x \in S, NoDup(q), x \notin Elems(q)
    PROVE  NoDup(Append(q, x))
BY DEF NoDup, Elems

\* What stays in a channel after a receive is distinct, and without the received.
LEMMA NoDupTail ==
    ASSUME NEW S, NEW q \in Seq(S), q # <<>>, NoDup(q)
    PROVE  NoDup(Tail(q)) /\ Head(q) \notin Elems(Tail(q))
<1>1. /\ DOMAIN q = 1 .. Len(q) /\ Len(q) \in Nat \ {0}
      /\ DOMAIN Tail(q) = 1 .. Len(q) - 1
      /\ Head(q) = q[1]
      /\ \A i \in 1 .. Len(q) - 1 : Tail(q)[i] = q[i + 1]
  OBVIOUS
<1>2. \A i \in 1 .. Len(q) - 1 : i + 1 \in DOMAIN q /\ i + 1 # 1
  BY <1>1
<1>3. NoDup(Tail(q))
  BY <1>1, <1>2 DEF NoDup
<1>4. Head(q) \notin Elems(Tail(q))
  BY <1>1, <1>2 DEF NoDup, Elems
<1> QED  BY <1>3, <1>4

-----------------------------------------------------------------------------
(* Type correctness *)

USE ConstantsAssumption

\* The steps of a connection's handler keep the types (Handler.ServeHTTP).
LEMMA TypeHandler ==
    ASSUME TypeOK, NEW c \in Conns,
           \/ Reject(c) \/ Lose(c) \/ HandlerStep(c)
           \/ \E a \in Agents : Authenticate(c, a)
    PROVE  TypeOK'
<1>1. CASE Reject(c) \/ Lose(c)
  BY <1>1 DEF TypeOK, Reject, Lose, hubVars, pumpVars, callVars
<1>2. CASE \E a \in Agents : Authenticate(c, a)
  BY <1>2 DEF TypeOK, Authenticate, hubVars, pumpVars, callVars
<1>3. CASE MarkOnline(c)
  BY <1>3 DEF TypeOK, MarkOnline, UpdateStatus, Row, hubVars, pumpVars, callVars
<1>4. CASE EnqueueRegister(c)
  BY <1>4 DEF TypeOK, EnqueueRegister, callVars
<1>5. CASE EnqueueUnregister(c)
  BY <1>5 DEF TypeOK, EnqueueUnregister, pumpVars, callVars
<1> QED  BY <1>1, <1>2, <1>3, <1>4, <1>5 DEF HandlerStep

\* The steps of the hub keep the types (Hub.Run, reconcileOffline).
LEMMA TypeHub ==
    ASSUME TypeOK, HubStep
    PROVE  TypeOK'
<1>1. CASE HubRegister
  <2>1. Head(registerQ) \in Conns /\ Tail(registerQ) \in Seq(Conns)
        /\ Len(Tail(registerQ)) <= ChanCap
    BY <1>1 DEF TypeOK, HubRegister
  <2> QED  BY <1>1, <2>1 DEF TypeOK, HubRegister, handlerVars, pumpVars, callVars
<1>2. CASE HubUnregister
  <2>1. Head(unregisterQ) \in Conns /\ Tail(unregisterQ) \in Seq(Conns)
        /\ Len(Tail(unregisterQ)) <= ChanCap
    BY <1>2 DEF TypeOK, HubUnregister
  <2>2. closed' \subseteq Conns /\ agents' \in [Agents -> Conns \cup {NoConn}]
    <3> DEFINE c == Head(unregisterQ)
    <3>1. CASE IsCurrent(c)
      <4>1. closed' = closed \cup {c} /\ agents' = [agents EXCEPT ![agentID[c]] = NoConn]
        BY <1>2, <3>1 DEF HubUnregister, IsCurrent, Removed
      <4> QED  BY <2>1, <4>1 DEF TypeOK
    <3>2. CASE ~IsCurrent(c)
      <4>1. closed' = closed /\ agents' = agents
        BY <1>2, <3>2 DEF HubUnregister
      <4> QED  BY <4>1 DEF TypeOK
    <3> QED  BY <3>1, <3>2
  <2>3. /\ unregisterQ' = Tail(unregisterQ) /\ hubArg' = Head(unregisterQ)
        /\ hubPc' = "offline"
        /\ UNCHANGED <<handlerVars, registerQ, suspects, pumpVars, dbStatus, callVars>>
    BY <1>2 DEF HubUnregister
  <2>4. UNCHANGED <<hpc, agentID, registerQ, suspects, sendBuf, pump, delivered,
                    dbStatus, cpc, target, outcome>>
    BY <2>3 DEF handlerVars, pumpVars, callVars
  <2> QED  BY <2>1, <2>2, <2>3, <2>4 DEF TypeOK
<1>3. CASE HubMarkOffline
  BY <1>3, ZenonT(40) DEF TypeOK, HubMarkOffline, UpdateStatus, Row, handlerVars, pumpVars, callVars
<1>4. CASE Reconcile
  BY <1>4 DEF TypeOK, Reconcile, Stale, handlerVars, pumpVars, callVars
<1>5. CASE \E a \in Agents : ReconcileMark(a)
  BY <1>5, ZenonT(40) DEF TypeOK, ReconcileMark, UpdateStatus, Row, handlerVars, pumpVars, callVars
<1> QED  BY <1>1, <1>2, <1>3, <1>4, <1>5 DEF HubStep

\* The steps of API calls keep the types: a send respects the buffer.
LEMMA TypeCall ==
    ASSUME TypeOK, NEW k \in Callers,
           Send(k) \/ \E a \in Agents : Lookup(k, a)
    PROVE  TypeOK'
<1>1. CASE Send(k)
  <2> DEFINE c == target[k]
  <2>1. ASSUME NEW d \in Conns
        PROVE  sendBuf'[d] \in Seq(Callers) /\ Len(sendBuf'[d]) <= SendCap
    <3>1. CASE SendResult(c) = "sent" /\ d = c
      <4>1. sendBuf'[d] = Append(sendBuf[d], k) /\ Len(sendBuf[d]) < SendCap
        BY <1>1, <3>1 DEF TypeOK, Send, SendResult
      <4>2. sendBuf[d] \in Seq(Callers)
        BY DEF TypeOK
      <4> QED  BY <4>1, <4>2
    <3>2. CASE ~(SendResult(c) = "sent" /\ d = c)
      BY <1>1, <3>2 DEF TypeOK, Send
    <3> QED  BY <3>1, <3>2
  <2>2. outcome' \in [Callers -> {"none", "notConnected", "sent", "full", "panic"}]
    BY <1>1 DEF TypeOK, Send, SendResult
  <2>3. sendBuf' = [d \in Conns |-> sendBuf'[d]]
    BY <1>1 DEF TypeOK, Send
  <2>4. sendBuf' \in [Conns -> Seq(Callers)]
    BY <2>1, <2>3
  <2> HIDE DEF c
  <2> QED  BY <1>1, <2>1, <2>2, <2>4 DEF TypeOK, Send, handlerVars, hubVars
<1>2. ASSUME NEW a \in Agents, Lookup(k, a) PROVE TypeOK'
  <2>1. /\ cpc' \in [Callers -> {"idle", "found", "done"}]
        /\ target' \in [Callers -> Conns \cup {NoConn}]
        /\ outcome' \in [Callers -> {"none", "notConnected", "sent", "full", "panic"}]
    <3>1. target' \in [Callers -> Conns \cup {NoConn}]
      BY <1>2 DEF TypeOK, Lookup
    <3>2. cpc' \in [Callers -> {"idle", "found", "done"}]
      <4>1. \/ cpc' = [cpc EXCEPT ![k] = "done"]
            \/ cpc' = [cpc EXCEPT ![k] = "found"]
        BY <1>2 DEF Lookup
      <4> QED  BY <4>1 DEF TypeOK
    <3>3. outcome' \in [Callers -> {"none", "notConnected", "sent", "full", "panic"}]
      <4>1. outcome' = outcome \/ outcome' = [outcome EXCEPT ![k] = "notConnected"]
        BY <1>2 DEF Lookup
      <4> QED  BY <4>1 DEF TypeOK
    <3> QED  BY <3>1, <3>2, <3>3
  <2>2. UNCHANGED <<handlerVars, hubVars, pumpVars, dbStatus>>
    BY <1>2 DEF Lookup
  <2>3. UNCHANGED <<hpc, agentID, registerQ, unregisterQ, agents, closed, hubPc,
                    hubArg, suspects, sendBuf, pump, delivered, dbStatus>>
    BY <2>2 DEF handlerVars, hubVars, pumpVars
  <2> QED  BY <2>1, <2>3 DEF TypeOK
<1> QED  BY <1>1, <1>2

\* The steps of a write pump keep the types.
LEMMA TypePump ==
    ASSUME TypeOK, NEW c \in Conns, PumpStep(c)
    PROVE  TypeOK'
<1>1. CASE PumpWrite(c)
  <2>1. /\ Head(sendBuf[c]) \in Callers
        /\ Tail(sendBuf[c]) \in Seq(Callers)
        /\ Len(Tail(sendBuf[c])) <= SendCap
    BY <1>1 DEF TypeOK, PumpWrite
  <2> QED  BY <1>1, <2>1 DEF TypeOK, PumpWrite, handlerVars, hubVars, callVars
<1>2. CASE PumpFail(c) \/ PumpExit(c)
  BY <1>2, ZenonT(40) DEF TypeOK, PumpFail, PumpExit, handlerVars, hubVars, callVars
<1> QED  BY <1>1, <1>2 DEF PumpStep

\* Every variable keeps its type; in particular no channel ever holds more
\* than its capacity.
THEOREM TypeCorrect == Spec => []TypeOK
<1>1. Init => TypeOK
  BY DEF Init, TypeOK, Row
<1>2. TypeOK /\ [Next]_vars => TypeOK'
  <2> SUFFICES ASSUME TypeOK, [Next]_vars PROVE TypeOK'
    OBVIOUS
  <2>1. CASE \E a \in Agents : CreateAgent(a) \/ DeleteAgent(a)
    <3>0. PICK a \in Agents : CreateAgent(a) \/ DeleteAgent(a)
      BY <2>1
    <3>1. dbStatus' \in [Agents -> Row \cup {"absent", "deleted"}]
      <4>1. CASE CreateAgent(a)
        BY <4>1 DEF TypeOK, CreateAgent, Row
      <4>2. CASE DeleteAgent(a)
        BY <4>2 DEF TypeOK, DeleteAgent, Row
      <4> QED  BY <3>0, <4>1, <4>2
    <3>2. UNCHANGED <<handlerVars, hubVars, pumpVars, callVars>>
      BY <2>1 DEF CreateAgent, DeleteAgent
    <3>3. UNCHANGED <<hpc, agentID, registerQ, unregisterQ, agents, closed, hubPc,
                      hubArg, suspects, sendBuf, pump, delivered, cpc, target, outcome>>
      BY <3>2 DEF handlerVars, hubVars, pumpVars, callVars
    <3> QED  BY <3>1, <3>3 DEF TypeOK
  <2>2. CASE Restart
    BY <2>2 DEF TypeOK, Restart, StartupStatus, Row
  <2>3. CASE UNCHANGED vars
    BY <2>3 DEF TypeOK, vars
  <2> QED
    BY <2>1, <2>2, <2>3, TypeHandler, TypeHub, TypeCall, TypePump DEF Next
<1> QED  BY <1>1, <1>2, PTL DEF Spec

-----------------------------------------------------------------------------
(* The inductive invariant: where a connection is, against what holds it.    *)
(* RegistryOpen alone is not inductive: the hub inserts the head of the      *)
(* register channel without looking at it, so what waits there must be open, *)
(* waiting only once and not already in the map.                             *)

Entered == {"reading", "leaving", "gone"}     \* after Hub.Register

Waiting ==
    /\ NoDup(registerQ)
    /\ \A c \in Elems(registerQ) :
          /\ hpc[c] \in Entered
          /\ c \notin closed
          /\ \A a \in Agents : agents[a] # c

Mapped ==
    \A a \in Agents : agents[a] # NoConn =>
        /\ agents[a] \notin closed
        /\ agentID[agents[a]] = a
        /\ hpc[agents[a]] \in Entered

Young  == \A c \in closed : hpc[c] \in Entered
Authed == \A c \in Conns : hpc[c] \in {"free", "rejected"} \/ agentID[c] \in Agents
Parted == \A c \in Elems(unregisterQ) : hpc[c] = "gone"
Handled == hubPc = "offline" => hubArg \in Conns /\ hpc[hubArg] = "gone"

HubInv == Waiting /\ Mapped /\ Young /\ Authed /\ Parted /\ Handled

\* The strengthening holds of a hub without connections.
LEMMA HubInvInit == Init => HubInv
<1> SUFFICES ASSUME Init PROVE HubInv
  OBVIOUS
<1>1. Elems(registerQ) = {} /\ Elems(unregisterQ) = {}
  BY DEF Init, Elems
<1> QED
  BY <1>1 DEF Init, HubInv, Waiting, Mapped, Young, Authed, Parted, Handled, NoDup

\* Steps of a handler other than the two channel operations.
LEMMA InvHandler ==
    ASSUME TypeOK, HubInv, NEW c \in Conns,
           \/ Reject(c) \/ Lose(c) \/ MarkOnline(c)
           \/ \E a \in Agents : Authenticate(c, a)
    PROVE  HubInv'
<1>1. /\ UNCHANGED <<registerQ, unregisterQ, agents, closed, hubPc, hubArg>>
      /\ hpc[c] \in {"free", "authed", "reading"}
      /\ \A d \in Conns \ {c} : hpc'[d] = hpc[d] /\ agentID'[d] = agentID[d]
      /\ hpc[c] \in Entered => hpc'[c] \in Entered /\ agentID'[c] = agentID[c]
      /\ hpc'[c] = "rejected" \/ agentID'[c] \in Agents
  <2>1. CASE Reject(c)
    BY <2>1 DEF Reject, hubVars, TypeOK, Entered
  <2>2. CASE Lose(c)
    BY <2>2 DEF Lose, hubVars, TypeOK, Entered, HubInv, Authed
  <2>3. CASE MarkOnline(c)
    BY <2>3 DEF MarkOnline, hubVars, TypeOK, Entered, HubInv, Authed
  <2>4. CASE \E a \in Agents : Authenticate(c, a)
    BY <2>4 DEF Authenticate, hubVars, TypeOK, Entered
  <2> QED  BY <2>1, <2>2, <2>3, <2>4
<1>2. \A d \in Conns : /\ hpc[d] \in Entered => hpc'[d] \in Entered /\ agentID'[d] = agentID[d]
                       /\ hpc[d] = "gone" => hpc'[d] = "gone"
  BY <1>1 DEF Entered
<1>3. /\ Elems(registerQ') = Elems(registerQ) /\ NoDup(registerQ') = NoDup(registerQ)
      /\ Elems(unregisterQ') = Elems(unregisterQ)
  BY <1>1
<1>4. Elems(registerQ) \subseteq Conns /\ Elems(unregisterQ) \subseteq Conns
  BY DEF TypeOK, Elems
<1>5. Waiting' /\ Young'
  BY <1>1, <1>2, <1>3, <1>4 DEF HubInv, Waiting, Young, TypeOK
<1>6. Mapped'
  <2>1. \A a \in Agents : agents[a] # NoConn => agents[a] \in Conns
    BY DEF TypeOK
  <2> QED  BY <1>1, <1>2, <2>1 DEF HubInv, Mapped
<1>7. Authed'
  BY <1>1 DEF HubInv, Authed
<1>8. Parted' /\ Handled'
  BY <1>1, <1>2, <1>3, <1>4 DEF HubInv, Parted, Handled
<1> QED  BY <1>5, <1>6, <1>7, <1>8 DEF HubInv

\* A connection enters the register queue once, as it leaves "marked".
LEMMA InvEnqueueRegister ==
    ASSUME TypeOK, HubInv, NEW c \in Conns, EnqueueRegister(c)
    PROVE  HubInv'
<1>1. /\ UNCHANGED <<agentID, unregisterQ, agents, closed, hubPc, hubArg>>
      /\ hpc[c] = "online" /\ hpc' = [hpc EXCEPT ![c] = "reading"]
      /\ registerQ' = Append(registerQ, c)
  BY DEF EnqueueRegister
<1>2. c \notin Elems(registerQ) /\ c \notin closed /\ \A a \in Agents : agents[a] # c
  <2>1. hpc[c] \notin Entered
    BY <1>1 DEF Entered
  <2>2. c \notin Elems(registerQ) /\ c \notin closed
    BY <2>1 DEF HubInv, Waiting, Young
  <2>3. ASSUME NEW a \in Agents PROVE agents[a] # c
    BY <2>1 DEF HubInv, Mapped
  <2> QED  BY <2>2, <2>3
<1>3. Elems(registerQ') = Elems(registerQ) \cup {c} /\ NoDup(registerQ')
  <2>1. registerQ \in Seq(Conns) /\ NoDup(registerQ)
    BY DEF TypeOK, HubInv, Waiting
  <2> QED  BY <1>1, <1>2, <2>1, ElemsAppend, NoDupAppend
<1>4. Elems(unregisterQ)' = Elems(unregisterQ)
  BY <1>1 DEF Elems
<1>5. Waiting'
  <2> SUFFICES ASSUME NEW d \in Elems(registerQ')
               PROVE  hpc'[d] \in Entered /\ d \notin closed /\ \A a \in Agents : agents[a] # d
    BY <1>1, <1>3 DEF Waiting
  <2>1. CASE d = c
    BY <2>1, <1>1, <1>2 DEF TypeOK, Entered
  <2>2. CASE d # c
    BY <2>2, <1>1, <1>3 DEF HubInv, Waiting, TypeOK
  <2> QED  BY <2>1, <2>2
<1>6. Mapped' /\ Young'
  BY <1>1 DEF HubInv, Mapped, Young, Entered, TypeOK
<1>7. Authed' /\ Parted' /\ Handled'
  BY <1>1, <1>4 DEF HubInv, Authed, Parted, Handled, TypeOK, Elems
<1> QED  BY <1>5, <1>6, <1>7 DEF HubInv

\* A connection enters the unregister queue once, as its handler ends.
LEMMA InvEnqueueUnregister ==
    ASSUME TypeOK, HubInv, NEW c \in Conns, EnqueueUnregister(c)
    PROVE  HubInv'
<1>1. /\ UNCHANGED <<agentID, registerQ, agents, closed, hubPc, hubArg>>
      /\ hpc[c] = "leaving" /\ hpc' = [hpc EXCEPT ![c] = "gone"]
      /\ unregisterQ' = Append(unregisterQ, c)
  BY DEF EnqueueUnregister
<1>2. Elems(unregisterQ') = Elems(unregisterQ) \cup {c}
  BY <1>1, ElemsAppend DEF TypeOK
<1>3. Elems(registerQ)' = Elems(registerQ) /\ Elems(registerQ) \subseteq Conns
      /\ Elems(unregisterQ) \subseteq Conns
  BY <1>1 DEF Elems, TypeOK
<1>4. Waiting' /\ Mapped' /\ Young'
  BY <1>1, <1>3 DEF HubInv, Waiting, Mapped, Young, Entered, TypeOK, NoDup
<1>5. Authed' /\ Handled'
  BY <1>1 DEF HubInv, Authed, Handled, TypeOK
<1>6. Parted'
  BY <1>1, <1>2, <1>3 DEF HubInv, Parted, TypeOK
<1> QED  BY <1>4, <1>5, <1>6 DEF HubInv

\* The hub takes a connection from the register queue into the map.
LEMMA InvHubRegister ==
    ASSUME TypeOK, HubInv, HubRegister
    PROVE  HubInv'
<1> DEFINE c == Head(registerQ)
<1>1. /\ UNCHANGED <<hpc, agentID, unregisterQ, closed, hubPc, hubArg>>
      /\ registerQ # <<>> /\ registerQ' = Tail(registerQ)
      /\ agents' = [agents EXCEPT ![agentID[c]] = c]
  BY DEF HubRegister, handlerVars
<1>2. /\ Elems(registerQ) = {c} \cup Elems(registerQ')
      /\ NoDup(registerQ') /\ c \notin Elems(registerQ')
  <2>1. registerQ \in Seq(Conns) /\ NoDup(registerQ)
    BY DEF TypeOK, HubInv, Waiting
  <2> QED  BY <1>1, <2>1, ElemsHeadTail, NoDupTail
<1>3. c \in Conns /\ hpc[c] \in Entered /\ c \notin closed /\ agentID[c] \in Agents
  <2>1. c \in Conns
    BY <1>1 DEF TypeOK
  <2>2. hpc[c] \in Entered /\ c \notin closed
    BY <1>2 DEF HubInv, Waiting
  <2> QED  BY <2>1, <2>2 DEF HubInv, Authed, Entered
<1> HIDE DEF c
<1>4. agents'[agentID[c]] = c /\ \A a \in Agents : a # agentID[c] => agents'[a] = agents[a]
  BY <1>1, <1>3 DEF TypeOK
<1>5. Waiting'
  <2>1. ASSUME NEW d \in Elems(registerQ'), NEW a \in Agents PROVE agents'[a] # d
    BY <1>2, <1>4, <2>1 DEF HubInv, Waiting
  <2>2. \A d \in Elems(registerQ') : hpc'[d] \in Entered /\ d \notin closed'
    BY <1>1, <1>2 DEF HubInv, Waiting
  <2> QED  BY <1>2, <2>1, <2>2 DEF Waiting
<1>6. Mapped'
  <2> SUFFICES ASSUME NEW a \in Agents, agents'[a] # NoConn
               PROVE  /\ agents'[a] \notin closed' /\ agentID'[agents'[a]] = a
                      /\ hpc'[agents'[a]] \in Entered
    BY DEF Mapped
  <2>1. CASE a = agentID[c]
    BY <2>1, <1>1, <1>3, <1>4
  <2>2. CASE a # agentID[c]
    BY <2>2, <1>1, <1>4 DEF HubInv, Mapped
  <2> QED  BY <2>1, <2>2
<1>7. Elems(unregisterQ') = Elems(unregisterQ)
  BY <1>1
<1>8. Young' /\ Authed' /\ Parted' /\ Handled'
  BY <1>1, <1>7 DEF HubInv, Young, Authed, Parted, Handled
<1> QED  BY <1>5, <1>6, <1>8 DEF HubInv

\* What handling an unregister does to the map and to the closed channels.
LEMMA UnregisterEffect ==
    ASSUME TypeOK, HubInv, HubUnregister
    PROVE  LET c == Head(unregisterQ)
           IN  /\ c \in Conns /\ hpc[c] = "gone" /\ agentID[c] \in Agents
               /\ Elems(unregisterQ) = {c} \cup Elems(unregisterQ')
               /\ hubArg' = c /\ hubPc' = "offline"
               /\ UNCHANGED <<hpc, agentID, registerQ>>
               /\ \/ UNCHANGED <<closed, agents>>
                  \/ /\ agents[agentID[c]] = c
                     /\ closed' = closed \cup {c}
                     /\ agents' = [agents EXCEPT ![agentID[c]] = NoConn]
<1> DEFINE c == Head(unregisterQ)
<1>1. /\ UNCHANGED <<hpc, agentID, registerQ>> /\ hubArg' = c /\ hubPc' = "offline"
      /\ unregisterQ # <<>> /\ unregisterQ' = Tail(unregisterQ)
  BY DEF HubUnregister, handlerVars
<1>2. unregisterQ \in Seq(Conns) /\ c \in Conns
  BY <1>1 DEF TypeOK
<1>3. Elems(unregisterQ) = {c} \cup Elems(unregisterQ')
  BY <1>1, <1>2, ElemsHeadTail
<1>4. hpc[c] = "gone" /\ agentID[c] \in Agents
  BY <1>2, <1>3 DEF HubInv, Parted, Authed
<1>5. \/ UNCHANGED <<closed, agents>>
      \/ /\ agents[agentID[c]] = c
         /\ closed' = closed \cup {c}
         /\ agents' = [agents EXCEPT ![agentID[c]] = NoConn]
  BY DEF HubUnregister, IsCurrent, Removed
<1> QED  BY <1>1, <1>2, <1>3, <1>4, <1>5

\* The hub takes one from the unregister queue, out of the map if it is there.
LEMMA InvHubUnregister ==
    ASSUME TypeOK, HubInv, HubUnregister
    PROVE  HubInv'
<1> DEFINE c == Head(unregisterQ)
<1>1. /\ c \in Conns /\ hpc[c] = "gone" /\ agentID[c] \in Agents
      /\ Elems(unregisterQ) = {c} \cup Elems(unregisterQ')
      /\ hubArg' = c /\ hubPc' = "offline"
      /\ UNCHANGED <<hpc, agentID, registerQ>>
      /\ \/ UNCHANGED <<closed, agents>>
         \/ /\ agents[agentID[c]] = c
            /\ closed' = closed \cup {c}
            /\ agents' = [agents EXCEPT ![agentID[c]] = NoConn]
  BY UnregisterEffect
<1> HIDE DEF c
<1>2. Authed' /\ Parted' /\ Handled'
  BY <1>1 DEF HubInv, Authed, Parted, Handled
<1>3. Elems(registerQ') = Elems(registerQ) /\ NoDup(registerQ') = NoDup(registerQ)
  BY <1>1
<1>4. CASE UNCHANGED <<closed, agents>>
  BY <1>1, <1>2, <1>3, <1>4 DEF HubInv, Waiting, Mapped, Young
<1>5. CASE /\ agents[agentID[c]] = c
           /\ closed' = closed \cup {c}
           /\ agents' = [agents EXCEPT ![agentID[c]] = NoConn]
  <2>1. /\ agents'[agentID[c]] = NoConn
        /\ \A a \in Agents : a # agentID[c] => agents'[a] = agents[a]
    BY <1>1, <1>5 DEF TypeOK
  <2>2. \A a \in Agents : agents'[a] # c
    <3> SUFFICES ASSUME NEW a \in Agents, a # agentID[c], agents[a] = c PROVE FALSE
      BY <2>1, <1>1
    <3> QED  BY <1>1 DEF HubInv, Mapped
  <2>3. c \notin Elems(registerQ)
    BY <1>1, <1>5 DEF HubInv, Waiting
  <2>4. \A d \in Elems(registerQ), a \in Agents : agents'[a] # d
    <3> SUFFICES ASSUME NEW d \in Elems(registerQ), NEW a \in Agents PROVE agents'[a] # d
      OBVIOUS
    <3>1. d \in Conns
      BY DEF Elems, TypeOK
    <3> QED  BY <2>1, <3>1 DEF HubInv, Waiting
  <2>5. Waiting'
    BY <1>1, <1>3, <1>5, <2>3, <2>4 DEF HubInv, Waiting
  <2>6. Mapped'
    BY <1>1, <1>5, <2>1, <2>2 DEF HubInv, Mapped
  <2>7. Young'
    BY <1>1, <1>5 DEF HubInv, Young, Entered
  <2> QED  BY <1>2, <2>5, <2>6, <2>7 DEF HubInv
<1> QED  BY <1>1, <1>4, <1>5

\* Steps that touch neither the map, nor the queues, nor a handler.
LEMMA InvFrame ==
    ASSUME HubInv,
           UNCHANGED <<hpc, agentID, registerQ, unregisterQ, agents, closed>>,
           \/ hubPc' # "offline"
           \/ hubPc' = hubPc /\ hubArg' = hubArg
    PROVE  HubInv'
<1>1. /\ Elems(registerQ') = Elems(registerQ) /\ NoDup(registerQ') = NoDup(registerQ)
      /\ Elems(unregisterQ') = Elems(unregisterQ)
  OBVIOUS
<1> QED  BY <1>1 DEF HubInv, Waiting, Mapped, Young, Authed, Parted, Handled

\* A restart empties the map and the queues together.
LEMMA InvRestart ==
    ASSUME TypeOK, HubInv, Restart
    PROVE  HubInv'
<1>1. /\ registerQ' = <<>> /\ unregisterQ' = <<>> /\ hubPc' = "select"
      /\ agents' = [a \in Agents |-> NoConn]
      /\ hpc' = [c \in Conns |-> IF hpc[c] \in {"free", "rejected"} THEN hpc[c] ELSE "gone"]
      /\ UNCHANGED <<agentID, closed>>
  BY DEF Restart
<1>2. Elems(registerQ') = {} /\ Elems(unregisterQ') = {} /\ NoDup(registerQ')
  BY <1>1 DEF Elems, NoDup
<1>3. Waiting' /\ Mapped' /\ Parted' /\ Handled'
  BY <1>1, <1>2 DEF Waiting, Mapped, Parted, Handled
<1>4. Young' /\ Authed'
  BY <1>1 DEF HubInv, Young, Authed, Entered, TypeOK
<1> QED  BY <1>3, <1>4 DEF HubInv

\* Which steps leave the map, the queues and the handlers alone.
LEMMA FrameSteps ==
    ASSUME \/ \E a \in Agents : CreateAgent(a) \/ DeleteAgent(a) \/ ReconcileMark(a)
           \/ HubMarkOffline \/ Reconcile
           \/ \E c \in Conns : PumpStep(c)
           \/ \E k \in Callers : Send(k) \/ \E a \in Agents : Lookup(k, a)
           \/ UNCHANGED vars
    PROVE  /\ UNCHANGED <<hpc, agentID, registerQ, unregisterQ, agents, closed>>
           /\ \/ hubPc' # "offline"
              \/ hubPc' = hubPc /\ hubArg' = hubArg
<1>1. CASE \E a \in Agents : CreateAgent(a) \/ DeleteAgent(a) \/ ReconcileMark(a)
  BY <1>1 DEF CreateAgent, DeleteAgent, ReconcileMark, handlerVars, hubVars
<1>2. CASE HubMarkOffline \/ Reconcile
  BY <1>2 DEF HubMarkOffline, Reconcile, handlerVars
<1>3. CASE \E c \in Conns : PumpStep(c)
  BY <1>3 DEF PumpStep, PumpWrite, PumpFail, PumpExit, handlerVars, hubVars
<1>4. CASE \E k \in Callers : Send(k) \/ \E a \in Agents : Lookup(k, a)
  BY <1>4 DEF Send, Lookup, handlerVars, hubVars
<1>5. CASE UNCHANGED vars
  BY <1>5 DEF vars
<1> QED  BY <1>1, <1>2, <1>3, <1>4, <1>5

\* The inductive invariant behind the theorems below: what waits in the register
\* channel is open, waits once and is not in the map yet; the map holds only open
\* connections, each of its own agent; only handlers that ended are unregistered.
THEOREM HubInvariant == Spec => []HubInv
<1>1. TypeOK /\ HubInv /\ [Next]_vars => HubInv'
  <2> SUFFICES ASSUME TypeOK, HubInv, [Next]_vars PROVE HubInv'
    OBVIOUS
  <2>1. CASE \E c \in Conns : \/ Reject(c) \/ Lose(c) \/ HandlerStep(c)
                              \/ \E a \in Agents : Authenticate(c, a)
    BY <2>1, InvHandler, InvEnqueueRegister, InvEnqueueUnregister DEF HandlerStep
  <2>2. CASE HubRegister
    BY <2>2, InvHubRegister
  <2>3. CASE HubUnregister
    BY <2>3, InvHubUnregister
  <2>4. CASE Restart
    BY <2>4, InvRestart
  <2>5. CASE \/ \E a \in Agents : CreateAgent(a) \/ DeleteAgent(a) \/ ReconcileMark(a)
             \/ HubMarkOffline \/ Reconcile
             \/ \E c \in Conns : PumpStep(c)
             \/ \E k \in Callers : Send(k) \/ \E a \in Agents : Lookup(k, a)
             \/ UNCHANGED vars
    BY <2>5, FrameSteps, InvFrame
  <2> QED  BY <2>1, <2>2, <2>3, <2>4, <2>5 DEF Next, HubStep
<1> QED  BY <1>1, HubInvInit, TypeCorrect, PTL DEF Spec

\* The map only holds open channels, each of its own agent: Hub.Run never
\* closes a channel twice, and only a send that outlives its lookup can panic.
THEOREM RegistryOpenHolds == Spec => []RegistryOpen
<1>1. HubInv => RegistryOpen
  BY DEF HubInv, Mapped, RegistryOpen
<1> QED  BY <1>1, HubInvariant, PTL

-----------------------------------------------------------------------------
(* Closing a send channel loses nothing *)

Drained ==
    \A c \in Conns : pump[c] = "exited" => sendBuf[c] = <<>> /\ c \in closed

\* A pump that ended normally had written everything its channel accepted, and
\* nothing is accepted afterwards: the channel is closed for good.
THEOREM ExitDrainedHolds == Spec => []ExitDrained
<1>1. Init => Drained
  BY DEF Init, Drained
<1>2. TypeOK /\ Drained /\ [Next]_vars => Drained'
  <2> SUFFICES ASSUME TypeOK, Drained, [Next]_vars PROVE Drained'
    OBVIOUS
  <2>1. CASE UNCHANGED <<pump, sendBuf>> /\ closed \subseteq closed'
    BY <2>1 DEF Drained
  <2>2. ASSUME NEW c \in Conns, EnqueueRegister(c) PROVE Drained'
    BY <2>2 DEF EnqueueRegister, Drained, TypeOK
  <2>3. ASSUME NEW c \in Conns, PumpStep(c) PROVE Drained'
    <3>1. CASE PumpWrite(c)
      BY <3>1 DEF PumpWrite, Drained, TypeOK, hubVars
    <3>2. CASE PumpFail(c)
      BY <3>2 DEF PumpFail, Drained, TypeOK, hubVars
    <3>3. CASE PumpExit(c)
      BY <3>3 DEF PumpExit, Drained, TypeOK, hubVars
    <3> QED  BY <2>3, <3>1, <3>2, <3>3 DEF PumpStep
  <2>4. ASSUME NEW k \in Callers, Send(k) PROVE Drained'
    <3> DEFINE c == target[k]
    <3>1. UNCHANGED <<pump, closed>>
      BY <2>4 DEF Send, hubVars
    <3>2. \A d \in Conns : sendBuf'[d] # sendBuf[d] => d = c /\ c \notin closed
      BY <2>4 DEF Send, SendResult, TypeOK
    <3> QED  BY <3>1, <3>2 DEF Drained
  <2>5. CASE Restart
    BY <2>5 DEF Restart, Drained, TypeOK
  <2>6. ASSUME NEW c \in Conns,
               \/ Reject(c) \/ Lose(c) \/ MarkOnline(c) \/ EnqueueUnregister(c)
               \/ \E a \in Agents : Authenticate(c, a)
        PROVE  UNCHANGED <<pump, sendBuf>> /\ closed \subseteq closed'
    BY <2>6 DEF Reject, Lose, MarkOnline, EnqueueUnregister, Authenticate, hubVars,
                pumpVars
  <2>7. ASSUME HubStep
        PROVE  UNCHANGED <<pump, sendBuf>> /\ closed \subseteq closed'
    BY <2>7 DEF HubStep, HubRegister, HubUnregister, HubMarkOffline, Reconcile,
                ReconcileMark, pumpVars
  <2>8. ASSUME \/ \E a \in Agents : CreateAgent(a) \/ DeleteAgent(a)
               \/ \E k \in Callers, a \in Agents : Lookup(k, a)
               \/ UNCHANGED vars
        PROVE  UNCHANGED <<pump, sendBuf>> /\ closed \subseteq closed'
    BY <2>8 DEF CreateAgent, DeleteAgent, Lookup, hubVars, pumpVars, vars
  <2> QED
    BY <2>1, <2>2, <2>3, <2>4, <2>5, <2>6, <2>7, <2>8 DEF Next, HandlerStep
<1>3. Drained => ExitDrained
  BY DEF Drained, ExitDrained
<1> QED  BY <1>1, <1>2, <1>3, TypeCorrect, PTL DEF Spec

-----------------------------------------------------------------------------
(* Who answers for an agent shown online *)

\* The row of an agent says online only while one of its handlers is between
\* its UPDATE and the end of its unregister in the hub.  HubInv is needed: the
\* connection whose unregister the hub handles belongs to an agent.
THEOREM OnlineHasHandlerHolds == Spec => []OnlineHasHandler
<1> DEFINE Inv == TypeOK /\ HubInv /\ OnlineHasHandler
<1>1. Init => OnlineHasHandler
  BY DEF Init, OnlineHasHandler
<1>2. Inv /\ [Next]_vars => OnlineHasHandler'
  <2> SUFFICES ASSUME Inv, [Next]_vars, ~DbFaults, NEW a \in Agents,
                      dbStatus'[a] = "online"
               PROVE  \E c \in Conns : Responsible(a, c)'
    BY DEF OnlineHasHandler
  <2>0. dbStatus[a] = "online" => \E c \in Conns : Responsible(a, c)
    BY DEF OnlineHasHandler
  <2>1. CASE \E c \in Conns : MarkOnline(c)
    <3>1. PICK d \in Conns : MarkOnline(d)
      BY <2>1
    <3>2. /\ hpc[d] = "authed" /\ hpc' = [hpc EXCEPT ![d] = "online"]
          /\ UNCHANGED <<agentID, unregisterQ, hubPc, hubArg>>
      BY <3>1 DEF MarkOnline, hubVars
    <3>3. CASE agentID[d] = a
      BY <3>2, <3>3 DEF Responsible, TypeOK
    <3>4. CASE agentID[d] # a
      <4>1. dbStatus[a] = "online"
        BY <3>1, <3>4 DEF MarkOnline, UpdateStatus, TypeOK
      <4>2. PICK c \in Conns : Responsible(a, c)
        BY <4>1, <2>0
      <4>3. Responsible(a, c)'
        BY <4>2, <3>2 DEF Responsible, TypeOK
      <4> QED  BY <4>3
    <3> QED  BY <3>3, <3>4
  <2>2. CASE Restart
    <3>1. dbStatus'[a] = IF dbStatus[a] \in Row THEN "offline" ELSE dbStatus[a]
      BY <2>2 DEF Restart, StartupStatus
    <3>2. "online" \in Row
      BY DEF Row
    <3> QED  BY <3>1, <3>2
  <2>3. CASE HubMarkOffline
    <3>1. /\ hubPc = "offline" /\ hubArg \in Conns /\ agentID[hubArg] \in Agents
          /\ UNCHANGED <<hpc, agentID, unregisterQ>>
      BY <2>3 DEF HubMarkOffline, handlerVars, HubInv, Handled, Authed
    <3>2. agentID[hubArg] # a /\ dbStatus[a] = "online"
      BY <2>3, <3>1 DEF HubMarkOffline, UpdateStatus, TypeOK, Row
    <3>3. PICK c \in Conns : Responsible(a, c)
      BY <3>2, <2>0
    <3>4. Responsible(a, c)'
      BY <3>1, <3>2, <3>3 DEF Responsible
    <3> QED  BY <3>4
  <2>4. CASE HubUnregister
    <3> DEFINE d == Head(unregisterQ)
    <3>1. /\ d \in Conns /\ hubArg' = d /\ hubPc' = "offline" /\ hubPc = "select"
          /\ Elems(unregisterQ) = {d} \cup Elems(unregisterQ')
          /\ UNCHANGED <<hpc, agentID, dbStatus>>
      BY <2>4, UnregisterEffect DEF HubUnregister
    <3>2. PICK c \in Conns : Responsible(a, c)
      BY <3>1, <2>0
    <3> HIDE DEF d
    <3>3. Responsible(a, c)'
      BY <3>1, <3>2 DEF Responsible
    <3> QED  BY <3>3
  <2>5. ASSUME dbStatus[a] = "online",
               UNCHANGED <<hubPc, hubArg>> \/ hubPc # "offline",
               \A c \in Elems(unregisterQ) : c \in Elems(unregisterQ'),
               \A c \in Conns : hpc[c] \in {"online", "reading", "leaving"} =>
                   \/ hpc'[c] \in {"online", "reading", "leaving"}
                   \/ c \in Elems(unregisterQ'),
               \A c \in Conns : hpc[c] # "free" => agentID'[c] = agentID[c]
        PROVE  \E c \in Conns : Responsible(a, c)'
    <3>1. PICK c \in Conns : Responsible(a, c)
      BY <2>5, <2>0
    <3>2. hpc[c] # "free"
      BY <3>1 DEF Responsible, HubInv, Parted, Handled
    <3>3. Responsible(a, c)'
      BY <2>5, <3>1, <3>2 DEF Responsible
    <3> QED  BY <3>3
  <2>6. ASSUME NEW d \in Conns,
               \/ Reject(d) \/ Lose(d) \/ EnqueueRegister(d)
               \/ \E b \in Agents : Authenticate(d, b)
        PROVE  \E c \in Conns : Responsible(a, c)'
    <3>1. UNCHANGED <<dbStatus, hubPc, hubArg, unregisterQ>>
      BY <2>6 DEF Reject, Lose, EnqueueRegister, Authenticate, hubVars
    <3>2. \A c \in Conns : hpc[c] \in {"online", "reading", "leaving"} =>
                   hpc'[c] \in {"online", "reading", "leaving"}
      BY <2>6 DEF Reject, Lose, EnqueueRegister, Authenticate, TypeOK
    <3>3. \A c \in Conns : hpc[c] # "free" => agentID'[c] = agentID[c]
      BY <2>6 DEF Reject, Lose, EnqueueRegister, Authenticate, TypeOK
    <3> QED  BY <2>5, <3>1, <3>2, <3>3
  <2>7. ASSUME NEW d \in Conns, EnqueueUnregister(d)
        PROVE  \E c \in Conns : Responsible(a, c)'
    <3>1. /\ UNCHANGED <<agentID, dbStatus, hubPc, hubArg>>
          /\ hpc' = [hpc EXCEPT ![d] = "gone"]
          /\ unregisterQ' = Append(unregisterQ, d)
      BY <2>7 DEF EnqueueUnregister
    <3>2. Elems(unregisterQ') = Elems(unregisterQ) \cup {d}
      BY <3>1, ElemsAppend DEF TypeOK
    <3>3. \A c \in Conns : hpc[c] \in {"online", "reading", "leaving"} =>
                   \/ hpc'[c] \in {"online", "reading", "leaving"}
                   \/ c \in Elems(unregisterQ')
      BY <3>1, <3>2 DEF TypeOK
    <3> QED  BY <2>5, <3>1, <3>2, <3>3
  <2>8. ASSUME \/ \E b \in Agents : CreateAgent(b) \/ DeleteAgent(b) \/ ReconcileMark(b)
               \/ HubRegister \/ Reconcile
               \/ \E c \in Conns : PumpStep(c)
               \/ \E k \in Callers : Send(k) \/ \E b \in Agents : Lookup(k, b)
               \/ UNCHANGED vars
        PROVE  \E c \in Conns : Responsible(a, c)'
    <3>1. UNCHANGED <<hpc, agentID, unregisterQ>>
          /\ (UNCHANGED <<hubPc, hubArg>> \/ hubPc # "offline")
      BY <2>8 DEF CreateAgent, DeleteAgent, ReconcileMark, HubRegister, Reconcile,
                  PumpStep, PumpWrite, PumpFail, PumpExit, Send, Lookup,
                  handlerVars, hubVars, vars
    <3>2. dbStatus[a] = "online"
      <4>1. CASE \E b \in Agents : CreateAgent(b) \/ DeleteAgent(b) \/ ReconcileMark(b)
        BY <4>1 DEF CreateAgent, DeleteAgent, ReconcileMark, UpdateStatus, TypeOK
      <4>2. CASE UNCHANGED dbStatus
        BY <4>2
      <4> QED
        BY <2>8, <4>1, <4>2 DEF HubRegister, Reconcile, PumpStep, PumpWrite,
                                PumpFail, PumpExit, Send, Lookup, vars
    <3> QED  BY <2>5, <3>1, <3>2
  <2>9. CASE \E c \in Conns : \/ Reject(c) \/ Lose(c) \/ HandlerStep(c)
                              \/ \E b \in Agents : Authenticate(c, b)
    BY <2>9, <2>1, <2>6, <2>7 DEF HandlerStep
  <2>10. CASE HubStep
    BY <2>10, <2>3, <2>4, <2>8 DEF HubStep
  <2> QED
    BY <2>2, <2>8, <2>9, <2>10 DEF Next
<1> QED  BY <1>1, <1>2, TypeCorrect, HubInvariant, PTL DEF Spec

-----------------------------------------------------------------------------
(* The hub implements the registry *)

\* The hub starts as an empty registry.
LEMMA RegistryInit == Init => Registry!Init
<1> SUFFICES ASSUME Init PROVE Registry!Init
  OBVIOUS
<1>1. Fresh = Conns
  <2>1. Elems(registerQ) = {}
    BY DEF Init, Elems
  <2> QED  BY <2>1 DEF Init, Fresh
<1>2. Left = {}
  BY DEF Init, Left
<1> QED  BY <1>1, <1>2 DEF Init, Registry!Init

\* Every step of the hub is a step of the registry, or a stutter.
LEMMA RegistryStep ==
    ASSUME TypeOK, HubInv, [Next]_vars
    PROVE  [Registry!Next]_(Registry!rvars)
<1> DEFINE Before == {"free", "authed", "online"}
<1>0. Elems(registerQ) \subseteq Conns /\ Elems(unregisterQ) \subseteq Conns
  BY DEF TypeOK, Elems
<1>1. ASSUME NEW c \in Conns, Reject(c) PROVE Registry!Next
  <2>1. /\ hpc[c] = "free" /\ hpc' = [hpc EXCEPT ![c] = "rejected"]
        /\ UNCHANGED <<registerQ, agents, closed>>
    BY <1>1 DEF Reject, hubVars
  <2>2. Left' = Left
    BY <2>1 DEF Left, TypeOK
  <2>3. c \notin Elems(registerQ) /\ Elems(registerQ') = Elems(registerQ)
    BY <2>1 DEF HubInv, Waiting, Entered
  <2>4. Fresh' = Fresh \ {c}
    BY <2>1, <2>3 DEF Fresh, TypeOK
  <2>5. Registry!Drop(c)
    BY <2>1, <2>2, <2>4 DEF Registry!Drop
  <2> QED  BY <2>5 DEF Registry!Next
<1>2. ASSUME NEW c \in Conns, EnqueueUnregister(c) PROVE Registry!Next
  <2>1. /\ hpc[c] = "leaving" /\ hpc' = [hpc EXCEPT ![c] = "gone"]
        /\ UNCHANGED <<registerQ, agents, closed>>
    BY <1>2 DEF EnqueueUnregister
  <2>2. Left' = Left \cup {c}
    BY <2>1 DEF Left, TypeOK
  <2>3. Elems(registerQ') = Elems(registerQ)
    BY <2>1
  <2>4. Fresh' = Fresh
    BY <2>1, <2>3 DEF Fresh, TypeOK
  <2>5. Registry!Leave(c)
    BY <2>1, <2>2, <2>4 DEF Registry!Leave
  <2> QED  BY <2>5 DEF Registry!Next
<1>3. CASE HubRegister
  <2> DEFINE c == Head(registerQ)
  <2>1. /\ UNCHANGED <<hpc, agentID, closed>>
        /\ registerQ # <<>> /\ registerQ' = Tail(registerQ)
        /\ agents' = [agents EXCEPT ![agentID[c]] = c]
    BY <1>3 DEF HubRegister, handlerVars
  <2>2. registerQ \in Seq(Conns) /\ NoDup(registerQ)
    BY DEF TypeOK, HubInv, Waiting
  <2>3. /\ Elems(registerQ) = {c} \cup Elems(registerQ')
        /\ c \notin Elems(registerQ')
    BY <2>1, <2>2, ElemsHeadTail, NoDupTail
  <2>4. c \in Conns /\ hpc[c] \in Entered
    BY <2>3, <1>0 DEF HubInv, Waiting
  <2>5. agentID[c] \in Agents
    BY <2>4 DEF HubInv, Authed, Entered
  <2> HIDE DEF c
  <2>6. Left' = Left
    BY <2>1 DEF Left
  <2>7. Fresh' = Fresh \ {c} /\ c \in Fresh
    BY <2>1, <2>3, <2>4 DEF Fresh, Entered
  <2>8. Registry!Attach(agentID[c], c)
    BY <2>1, <2>6, <2>7 DEF Registry!Attach
  <2> QED  BY <2>4, <2>5, <2>8 DEF Registry!Next
<1>4. CASE HubUnregister
  <2> DEFINE c == Head(unregisterQ)
  <2>1. /\ c \in Conns /\ hpc[c] = "gone" /\ agentID[c] \in Agents
        /\ UNCHANGED <<hpc, registerQ>>
        /\ \/ UNCHANGED <<closed, agents>>
           \/ /\ agents[agentID[c]] = c
              /\ closed' = closed \cup {c}
              /\ agents' = [agents EXCEPT ![agentID[c]] = NoConn]
    BY <1>4, UnregisterEffect
  <2> HIDE DEF c
  <2>2. Left' = Left /\ c \in Left
    BY <2>1 DEF Left
  <2>3. Elems(registerQ') = Elems(registerQ)
    BY <2>1
  <2>4. Fresh' = Fresh
    BY <2>1, <2>3 DEF Fresh
  <2>5. CASE UNCHANGED <<closed, agents>>
    BY <2>5, <2>2, <2>4 DEF Registry!rvars
  <2>6. CASE /\ agents[agentID[c]] = c
             /\ closed' = closed \cup {c}
             /\ agents' = [agents EXCEPT ![agentID[c]] = NoConn]
    <3>1. Registry!Detach(agentID[c])
      BY <2>2, <2>4, <2>6 DEF Registry!Detach
    <3> QED  BY <2>1, <3>1 DEF Registry!Next
  <2> QED  BY <2>1, <2>5, <2>6
<1>5. CASE Restart
  <2>1. /\ agents' = [a \in Agents |-> NoConn] /\ UNCHANGED closed
        /\ registerQ' = <<>>
        /\ hpc' = [c \in Conns |-> IF hpc[c] \in {"free", "rejected"} THEN hpc[c] ELSE "gone"]
    BY <1>5 DEF Restart
  <2>2. Left \subseteq Left' /\ Left' \subseteq Conns
    BY <2>1 DEF Left, TypeOK
  <2>3. Elems(registerQ') = {}
    BY <2>1 DEF Elems
  <2>4. Fresh' \subseteq Fresh
    BY <2>1, <2>3 DEF Fresh
  <2>5. Registry!Reset
    BY <2>1, <2>2, <2>4 DEF Registry!Reset
  <2> QED  BY <2>5 DEF Registry!Next
<1>6. ASSUME UNCHANGED <<agents, closed>>,
             \/ UNCHANGED <<hpc, registerQ>>
             \/ \E c \in Conns :
                   /\ hpc'[c] # "gone" /\ hpc[c] # "gone"
                   /\ \A d \in Conns \ {c} : hpc'[d] = hpc[d]
                   /\ c \in Fresh <=> c \in Fresh'
                   /\ Elems(registerQ') \ {c} = Elems(registerQ) \ {c}
      PROVE  UNCHANGED Registry!rvars
  <2>1. Left' = Left
    BY <1>6 DEF Left
  <2>2. Fresh' = Fresh
    <3>1. CASE UNCHANGED <<hpc, registerQ>>
      <4>1. Elems(registerQ') = Elems(registerQ)
        BY <3>1
      <4> QED  BY <3>1, <4>1 DEF Fresh
    <3>2. CASE ~UNCHANGED <<hpc, registerQ>>
      BY <1>6, <3>2 DEF Fresh
    <3> QED  BY <3>1, <3>2
  <2> QED  BY <1>6, <2>1, <2>2 DEF Registry!rvars
<1>7. ASSUME NEW c \in Conns, \/ Lose(c) \/ MarkOnline(c)
                              \/ \E a \in Agents : Authenticate(c, a)
      PROVE  UNCHANGED Registry!rvars
  <2>1. /\ UNCHANGED <<agents, closed, registerQ>>
        /\ hpc'[c] # "gone" /\ hpc[c] # "gone"
        /\ \A d \in Conns \ {c} : hpc'[d] = hpc[d]
        /\ hpc[c] \in Before <=> hpc'[c] \in Before
    BY <1>7 DEF Lose, MarkOnline, Authenticate, hubVars, TypeOK
  <2>2. Elems(registerQ') = Elems(registerQ)
    BY <2>1
  <2>3. c \in Fresh <=> c \in Fresh'
    BY <2>1, <2>2 DEF Fresh
  <2> QED  BY <1>6, <2>1, <2>2, <2>3
<1>8. ASSUME NEW c \in Conns, EnqueueRegister(c) PROVE UNCHANGED Registry!rvars
  <2>1. /\ UNCHANGED <<agents, closed>> /\ registerQ' = Append(registerQ, c)
        /\ hpc[c] = "online" /\ hpc' = [hpc EXCEPT ![c] = "reading"]
    BY <1>8 DEF EnqueueRegister
  <2>2. Elems(registerQ') = Elems(registerQ) \cup {c}
    BY <2>1, ElemsAppend DEF TypeOK
  <2>3. c \in Fresh /\ c \in Fresh'
    BY <2>1, <2>2 DEF Fresh
  <2>4. /\ hpc'[c] # "gone" /\ hpc[c] # "gone"
        /\ \A d \in Conns \ {c} : hpc'[d] = hpc[d]
    BY <2>1 DEF TypeOK
  <2> QED  BY <1>6, <2>1, <2>2, <2>3, <2>4
<1>9. CASE \/ \E a \in Agents : CreateAgent(a) \/ DeleteAgent(a) \/ ReconcileMark(a)
           \/ HubMarkOffline \/ Reconcile
           \/ \E c \in Conns : PumpStep(c)
           \/ \E k \in Callers : Send(k) \/ \E a \in Agents : Lookup(k, a)
           \/ UNCHANGED vars
  BY <1>6, <1>9, FrameSteps
<1>10. CASE \E c \in Conns : \/ Reject(c) \/ Lose(c) \/ HandlerStep(c)
                             \/ \E a \in Agents : Authenticate(c, a)
  BY <1>10, <1>1, <1>2, <1>7, <1>8 DEF HandlerStep
<1> QED  BY <1>3, <1>4, <1>5, <1>9, <1>10 DEF Next, HubStep

\* The hub's map, filled through one channel and emptied through another by
\* connections in any state, behaves as the abstract registry.
THEOREM HubImplementsRegistry == Spec => RegistrySpec
<1> QED
  BY RegistryInit, RegistryStep, TypeCorrect, HubInvariant, PTL
     DEF Spec, RegistrySpec, Registry!Spec
=============================================================================
