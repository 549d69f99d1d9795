----------------------------------- MODULE Hub -----------------------------------
(***************************************************************************)
(* The hub (internal/ws/hub.go), the websocket handlers that register with *)
(* it (internal/ws/handler.go, ServeHTTP) and the goroutines that call it. *)
(*                                                                         *)
(* One hub goroutine owns the map of agents and drains two bounded         *)
(* channels; a handler goroutine per connection authenticates the agent,   *)
(* writes 'online' to the database, registers, reads, and unregisters; a   *)
(* writePump goroutine per connection drains its send channel; callers     *)
(* (scheduler, HTTP handlers) look a connection up under the lock and send *)
(* to it after the lock is released.  Every database statement, channel    *)
(* operation and critical section is an action of its own.                 *)
(***************************************************************************)
EXTENDS Naturals, Sequences, FiniteSets

CONSTANTS
    Agents,      \* agent ids (UUIDs: never used twice)
    Conns,       \* websocket connections; one handler and one pump each
    Callers,     \* calls of DispatchJob, BrowsePath, UpdateAgent, CancelJob
    NoConn,      \* absence of a map entry
    NoAgent,     \* agentID before authentication
    ChanCap,     \* capacity of register and unregister (16 in the code)
    SendCap,     \* capacity of a connection's send channel (64 in the code)
    DbFaults     \* TRUE: any UPDATE of the agents table may fail (it is logged)

ASSUME ConstantsAssumption ==
    /\ NoConn \notin Conns
    /\ NoAgent \notin Agents
    /\ ChanCap \in Nat \ {0}
    /\ SendCap \in Nat \ {0}
    /\ DbFaults \in BOOLEAN

VARIABLES
    hpc,         \* where the handler goroutine of each connection is
    agentID,     \* the agent each connection authenticated as
    registerQ,   \* Hub.register
    unregisterQ, \* Hub.unregister
    agents,      \* Hub.agents
    closed,      \* connections whose send channel is closed
    sendBuf,     \* contents of each send channel: the calls they came from
    pump,        \* writePump of each connection
    hubPc,       \* where the hub goroutine is
    hubArg,      \* the connection whose unregister the hub handles
    suspects,    \* agents reconcileOffline still has to mark offline
    dbStatus,    \* agents.status, or no row
    cpc,         \* where each caller is
    target,      \* the connection a caller found in the map
    outcome,     \* what a call returned
    delivered    \* calls whose message was written to the connection

handlerVars == <<hpc, agentID>>
hubVars     == <<registerQ, unregisterQ, agents, closed, hubPc, hubArg, suspects>>
pumpVars    == <<sendBuf, pump, delivered>>
callVars    == <<cpc, target, outcome>>
vars == <<hpc, agentID, registerQ, unregisterQ, agents, closed, sendBuf, pump,
          hubPc, hubArg, suspects, dbStatus, cpc, target, outcome, delivered>>

Row == {"offline", "online"}      \* the row exists, with this status
Elems(q) == {q[i] : i \in DOMAIN q}

TypeOK ==
    /\ hpc \in [Conns -> {"free", "rejected", "authed", "online", "reading",
                          "leaving", "gone"}]
    /\ agentID \in [Conns -> Agents \cup {NoAgent}]
    /\ registerQ \in Seq(Conns) /\ Len(registerQ) <= ChanCap
    /\ unregisterQ \in Seq(Conns) /\ Len(unregisterQ) <= ChanCap
    /\ agents \in [Agents -> Conns \cup {NoConn}]
    /\ closed \subseteq Conns
    /\ sendBuf \in [Conns -> Seq(Callers)]
    /\ \A c \in Conns : Len(sendBuf[c]) <= SendCap
    /\ pump \in [Conns -> {"none", "running", "exited", "failed"}]
    /\ hubPc \in {"select", "offline", "reconcile"}
    /\ hubArg \in Conns \cup {NoConn}
    /\ suspects \subseteq Agents
    /\ dbStatus \in [Agents -> Row \cup {"absent", "deleted"}]
    /\ cpc \in [Callers -> {"idle", "found", "done"}]
    /\ target \in [Callers -> Conns \cup {NoConn}]
    /\ outcome \in [Callers -> {"none", "notConnected", "sent", "full", "panic"}]
    /\ delivered \subseteq Callers

Init ==
    /\ hpc = [c \in Conns |-> "free"]
    /\ agentID = [c \in Conns |-> NoAgent]
    /\ registerQ = <<>> /\ unregisterQ = <<>>
    /\ agents = [a \in Agents |-> NoConn]
    /\ closed = {}
    /\ sendBuf = [c \in Conns |-> <<>>]
    /\ pump = [c \in Conns |-> "none"]
    /\ hubPc = "select" /\ hubArg = NoConn /\ suspects = {}
    /\ dbStatus = [a \in Agents |-> "absent"]
    /\ cpc = [k \in Callers |-> "idle"]
    /\ target = [k \in Callers |-> NoConn]
    /\ outcome = [k \in Callers |-> "none"]
    /\ delivered = {}

-----------------------------------------------------------------------------
(* The agents table *)

\* UPDATE agents SET status=s WHERE id=a: no effect without a row; when the
\* statement fails the code logs the error and goes on.
UpdateStatus(a, s) ==
    \/ dbStatus' = IF dbStatus[a] \in Row THEN [dbStatus EXCEPT ![a] = s] ELSE dbStatus
    \/ DbFaults /\ UNCHANGED dbStatus

\* handleCreateAgent: the row is inserted with status 'offline'.
CreateAgent(a) ==
    /\ dbStatus[a] = "absent"
    /\ dbStatus' = [dbStatus EXCEPT ![a] = "offline"]
    /\ UNCHANGED <<handlerVars, hubVars, pumpVars, callVars>>

\* handleDeleteAgent: only the row goes; the hub is not told.
DeleteAgent(a) ==
    /\ dbStatus[a] \in Row
    /\ dbStatus' = [dbStatus EXCEPT ![a] = "deleted"]
    /\ UNCHANGED <<handlerVars, hubVars, pumpVars, callVars>>

-----------------------------------------------------------------------------
(* AgentHandler.ServeHTTP: one goroutine per connection *)

\* No hello in 15 s, a first message that is not hello, or an unknown key.
Reject(c) ==
    /\ hpc[c] = "free"
    /\ hpc' = [hpc EXCEPT ![c] = "rejected"]
    /\ UNCHANGED <<agentID, hubVars, pumpVars, dbStatus, callVars>>

\* authenticateAPIKey found the agent's row.
Authenticate(c, a) ==
    /\ hpc[c] = "free"
    /\ dbStatus[a] \in Row
    /\ hpc' = [hpc EXCEPT ![c] = "authed"]
    /\ agentID' = [agentID EXCEPT ![c] = a]
    /\ UNCHANGED <<hubVars, pumpVars, dbStatus, callVars>>

\* UPDATE agents SET status='online', ...: before the hub knows the agent.
MarkOnline(c) ==
    /\ hpc[c] = "authed"
    /\ UpdateStatus(agentID[c], "online")
    /\ hpc' = [hpc EXCEPT ![c] = "online"]
    /\ UNCHANGED <<agentID, hubVars, pumpVars, callVars>>

\* Faulty variant: an unbounded register channel.
EnqueueRegisterUnbounded(c) ==
    /\ hpc[c] = "online"
    /\ registerQ' = Append(registerQ, c)
    /\ pump' = [pump EXCEPT ![c] = "running"]
    /\ hpc' = [hpc EXCEPT ![c] = "reading"]
    /\ UNCHANGED <<agentID, unregisterQ, agents, closed, hubPc, hubArg, suspects,
                   sendBuf, delivered, dbStatus, callVars>>

\* Hub.Register: a blocking send on the register channel, then the pump starts.
EnqueueRegister(c) ==
    /\ hpc[c] = "online"
    /\ Len(registerQ) < ChanCap
    /\ registerQ' = Append(registerQ, c)
    /\ pump' = [pump EXCEPT ![c] = "running"]
    /\ hpc' = [hpc EXCEPT ![c] = "reading"]
    /\ UNCHANGED <<agentID, unregisterQ, agents, closed, hubPc, hubArg, suspects,
                   sendBuf, delivered, dbStatus, callVars>>

\* ReadMessage fails: the peer left, 60 s of silence, or the pump closed the
\* connection.
Lose(c) ==
    /\ hpc[c] = "reading"
    /\ hpc' = [hpc EXCEPT ![c] = "leaving"]
    /\ UNCHANGED <<agentID, hubVars, pumpVars, dbStatus, callVars>>

\* The deferred Hub.Unregister: a blocking send on the unregister channel.
EnqueueUnregister(c) ==
    /\ hpc[c] = "leaving"
    /\ Len(unregisterQ) < ChanCap
    /\ unregisterQ' = Append(unregisterQ, c)
    /\ hpc' = [hpc EXCEPT ![c] = "gone"]
    /\ UNCHANGED <<agentID, registerQ, agents, closed, hubPc, hubArg, suspects,
                   pumpVars, dbStatus, callVars>>

-----------------------------------------------------------------------------
(* Hub.Run: select between the register and unregister channels and a tick *)

HubRegister ==
    /\ hubPc = "select"
    /\ registerQ # <<>>
    /\ LET c == Head(registerQ)
       IN  agents' = [agents EXCEPT ![agentID[c]] = c]
    /\ registerQ' = Tail(registerQ)
    /\ UNCHANGED <<handlerVars, unregisterQ, closed, hubPc, hubArg, suspects,
                   pumpVars, dbStatus, callVars>>

\* Faulty variant: without the comparison of pointers (current == ac).
AnyCurrent(c) == agents[agentID[c]] # NoConn

\* Only the connection that is the agent's current one is closed and removed.
IsCurrent(c) == agents[agentID[c]] = c

\* Faulty variant: the channel is closed, the entry stays.
NotRemoved(a) == agents

Removed(a) == [agents EXCEPT ![a] = NoConn]

HubUnregister ==
    /\ hubPc = "select"
    /\ unregisterQ # <<>>
    /\ LET c == Head(unregisterQ)
       IN  /\ hubArg' = c
           /\ IF IsCurrent(c)
              THEN /\ closed' = closed \cup {agents[agentID[c]]}
                   /\ agents' = Removed(agentID[c])
              ELSE UNCHANGED <<closed, agents>>
    /\ unregisterQ' = Tail(unregisterQ)
    /\ hubPc' = "offline"
    /\ UNCHANGED <<handlerVars, registerQ, suspects, pumpVars, dbStatus, callVars>>

\* Faulty variant: the row changes only when no newer connection is registered.
HubMarkOfflineIfAbsent ==
    /\ hubPc = "offline"
    /\ IF agents[agentID[hubArg]] = NoConn
       THEN UpdateStatus(agentID[hubArg], "offline")
       ELSE UNCHANGED dbStatus
    /\ hubPc' = "select"
    /\ hubArg' = NoConn
    /\ UNCHANGED <<handlerVars, registerQ, unregisterQ, agents, closed, suspects,
                   pumpVars, callVars>>

\* Faulty variant: the hub retries an update until the row says offline.
HubMarkOfflineRetry ==
    /\ hubPc = "offline"
    /\ UpdateStatus(agentID[hubArg], "offline")
    /\ hubPc' = IF dbStatus'[agentID[hubArg]] = "offline" THEN "select" ELSE "offline"
    /\ hubArg' = IF hubPc' = "select" THEN NoConn ELSE hubArg
    /\ UNCHANGED <<handlerVars, registerQ, unregisterQ, agents, closed, suspects,
                   pumpVars, callVars>>

\* ... and the agent is marked offline whichever connection was removed.
HubMarkOffline ==
    /\ hubPc = "offline"
    /\ UpdateStatus(agentID[hubArg], "offline")
    /\ hubPc' = "select"
    /\ hubArg' = NoConn
    /\ UNCHANGED <<handlerVars, registerQ, unregisterQ, agents, closed, suspects,
                   pumpVars, callVars>>

\* Faulty variant: the test of the map is inverted.
StaleInverted == {a \in Agents : dbStatus[a] = "online" /\ agents[a] # NoConn}

\* The rows reconcileOffline will mark: online, and not in the map.  The query
\* and the copy of the map are one step: only this goroutine writes the map.
Stale == {a \in Agents : dbStatus[a] = "online" /\ agents[a] = NoConn}

Reconcile ==
    /\ hubPc = "select"
    /\ Stale # {}
    /\ suspects' = Stale
    /\ hubPc' = "reconcile"
    /\ UNCHANGED <<handlerVars, registerQ, unregisterQ, agents, closed, hubArg,
                   pumpVars, dbStatus, callVars>>

ReconcileMark(a) ==
    /\ hubPc = "reconcile"
    /\ a \in suspects
    /\ UpdateStatus(a, "offline")
    /\ suspects' = suspects \ {a}
    /\ hubPc' = IF suspects = {a} THEN "select" ELSE "reconcile"
    /\ UNCHANGED <<handlerVars, registerQ, unregisterQ, agents, closed, hubArg,
                   pumpVars, callVars>>

-----------------------------------------------------------------------------
(* DispatchJob, BrowsePath, UpdateAgent and CancelJob *)

\* The map is read under RLock, which is then released.
Lookup(k, a) ==
    /\ cpc[k] = "idle"
    /\ target' = [target EXCEPT ![k] = agents[a]]
    /\ IF agents[a] = NoConn
       THEN /\ cpc' = [cpc EXCEPT ![k] = "done"]
            /\ outcome' = [outcome EXCEPT ![k] = "notConnected"]
       ELSE /\ cpc' = [cpc EXCEPT ![k] = "found"]
            /\ UNCHANGED outcome
    /\ UNCHANGED <<handlerVars, hubVars, pumpVars, dbStatus>>

\* select { case ac.send <- data: ... default: ... }: a closed channel panics.
SendResult(c) ==
    IF c \in closed THEN "panic"
    ELSE IF Len(sendBuf[c]) < SendCap THEN "sent" ELSE "full"

Send(k) ==
    /\ cpc[k] = "found"
    /\ LET c == target[k]
       IN  /\ outcome' = [outcome EXCEPT ![k] = SendResult(c)]
           /\ sendBuf' = IF SendResult(c) = "sent"
                         THEN [sendBuf EXCEPT ![c] = Append(@, k)]
                         ELSE sendBuf
    /\ cpc' = [cpc EXCEPT ![k] = "done"]
    /\ UNCHANGED <<handlerVars, hubVars, pump, delivered, dbStatus, target>>

-----------------------------------------------------------------------------
(* AgentConn.writePump *)

\* A queued message is written; buffered messages survive close(send).
PumpWrite(c) ==
    /\ pump[c] = "running"
    /\ sendBuf[c] # <<>>
    /\ sendBuf' = [sendBuf EXCEPT ![c] = Tail(@)]
    /\ delivered' = delivered \cup {Head(sendBuf[c])}
    /\ UNCHANGED <<handlerVars, hubVars, pump, dbStatus, callVars>>

\* A write or a ping fails: the pump closes the connection and ends.
PumpFail(c) ==
    /\ pump[c] = "running"
    /\ pump' = [pump EXCEPT ![c] = "failed"]
    /\ UNCHANGED <<handlerVars, hubVars, sendBuf, delivered, dbStatus, callVars>>

\* Faulty variant: the pump ends as soon as the channel is closed.
PumpExitAtOnce(c) ==
    /\ pump[c] = "running"
    /\ c \in closed
    /\ pump' = [pump EXCEPT ![c] = "exited"]
    /\ UNCHANGED <<handlerVars, hubVars, sendBuf, delivered, dbStatus, callVars>>

\* The channel is closed and drained: a close frame is written.
PumpExit(c) ==
    /\ pump[c] = "running"
    /\ c \in closed
    /\ sendBuf[c] = <<>>
    /\ pump' = [pump EXCEPT ![c] = "exited"]
    /\ UNCHANGED <<handlerVars, hubVars, sendBuf, delivered, dbStatus, callVars>>

-----------------------------------------------------------------------------
\* The server process dies and starts again: memory is lost, sockets are cut,
\* and main marks every agent offline before it listens.
StartupStatus ==
    \/ dbStatus' = [a \in Agents |-> IF dbStatus[a] \in Row THEN "offline" ELSE dbStatus[a]]
    \/ DbFaults /\ UNCHANGED dbStatus

Restart ==
    /\ StartupStatus
    /\ hpc' = [c \in Conns |-> IF hpc[c] \in {"free", "rejected"} THEN hpc[c] ELSE "gone"]
    /\ registerQ' = <<>> /\ unregisterQ' = <<>>
    /\ agents' = [a \in Agents |-> NoConn]
    /\ sendBuf' = [c \in Conns |-> <<>>]
    /\ pump' = [c \in Conns |-> IF pump[c] = "running" THEN "failed" ELSE pump[c]]
    /\ hubPc' = "select" /\ hubArg' = NoConn /\ suspects' = {}
    /\ cpc' = [k \in Callers |-> "idle"]
    /\ target' = [k \in Callers |-> NoConn]
    /\ outcome' = [k \in Callers |-> "none"]
    /\ delivered' = {}
    /\ UNCHANGED <<agentID, closed>>

HandlerStep(c) ==
    \/ MarkOnline(c) \/ EnqueueRegister(c) \/ EnqueueUnregister(c)

HubStep ==
    \/ HubRegister \/ HubUnregister \/ HubMarkOffline \/ Reconcile
    \/ \E a \in Agents : ReconcileMark(a)

PumpStep(c) == PumpWrite(c) \/ PumpFail(c) \/ PumpExit(c)

Next ==
    \/ \E a \in Agents : CreateAgent(a) \/ DeleteAgent(a)
    \/ \E c \in Conns :
          \/ Reject(c) \/ Lose(c) \/ HandlerStep(c) \/ PumpStep(c)
          \/ \E a \in Agents : Authenticate(c, a)
    \/ HubStep
    \/ \E k \in Callers : Send(k) \/ \E a \in Agents : Lookup(k, a)
    \/ Restart

Spec == Init /\ [][Next]_vars

-----------------------------------------------------------------------------
(* Fairness: the Go scheduler runs every goroutine that can run; select      *)
(* chooses at random among its ready cases, so a case that is ready again    *)
(* and again is taken (strong fairness); a goroutine blocked on a full       *)
(* channel is served in turn; the reconcile ticker fires for ever; a         *)
(* database that fails does not fail for ever.  The peer, the operator and   *)
(* a restart owe nothing: Reject, Authenticate, Lose, CreateAgent,           *)
(* DeleteAgent, Lookup and Restart are not fair.                             *)

Fairness ==
    /\ \A c \in Conns :
          /\ WF_vars(MarkOnline(c))
          /\ SF_vars(EnqueueRegister(c))
          /\ SF_vars(EnqueueUnregister(c))
          /\ WF_vars(PumpStep(c))
    /\ SF_vars(HubRegister) /\ SF_vars(HubUnregister) /\ SF_vars(Reconcile)
    /\ WF_vars(HubMarkOffline)
    /\ \A a \in Agents :
          /\ WF_vars(ReconcileMark(a))
          /\ SF_vars(ReconcileMark(a) /\ dbStatus'[a] # "online")
    /\ \A k \in Callers : WF_vars(Send(k))

FairSpec == Spec /\ Fairness

-----------------------------------------------------------------------------
(* What the hub promises *)

\* A connection whose handler has finished.
Left == {c \in Conns : hpc[c] = "gone"}

\* A connection that may still enter the map.
Fresh == {c \in Conns : hpc[c] \in {"free", "authed", "online"}} \cup Elems(registerQ)

Registry == INSTANCE AgentRegistry
            WITH registry <- agents, fresh <- Fresh, left <- Left

\* The hub implements the registry: a connection enters the map once, newer
\* replaces older, and a late unregister of an old connection never removes or
\* closes the connection that replaced it (comment of Hub.Unregister).
RegistrySpec == Registry!Spec

\* The map never holds a connection whose send channel is closed, nor one of
\* another agent: so a channel is closed once, and a send that immediately
\* follows its lookup cannot panic.
RegistryOpen ==
    \A a \in Agents : agents[a] # NoConn =>
        /\ agents[a] \notin closed
        /\ agentID[agents[a]] = a

\* An agent whose row says online has a handler that will unregister it, or an
\* unregister the hub has still to finish: reconnections in any order never
\* leave an agent without connections shown online, if no update fails.
Responsible(a, c) ==
    /\ agentID[c] = a
    /\ \/ hpc[c] \in {"online", "reading", "leaving"}
       \/ c \in Elems(unregisterQ)
       \/ hubPc = "offline" /\ hubArg = c

OnlineHasHandler ==
    ~DbFaults => \A a \in Agents :
        dbStatus[a] = "online" => \E c \in Conns : Responsible(a, c)

\* writePump ends normally only when everything accepted into the send channel
\* was written: closing the channel loses no message.
ExitDrained ==
    \A c \in Conns : pump[c] = "exited" => sendBuf[c] = <<>>

\* Every handler that stops reading gets its unregister accepted and handled:
\* the bounded channels and the hub's database calls never block it for ever.
UnregisterHandled ==
    \A c \in Conns : hpc[c] = "leaving" ~> hpc[c] = "gone" /\ c \notin Elems(unregisterQ)

\* An agent shown online that has no entry in the map is repaired by the
\* reconcile tick, even when database updates fail for a while.
StaleOnlineRepaired ==
    \A a \in Agents : dbStatus[a] = "online" /\ agents[a] = NoConn
                      ~> dbStatus[a] # "online" \/ agents[a] # NoConn

\* A message accepted by a send channel is written unless a write fails or the
\* server restarts.
AcceptedIsWritten ==
    \A k \in Callers : outcome[k] = "sent"
        ~> k \in delivered \/ outcome[k] = "none"
           \/ \E c \in Conns : target[k] = c /\ pump[c] = "failed"

=============================================================================
