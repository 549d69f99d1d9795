------------------------------ MODULE AgentRegistry ------------------------------
(***************************************************************************)
(* What the hub's table of agents promises to the code that uses it, with  *)
(* no channels, goroutines or database: at any time an agent has at most   *)
(* one connection, a newer connection replaces an older one, a connection  *)
(* is removed only after its own reader has finished, and a connection     *)
(* whose send channel was closed is never handed out again.                *)
(* Hub implements this module (internal/ws/hub.go).                        *)
(***************************************************************************)
CONSTANTS
    Agents,     \* agent identifiers
    Conns,      \* connections, each used once
    NoConn      \* stands for "no entry in the map"

VARIABLES
    registry,   \* the connection registered for each agent
    fresh,      \* connections that may still be attached
    left,       \* connections whose reader has finished
    closed      \* connections whose send channel was closed

rvars == <<registry, fresh, left, closed>>

TypeOK ==
    /\ registry \in [Agents -> Conns \cup {NoConn}]
    /\ fresh \subseteq Conns
    /\ left \subseteq Conns
    /\ closed \subseteq Conns

Init ==
    /\ registry = [a \in Agents |-> NoConn]
    /\ fresh = Conns
    /\ left = {}
    /\ closed = {}

\* A connection becomes its agent's connection, replacing any older one.
Attach(a, c) ==
    /\ c \in fresh
    /\ registry' = [registry EXCEPT ![a] = c]
    /\ fresh' = fresh \ {c}
    /\ UNCHANGED <<left, closed>>

\* A connection's reader finishes.
Leave(c) ==
    /\ left' = left \cup {c}
    /\ UNCHANGED <<registry, fresh, closed>>

\* The connection of an agent is removed and closed: only after it has left.
Detach(a) ==
    /\ registry[a] \in left
    /\ registry' = [registry EXCEPT ![a] = NoConn]
    /\ closed' = closed \cup {registry[a]}
    /\ UNCHANGED <<fresh, left>>

\* A connection is given up before it was ever attached.
Drop(c) ==
    /\ fresh' = fresh \ {c}
    /\ UNCHANGED <<registry, left, closed>>

\* The server restarts: every connection of the old process is over.
Reset ==
    /\ registry' = [a \in Agents |-> NoConn]
    /\ fresh' \in SUBSET fresh
    /\ left' \in {l \in SUBSET Conns : left \subseteq l}
    /\ UNCHANGED closed

Next ==
    \/ \E a \in Agents, c \in Conns : Attach(a, c)
    \/ \E c \in Conns : Leave(c) \/ Drop(c)
    \/ \E a \in Agents : Detach(a)
    \/ Reset

Spec == Init /\ [][Next]_rvars
=============================================================================
