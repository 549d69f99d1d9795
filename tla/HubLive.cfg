\* Channels of capacity 1 and failing updates: what must eventually happen.
SPECIFICATION FairSpec
CONSTANTS
  NoConn = NoConn
  NoAgent = NoAgent
  Agents = {a1}
  Conns = {c1, c2}
  Callers = {k1}
  ChanCap = 1
  SendCap = 1
  DbFaults = TRUE
PROPERTIES UnregisterHandled StaleOnlineRepaired AcceptedIsWritten
CHECK_DEADLOCK FALSE
