\* Two agents, two connections (a reconnection), two calls, one-place channels and buffers.
SPECIFICATION Spec
CONSTANTS
  NoConn = NoConn
  NoAgent = NoAgent
  Agents = {a1, a2}
  Conns = {c1, c2}
  Callers = {k1, k2}
  ChanCap = 1
  SendCap = 1
  DbFaults = FALSE
SYMMETRY Interchangeable
INVARIANTS TypeOK RegistryOpen OnlineHasHandler ExitDrained
PROPERTY RegistrySpec
CHECK_DEADLOCK FALSE
