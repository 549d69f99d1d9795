\* Two runs, one cancel request, every fault.
SPECIFICATION FairSpec
CONSTANTS
  NoRun = NoRun
  Runs = {r1, r2}
  Cancels = {k1}
  SendCap = 2
  LinkFaults = TRUE
  Crashes = TRUE
  DbFaults = TRUE
INVARIANTS VerdictMatchesArchive RunningIsOwned AlertIsDeserved
PROPERTY RunsEnd
CHECK_DEADLOCK FALSE
