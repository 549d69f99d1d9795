\* One run, one cancel request, no fault.
SPECIFICATION FairSpec
CONSTANTS
  NoRun = NoRun
  Runs = {r1}
  Cancels = {k1}
  SendCap = 2
  LinkFaults = FALSE
  Crashes = FALSE
  DbFaults = FALSE
PROPERTY CancelledIsNotFailed
CHECK_DEADLOCK FALSE
