\* Two jobs, two overlapping requests, one trigger, deleted agents, failing statements.
SPECIFICATION HSpec
CONSTANTS
  NoRow = NoRow
  Deleted = Deleted
  Jobs = {j1, j2}
  Admins = {p1, p2}
  Triggers = {t1}
  Cascades = TRUE
  DbFaults = TRUE
  Secrets = {"none"}
  MaxRev = 1
SYMMETRY Interchangeable
INVARIANTS OneEntryPerJob ScheduleMatches
CHECK_DEADLOCK FALSE
