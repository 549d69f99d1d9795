\* One job that is created with a passphrase, and run.
SPECIFICATION HSpec
CONSTANTS
  NoRow = NoRow
  Deleted = Deleted
  Jobs = {j1}
  Admins = {p1}
  Triggers = {t1}
  Cascades = FALSE
  DbFaults = FALSE
  Secrets = {"given"}
  MaxRev = 0
SYMMETRY Interchangeable
INVARIANTS DispatchCarriesPassphrase
CHECK_DEADLOCK FALSE
