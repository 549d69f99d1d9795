\* One run and a socket for it; connections do not fail of themselves.
SPECIFICATION FairSpec
CONSTANTS
  NoData = NoData
  Nothing = Nothing
  Runs = {u1}
  Sockets = {w1}
  Requests = {c1}
  Faults = FALSE
PROPERTY LogsAreLive
