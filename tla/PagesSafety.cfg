\* The run history: two runs, two requests (one of them from an earlier visit to
\* the page), a socket, on which the list does not depend.
\* Browsing: two agents, a directory in the root, two handlers at once.
\* Updates: two rows, so that the button of one can release the other's, two
\* requests of this visit or earlier ones; two update goroutines, so that
\* downloads overlap.
SPECIFICATION MCSpec
CONSTANTS
  NoData = NoData
  Nothing = Nothing
  Runs = {u1}
  Sockets = {w1}
  Requests = {q1, q2}
  Faults = TRUE
  None = None
  Agents = {x1, x2}
  root = root
  home = home
  Dirs = {root, home}
  Path <- MCPath
  Calls = {q1, q2}
  MaxTrail = 2
  Nobody = Nobody
  Host = h1
  Rows = {h1, h2}
  Posts = {q1, q2}
  Updates = {x1, x2}
  Files = {f1, f2}
  Parts = 1
  MaxSignals = 1
  MaxTimers = 1
  HostFaults = TRUE
SYMMETRY Symmetry
INVARIANTS CancelIsShown ShownIsOf ReaderNeverWaits ButtonRecovers ExecutableWhole
