\* One viewer of either stream, two writers, three console lines in a ring of two.
SPECIFICATION FairSpec
CONSTANTS
  Viewers = {v1}
  Writers = {w1, w2}
  Size = 2
  BufCap = 1
  MaxLines = 3
INVARIANTS RingIsTail ConsoleHasNoGap ViewerLearnsEnd
PROPERTY GoneIsFreed
CHECK_DEADLOCK FALSE
