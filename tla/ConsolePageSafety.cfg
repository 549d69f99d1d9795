\* Two sockets: the one in use and the one left behind; two lines kept.
SPECIFICATION FairSpec
CONSTANTS
  NoSocket = NoSocket
  Sockets = {s1, s2}
  Cap = 1
  History = 2
  MaxLines = 3
  MaxIds = 4
INVARIANTS OneConnection BadgeTellsTruth NothingLost NoLineSkipped
PROPERTY Reconnects
