SPECIFICATION FairSpec
CONSTANTS
  None = None
  MaxConnects = 2
  MaxDisconnects = 2
INVARIANTS NoOrphan NoLeakedConfig
PROPERTIES DisconnectEnds StartingEnds DeadIsNoticed
\* NetworkManager calls when it likes.
CHECK_DEADLOCK FALSE
