SPECIFICATION FairSpec
CONSTANTS
  Opening <- Client
  Accepting <- Server
  Unit = 2
  MaxOpen = 1
  MaxData = 2
  MaxChunks = 2
  MayFail = TRUE
INVARIANTS BytesInOrder EOFAfterData TableMatches
PROPERTIES ImplementsChannels CloseReaches
\* Nobody is obliged to open or to write a stream.
CHECK_DEADLOCK FALSE
