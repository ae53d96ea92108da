SPECIFICATION FairSpec
CONSTANTS
  None = None
  MaxHandshake = 3
  MsgLen = 2
  MaxFrames = 2
  PayloadLens = {0, 2}
  MaxWeb = 6
INVARIANTS FallbackSeesAll DecodedPrefix
PROPERTIES FramesArrive Settles
\* A request is over when it has been answered.
CHECK_DEADLOCK FALSE
