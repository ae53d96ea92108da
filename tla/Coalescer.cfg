SPECIFICATION FairSpec
CONSTANTS
  small = small  full = full  jumbo = jumbo
  t1 = t1 t2 = t2 t3 = t3 w1 = w1 w2 = w2
  NoTimer = NoTimer Cover = Cover Closer = Closer
  Size <- MCSize
  FlushBytes = 5 MinPaddedSize = 4 MaxPaddedSize = 5
  HeaderSize = 1 MaxPayload = 8 MaxSealedPayload = 9
  CoverInterval = 25
  Frame = {small, full}
  TimerId = {t1, t2}
  Writer = {w1, w2}
  MaxWrites = 3
  MaxCovers = 1
INVARIANTS NothingStranded NonceOrder PrefixSent PaddedFlush
PROPERTY ImplementsQueue
\* Nothing happens after Close, and the calls are bounded.
CHECK_DEADLOCK FALSE
