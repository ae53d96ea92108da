SPECIFICATION FairSpec
CONSTANTS
  o = o n = n c1 = c1 a1 = a1 a2 = a2 None = None
  ClientOf <- MCClientOf
  SourcesOf <- MCSourcesOf
  Session = {o, n}
  Client = {c1}
  Addr = {a1, a2}
  QueueCap = 1
  MaxDown = 2
  MaxUp = 1
INVARIANTS NoDoubleClose InOrderOnce 
PROPERTIES BridgeEnds WriterExits ReaderMovesOn
\* A panic stops the process, and the packets are bounded.
CHECK_DEADLOCK FALSE
