SPECIFICATION Spec
CONSTANTS
  o = o n = n c1 = c1 a1 = a1 a2 = a2 None = None
  ClientOf <- MCClientOf
  SourcesOf <- MCSourcesOf
  Session = {n}
  Client = {c1}
  Addr = {a1, a2}
  QueueCap = 1
  MaxDown = 1
  MaxUp = 1
INVARIANT NoPanic
\* A panic stops the process, and the packets are bounded.
CHECK_DEADLOCK FALSE
