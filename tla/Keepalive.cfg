SPECIFICATION Spec
CONSTANTS
  Interval = 3
  PingTimeout = 1
  MaxDelay = 1
  MaxWire = 6
  Loaded = {"server"}
  StoreLags = FALSE
INVARIANTS KeepsLive DetectsDead NoEchoStorm ConnEnds
