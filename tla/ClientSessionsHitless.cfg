SPECIFICATION Spec
CONSTANTS
  s1 = s1 s2 = s2 s3 = s3 s4 = s4
  Session = {s1, s2, s3}
  First = s1
  MaxRotations = 1
  MaxFaults = 0
INVARIANT Hitless
CHECK_DEADLOCK FALSE
