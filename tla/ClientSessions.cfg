SPECIFICATION FairSpec
CONSTANTS
  s1 = s1 s2 = s2 s3 = s3 s4 = s4
  Session = {s1, s2, s3}
  First = s1
  MaxRotations = 1
  MaxFaults = 1
INVARIANT OneReady
PROPERTIES OldIsClosed Recovers WriterFollows
CHECK_DEADLOCK FALSE
