SPECIFICATION FairSpec
CONSTANTS
  s1 = s1 s2 = s2 s3 = s3 t = t c1 = c1 c2 = c2 None = None
  ClientOf <- MCClientOf
  Session = {s1, s2}
  Client = {c1}
INVARIANTS OneLivePerClient LiveIsActive KickedIsCut
PROPERTIES EntriesGo AuthCompletes KickedReturns
\* Clients come, send and leave as they like.
CHECK_DEADLOCK FALSE
