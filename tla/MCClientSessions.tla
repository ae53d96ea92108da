--------------------------- MODULE MCClientSessions ---------------------------
EXTENDS ClientSessions

CONSTANTS s1, s2, s3, s4
=============================================================================
