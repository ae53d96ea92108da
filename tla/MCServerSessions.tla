-------------------------- MODULE MCServerSessions --------------------------
(* Sessions s1, s2, s3 of client c1; t of client c2. *)
EXTENDS ServerSessions

CONSTANTS s1, s2, s3, t, c1, c2

MCClientOf == [s \in Session |-> IF s = t THEN c2 ELSE c1]
=============================================================================
