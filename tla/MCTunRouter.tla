----------------------------- MODULE MCTunRouter -----------------------------
(* Sessions o (old) and n (new) of client c1. *)
EXTENDS TunRouter

CONSTANTS o, n, c1, a1, a2

MCClientOf == [s \in Session |-> c1]

(* The new session's first packet may bear the old one's address or its other. *)
MCSourcesOf == [s \in Session |-> IF s = o THEN {a1} ELSE {a1, a2}]
=============================================================================
