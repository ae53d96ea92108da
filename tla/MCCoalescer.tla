----------------------------- MODULE MCCoalescer -----------------------------
(***************************************************************************)
(* The coalescer in units of about 260 bytes: a small frame (a bare header *)
(* or an ACK), a full TUN packet, flushes at 5 units, padding to 4 or 5.   *)
(* MaxSealedPayload is the least value that MTUSized allows.               *)
(***************************************************************************)
EXTENDS Coalescer, TLC

CONSTANTS small, full, jumbo, t1, t2, t3, w1, w2

MCSize == [f \in Frame |-> IF f = small THEN 1 ELSE IF f = full THEN 5 ELSE 9]
Symmetry == Permutations(TimerId) \cup Permutations(Writer)
=============================================================================
