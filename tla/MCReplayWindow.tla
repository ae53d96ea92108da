---------------------------- MODULE MCReplayWindow ----------------------------
(* A word of 4 bits and nonces up to twice its width and one more. *)
EXTENDS ReplayWindow

MCNonce == 0 .. 9
=============================================================================
