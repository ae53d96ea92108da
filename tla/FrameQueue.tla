----------------------------- MODULE FrameQueue -----------------------------
(***************************************************************************)
(* What the sending half of a session promises the multiplexer above it: a *)
(* queue of whole frames over a transport that may fail.  Frames leave in  *)
(* the order they were accepted, some at a time; the transport is shut in  *)
(* an orderly way only when nothing accepted is left behind.               *)
(***************************************************************************)
EXTENDS Naturals, Sequences

CONSTANT Frame

VARIABLES accepted,   \* every frame taken from the callers, in order
          sent,       \* every frame handed to the transport, in order
          transport   \* "up", "failed" by itself or "shut" by its owner

vars == <<accepted, sent, transport>>

Init == accepted = <<>> /\ sent = <<>> /\ transport = "up"

Accept(f) ==
    /\ transport # "shut"
    /\ accepted' = Append(accepted, f)
    /\ UNCHANGED <<sent, transport>>

Deliver ==
    /\ transport = "up"
    /\ \E k \in Len(sent)+1 .. Len(accepted) : sent' = SubSeq(accepted, 1, k)
    /\ UNCHANGED <<accepted, transport>>

Fail == transport = "up" /\ transport' = "failed" /\ UNCHANGED <<accepted, sent>>

Shut ==
    /\ transport = "up" /\ sent = accepted
    /\ transport' = "shut"
    /\ UNCHANGED <<accepted, sent>>

Next == Deliver \/ Fail \/ Shut \/ \E f \in Frame : Accept(f)

Spec == Init /\ [][Next]_vars

(* Frames do not rest in the queue while the transport works. *)
FairSpec == Spec /\ WF_vars(Deliver)
=============================================================================
