----------------------------- MODULE ByteChannels -----------------------------
(***************************************************************************)
(* What the multiplexer promises of each direction of a stream: a channel  *)
(* that carries messages of Unit bytes in order, none twice and none left  *)
(* out.  Its reader may take less than a message.  What is on the way may  *)
(* be lost with the connection, so that not every message arrives; but the *)
(* reader comes to an end of the channel only where the writer has closed  *)
(* it, or when the reader has abandoned it: it has closed the stream        *)
(* itself, or its Conn has ended.  Nothing arrives after the end.          *)
(***************************************************************************)
EXTENDS Naturals, Sequences

CONSTANTS Channel, Unit

VARIABLES sent,       \* of each channel: messages sent
          closed,     \* the channels whose writer has closed them
          closeAt,    \* and how much was sent then
          arrived,    \* of each channel: messages that have arrived
          got,        \* of each channel: the bytes its reader has taken
          abandoned,  \* the channels the reader's side has abandoned
          ended       \* the channels whose reader is at the end, or comes to it

vars == <<sent, closed, closeAt, arrived, got, abandoned, ended>>

Init ==
    /\ sent = [c \in Channel |-> 0] /\ closed = {} /\ closeAt = [c \in Channel |-> 0]
    /\ arrived = [c \in Channel |-> 0] /\ got = [c \in Channel |-> <<>>]
    /\ abandoned = {} /\ ended = {}

(* The k-th byte of a channel: its message, and its place in that.          *)
ByteAt(k) == <<1 + ((k - 1) \div Unit), 1 + ((k - 1) % Unit)>>

(* A Write that began before the Close may still send.                     *)
Send(c) ==
    /\ sent' = [sent EXCEPT ![c] = @ + 1]
    /\ UNCHANGED <<closed, closeAt, arrived, got, abandoned, ended>>

Close(c) ==
    /\ c \notin closed
    /\ closed' = closed \cup {c} /\ closeAt' = [closeAt EXCEPT ![c] = sent[c]]
    /\ UNCHANGED <<sent, arrived, got, abandoned, ended>>

Arrive(c) ==
    /\ c \notin ended
    /\ arrived[c] < IF c \in closed THEN closeAt[c] ELSE sent[c]
    /\ arrived' = [arrived EXCEPT ![c] = @ + 1]
    /\ UNCHANGED <<sent, closed, closeAt, got, abandoned, ended>>

(* n bytes, of one message.                                                *)
Read(c, n) ==
    /\ Len(got[c]) < Unit * arrived[c] /\ (Len(got[c]) % Unit) + n <= Unit
    /\ got' = [got EXCEPT ![c] = @ \o [j \in 1 .. n |-> ByteAt(Len(got[c]) + j)]]
    /\ UNCHANGED <<sent, closed, closeAt, arrived, abandoned, ended>>

End(c) ==
    /\ c \in closed /\ arrived[c] = closeAt[c]
    /\ ended' = ended \cup {c}
    /\ UNCHANGED <<sent, closed, closeAt, arrived, got, abandoned>>

(* A stream that is closed, or all the streams of a Conn: those that it has *)
(* in its table end.                                                       *)
Abandon(C) ==
    /\ abandoned' = abandoned \cup C
    /\ ended \subseteq ended' /\ ended' \subseteq ended \cup C
    /\ UNCHANGED <<sent, closed, closeAt, arrived, got>>

Next ==
    \/ \E C \in SUBSET Channel : Abandon(C)
    \/ \E c \in Channel : Send(c) \/ Close(c) \/ Arrive(c) \/ End(c)
                          \/ \E n \in 1 .. Unit : Read(c, n)

Spec == Init /\ [][Next]_vars
=============================================================================
