--------------------------------- MODULE Mux ---------------------------------
(***************************************************************************)
(* The stream multiplexer (internal/mux): two Conns over one transport,    *)
(* their stream tables, the Streams the application holds, and the frames  *)
(* on the way between them.  The transport is a FIFO in each direction, as *)
(* the coalescer is (FrameQueue), until it fails.                          *)
(*                                                                         *)
(* A write is not atomic: Stream.Write looks at the closed flag, unlocks   *)
(* and sends its chunks one frame at a time; OpenStream enters the stream  *)
(* in the table before STREAM_OPEN is sent; Close marks the stream, ends   *)
(* its read side and sends STREAM_CLOSE last.  PING, PONG and PADDING      *)
(* frames touch no stream and are left out.                                *)
(***************************************************************************)
EXTENDS Naturals, Sequences

CONSTANTS Opening,          \* the sides whose application opens streams
          Accepting,        \* the sides that have an onStream callback
          Unit,             \* bytes of a message; a Read may take fewer
          MaxOpen,          \* bound: streams each side opens
          MaxData,          \* bound: DATA frames each side sends on a stream
          MaxChunks,        \* frames one Write is cut into, at most
          MayFail           \* TRUE: the transport or a Conn may end

Side == {"client", "server"}
Peer(e) == IF e = "client" THEN "server" ELSE "client"
OfSide(i) == IF i % 2 = 1 THEN "client" ELSE "server"
Id == {i \in 1 .. 2 * MaxOpen : OfSide(i) \in Opening}

ASSUME MuxAssumption ==
    /\ Opening \subseteq Side /\ Accepting \subseteq Side /\ MayFail \in BOOLEAN
    /\ Unit \in Nat \ {0} /\ MaxOpen \in Nat \ {0}
    /\ MaxData \in Nat /\ MaxChunks \in Nat \ {0}

VARIABLES
    conn,       \* "open", "closing" (done is closed) or "closed" (streams ended)
    loop,       \* the readLoop of each side runs
    nextID,     \* the next stream id of each side
    table,      \* streams: the ids in the map of each side
    opening,    \* calls of OpenStream that have not sent their frame
    handle,     \* the streams the application of each side holds
    stream,     \* the Stream objects
    wire,       \* the frames on the way to each side
    up          \* the transport works

vars == <<conn, loop, nextID, table, opening, handle, stream, wire, up>>

NewStream == [msgs |-> <<>>,        \* readMsgs: numbers of the DATA frames
              off |-> 0,            \* readOff
              err |-> FALSE,        \* readErr is set, to EOF
              closed |-> FALSE,
              left |-> 0,           \* chunks a Write has still to send
              closing |-> FALSE,    \* a Close has still to send STREAM_CLOSE
              sent |-> 0,           \* history: DATA frames sent
              closeAt |-> 0,        \* history: sent, when STREAM_CLOSE was
              got |-> <<>>]        \* history: <<frame, byte>> of every byte read

Frame(t, i, n) == [type |-> t, id |-> i, n |-> n]

Init ==
    /\ conn = [e \in Side |-> "open"] /\ loop = [e \in Side |-> TRUE]
    /\ nextID = [e \in Side |-> IF e = "client" THEN 1 ELSE 2]
    /\ table = [e \in Side |-> {}] /\ opening = [e \in Side |-> {}]
    /\ handle = [e \in Side |-> {}]
    /\ stream = [e \in Side |-> [i \in Id |-> NewStream]]
    /\ wire = [e \in Side |-> <<>>] /\ up = TRUE

-----------------------------------------------------------------------------
(* WriteFrame: the frame is on its way.  Once the transport has failed the *)
(* frame is lost, and the caller may or may not be told.                   *)
Sends(e, f) == wire' = IF up THEN [wire EXCEPT ![Peer(e)] = Append(@, f)] ELSE wire
MayBeRefused == ~up

(* OpenStream: the table first, under streamMu ... *)
OpenStream(e) ==
    /\ e \in Opening /\ nextID[e] \in Id
    /\ nextID' = [nextID EXCEPT ![e] = @ + 2]
    /\ table' = [table EXCEPT ![e] = @ \cup {nextID[e]}]
    /\ opening' = [opening EXCEPT ![e] = @ \cup {nextID[e]}]
    /\ UNCHANGED <<conn, loop, handle, stream, wire, up>>

(* ... then the frame; the caller gets the stream, or an error. *)
SendOpen(e, i) ==
    /\ i \in opening[e]
    /\ opening' = [opening EXCEPT ![e] = @ \ {i}]
    /\ \/ /\ Sends(e, Frame("open", i, 0))
          /\ handle' = [handle EXCEPT ![e] = @ \cup {i}]
          /\ UNCHANGED table
       \/ /\ MayBeRefused
          /\ table' = [table EXCEPT ![e] = @ \ {i}]
          /\ UNCHANGED <<handle, wire>>
    /\ UNCHANGED <<conn, loop, nextID, stream, up>>

(* Stream.Write: the check of the flag ... *)
Write(e, i, k) ==
    /\ i \in handle[e] /\ stream[e][i].left = 0
    /\ ~stream[e][i].closed
    /\ k \in 1 .. MaxChunks /\ stream[e][i].sent + k <= MaxData
    /\ stream' = [stream EXCEPT ![e][i].left = k]
    /\ UNCHANGED <<conn, loop, nextID, table, opening, handle, wire, up>>

(* ... and each of its frames. *)
SendData(e, i) ==
    /\ stream[e][i].left > 0
    /\ \/ /\ Sends(e, Frame("data", i, stream[e][i].sent + 1))
          /\ stream' = [stream EXCEPT ![e][i].left = @ - 1, ![e][i].sent = @ + 1]
       \/ /\ MayBeRefused
          /\ stream' = [stream EXCEPT ![e][i].left = 0]
          /\ UNCHANGED wire
    /\ UNCHANGED <<conn, loop, nextID, table, opening, handle, up>>

(* Stream.Close marks the stream and ends its read side: one step, at its   *)
(* deliverErr, for between the two a Write or a Close only sees the flag    *)
(* and changes nothing ...                                                 *)
CloseStream(e, i) ==
    /\ i \in handle[e] /\ ~stream[e][i].closed
    /\ stream' = [stream EXCEPT ![e][i].closed = TRUE, ![e][i].err = TRUE,
                                ![e][i].closing = TRUE]
    /\ UNCHANGED <<conn, loop, nextID, table, opening, handle, wire, up>>

(* ... and sends STREAM_CLOSE. *)
SendClose(e, i) ==
    /\ stream[e][i].closing
    /\ stream' = [stream EXCEPT ![e][i].closing = FALSE,
                                ![e][i].closeAt = stream[e][i].sent]
    /\ \/ Sends(e, Frame("close", i, 0))
       \/ MayBeRefused /\ UNCHANGED wire
    /\ UNCHANGED <<conn, loop, nextID, table, opening, handle, up>>

(* Mutant: a short Read drops the rest of the message. *)
Read_DropsRest(e, i, k) ==
    LET s == stream[e][i] IN
    /\ i \in handle[e] /\ s.msgs # <<>>
    /\ k \in 1 .. Unit
    /\ stream' = [stream EXCEPT
          ![e][i].got = @ \o [j \in 1 .. k |-> <<Head(s.msgs), j>>],
          ![e][i].msgs = Tail(@)]
    /\ UNCHANGED <<conn, loop, nextID, table, opening, handle, wire, up>>

(* Stream.Read of at most k bytes: never more than the rest of a message. *)
Read(e, i, k) ==
    LET s == stream[e][i]
        n == IF k < Unit - s.off THEN k ELSE Unit - s.off
    IN  /\ i \in handle[e] /\ s.msgs # <<>>
        /\ k \in 1 .. Unit
        /\ stream' = [stream EXCEPT
              ![e][i].got = @ \o [j \in 1 .. n |-> <<Head(s.msgs), s.off + j>>],
              ![e][i].off = IF s.off + n = Unit THEN 0 ELSE s.off + n,
              ![e][i].msgs = IF s.off + n = Unit THEN Tail(@) ELSE @]
        /\ UNCHANGED <<conn, loop, nextID, table, opening, handle, wire, up>>

-----------------------------------------------------------------------------
(* readLoop and dispatch.                                                  *)

(* Mutant: no look at readErr. *)
DeliverData_Always(s, n) == [s EXCEPT !.msgs = Append(@, n)]

(* deliverData: a stream whose read side has ended takes nothing more. *)
DeliverData(s, n) == IF s.err THEN s ELSE [s EXCEPT !.msgs = Append(@, n)]

DispatchData(e, f) ==
    /\ stream' = IF f.id \in table[e]
                 THEN [stream EXCEPT ![e][f.id] = DeliverData(stream[e][f.id], f.n)]
                 ELSE stream
    /\ UNCHANGED <<table, handle>>

(* The stream is in the table, whether onStream is set or not. *)
DispatchOpen(e, f) ==
    /\ table' = [table EXCEPT ![e] = @ \cup {f.id}]
    /\ handle' = IF e \in Accepting THEN [handle EXCEPT ![e] = @ \cup {f.id}]
                 ELSE handle
    /\ stream' = [stream EXCEPT ![e][f.id] = NewStream]

(* Mutant: the stream stays in the table. *)
DispatchClose_KeepsEntry(e, f) ==
    /\ stream' = IF f.id \in table[e] THEN [stream EXCEPT ![e][f.id].err = TRUE]
                 ELSE stream
    /\ UNCHANGED <<table, handle>>

(* Mutant: the stream leaves the table and its readers are not woken. *)
DispatchClose_NoEOF(e, f) ==
    /\ table' = [table EXCEPT ![e] = @ \ {f.id}]
    /\ UNCHANGED <<stream, handle>>

(* Mutant: what is queued is dropped with the stream. *)
DispatchClose_DropsQueue(e, f) ==
    /\ table' = [table EXCEPT ![e] = @ \ {f.id}]
    /\ stream' = IF f.id \in table[e]
                 THEN [stream EXCEPT ![e][f.id].err = TRUE, ![e][f.id].msgs = <<>>,
                                     ![e][f.id].off = 0]
                 ELSE stream
    /\ UNCHANGED handle

(* The table forgets the stream and, as the next thing readLoop does, its   *)
(* reader is woken: one step.  In between only Close looks at the table, to *)
(* end the streams in it, and it is the same whether it ends this one.      *)
DispatchClose(e, f) ==
    /\ table' = [table EXCEPT ![e] = @ \ {f.id}]
    /\ stream' = IF f.id \in table[e] THEN [stream EXCEPT ![e][f.id].err = TRUE]
                 ELSE stream
    /\ UNCHANGED handle

(* One turn of readLoop. *)
Dispatch(e) ==
    /\ loop[e] /\ wire[e] # <<>>
    /\ wire' = [wire EXCEPT ![e] = Tail(@)]
    /\ LET f == Head(wire[e]) IN
          \/ f.type = "open" /\ DispatchOpen(e, f)
          \/ f.type = "data" /\ DispatchData(e, f)
          \/ f.type = "close" /\ DispatchClose(e, f)
    /\ UNCHANGED <<conn, loop, nextID, opening, up>>

(* ReadFrame fails: readLoop ends and closes the Conn. *)
ReadFrameFails(e) ==
    /\ loop[e] /\ ~up /\ wire[e] = <<>>
    /\ loop' = [loop EXCEPT ![e] = FALSE]
    /\ conn' = IF conn[e] = "open" THEN [conn EXCEPT ![e] = "closing"] ELSE conn
    /\ UNCHANGED <<nextID, table, opening, handle, stream, wire, up>>

(* Conn.Close by pingLoop or by the owner: it closes done ... *)
CloseConn(e) ==
    /\ MayFail /\ conn[e] = "open"
    /\ conn' = [conn EXCEPT ![e] = "closing"]
    /\ UNCHANGED <<loop, nextID, table, opening, handle, stream, wire, up>>

(* ... and ends, under streamMu, the streams of the table. *)
EndStreams(e) ==
    /\ conn[e] = "closing"
    /\ conn' = [conn EXCEPT ![e] = "closed"]
    /\ stream' = [stream EXCEPT ![e] = [i \in Id |->
          IF i \in table[e] THEN [stream[e][i] EXCEPT !.err = TRUE] ELSE stream[e][i]]]
    /\ UNCHANGED <<loop, nextID, table, opening, handle, wire, up>>

(* The transport breaks: part of what is on the way never arrives. *)
TransportFails ==
    /\ MayFail /\ up
    /\ up' = FALSE
    /\ \E n \in 0 .. Len(wire["client"]), m \in 0 .. Len(wire["server"]) :
          wire' = [e \in Side |-> SubSeq(wire[e], 1, IF e = "client" THEN n ELSE m)]
    /\ UNCHANGED <<conn, loop, nextID, table, opening, handle, stream>>

Next ==
    \/ \E e \in Side :
          \/ OpenStream(e) \/ Dispatch(e) \/ ReadFrameFails(e) \/ CloseConn(e)
          \/ EndStreams(e)
          \/ \E i \in Id : SendOpen(e, i) \/ SendData(e, i) \/ CloseStream(e, i)
                           \/ SendClose(e, i)
          \/ \E i \in Id, k \in 1 .. MaxChunks : Write(e, i, k)
          \/ \E i \in Id, k \in 1 .. Unit : Read(e, i, k)
    \/ TransportFails

Spec == Init /\ [][Next]_vars

(* A readLoop goes on, and a call that has begun goes on: the transport    *)
(* takes frames.  Nobody is obliged to open, write, read or close.         *)
Fairness == \A e \in Side :
    /\ WF_vars(Dispatch(e)) /\ WF_vars(ReadFrameFails(e)) /\ WF_vars(EndStreams(e))
    /\ \A i \in Id : WF_vars(SendOpen(e, i)) /\ WF_vars(SendData(e, i))
                     /\ WF_vars(SendClose(e, i))

FairSpec == Spec /\ Fairness

-----------------------------------------------------------------------------
Frames == [type : {"open", "data", "close"}, id : Id, n : 0 .. MaxData]
StreamType == [msgs : Seq(1 .. MaxData), off : 0 .. Unit - 1, err : BOOLEAN,
               closed : BOOLEAN, left : 0 .. MaxChunks, closing : BOOLEAN,
               sent : 0 .. MaxData, closeAt : 0 .. MaxData,
               got : Seq((1 .. MaxData) \X (1 .. Unit))]

(* The type invariant. *)
TypeOK ==
    /\ conn \in [Side -> {"open", "closing", "closed"}] /\ loop \in [Side -> BOOLEAN]
    /\ nextID \in [Side -> Nat] /\ up \in BOOLEAN
    /\ table \in [Side -> SUBSET Id] /\ opening \in [Side -> SUBSET Id]
    /\ handle \in [Side -> SUBSET Id]
    /\ stream \in [Side -> [Id -> StreamType]]
    /\ wire \in [Side -> Seq(Frames)]

(* A reader gets the bytes the peer wrote to that stream, in order, none    *)
(* twice and none left out (stream.go: message boundaries are kept, a Read  *)
(* takes at most one message, readOff continues it).                        *)
BytesInOrder == \A e \in Side, i \in Id :
    LET s == stream[e][i] IN
    /\ Len(s.got) <= Unit * stream[Peer(e)][i].sent
    /\ \A k \in 1 .. Len(s.got) : s.got[k] = <<1 + ((k - 1) \div Unit), 1 + ((k - 1) % Unit)>>

(* The EOF of the peer's STREAM_CLOSE comes after everything the peer sent  *)
(* before it: a reader that did not close the stream itself, on a live      *)
(* Conn, has read it all or has it queued.                                  *)
EOFAfterData == \A e \in Side, i \in Id :
    LET s == stream[e][i] IN
    s.err /\ ~s.closed /\ conn[e] # "closed" =>
        Len(s.got) - s.off + Unit * Len(s.msgs) = Unit * stream[Peer(e)][i].closeAt

Quiet == /\ up /\ \A e \in Side : wire[e] = <<>> /\ opening[e] = {}
                                  /\ \A i \in Id : ~stream[e][i].closing

(* No stream outlives its use in the table: when nothing is on the way, a   *)
(* side has exactly the streams the peer has not closed (conn.go:218-226:   *)
(* the table forgets a stream at the peer's STREAM_CLOSE).                  *)
TableMatches == Quiet => \A e \in Side : \A i \in handle[e] :
    i \in table[e] <=> ~stream[Peer(e)][i].closed

(* After the end of a read side nothing is queued for it any more, so the   *)
(* EOF a reader has seen is final.                                          *)
EOFIsFinal == [][\A e \in Side, i \in Id : stream[e][i].err =>
    Len(stream'[e][i].msgs) <= Len(stream[e][i].msgs)]_vars

(* While the transport works, a Close on one side ends the read side of the *)
(* other: nobody waits for ever in Read on a stream the peer has closed,    *)
(* whichever Conn has been closed meanwhile, for the readLoops go on.       *)
CloseReaches == \A e \in Side, i \in Id :
    stream[e][i].closed ~> (~up \/ (i \in handle[Peer(e)] => stream[Peer(e)][i].err))

-----------------------------------------------------------------------------
(* What the properties rest on.                                            *)

(* The messages of a stream that have been read to their end, and those    *)
(* that have reached it.                                                   *)
Consumed(s) == Len(s.got) \div Unit
Taken(s) == Consumed(s) + Len(s.msgs)

(* A reader is `off` bytes into the first of the messages that are queued.  *)
Reads(s) ==
    /\ Len(s.got) = Unit * Consumed(s) + s.off
    /\ s.msgs = <<>> => s.off = 0
    /\ \A m \in 1 .. Len(s.msgs) : s.msgs[m] = Consumed(s) + m
    /\ \A k \in 1 .. Len(s.got) : s.got[k] = <<1 + ((k - 1) \div Unit), 1 + ((k - 1) % Unit)>>

Is(f, type, i) == f.type = type /\ f.id = i

(* Frames of stream i on the wire w, its object s at the reader and t at    *)
(* the writer: DATA frames are numbered without a gap after those taken ... *)
InOrder(w, i, s, t) ==
    /\ \A k \in 1 .. Len(w) : Is(w[k], "data", i) => w[k].n \in 1 .. t.sent
    /\ \A j, k \in 1 .. Len(w) :
          j < k /\ Is(w[j], "data", i) /\ Is(w[k], "data", i) => w[j].n < w[k].n
    /\ ~s.err => \A k \in 1 .. Len(w) : Is(w[k], "data", i) =>
          \/ w[k].n = Taken(s) + 1
          \/ \E j \in 1 .. k - 1 : Is(w[j], "data", i) /\ w[k].n = w[j].n + 1
    /\ Taken(s) <= t.sent

(* ... up to the last one sent, ...                                        *)
AllSent(w, i, s, t) ==
    s.err \/ Taken(s) = t.sent
    \/ \E k \in 1 .. Len(w) : Is(w[k], "data", i) /\ w[k].n = t.sent

(* ... they find the stream, or follow its STREAM_OPEN, ...                 *)
FindStream(w, i, s, here) == \A k \in 1 .. Len(w) : Is(w[k], "data", i) =>
    s.err \/ here \/ \E j \in 1 .. k - 1 : Is(w[j], "open", i)

(* ... and STREAM_CLOSE is where the writer was when it sent it.            *)
CloseInOrder(w, i, s, t) == \A k \in 1 .. Len(w) : Is(w[k], "close", i) =>
    /\ t.closed /\ ~t.closing
    /\ \A j \in 1 .. k - 1 : Is(w[j], "data", i) => w[j].n <= t.closeAt
    /\ \/ s.err \/ Taken(s) = t.closeAt
       \/ \E j \in 1 .. k - 1 : Is(w[j], "data", i) /\ w[j].n = t.closeAt

HasOpen(w, i) == \E k \in 1 .. Len(w) : Is(w[k], "open", i)
HasClose(w, i) == \E k \in 1 .. Len(w) : Is(w[k], "close", i)

(* A STREAM_CLOSE that was sent comes to a stream that is still there.      *)
CloseComes(w, i, t, here) ==
    t.closed /\ ~t.closing /\ (here \/ HasOpen(w, i)) => HasClose(w, i)

(* The end of a read side is that of its stream, of its Conn, or the peer's. *)
EndKnown(s, t, ended) ==
    s.err /\ ~s.closed /\ ~ended => t.closed /\ ~t.closing /\ Taken(s) = t.closeAt

Link(w, i, s, t, here, ended, works) ==
    /\ Reads(s)
    /\ InOrder(w, i, s, t) /\ FindStream(w, i, s, here)
    /\ CloseInOrder(w, i, s, t) /\ EndKnown(s, t, ended)
    /\ works => AllSent(w, i, s, t) /\ CloseComes(w, i, t, here)

Links == \A e \in Side, i \in Id :
    Link(wire[e], i, stream[e][i], stream[Peer(e)][i], i \in table[e],
         conn[e] = "closed", up)

(* Before STREAM_OPEN is sent nobody but the opener knows the stream ...    *)
Unknown == \A i \in Id : i \notin handle[OfSide(i)] =>
    LET a == Peer(OfSide(i)) IN
    /\ i \notin handle[a] \cup table[a] /\ stream[a][i] = NewStream
    /\ \A e \in Side : \A k \in 1 .. Len(wire[e]) : wire[e][k].id # i

(* ... STREAM_OPEN is the first frame of a stream, ...                      *)
OpenFirst == \A e \in Side : \A k \in 1 .. Len(wire[e]) : wire[e][k].type = "open" =>
    LET i == wire[e][k].id IN
    /\ e = Peer(OfSide(i)) /\ i \notin handle[e] \cup table[e] /\ stream[e][i] = NewStream
    /\ \A j \in 1 .. k - 1 : wire[e][j].id # i

(* ... and a stream that was opened arrives.                               *)
Opened == \A i \in Id :
    LET o == OfSide(i)
        a == Peer(o)
    IN  /\ i \in opening[o] => i \in table[o] \ handle[o] /\ i < nextID[o]
        /\ i \notin opening[a]
        /\ i \in handle[o] => i < nextID[o]
        /\ i \in handle[o] /\ up =>
              stream[a][i].err \/ i \in table[a] \/ HasOpen(wire[a], i)

Parity == \A e \in Side : OfSide(nextID[e]) = e

(* Only a holder writes or closes, a write does not exceed the bound, and a *)
(* stream leaves the table of a holder when its read side ends.            *)
Held == \A e \in Side, i \in Id :
    LET s == stream[e][i] IN
    /\ i \notin handle[e] => s.left = 0 /\ ~s.closing /\ ~s.closed /\ s.sent = 0
    /\ s.sent + s.left <= MaxData
    /\ s.closing => s.closed
    /\ i \in handle[e] => i \in table[e] \/ (s.err /\ stream[Peer(e)][i].closed)

IInv == TypeOK /\ Links /\ Unknown /\ OpenFirst /\ Opened /\ Parity /\ Held

-----------------------------------------------------------------------------
(* What the multiplexer promises.  Each direction of a stream is a channel, *)
(* named by the side that reads it.                                        *)

Channel == Side \X Id
Reader(c) == stream[c[1]][c[2]]
Writer(c) == stream[Peer(c[1])][c[2]]

(* A stream that has sent its STREAM_CLOSE. *)
Shut(t) == t.closed /\ ~t.closing

Sent == [c \in Channel |-> Writer(c).sent]
Closed == {c \in Channel : Shut(Writer(c))}
ClosedAt == [c \in Channel |-> Writer(c).closeAt]
Arrived == [c \in Channel |-> Taken(Reader(c))]
Got == [c \in Channel |-> Reader(c).got]
Abandoned == {c \in Channel : Reader(c).closed \/ conn[c[1]] = "closed"}
AtEnd == {c \in Channel : Reader(c).err}

Abstract == INSTANCE ByteChannels WITH
    sent <- Sent, closed <- Closed, closeAt <- ClosedAt, arrived <- Arrived,
    got <- Got, abandoned <- Abandoned, ended <- AtEnd

(* The two Conns and what is between them are ordered channels of bytes,   *)
(* whose reader comes to the end where the writer closed, or where its own *)
(* side gave the stream up, and gets nothing after it.                     *)
ImplementsChannels == Abstract!Spec

(* A frame that was sent after STREAM_CLOSE comes after it. *)
Late(w, i, s, t) == Shut(t) => \A k \in 1 .. Len(w) :
    Is(w[k], "data", i) /\ w[k].n > t.closeAt =>
        s.err \/ \E j \in 1 .. k - 1 : Is(w[j], "close", i)

LateFrames == \A e \in Side, i \in Id :
    Late(wire[e], i, stream[e][i], stream[Peer(e)][i])
=============================================================================
