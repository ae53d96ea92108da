------------------------------- MODULE Tunnel -------------------------------
(***************************************************************************)
(* One connection from its request to the frames that are decoded at its   *)
(* ends: the client's establish (cmd/ghost-client/main.go) and Handshake   *)
(* (camouflage/h2_client.go), the server's Router and TunnelHandler        *)
(* (camouflage/router.go, h2_server.go) with the fallback behind them      *)
(* (fallback/proxy.go), the Noise sessions (auth/noise.go, session.go),    *)
(* and the receiving half of FrameCipher and Decoder (crypto/              *)
(* frame_cipher.go, mux/codec.go) on both sides.                           *)
(*                                                                         *)
(* The connection carries two sequences of units, `up` and `down`, each a  *)
(* byte or as many as are always read together.  A ReadFull of n waits for *)
(* n units, or fails at the end of the sequence with the units there are.  *)
(* A cut may lose any number of the last units of either.  The order in    *)
(* which sealed frames enter the wire is the coalescer's (module           *)
(* Coalescer): here a session seals and sends in one step.                 *)
(***************************************************************************)
EXTENDS Naturals, Sequences

CONSTANTS MaxHandshake,    \* maxHandshakeBuffer, in units
          MsgLen,          \* the units of msg1 and of msg2
          MaxFrames,       \* bound: mux frames a side sends
          PayloadLens,     \* the payload lengths of these frames
          MaxWeb,          \* bound: units of a visitor's request and of a page
          None

ASSUME TunnelAssumption ==
    /\ {MaxHandshake, MsgLen, MaxFrames, MaxWeb} \subseteq Nat
    /\ 0 < MsgLen /\ MsgLen <= MaxHandshake /\ PayloadLens \subseteq Nat
    /\ None \notin {"ok", "other"}
    /\ None \notin [send : {"initiator", "responder"}, recv : {"initiator", "responder"}]

Side == {"client", "server"}
Peer(x) == IF x = "client" THEN "server" ELSE "client"

VARIABLES
    client,         \* where the client is; "web" when the peer is a visitor
    server,         \* where the handler of the request is
    wire,           \* the units each side has sent and the other not read
    over,           \* the sides that have ended their direction
    status,         \* the status of the response: None, "ok" or "other"
    taken,          \* what the handler has read of the body and not passed on
    allowed,        \* the server's answer to the client's key
    sent, seen,     \* history: the whole request, and what the fallback saw of it
    keys, nonce,    \* of each side, its Session: keys and nonces to send and receive
    readBuf,        \* FrameCipher.readBuf
    partial,        \* what the Decoder has of the frame it reads
    written,        \* history: the mux frames each side has sent
    decoded,        \* the mux frames each side's Decoder has returned
    undone          \* history: the connection was cut, or closed by choice

setup == <<status, taken, allowed, sent, seen>>
reading == <<readBuf, partial, decoded>>
vars == <<client, server, wire, over, setup, keys, nonce, reading, written, undone>>

First(s, n) == SubSeq(s, 1, n)
After(s, n) == SubSeq(s, n + 1, Len(s))

(* The two bytes of a length prefix; the value is read off the first.       *)
Prefix(n) == <<[len |-> n], [len |-> n]>>
Text(what, n) == [i \in 1 .. n |-> [text |-> what, at |-> i]]
Msg(m) == Prefix(MsgLen) \o Text(m, MsgLen)

(* A body or a page of n units whose first two announce d: any other POST, *)
(* and any other site.                                                     *)
Web(d, n) == First(Prefix(d) \o Text("web", MaxWeb), n)

Init ==
    /\ client = "idle" /\ server = "idle"
    /\ wire = [x \in Side |-> <<>>] /\ over = {}
    /\ status = None /\ taken = <<>> /\ allowed \in BOOLEAN
    /\ sent = <<>> /\ seen = <<>>
    /\ keys = [x \in Side |-> None]
    /\ nonce = [x \in Side |-> [send |-> 0, recv |-> 0]]
    /\ readBuf = [x \in Side |-> <<>>] /\ partial = [x \in Side |-> <<>>]
    /\ written = [x \in Side |-> <<>>] /\ decoded = [x \in Side |-> <<>>]
    /\ undone = FALSE

-----------------------------------------------------------------------------
(* The request.                                                            *)

(* Handshake writes msg1 behind its length and leaves the body open. *)
Request ==
    /\ client = "idle" /\ server = "idle"
    /\ client' = "waiting" /\ server' = "prefix"
    /\ sent' = Msg("msg1") /\ wire' = [wire EXCEPT !["client"] = Msg("msg1")]
    /\ UNCHANGED <<over, status, taken, allowed, seen, keys, nonce, reading, written, undone>>

(* A visitor's request, which the Router takes for the tunnel or not. *)
Visit(d, n, toTunnel) ==
    /\ client = "idle" /\ server = "idle"
    /\ client' = "web" /\ server' = IF toTunnel THEN "prefix" ELSE "fallback"
    /\ sent' = Web(d, n) /\ wire' = [wire EXCEPT !["client"] = Web(d, n)]
    /\ over' = over \cup {"client"}
    /\ UNCHANGED <<status, taken, allowed, seen, keys, nonce, reading, written, undone>>

-----------------------------------------------------------------------------
(* TunnelHandler.                                                          *)

Available == Len(wire["client"])

(* io.ReadFull of n units of the body, which may come to its end before. *)
Fills(n) == Available >= n
Short(n) == Available < n /\ "client" \in over

Consume(n) ==
    /\ taken' = taken \o First(wire["client"], n)
    /\ wire' = [wire EXCEPT !["client"] = After(@, n)]

(* Mutant: the handler fills its whole buffer. *)
Announced_Buffer == MaxHandshake

Announced == taken[1].len

ReadsPrefix ==
    /\ server = "prefix"
    /\ \/ /\ Fills(2) /\ Consume(2)
          /\ server' = IF wire["client"][1].len \in 1 .. MaxHandshake
                       THEN "msg" ELSE "fallback"
       \/ Short(2) /\ Consume(Available) /\ server' = "fallback"
    /\ UNCHANGED <<client, over, status, allowed, sent, seen, keys, nonce, reading,
                   written, undone>>

(* Mutant: both sides encrypt with the initiator's cipher. *)
ResponderKeys_Swapped == [send |-> "initiator", recv |-> "responder"]

(* The two ciphers of Split(), as newSession gets them on each side. *)
ResponderKeys == [send |-> "responder", recv |-> "initiator"]
InitiatorKeys == [send |-> "initiator", recv |-> "responder"]

(* Responder.ReadMessage: what is not an msg1 for this server does not open. *)
OpensMsg1(msg) == msg = Text("msg1", MsgLen)

Authentic(msg) == OpensMsg1(msg) /\ allowed

ReadsMsg1 ==
    /\ server = "msg"
    /\ \/ /\ Fills(Announced) /\ Consume(Announced)
          /\ IF Authentic(First(wire["client"], Announced))
             THEN server' = "respond" /\ keys' = [keys EXCEPT !["server"] = ResponderKeys]
             ELSE server' = "fallback" /\ UNCHANGED keys
       \/ /\ Short(Announced) /\ Consume(Available)
          /\ server' = "fallback" /\ UNCHANGED keys
    /\ UNCHANGED <<client, over, status, allowed, sent, seen, nonce, reading, written,
                   undone>>

(* msg2 and the status before it. *)
Responds ==
    /\ server = "respond"
    /\ server' = "open" /\ status' = "ok" /\ taken' = <<>>
    /\ wire' = [wire EXCEPT !["server"] = @ \o Msg("msg2")]
    /\ UNCHANGED <<client, over, allowed, sent, seen, keys, nonce, reading, written, undone>>

RespondFails ==
    /\ server = "respond" /\ "server" \in over
    /\ server' = "ended" /\ taken' = <<>>
    /\ UNCHANGED <<client, wire, over, status, allowed, sent, seen, keys, nonce, reading,
                   written, undone>>

-----------------------------------------------------------------------------
(* The fallback reads the body through the MultiReader, which gives back   *)
(* what the handler has read, and answers when it likes.                   *)

(* Mutant: the prefix is not given back with msg1. *)
Restored_NoPrefix == IF Len(taken) > 2 THEN After(taken, 2) ELSE taken

Restored == taken

FallbackReads ==
    /\ server = "fallback" /\ taken \o wire["client"] # <<>>
    /\ seen' = seen \o Restored \o wire["client"]
    /\ taken' = <<>> /\ wire' = [wire EXCEPT !["client"] = <<>>]
    /\ UNCHANGED <<client, server, over, status, allowed, sent, keys, nonce, reading,
                   written, undone>>

FallbackAnswers(s, d, n) ==
    /\ server = "fallback"
    /\ server' = "ended" /\ over' = over \cup {"server"}
    /\ IF "server" \in over THEN UNCHANGED <<status, wire>>
       ELSE status' = s /\ wire' = [wire EXCEPT !["server"] = Web(d, n)]
    /\ UNCHANGED <<client, taken, allowed, sent, seen, keys, nonce, reading, written, undone>>

-----------------------------------------------------------------------------
(* The client reads the answer.                                            *)

(* Handshake or establish gives up: body, response and connection close. *)
EstablishFails ==
    /\ client' = "failed"
    /\ over' = over \cup {"client"}
    /\ UNCHANGED <<wire, keys>>

(* The status, msg2 behind its length, and ReadMessage. *)
ReadsMsg2 ==
    LET down == wire["server"] IN
    /\ client = "waiting" /\ status = "ok" /\ Len(down) >= 2
    /\ \/ down[1].len = 0 /\ EstablishFails
       \/ /\ down[1].len > 0 /\ Len(down) >= 2 + down[1].len
          /\ IF SubSeq(down, 3, 2 + down[1].len) = Text("msg2", MsgLen)
             THEN /\ client' = "open" /\ keys' = [keys EXCEPT !["client"] = InitiatorKeys]
                  /\ wire' = [wire EXCEPT !["server"] = After(@, 2 + @[1].len)]
                  /\ UNCHANGED over
             ELSE EstablishFails
    /\ UNCHANGED <<server, setup, nonce, reading, written, undone>>

(* No tunnel behind this response, or its end before the end of msg2. *)
AnswerIsShort ==
    LET down == wire["server"] IN
    /\ client = "waiting"
    /\ \/ status = "other"
       \/ "server" \in over /\ Len(down) < (IF Len(down) < 2 THEN 2 ELSE 2 + down[1].len)
    /\ EstablishFails
    /\ UNCHANGED <<server, setup, nonce, reading, written, undone>>

-----------------------------------------------------------------------------
(* The open tunnel.                                                        *)

State(x) == IF x = "client" THEN client ELSE server

(* A mux frame: eight bytes of header in two units, then its payload. *)
Frame(x, id, n) ==
    Prefix(n) \o [i \in 1 .. n |-> [text |-> x, frame |-> id, at |-> i]]

(* One sealed frame: a length and a ciphertext that holds the plaintext of *)
(* a batch of mux frames.                                                  *)
Sealed(x, plain) ==
    <<[len |-> Len(plain)], [key |-> keys[x].send, nonce |-> nonce[x].send, plain |-> plain]>>

Sends(x, frames, plain) ==
    /\ State(x) = "open" /\ x \notin over
    /\ Len(written[x]) + Len(frames) <= MaxFrames
    /\ written' = [written EXCEPT ![x] = @ \o frames]
    /\ wire' = [wire EXCEPT ![x] = @ \o Sealed(x, plain)]
    /\ nonce' = [nonce EXCEPT ![x].send = @ + 1]
    /\ UNCHANGED <<client, server, over, setup, keys, reading, undone>>

SendsOne(x, n) ==
    LET f == Frame(x, Len(written[x]) + 1, n) IN Sends(x, <<f>>, f)

SendsTwo(x, n, m) ==
    LET f == Frame(x, Len(written[x]) + 1, n)
        g == Frame(x, Len(written[x]) + 2, m)
    IN  Sends(x, <<f, g>>, f \o g)

(* What ReadFrame still wants: the rest of the header or of the payload. *)
Missing(x) ==
    IF Len(partial[x]) < 2 THEN 2 - Len(partial[x])
    ELSE 2 + partial[x][1].len - Len(partial[x])

(* Decoder gets units p of at most Missing(x); with the last one the frame *)
(* is complete.                                                            *)
Decodes(x, p) ==
    LET f == partial[x] \o p IN
    IF Len(f) >= 2 /\ Len(f) = 2 + f[1].len
    THEN decoded' = [decoded EXCEPT ![x] = Append(@, f)] /\ partial' = [partial EXCEPT ![x] = <<>>]
    ELSE partial' = [partial EXCEPT ![x] = f] /\ UNCHANGED decoded

(* FrameCipher.Read with leftover plaintext. *)
ReadsBuffered(x) ==
    LET n == IF Missing(x) < Len(readBuf[x]) THEN Missing(x) ELSE Len(readBuf[x]) IN
    /\ State(x) = "open" /\ readBuf[x] # <<>>
    /\ Decodes(x, First(readBuf[x], n))
    /\ readBuf' = [readBuf EXCEPT ![x] = After(@, n)]
    /\ UNCHANGED <<client, server, wire, over, setup, keys, nonce, written, undone>>

(* Mutant: what does not fit into the caller's buffer is dropped. *)
Leftover_Dropped(plain, n) == <<>>

Leftover(plain, n) == After(plain, n)

Opens(x, c) == c.key = keys[x].recv /\ c.nonce = nonce[x].recv

(* FrameCipher.Read of a sealed frame. *)
ReadsSealed(x) ==
    LET in == wire[Peer(x)]
        n  == IF Missing(x) < Len(in[2].plain) THEN Missing(x) ELSE Len(in[2].plain)
    IN
    /\ State(x) = "open" /\ readBuf[x] = <<>> /\ Len(in) >= 2 /\ Opens(x, in[2])
    /\ wire' = [wire EXCEPT ![Peer(x)] = After(@, 2)]
    /\ nonce' = [nonce EXCEPT ![x].recv = @ + 1]
    /\ readBuf' = [readBuf EXCEPT ![x] = Leftover(in[2].plain, n)]
    /\ Decodes(x, First(in[2].plain, n))
    /\ UNCHANGED <<client, server, over, setup, keys, written, undone>>

(* The mux of x ends: the client's session, or what the server reads. *)
MuxEnds(x) ==
    /\ client' = IF x = "client" THEN "failed" ELSE client
    /\ server' = IF x = "server" THEN "ended" ELSE server

(* A Read fails.  At the end of the stream the client's session ends, or   *)
(* the bridge of the server with its response; a frame that does not open  *)
(* ends the mux, and neither closes the connection nor the bridge.         *)
ReadFails(x) ==
    LET in == wire[Peer(x)] IN
    /\ State(x) = "open" /\ readBuf[x] = <<>>
    /\ MuxEnds(x)
    /\ \/ Len(in) < 2 /\ Peer(x) \in over /\ over' = over \cup {x}
       \/ Len(in) >= 2 /\ ~Opens(x, in[2]) /\ UNCHANGED over
    /\ UNCHANGED <<wire, setup, keys, nonce, reading, written, undone>>

-----------------------------------------------------------------------------
(* The environment.                                                        *)

(* A session is closed, by a rotation or a kick. *)
Closes(x) ==
    /\ State(x) = "open"
    /\ MuxEnds(x) /\ over' = over \cup {x} /\ undone' = TRUE
    /\ UNCHANGED <<wire, setup, keys, nonce, reading, written>>

(* The connection fails: i units of the request and j of the response are  *)
(* all that still arrives.                                                 *)
Cut(i, j) ==
    /\ ~undone /\ server # "idle"
    /\ undone' = TRUE /\ over' = Side
    /\ wire' = [wire EXCEPT !["client"] = First(@, i), !["server"] = First(@, j)]
    /\ UNCHANGED <<client, server, setup, keys, nonce, reading, written>>

-----------------------------------------------------------------------------
Lens == 0 .. MaxHandshake + 1

Handles == ReadsPrefix \/ ReadsMsg1 \/ Responds \/ RespondFails \/ FallbackReads

Answers == \E s \in {"ok", "other"}, d \in Lens, n \in 0 .. MaxWeb : FallbackAnswers(s, d, n)

Receives(x) == ReadsBuffered(x) \/ ReadsSealed(x) \/ ReadFails(x)

Next ==
    \/ Request
    \/ \E d \in Lens, n \in 0 .. MaxWeb, t \in BOOLEAN : Visit(d, n, t)
    \/ Handles \/ Answers
    \/ ReadsMsg2 \/ AnswerIsShort
    \/ \E x \in Side :
          \/ \E n \in PayloadLens : SendsOne(x, n)
          \/ \E n, m \in PayloadLens : SendsTwo(x, n, m)
          \/ Receives(x) \/ Closes(x)
    \/ \E i \in 0 .. Len(wire["client"]), j \in 0 .. Len(wire["server"]) : Cut(i, j)

Spec == Init /\ [][Next]_vars

(* What has arrived is read, and the site behind the fallback answers, also *)
(* a request whose body goes on.                                           *)
Fairness ==
    /\ WF_vars(Handles) /\ WF_vars(Answers)
    /\ WF_vars(ReadsMsg2 \/ AnswerIsShort)
    /\ \A x \in Side : WF_vars(Receives(x))

FairSpec == Spec /\ Fairness

-----------------------------------------------------------------------------
(* h2_server.go:149-153: the site behind the fallback gets the request as   *)
(* it came, however much of it the handler had read before it gave it up.  *)
FallbackSeesAll ==
    server = "fallback" => \/ seen \o taken \o wire["client"] = sent
                           \/ undone /\ LET s == seen \o taken \o wire["client"]
                                        IN  s = First(sent, Len(s))

(* What a Decoder returns is what the peer's mux sent, frame for frame and *)
(* in order: across the handshake, sealed frames of several mux frames,     *)
(* short reads, and a cut in the middle of anything.                       *)
DecodedPrefix ==
    \A x \in Side : /\ Len(decoded[x]) <= Len(written[Peer(x)])
                    /\ decoded[x] = First(written[Peer(x)], Len(decoded[x]))

(* Every mux frame sent is decoded by the peer, unless the connection is   *)
(* cut or closed: the two sessions have matching keys and nonces.          *)
FramesArrive == \A x \in Side, i \in 1 .. MaxFrames :
    Len(written[x]) >= i ~> (Len(decoded[Peer(x)]) >= i \/ undone)

(* A client that asks for a tunnel gets one, or gives up, and then the     *)
(* handler of its request returns: no session stays half open.             *)
Settles == client = "waiting" ~>
    \/ client = "open" /\ keys["server"] # None
    \/ client = "failed" /\ server = "ended"
-----------------------------------------------------------------------------
(* The type invariant. *)
Plain == [len : Nat]
         \cup [text : {"msg1", "msg2", "web"}, at : Nat]
         \cup [text : Side, frame : Nat, at : Nat]
SealedUnit == [key : {"initiator", "responder"}, nonce : Nat, plain : Seq(Plain)]
Unit == Plain \cup SealedUnit

TypeOK ==
    /\ client \in {"idle", "web", "waiting", "open", "failed"}
    /\ server \in {"idle", "prefix", "msg", "fallback", "respond", "open", "ended"}
    /\ wire \in [Side -> Seq(Unit)] /\ over \subseteq Side
    /\ status \in {None, "ok", "other"} /\ allowed \in BOOLEAN /\ undone \in BOOLEAN
    /\ taken \in Seq(Unit) /\ sent \in Seq(Unit) /\ seen \in Seq(Unit)
    /\ keys \in [Side -> {None, InitiatorKeys, ResponderKeys}]
    /\ nonce \in [Side -> [send : Nat, recv : Nat]]
    /\ readBuf \in [Side -> Seq(Plain)] /\ partial \in [Side -> Seq(Plain)]
    /\ written \in [Side -> Seq(Seq(Plain))] /\ decoded \in [Side -> Seq(Seq(Plain))]

-----------------------------------------------------------------------------
(* What FallbackSeesAll and DecodedPrefix rest on.                          *)

(* The request is an msg1 or a visitor's, whose text is no message, and    *)
(* the handler has none of it but what it holds and what it has passed on. *)
Body ==
    LET s == seen \o taken \o wire["client"] IN
    /\ client # "idle" => sent = Msg("msg1") \/ \A i \in 3 .. Len(sent) : sent[i].text = "web"
    /\ client \in {"waiting", "open", "failed"} => sent = Msg("msg1")
    /\ server \in {"prefix", "msg"} => seen = <<>>
    /\ server = "prefix" => taken = <<>>
    /\ server = "msg" => Len(taken) = 2 /\ Announced \in 1 .. MaxHandshake
    /\ server \in {"prefix", "msg", "fallback"} =>
          Len(s) <= Len(sent) /\ s = First(sent, Len(s)) /\ (undone \/ s = sent)

(* How far the two sides are from each other. *)
Phases ==
    /\ client = "idle" <=> server = "idle"
    /\ client = "idle" => taken = <<>> /\ seen = <<>> /\ wire["client"] = <<>>
    /\ status = None => wire["server"] = <<>>
    /\ server \notin {"open", "ended"} =>
          /\ status = None /\ client # "open"
          /\ written = [x \in Side |-> <<>>]
          /\ nonce = [x \in Side |-> [send |-> 0, recv |-> 0]]
    /\ server \in {"idle", "prefix", "msg", "fallback"} => keys["server"] = None
    /\ keys["server"] \in {None, ResponderKeys}
    /\ server \in {"respond", "open"} => keys["server"] # None
    /\ server = "respond" => wire["client"] = <<>>
    /\ server = "open" => status # None
    /\ client = "open" => keys["client"] = InitiatorKeys /\ keys["server"] = ResponderKeys
    /\ client = "waiting" /\ status # None /\ keys["server"] = None =>
          \A i \in 1 .. Len(wire["server"]) :
             IF i < 3 THEN wire["server"][i].len \in Nat ELSE wire["server"][i].text = "web"

(* Side x reads what its peer seals, perhaps behind an msg2. *)
Reading(x) ==
    IF x = "server" THEN server \in {"respond", "open"}
    ELSE client = "open" \/ (client = "waiting" /\ status # None /\ keys["server"] # None)

Header(x) == IF x = "client" /\ client = "waiting" THEN 2 + MsgLen ELSE 0

KeyOf(x) == IF x = "client" THEN "initiator" ELSE "responder"

(* The frames of fs after the first p, up to the first q. *)
Batch(fs, p, q) == IF q = p + 1 THEN fs[q] ELSE fs[p + 1] \o fs[p + 2]

(* The frames y has written are in its sealed frames: b[k] of them come    *)
(* before the nonce k.                                                     *)
Batches(y, b) ==
    /\ b[0] = 0 /\ b[nonce[y].send] = Len(written[y])
    /\ \A k \in 1 .. nonce[y].send : b[k] \in {b[k - 1] + 1, b[k - 1] + 2}

(* The sealed frames on the wire to x are those it has not read, in order. *)
OnWire(x, b) ==
    LET y == Peer(x)
        h == Header(x)
        m == nonce[y].send - nonce[x].recv
    IN  /\ Len(wire[y]) <= h + 2 * m /\ (y \in over \/ Len(wire[y]) = h + 2 * m)
        /\ \A i \in 1 .. h : i <= Len(wire[y]) => wire[y][i] = Msg("msg2")[i]
        /\ \A j \in 1 .. m : h + 2 * j <= Len(wire[y]) =>
              wire[y][h + 2 * j] = [key |-> KeyOf(y), nonce |-> nonce[x].recv + j - 1,
                                    plain |-> Batch(written[y], b[nonce[x].recv + j - 1],
                                                    b[nonce[x].recv + j])]

(* What x has opened and not decoded is the rest of one frame or two. *)
InHand(x, b) ==
    LET y == Peer(x)
        d == Len(decoded[x])
        n == b[nonce[x].recv]
    IN  \/ n = d /\ partial[x] = <<>> /\ readBuf[x] = <<>>
        \/ /\ n \in {d + 1, d + 2}
           /\ partial[x] \o readBuf[x] = Batch(written[y], d, n)
           /\ Len(partial[x]) < Len(written[y][d + 1])

Link(x) ==
    LET y == Peer(x) IN
    /\ nonce[x].recv <= nonce[y].send
    /\ \A k \in 1 .. Len(written[y]) :
          Len(written[y][k]) >= 2 /\ written[y][k][1].len = Len(written[y][k]) - 2
    /\ \E b \in [0 .. nonce[y].send -> 0 .. Len(written[y])] :
          Batches(y, b) /\ InHand(x, b) /\ (Reading(x) => OnWire(x, b))

IInv == TypeOK /\ Body /\ Phases /\ DecodedPrefix /\ \A x \in Side : Link(x)
=============================================================================
