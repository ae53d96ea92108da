----------------------------- MODULE Keepalive -----------------------------
(***************************************************************************)
(* The keepalive of a tunnel: on each side the pingLoop and the readLoop of *)
(* mux.Conn (mux/conn.go) and the keepaliveLoop of the shaper              *)
(* (shaper/shaper.go), which pings over the same Conn, with the transport  *)
(* between them and the data that goes over it.                            *)
(*                                                                         *)
(* Time passes in units of 10 s.  Tick lets one pass when no step is left  *)
(* that takes the code less: a goroutine that can go on does so before.    *)
(* Clocks are ages, capped where a longer age changes nothing.  A frame is *)
(* delivered within MaxDelay units, in order.  The transport of a side is  *)
(* full when data has filled it: a write waits, with the mutex of the      *)
(* coalescer in hand, until the other side reads.  It hangs when nothing   *)
(* arrives any more although nothing fails, and is broken when reads and   *)
(* flushes fail.                                                           *)
(***************************************************************************)
EXTENDS Naturals, Sequences

CONSTANTS Interval,       \* PingInterval, in units
          PingTimeout,    \* PingTimeout, in units
          MaxDelay,       \* bound: the time a frame is under way
          MaxWire,        \* bound: frames the transport holds for a side that reads none
          Loaded,         \* the sides that send data in bulk
          StoreLags       \* a unit may end between SendPing and the store

Side == {"client", "server"}
Peer(x) == IF x = "client" THEN "server" ELSE "client"

ASSUME KeepaliveAssumption ==
    /\ {Interval, PingTimeout, MaxDelay, MaxWire} \subseteq Nat /\ Interval > 0
    /\ Loaded \subseteq Side /\ StoreLags \in BOOLEAN

VARIABLES
    conn,             \* of each side: "open", or "closed" as c.done says
    pinger,           \* where pingLoop is
    pingIn, pingDue,  \* its ticker: units to the next tick, and a tick not taken
    sentAge, pongAge, \* the age of pingSentUnix and of lastPongUnix
    shaper,           \* where keepaliveLoop is
    shaperIn, shaperDue,
    reader,           \* where readLoop is
    wire,             \* frames of each side that are under way
    full,             \* the sides whose transport is full
    hung, hungFor,    \* the sides whose transport hangs, and the age of the first hang
    broken, brokenFor,
    shut,             \* the sides whose coalescer is closed
    gaveUp            \* history: the sides whose pingLoop closed for want of an echo

pings == <<pinger, pingIn, pingDue, sentAge>>
shapers == <<shaper, shaperIn, shaperDue>>
faults == <<full, hung, hungFor, broken, brokenFor, shut>>
vars == <<conn, pings, pongAge, shapers, reader, wire, faults, gaveUp>>

(* NewConn on both sides, each with its shaper, which is started at once;  *)
(* the server's within an interval of the client's.                        *)
Init ==
    /\ conn = [x \in Side |-> "open"]
    /\ pinger = [x \in Side |-> "wait"] /\ shaper = [x \in Side |-> "wait"]
    /\ reader = [x \in Side |-> "read"]
    /\ pingIn \in [Side -> 1 .. Interval] /\ pingIn["client"] = Interval
    /\ shaperIn = pingIn
    /\ sentAge = [x \in Side |-> Interval - pingIn[x]] /\ pongAge = sentAge
    /\ pingDue = [x \in Side |-> FALSE] /\ shaperDue = [x \in Side |-> FALSE]
    /\ wire = [x \in Side |-> <<>>]
    /\ full = {} /\ hung = {} /\ hungFor = 0
    /\ broken = FALSE /\ brokenFor = 0 /\ shut = {} /\ gaveUp = {}

-----------------------------------------------------------------------------
(* Frames.                                                                 *)

CanWrite(x) == (x \notin full /\ Len(wire[x]) < MaxWire) \/ broken

(* A frame goes on the wire; one written to a transport that hangs or is   *)
(* broken arrives nowhere.                                                 *)
Send(x, type) ==
    /\ CanWrite(x)
    /\ wire' = IF x \in hung \/ broken THEN wire
               ELSE [wire EXCEPT ![x] = Append(@, [type |-> type, left |-> MaxDelay])]

(* What the write of a frame may return.  The coalescer refuses it once it *)
(* is closed, and returns the error of a flush only to a writer that fills *)
(* the batch: the timer that flushes a batch with nothing but a PING in it *)
(* drops the error.                                                        *)
WriteResult(x) ==
    IF x \in shut THEN {"error"} ELSE IF broken THEN {"nil", "error"} ELSE {"nil"}

-----------------------------------------------------------------------------
(* pingLoop.                                                               *)

(* Mutant: an answer within the second of the PING does not count. *)
Unanswered_SameSecond(x) == sentAge[x] <= pongAge[x] /\ sentAge[x] > PingTimeout

(* What pingLoop takes for an unanswered PING whose time is over. *)
Unanswered(x) == sentAge[x] < pongAge[x] /\ sentAge[x] > PingTimeout

(* Mutant: an unanswered PING is not looked at. *)
PingerTicks_NoDeadline(x) ==
    /\ pinger[x] = "wait" /\ pingDue[x]
    /\ pingDue' = [pingDue EXCEPT ![x] = FALSE]
    /\ pinger' = [pinger EXCEPT ![x] = "ping"] /\ UNCHANGED <<conn, gaveUp>>
    /\ UNCHANGED <<pingIn, sentAge, pongAge, shapers, reader, wire, faults>>

(* A tick: the last PING has been answered, or has time left; otherwise    *)
(* Conn is closed.  The select may take the tick although done is closed.  *)
PingerTicks(x) ==
    /\ pinger[x] = "wait" /\ pingDue[x]
    /\ pingDue' = [pingDue EXCEPT ![x] = FALSE]
    /\ IF Unanswered(x)
       THEN /\ pinger' = [pinger EXCEPT ![x] = "ended"]
            /\ conn' = [conn EXCEPT ![x] = "closed"] /\ gaveUp' = gaveUp \cup {x}
       ELSE pinger' = [pinger EXCEPT ![x] = "ping"] /\ UNCHANGED <<conn, gaveUp>>
    /\ UNCHANGED <<pingIn, sentAge, pongAge, shapers, reader, wire, faults>>

PingerEnds(x) ==
    /\ pinger[x] = "wait" /\ conn[x] = "closed"
    /\ pinger' = [pinger EXCEPT ![x] = "ended"]
    /\ UNCHANGED <<conn, pingIn, pingDue, sentAge, pongAge, shapers, reader, wire,
                   faults, gaveUp>>

(* SendPing, which does not look at done: an error closes Conn. *)
PingerSends(x) ==
    /\ pinger[x] = "ping"
    /\ Send(x, "ping")
    /\ \/ /\ "nil" \in WriteResult(x)
          /\ pinger' = [pinger EXCEPT ![x] = "store"] /\ UNCHANGED conn
       \/ /\ "error" \in WriteResult(x)
          /\ pinger' = [pinger EXCEPT ![x] = "ended"] /\ conn' = [conn EXCEPT ![x] = "closed"]
    /\ UNCHANGED <<pingIn, pingDue, sentAge, pongAge, shapers, reader, faults, gaveUp>>

PingerStores(x) ==
    /\ pinger[x] = "store"
    /\ pinger' = [pinger EXCEPT ![x] = "wait"]
    /\ sentAge' = [sentAge EXCEPT ![x] = 0]
    /\ UNCHANGED <<conn, pingIn, pingDue, pongAge, shapers, reader, wire, faults, gaveUp>>

-----------------------------------------------------------------------------
(* keepaliveLoop of the shaper, which looks at no answer.                  *)

ShaperTicks(x) ==
    /\ shaper[x] = "wait" /\ shaperDue[x]
    /\ shaperDue' = [shaperDue EXCEPT ![x] = FALSE]
    /\ shaper' = [shaper EXCEPT ![x] = "ping"]
    /\ UNCHANGED <<conn, pings, pongAge, shaperIn, reader, wire, faults, gaveUp>>

(* The loop ends at the first error of SendPing, which a broken transport  *)
(* need not give it.                                                       *)
ShaperSends(x) ==
    /\ shaper[x] = "ping"
    /\ Send(x, "ping")
    /\ \/ "nil" \in WriteResult(x) /\ shaper' = [shaper EXCEPT ![x] = "wait"]
       \/ "error" \in WriteResult(x) /\ shaper' = [shaper EXCEPT ![x] = "off"]
    /\ UNCHANGED <<conn, pings, pongAge, shaperIn, shaperDue, reader, faults, gaveUp>>

-----------------------------------------------------------------------------
(* readLoop, which goes on when Conn is closed, as long as reads succeed.  *)

Receive(x, type) ==
    /\ reader[x] = "read" /\ wire[Peer(x)] # <<>> /\ Head(wire[Peer(x)]).type = type
    /\ wire' = [wire EXCEPT ![Peer(x)] = Tail(@)]

ReadsPing(x) ==
    /\ Receive(x, "ping")
    /\ reader' = [reader EXCEPT ![x] = "pong"]
    /\ UNCHANGED <<conn, pings, pongAge, shapers, faults, gaveUp>>

ReadsPong(x) ==
    /\ Receive(x, "pong")
    /\ pongAge' = [pongAge EXCEPT ![x] = 0]
    /\ UNCHANGED <<conn, pings, shapers, reader, faults, gaveUp>>

(* Mutant: a PING is answered with a PING, which the peer answers again. *)
Echoes_Ping(x) ==
    /\ reader[x] = "pong"
    /\ Send(x, "ping")
    /\ reader' = [reader EXCEPT ![x] = "read"]
    /\ UNCHANGED <<conn, pings, pongAge, shapers, faults, gaveUp>>

(* The answer to a PING, written by readLoop itself; its error is ignored. *)
Echoes(x) ==
    /\ reader[x] = "pong"
    /\ Send(x, "pong")
    /\ reader' = [reader EXCEPT ![x] = "read"]
    /\ UNCHANGED <<conn, pings, pongAge, shapers, faults, gaveUp>>

(* Mutant: readLoop returns without Close. *)
ReadFails_NoClose(x) ==
    /\ broken /\ reader[x] = "read"
    /\ reader' = [reader EXCEPT ![x] = "ended"]
    /\ UNCHANGED <<conn, pings, pongAge, shapers, wire, faults, gaveUp>>

ReadFails(x) ==
    /\ broken /\ reader[x] = "read"
    /\ reader' = [reader EXCEPT ![x] = "ended"]
    /\ conn' = [conn EXCEPT ![x] = "closed"]
    /\ UNCHANGED <<pings, pongAge, shapers, wire, faults, gaveUp>>

-----------------------------------------------------------------------------
(* The rest of the session and the transport.                              *)

(* The session is closed: the shaper is stopped, the coalescer and the     *)
(* connection are closed, and both sides find the transport broken.        *)
SessionCloses(x) ==
    /\ x \notin shut
    /\ conn' = [conn EXCEPT ![x] = "closed"]
    /\ shaper' = [shaper EXCEPT ![x] = "off"] /\ shut' = shut \cup {x}
    /\ broken' = TRUE /\ wire' = [y \in Side |-> <<>>]
    /\ UNCHANGED <<pings, pongAge, shaperIn, shaperDue, reader, full, hung, hungFor, brokenFor,
                   gaveUp>>

(* The transport fails by itself. *)
Breaks ==
    /\ ~broken
    /\ broken' = TRUE /\ wire' = [y \in Side |-> <<>>]
    /\ UNCHANGED <<conn, pings, pongAge, shapers, reader, full, hung, hungFor, brokenFor, shut,
                   gaveUp>>

Fills(x) ==
    /\ x \in Loaded \ full /\ ~broken
    /\ full' = full \cup {x}
    /\ UNCHANGED <<conn, pings, pongAge, shapers, reader, wire, hung, hungFor, broken, brokenFor,
                   shut, gaveUp>>

MayDrain(x) == x \in full \ hung /\ reader[Peer(x)] = "read"

Drains(x) ==
    /\ MayDrain(x)
    /\ full' = full \ {x}
    /\ UNCHANGED <<conn, pings, pongAge, shapers, reader, wire, hung, hungFor, broken, brokenFor,
                   shut, gaveUp>>

Hangs(x) ==
    /\ x \notin hung /\ ~broken
    /\ hung' = hung \cup {x}
    /\ wire' = [wire EXCEPT ![x] = <<>>]
    /\ UNCHANGED <<conn, pings, pongAge, shapers, reader, full, hungFor, broken, brokenFor,
                   shut, gaveUp>>

-----------------------------------------------------------------------------
(* Time.                                                                   *)

(* Something on side x takes less than a unit and can be done. *)
Urgent(x) ==
    \/ pinger[x] = "wait" /\ (pingDue[x] \/ conn[x] = "closed")
    \/ pinger[x] = "store" /\ ~StoreLags
    \/ shaper[x] = "wait" /\ shaperDue[x]
    \/ "ping" \in {pinger[x], shaper[x]} /\ CanWrite(x)
    \/ reader[x] = "pong" /\ CanWrite(x)
    \/ reader[x] = "read" /\ broken
    \/ reader[x] = "read" /\ wire[Peer(x)] # <<>> /\ Head(wire[Peer(x)]).left = 0
    \/ MayDrain(x)

OldPing == Interval + PingTimeout
OldHang == 2 * Interval + PingTimeout

Older(age, max) == IF age < max THEN age + 1 ELSE age

(* A ticker keeps one tick for its loop, and is stopped at its end. *)
Ticker(ended, in, due, in2, due2) ==
    /\ in2 = [x \in Side |-> IF ended[x] THEN Interval
                             ELSE IF in[x] = 1 THEN Interval ELSE in[x] - 1]
    /\ due2 = [x \in Side |-> ~ended[x] /\ (due[x] \/ in[x] = 1)]

Tick ==
    /\ \A x \in Side : ~Urgent(x)
    /\ Ticker([x \in Side |-> pinger[x] = "ended"], pingIn, pingDue, pingIn', pingDue')
    /\ Ticker([x \in Side |-> shaper[x] = "off"], shaperIn, shaperDue, shaperIn', shaperDue')
    /\ sentAge' = [x \in Side |-> Older(sentAge[x], OldPing)]
    /\ pongAge' = [x \in Side |-> Older(pongAge[x], OldPing)]
    /\ wire' = [x \in Side |-> [i \in DOMAIN wire[x] |->
                  [wire[x][i] EXCEPT !.left = IF @ = 0 THEN 0 ELSE @ - 1]]]
    /\ hungFor' = IF hung = {} THEN 0 ELSE Older(hungFor, OldHang)
    /\ brokenFor' = IF broken THEN Older(brokenFor, 1) ELSE 0
    /\ UNCHANGED <<conn, pinger, shaper, reader, full, hung, broken, shut, gaveUp>>

Next ==
    \/ Tick \/ Breaks
    \/ \E x \in Side :
          \/ PingerTicks(x) \/ PingerEnds(x) \/ PingerSends(x) \/ PingerStores(x)
          \/ ShaperTicks(x) \/ ShaperSends(x)
          \/ ReadsPing(x) \/ ReadsPong(x) \/ Echoes(x) \/ ReadFails(x)
          \/ SessionCloses(x) \/ Fills(x) \/ Drains(x) \/ Hangs(x)

Spec == Init /\ [][Next]_vars

-----------------------------------------------------------------------------
(* A transport that delivers within the bound is never given up, although  *)
(* the answers to the shaper's PINGs and to pingLoop's look the same and   *)
(* ticks, PINGs and answers fall in any order within a unit.               *)
KeepsLive == gaveUp # {} => hung # {} \/ broken

(* conn.go:17-18: the detection of a hang takes "~70 s": when a direction  *)
(* has hung for two intervals and a timeout and nothing else has failed,   *)
(* both sides have closed, save one whose PING itself waits for a          *)
(* transport that is full.                                                 *)
DetectsDead ==
    hungFor >= OldHang /\ ~broken => \A x \in Side :
        conn[x] = "closed" \/ (pinger[x] = "ping" /\ x \in full)

(* conn.go:229-232: the two sides do not echo "each other forever": there   *)
(* are never more frames under way than one interval's PINGs of both loops *)
(* of one side and its answers to those of the other.                      *)
NoEchoStorm ==
    \A x \in Side : Len(wire[x]) > 4 => reader[Peer(x)] = "pong" /\ hung # {}

(* A broken transport closes Conn and ends its loops on both sides at       *)
(* once, also a pingLoop or a readLoop that waits in a write, although no  *)
(* write need report it and SendPing goes on after Close: the read that    *)
(* fails does it (conn.go:187-195).  The shaper's loop may live on.        *)
ConnEnds ==
    brokenFor > 0 => \A x \in Side :
        conn[x] = "closed" /\ pinger[x] = "ended" /\ reader[x] = "ended"

(* Two sides never wait for each other to read. *)
NoMutualWait == ~ \A x \in Side : reader[x] = "pong" /\ ~CanWrite(x)
=============================================================================
