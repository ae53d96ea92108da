------------------------------ MODULE TunRouter ------------------------------
(***************************************************************************)
(* The server's TUN router (internal/tun/router.go): one goroutine reads   *)
(* the TUN device and dispatches each packet to the channel registered for *)
(* its destination; each session runs a Bridge that learns its address     *)
(* from its first packet, registers a channel, moves packets both ways and *)
(* unregisters when either direction ends.                                 *)
(*                                                                         *)
(* A session stands for its mux stream, its call of Bridge and the channel *)
(* that call makes.  Sessions of one client follow each other: onAuth ends *)
(* the old one before the new one exists (cmd/ghost-server/main.go), which *)
(* is the guard of Arrive; nothing makes the old Bridge return first.      *)
(***************************************************************************)
EXTENDS Naturals, Sequences

CONSTANTS Session, Client, ClientOf,  \* who owns each session
          Addr, SourcesOf,            \* IP addresses; the ones each session's packets may bear
          None,
          QueueCap,                   \* tunWriteQueue
          MaxDown, MaxUp              \* bounds: packets from the TUN; to it, per session

ASSUME RouterAssumption ==
    /\ ClientOf \in [Session -> Client] /\ SourcesOf \in [Session -> SUBSET Addr]
    /\ None \notin Session \cup Addr
    /\ QueueCap \in Nat \ {0} /\ MaxDown \in Nat /\ MaxUp \in Nat

VARIABLES
    routes,     \* address -> the session whose channel is registered for it
    queue,      \* the channel of a session: its packets ...
    closes,     \* ... and how often it was closed
    reader,     \* readLoop: the packet it holds and the channel it looked up
    bridge,     \* where each Bridge call is
    key,        \* the address each Bridge has learned
    victim,     \* the channel that unregister took out of the map
    down,       \* the TUN -> stream goroutine of each Bridge: state and packet
    up,         \* the stream -> TUN goroutine of each Bridge
    errc,       \* results waiting in errc
    stream,     \* packets from the client queued in the mux stream
    eof,        \* the stream has ended
    crashed,    \* the process has panicked: "no", "send" or "close"
    nextId,     \* history: the number of the next packet read from the TUN
    delivered   \* history: the packets written to each stream

vars == <<routes, queue, closes, reader, bridge, key, victim, down, up, errc,
          stream, eof, crashed, nextId, delivered>>

NoPacket == [id |-> 0, dst |-> None]
Reading == [pkt |-> NoPacket, ch |-> None]

Init ==
    /\ routes = [a \in Addr |-> None]
    /\ queue = [s \in Session |-> <<>>] /\ closes = [s \in Session |-> 0]
    /\ reader = Reading
    /\ bridge = [s \in Session |-> "idle"] /\ key = [s \in Session |-> None]
    /\ victim = [s \in Session |-> None]
    /\ down = [s \in Session |-> [st |-> "none", pkt |-> NoPacket]]
    /\ up = [s \in Session |-> "none"]
    /\ errc = [s \in Session |-> 0]
    /\ stream = [s \in Session |-> <<>>] /\ eof = [s \in Session |-> FALSE]
    /\ crashed = "no"
    /\ nextId = 1 /\ delivered = [s \in Session |-> <<>>]

-----------------------------------------------------------------------------
(* readLoop.                                                               *)

(* Mutant: a packet with no route of its own goes to any registered channel. *)
ReadPacket_DefaultRoute(a) ==
    /\ crashed = "no" /\ reader = Reading /\ nextId <= MaxDown
    /\ nextId' = nextId + 1
    /\ \E b \in Addr : routes[b] # None
                       /\ reader' = [pkt |-> [id |-> nextId, dst |-> a], ch |-> routes[b]]
    /\ UNCHANGED <<routes, queue, closes, bridge, key, victim, down, up, errc,
                   stream, eof, crashed, delivered>>

(* dev.Read returns a packet; its channel is looked up under RLock.  (An    *)
(* error of dev.Read ends the loop: no further ReadPacket is then taken.)   *)
ReadPacket(a) ==
    /\ crashed = "no" /\ reader = Reading /\ nextId <= MaxDown
    /\ nextId' = nextId + 1
    /\ reader' = IF routes[a] = None THEN Reading
                 ELSE [pkt |-> [id |-> nextId, dst |-> a], ch |-> routes[a]]
    /\ UNCHANGED <<routes, queue, closes, bridge, key, victim, down, up, errc,
                   stream, eof, crashed, delivered>>

(* Mutant: a channel without buffer and a send without default: the reader *)
(* waits until the session receives.                                       *)
Dispatch_Blocking ==
    /\ crashed = "no" /\ reader # Reading
    /\ down[reader.ch].st = "wait" /\ queue[reader.ch] = <<>>
    /\ queue' = [queue EXCEPT ![reader.ch] = Append(@, reader.pkt)]
    /\ reader' = Reading
    /\ UNCHANGED <<routes, closes, bridge, key, victim, down, up, errc, stream,
                   eof, crashed, nextId, delivered>>

(* Mutant: a client whose channel is full is taken for gone. *)
Dispatch_EvictsSlow ==
    LET c == reader.ch IN
    /\ crashed = "no" /\ reader # Reading
    /\ reader' = Reading
    /\ \/ closes[c] > 0 /\ crashed' = "send" /\ UNCHANGED <<queue, routes>>
       \/ /\ closes[c] = 0 /\ Len(queue[c]) < QueueCap
          /\ queue' = [queue EXCEPT ![c] = Append(@, reader.pkt)]
          /\ UNCHANGED <<crashed, routes>>
       \/ /\ closes[c] = 0 /\ Len(queue[c]) >= QueueCap
          /\ routes' = [routes EXCEPT ![reader.pkt.dst] = None] /\ UNCHANGED <<queue, crashed>>
    /\ UNCHANGED <<closes, bridge, key, victim, down, up, errc, stream, eof, nextId, delivered>>

(* The send, after the unlock: a closed channel panics, a full one drops. *)
Dispatch ==
    LET c == reader.ch IN
    /\ crashed = "no" /\ reader # Reading
    /\ reader' = Reading
    /\ \/ closes[c] > 0 /\ crashed' = "send" /\ UNCHANGED queue
       \/ /\ closes[c] = 0 /\ Len(queue[c]) < QueueCap
          /\ queue' = [queue EXCEPT ![c] = Append(@, reader.pkt)]
          /\ UNCHANGED crashed
       \/ closes[c] = 0 /\ Len(queue[c]) >= QueueCap /\ UNCHANGED <<queue, crashed>>
    /\ UNCHANGED <<routes, closes, bridge, key, victim, down, up, errc, stream,
                   eof, nextId, delivered>>

-----------------------------------------------------------------------------
(* The sessions: a stream is opened, carries packets up, and ends.         *)

Arrive(s) ==
    /\ crashed = "no" /\ bridge[s] = "idle"
    /\ \A r \in Session : ClientOf[r] = ClientOf[s] => bridge[r] = "idle" \/ eof[r]
    /\ bridge' = [bridge EXCEPT ![s] = "first"]
    /\ UNCHANGED <<routes, queue, closes, reader, key, victim, down, up, errc,
                   stream, eof, crashed, nextId, delivered>>

(* A packet from the client: not IP ("junk"), or from one of its addresses. *)
FromClient(s, src) ==
    /\ crashed = "no" /\ bridge[s] # "idle" /\ ~eof[s] /\ Len(stream[s]) < MaxUp
    /\ src \in SourcesOf[s] \cup {"junk"}
    /\ stream' = [stream EXCEPT ![s] = Append(@, src)]
    /\ UNCHANGED <<routes, queue, closes, reader, bridge, key, victim, down, up,
                   errc, eof, crashed, nextId, delivered>>

(* The session is kicked, or its client is gone: EOF after what is queued. *)
StreamEnds(s) ==
    /\ crashed = "no" /\ bridge[s] # "idle" /\ ~eof[s]
    /\ eof' = [eof EXCEPT ![s] = TRUE]
    /\ UNCHANGED <<routes, queue, closes, reader, bridge, key, victim, down, up,
                   errc, stream, crashed, nextId, delivered>>

-----------------------------------------------------------------------------
(* Bridge.                                                                 *)

(* The first packet names the address; register replaces what is there. *)
Register(s) ==
    /\ crashed = "no" /\ bridge[s] = "first" /\ stream[s] # <<>>
    /\ stream' = [stream EXCEPT ![s] = Tail(@)]
    /\ LET src == Head(stream[s]) IN
       IF src = "junk"
       THEN bridge' = [bridge EXCEPT ![s] = "done"] /\ UNCHANGED <<routes, key>>
       ELSE /\ bridge' = [bridge EXCEPT ![s] = "registered"]
            /\ key' = [key EXCEPT ![s] = src]
            /\ routes' = [routes EXCEPT ![src] = s]
    /\ UNCHANGED <<queue, closes, reader, victim, down, up, errc, eof, crashed,
                   nextId, delivered>>

(* The stream ends before its first packet. *)
FirstReadFails(s) ==
    /\ crashed = "no" /\ bridge[s] = "first" /\ stream[s] = <<>> /\ eof[s]
    /\ bridge' = [bridge EXCEPT ![s] = "done"]
    /\ UNCHANGED <<routes, queue, closes, reader, key, victim, down, up, errc,
                   stream, eof, crashed, nextId, delivered>>

(* The first packet is written to the TUN and the two goroutines start. *)
StartBridge(s) ==
    /\ crashed = "no" /\ bridge[s] = "registered"
    /\ bridge' = [bridge EXCEPT ![s] = "running"]
    /\ down' = [down EXCEPT ![s].st = "wait"]
    /\ up' = [up EXCEPT ![s] = "run"]
    /\ UNCHANGED <<routes, queue, closes, reader, key, victim, errc, stream, eof,
                   crashed, nextId, delivered>>

(* TUN -> stream: take a packet and write it. *)
DownTake(s) ==
    /\ crashed = "no" /\ down[s].st = "wait" /\ queue[s] # <<>>
    /\ down' = [down EXCEPT ![s] = [st |-> "write", pkt |-> Head(queue[s])]]
    /\ queue' = [queue EXCEPT ![s] = Tail(@)]
    /\ UNCHANGED <<routes, closes, reader, bridge, key, victim, up, errc, stream,
                   eof, crashed, nextId, delivered>>

DownWritten(s) ==
    /\ crashed = "no" /\ down[s].st = "write"
    /\ down' = [down EXCEPT ![s] = [st |-> "wait", pkt |-> NoPacket]]
    /\ delivered' = [delivered EXCEPT ![s] = Append(@, down[s].pkt)]
    /\ UNCHANGED <<routes, queue, closes, reader, bridge, key, victim, up, errc,
                   stream, eof, crashed, nextId>>

(* A write fails, or the channel is closed and empty. *)
DownExits(s) ==
    /\ crashed = "no"
    /\ \/ down[s].st = "write"
       \/ down[s].st = "wait" /\ queue[s] = <<>> /\ closes[s] > 0
    /\ down' = [down EXCEPT ![s] = [st |-> "exit", pkt |-> NoPacket]]
    /\ errc' = [errc EXCEPT ![s] = @ + 1]
    /\ UNCHANGED <<routes, queue, closes, reader, bridge, key, victim, up, stream,
                   eof, crashed, nextId, delivered>>

(* stream -> TUN: junk is dropped; the device may refuse a packet. *)
UpMoves(s) ==
    /\ crashed = "no" /\ up[s] = "run" /\ stream[s] # <<>>
    /\ stream' = [stream EXCEPT ![s] = Tail(@)]
    /\ UNCHANGED <<routes, queue, closes, reader, bridge, key, victim, down, up,
                   errc, eof, crashed, nextId, delivered>>

(* Mutant: a clean EOF ends the goroutine and reports nothing. *)
UpExits_SilentEOF(s) ==
    /\ crashed = "no" /\ up[s] = "run" /\ stream[s] = <<>> /\ eof[s]
    /\ up' = [up EXCEPT ![s] = "exit"]
    /\ UNCHANGED <<routes, queue, closes, reader, bridge, key, victim, down, errc,
                   stream, eof, crashed, nextId, delivered>>

UpExits(s) ==
    /\ crashed = "no" /\ up[s] = "run"
    /\ \/ stream[s] # <<>> /\ Head(stream[s]) # "junk"
          /\ stream' = [stream EXCEPT ![s] = Tail(@)]
       \/ stream[s] = <<>> /\ eof[s] /\ UNCHANGED stream
    /\ up' = [up EXCEPT ![s] = "exit"]
    /\ errc' = [errc EXCEPT ![s] = @ + 1]
    /\ UNCHANGED <<routes, queue, closes, reader, bridge, key, victim, down, eof,
                   crashed, nextId, delivered>>

(* The first result ends Bridge; its deferred unregister runs. *)
BridgeReturns(s) ==
    /\ crashed = "no" /\ bridge[s] = "running" /\ errc[s] > 0
    /\ errc' = [errc EXCEPT ![s] = @ - 1]
    /\ bridge' = [bridge EXCEPT ![s] = "returned"]
    /\ UNCHANGED <<routes, queue, closes, reader, key, victim, down, up, stream,
                   eof, crashed, nextId, delivered>>

(* Mutant: the route is not deleted. *)
UnregisterTakes_NoDelete(s) ==
    /\ crashed = "no" /\ bridge[s] = "returned"
    /\ victim' = [victim EXCEPT ![s] = routes[key[s]]]
    /\ bridge' = [bridge EXCEPT ![s] = "closing"]
    /\ UNCHANGED <<routes, queue, closes, reader, key, down, up, errc, stream, eof,
                   crashed, nextId, delivered>>

(* unregister deletes the route of its address, whoever it belongs to ... *)
UnregisterTakes(s) ==
    /\ crashed = "no" /\ bridge[s] = "returned"
    /\ victim' = [victim EXCEPT ![s] = routes[key[s]]]
    /\ routes' = [routes EXCEPT ![key[s]] = None]
    /\ bridge' = [bridge EXCEPT ![s] = "closing"]
    /\ UNCHANGED <<queue, closes, reader, key, down, up, errc, stream, eof,
                   crashed, nextId, delivered>>

(* Mutant: the channel is not closed. *)
UnregisterCloses_NoClose(s) ==
    /\ crashed = "no" /\ bridge[s] = "closing"
    /\ bridge' = [bridge EXCEPT ![s] = "done"]
    /\ victim' = [victim EXCEPT ![s] = None]
    /\ UNCHANGED <<routes, queue, closes, reader, key, down, up, errc, stream, eof,
                   crashed, nextId, delivered>>

(* ... and closes that channel after the unlock. *)
UnregisterCloses(s) ==
    /\ crashed = "no" /\ bridge[s] = "closing"
    /\ bridge' = [bridge EXCEPT ![s] = "done"]
    /\ victim' = [victim EXCEPT ![s] = None]
    /\ IF victim[s] = None THEN UNCHANGED <<closes, crashed>>
       ELSE /\ closes' = [closes EXCEPT ![victim[s]] = @ + 1]
            /\ crashed' = IF closes[victim[s]] > 0 THEN "close" ELSE crashed
    /\ UNCHANGED <<routes, queue, reader, key, down, up, errc, stream, eof,
                   nextId, delivered>>

Next ==
    \/ \E a \in Addr : ReadPacket(a)
    \/ Dispatch
    \/ \E s \in Session :
          \/ Arrive(s) \/ StreamEnds(s) \/ Register(s) \/ FirstReadFails(s)
          \/ StartBridge(s) \/ DownTake(s) \/ DownWritten(s) \/ DownExits(s)
          \/ UpMoves(s) \/ UpExits(s) \/ BridgeReturns(s)
          \/ UnregisterTakes(s) \/ UnregisterCloses(s)
    \/ \E s \in Session, src \in Addr \cup {"junk"} : FromClient(s, src)

Spec == Init /\ [][Next]_vars

(***************************************************************************)
(* Goroutines that can run do run.  stream.Write may block as long as the  *)
(* client does not read; once the stream has ended it returns.             *)
(***************************************************************************)
Fairness ==
    /\ WF_vars(Dispatch)
    /\ \A s \in Session :
          /\ WF_vars(Register(s) \/ FirstReadFails(s) \/ StartBridge(s))
          /\ WF_vars(DownTake(s)) /\ WF_vars(UpMoves(s) \/ UpExits(s))
          /\ WF_vars(eof[s] /\ (DownWritten(s) \/ DownExits(s)))
          /\ WF_vars(down[s].st = "wait" /\ DownExits(s))
          /\ WF_vars(BridgeReturns(s) \/ UnregisterTakes(s) \/ UnregisterCloses(s))

FairSpec == Spec /\ Fairness

-----------------------------------------------------------------------------
Packet == [id : 1 .. MaxDown, dst : Addr] \cup {NoPacket}

(* The type invariant. *)
TypeOK ==
    /\ routes \in [Addr -> Session \cup {None}]
    /\ queue \in [Session -> Seq(Packet)] /\ delivered \in [Session -> Seq(Packet)]
    /\ stream \in [Session -> Seq(Addr \cup {"junk"})]
    /\ closes \in [Session -> Nat] /\ errc \in [Session -> 0 .. 2]
    /\ reader \in [pkt : Packet, ch : Session \cup {None}]
    /\ bridge \in [Session -> {"idle", "first", "registered", "running",
                               "returned", "closing", "done"}]
    /\ key \in [Session -> Addr \cup {None}]
    /\ victim \in [Session -> Session \cup {None}]
    /\ down \in [Session -> [st : {"none", "wait", "write", "exit"}, pkt : Packet]]
    /\ up \in [Session -> {"none", "run", "exit"}]
    /\ eof \in [Session -> BOOLEAN] /\ crashed \in {"no", "send", "close"}
    /\ nextId \in 1 .. MaxDown + 1

(* No channel is closed twice, although unregister closes channels of      *)
(* other sessions: what it closes it has taken out of the map, under the   *)
(* lock (router.go:221-230).                                                *)
NoDoubleClose == \A s \in Session : closes[s] <= 1

(* Packets reach a stream in the order the TUN gave them, each at one       *)
(* stream at most, and only one that registered the destination             *)
(* (router.go:146-149: no packet lands in the wrong session).               *)
InOrderOnce ==
    /\ \A s \in Session : \A i, j \in 1 .. Len(delivered[s]) :
          i < j => delivered[s][i].id < delivered[s][j].id
    /\ \A s \in Session : \A i \in 1 .. Len(delivered[s]) : delivered[s][i].dst = key[s]
    /\ \A s, r \in Session : s # r =>
          \A i \in 1 .. Len(delivered[s]), j \in 1 .. Len(delivered[r]) :
             delivered[s][i].id # delivered[r][j].id

(* A route leads to a session that registered it and has not unregistered. *)
NoStaleRoute == \A a \in Addr : LET s == routes[a] IN
    s # None => key[s] = a /\ bridge[s] \in {"registered", "running", "returned"}

(* The reader never waits for one session while others have packets. *)
ReaderMovesOn == reader # Reading ~> (reader = Reading \/ crashed # "no")

(* When a stream ends its Bridge returns and unregisters. *)
BridgeEnds == \A s \in Session :
    eof[s] ~> (bridge[s] = "done" \/ crashed # "no")

(* A session that has registered and not unregistered has its route, or    *)
(* another session of the same address took it and has it, or took it out. *)
RouteOrHeir == \A s \in Session :
    bridge[s] \in {"registered", "running", "returned"} =>
       \/ routes[key[s]] = s
       \/ \E r \in Session \ {s} :
             /\ key[r] = key[s]
             /\ routes[key[s]] = r \/ bridge[r] \in {"closing", "done"}

(* router.go:250-251: "Register this client before forwarding the first    *)
(* packet so that any immediate reply from the TUN side lands in our        *)
(* channel": the channel of a live session is the registered one.           *)
RouteHeld == \A s \in Session :
    bridge[s] \in {"registered", "running"} /\ ~eof[s] /\ errc[s] = 0
        => routes[key[s]] = s

(* router.go:227: "Close the channel so the TUN→stream writer goroutine    *)
(* exits cleanly": once a session is over and its Bridge has returned, its  *)
(* writer goroutine ends, although other sessions come and go meanwhile,    *)
(* unless one of them has registered the same address.                      *)
WriterExits == \A s \in Session :
    (bridge[s] = "done" /\ eof[s]) ~>
        \/ down[s].st \in {"none", "exit"} \/ crashed # "no"
        \/ \E r \in Session \ {s} : key[r] = key[s]

(* router.go:173-175: readLoop "dispatches to the registered client        *)
(* channel, or drops the packet".                                           *)
NoPanic == crashed = "no"
=============================================================================
