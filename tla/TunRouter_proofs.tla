-------------------------- MODULE TunRouter_proofs --------------------------
(***************************************************************************)
(* Proofs about the TUN router, for all sessions, clients, addresses and   *)
(* queue sizes.                                                            *)
(***************************************************************************)
EXTENDS TunRouter, TLAPS

(* A channel is in the map, or taken out by one unregister, or closed:     *)
(* never two of these, and it is in the map under the key of its session.  *)
RouteInv ==
    /\ \A a \in Addr : routes[a] # None =>
          /\ key[routes[a]] = a /\ closes[routes[a]] = 0
          /\ bridge[routes[a]] \in {"registered", "running", "returned"}
    /\ \A r \in Session : victim[r] # None =>
          /\ closes[victim[r]] = 0
          /\ \A a \in Addr : routes[a] # victim[r]
          /\ \A q \in Session \ {r} : victim[q] # victim[r]
    /\ \A s \in Session : bridge[s] \in {"idle", "first"} =>
          /\ closes[s] = 0 /\ key[s] = None
          /\ \A r \in Session : victim[r] # s
    /\ \A s \in Session : closes[s] <= 1
    /\ \A s \in Session :
          bridge[s] \in {"registered", "running", "returned"} => key[s] \in Addr

(* Each goroutine of a Bridge has reported at most once.                   *)
ExitInv == \A s \in Session :
    /\ down[s].st # "exit" /\ up[s] # "exit" => errc[s] = 0
    /\ down[s].st # "exit" \/ up[s] # "exit" => errc[s] <= 1
    /\ bridge[s] \in {"idle", "first", "registered"} =>
          down[s].st = "none" /\ up[s] = "none"

(* The reader holds a packet exactly when it holds a channel.              *)
ReaderInv == reader # Reading => reader.ch \in Session /\ reader.pkt # NoPacket

Safe == TypeOK /\ RouteInv /\ ExitInv /\ ReaderInv

LEMMA SafeInit == Init => Safe
<1> USE RouterAssumption
<1>1. Init => TypeOK
  BY DEF Init, TypeOK, Packet, NoPacket, Reading
<1>2. Init => RouteInv
  BY DEF Init, RouteInv
<1>3. Init => ExitInv
  <2>1. ASSUME Init, NEW s \in Session
        PROVE /\ errc[s] = 0 /\ down[s].st = "none" /\ up[s] = "none"
              /\ down[s].st # "exit" /\ up[s] # "exit" /\ errc[s] <= 1
    <3>1. down[s] = [st |-> "none", pkt |-> NoPacket]
      BY <2>1 DEF Init
    <3> QED BY <2>1, <3>1 DEF Init
  <2> QED BY <2>1, Zenon DEF ExitInv
<1>4. Init => ReaderInv
  BY DEF Init, ReaderInv
<1> QED BY <1>1, <1>2, <1>3, <1>4 DEF Safe

(* Every step keeps the types.                                             *)
LEMMA TypeStep == Safe /\ [Next]_vars => TypeOK'
<1> SUFFICES ASSUME Safe, [Next]_vars PROVE TypeOK'
  OBVIOUS
<1> USE RouterAssumption
<1>0. TypeOK /\ RouteInv /\ ExitInv /\ ReaderInv
  BY DEF Safe
<1>1. ASSUME NEW a \in Addr, ReadPacket(a) PROVE TypeOK'
  BY <1>0, <1>1 DEF TypeOK, ReadPacket, Packet, NoPacket, Reading
<1>2. CASE Dispatch
  <2>1. reader.ch \in Session /\ reader.pkt \in Packet
    BY <1>0, <1>2 DEF TypeOK, ReaderInv, Dispatch
  <2>2. Append(queue[reader.ch], reader.pkt) \in Seq(Packet)
    BY <1>0, <2>1 DEF TypeOK
  <2>3. queue' = queue \/ queue' = [queue EXCEPT ![reader.ch] =
                                       Append(queue[reader.ch], reader.pkt)]
    BY <1>2 DEF Dispatch
  <2>4. queue' \in [Session -> Seq(Packet)]
    BY <1>0, <2>2, <2>3 DEF TypeOK
  <2>5. reader' \in [pkt : Packet, ch : Session \cup {None}]
    BY <1>2 DEF Dispatch, Packet, Reading
  <2>6. crashed' \in {"no", "send", "close"}
    BY <1>0, <1>2 DEF TypeOK, Dispatch
  <2>7. UNCHANGED <<routes, closes, bridge, key, victim, down, up, errc, stream,
                    eof, nextId, delivered>>
    BY <1>2 DEF Dispatch
  <2> QED BY <1>0, <2>4, <2>5, <2>6, <2>7 DEF TypeOK
<1>3. ASSUME NEW s \in Session, Arrive(s) PROVE TypeOK'
  BY <1>0, <1>3 DEF TypeOK, Arrive
<1>4. ASSUME NEW s \in Session, StreamEnds(s) PROVE TypeOK'
  BY <1>0, <1>4 DEF TypeOK, StreamEnds
<1>5. ASSUME NEW s \in Session, Register(s) PROVE TypeOK'
  <2>1. Head(stream[s]) \in Addr \cup {"junk"}
        /\ Tail(stream[s]) \in Seq(Addr \cup {"junk"})
    BY <1>0, <1>5 DEF TypeOK, Register
  <2>2. stream' \in [Session -> Seq(Addr \cup {"junk"})]
    BY <1>0, <1>5, <2>1 DEF TypeOK, Register
  <2>a. PICK src \in Addr \cup {"junk"} :
           IF src = "junk"
           THEN bridge' = [bridge EXCEPT ![s] = "done"] /\ UNCHANGED <<routes, key>>
           ELSE /\ bridge' = [bridge EXCEPT ![s] = "registered"]
                /\ key' = [key EXCEPT ![s] = src]
                /\ routes' = [routes EXCEPT ![src] = s]
    BY <1>5, <2>1 DEF Register
  <2>3. bridge' \in [Session -> {"idle", "first", "registered", "running",
                                 "returned", "closing", "done"}]
    BY <1>0, <2>a DEF TypeOK
  <2>4. routes' \in [Addr -> Session \cup {None}] /\ key' \in [Session -> Addr \cup {None}]
    <3>1. CASE src = "junk"
      <4>1. UNCHANGED <<routes, key>>
        BY <2>a, <3>1
      <4> QED BY <1>0, <4>1 DEF TypeOK
    <3>2. CASE src # "junk"
      <4>1. key' = [key EXCEPT ![s] = src] /\ routes' = [routes EXCEPT ![src] = s]
        BY <2>a, <3>2
      <4>2. src \in Addr
        BY <2>a, <3>2
      <4>3. routes' \in [Addr -> Session \cup {None}]
        BY <1>0, <4>1 DEF TypeOK
      <4>4. key' \in [Session -> Addr \cup {None}]
        BY <1>0, <4>1, <4>2 DEF TypeOK
      <4> QED BY <4>3, <4>4
    <3> QED BY <3>1, <3>2
  <2>5. UNCHANGED <<queue, closes, reader, victim, down, up, errc, eof, crashed,
                    nextId, delivered>>
    BY <1>5 DEF Register
  <2> QED BY <1>0, <2>2, <2>3, <2>4, <2>5 DEF TypeOK
<1>6. ASSUME NEW s \in Session, FirstReadFails(s) PROVE TypeOK'
  BY <1>0, <1>6 DEF TypeOK, FirstReadFails
<1>7. ASSUME NEW s \in Session, StartBridge(s) PROVE TypeOK'
  <2>1. down[s] \in [st : {"none", "wait", "write", "exit"}, pkt : Packet]
    BY <1>0 DEF TypeOK
  <2>2. [down[s] EXCEPT !.st = "wait"]
           \in [st : {"none", "wait", "write", "exit"}, pkt : Packet]
    BY <2>1
  <2>3. down' = [down EXCEPT ![s] = [down[s] EXCEPT !.st = "wait"]]
    BY <1>7 DEF StartBridge
  <2>4. down' \in [Session -> [st : {"none", "wait", "write", "exit"}, pkt : Packet]]
    BY <1>0, <2>2, <2>3 DEF TypeOK
  <2> QED BY <1>0, <1>7, <2>4 DEF TypeOK, StartBridge
<1>8. ASSUME NEW s \in Session, DownTake(s) PROVE TypeOK'
  <2>1. Head(queue[s]) \in Packet /\ Tail(queue[s]) \in Seq(Packet)
    BY <1>0, <1>8 DEF TypeOK, DownTake
  <2> QED BY <1>0, <1>8, <2>1 DEF TypeOK, DownTake
<1>9. ASSUME NEW s \in Session, DownWritten(s) PROVE TypeOK'
  <2>1. NoPacket \in Packet /\ down[s].pkt \in Packet
    BY <1>0 DEF TypeOK, Packet
  <2>2. delivered' \in [Session -> Seq(Packet)]
    BY <1>0, <1>9, <2>1 DEF TypeOK, DownWritten
  <2> QED BY <1>0, <1>9, <2>1, <2>2 DEF TypeOK, DownWritten
<1>10. ASSUME NEW s \in Session, DownExits(s) PROVE TypeOK'
  <2>1. NoPacket \in Packet
    BY DEF Packet
  <2>2. errc[s] <= 1 /\ errc' = [errc EXCEPT ![s] = errc[s] + 1]
    BY <1>0, <1>10 DEF ExitInv, DownExits
  <2>3. errc' \in [Session -> 0 .. 2]
    <3>1. errc \in [Session -> 0 .. 2]
      BY <1>0 DEF TypeOK
    <3>2. errc[s] + 1 \in 0 .. 2
      BY <2>2, <3>1
    <3> QED BY ONLY <2>2, <3>1, <3>2, s \in Session
  <2> QED BY <1>0, <1>10, <2>1, <2>3 DEF TypeOK, DownExits
<1>11. ASSUME NEW s \in Session, UpMoves(s) PROVE TypeOK'
  <2>1. Tail(stream[s]) \in Seq(Addr \cup {"junk"})
    BY <1>0, <1>11 DEF TypeOK, UpMoves
  <2> QED BY <1>0, <1>11, <2>1 DEF TypeOK, UpMoves
<1>12. ASSUME NEW s \in Session, UpExits(s) PROVE TypeOK'
  <2>0. stream[s] # <<>> => Tail(stream[s]) \in Seq(Addr \cup {"junk"})
    BY <1>0 DEF TypeOK
  <2>1. stream' \in [Session -> Seq(Addr \cup {"junk"})]
    BY <1>0, <1>12, <2>0 DEF TypeOK, UpExits
  <2>2. errc[s] <= 1 /\ errc' = [errc EXCEPT ![s] = errc[s] + 1]
    BY <1>0, <1>12 DEF ExitInv, UpExits
  <2>3. errc' \in [Session -> 0 .. 2]
    <3>1. errc \in [Session -> 0 .. 2]
      BY <1>0 DEF TypeOK
    <3>2. errc[s] + 1 \in 0 .. 2
      BY <2>2, <3>1
    <3> QED BY ONLY <2>2, <3>1, <3>2, s \in Session
  <2>4. UNCHANGED <<routes, queue, closes, reader, bridge, key, victim, down, eof,
                    crashed, nextId, delivered>>
        /\ up' = [up EXCEPT ![s] = "exit"]
    BY <1>12 DEF UpExits
  <2> QED BY <1>0, <2>1, <2>3, <2>4 DEF TypeOK
<1>13. ASSUME NEW s \in Session, BridgeReturns(s) PROVE TypeOK'
  BY <1>0, <1>13 DEF TypeOK, BridgeReturns
<1>14. ASSUME NEW s \in Session, UnregisterTakes(s) PROVE TypeOK'
  <2>1. key[s] \in Addr
    BY <1>0, <1>14 DEF RouteInv, UnregisterTakes
  <2> QED BY <1>0, <1>14, <2>1 DEF TypeOK, UnregisterTakes
<1>15. ASSUME NEW s \in Session, UnregisterCloses(s) PROVE TypeOK'
  <2>1. victim[s] \in Session \cup {None}
    BY <1>0 DEF TypeOK
  <2>2. closes' \in [Session -> Nat] /\ crashed' \in {"no", "send", "close"}
    BY <1>0, <1>15, <2>1 DEF TypeOK, UnregisterCloses
  <2>3. /\ bridge' \in [Session -> {"idle", "first", "registered", "running",
                                    "returned", "closing", "done"}]
        /\ victim' \in [Session -> Session \cup {None}]
    BY <1>0, <1>15 DEF TypeOK, UnregisterCloses
  <2>4. UNCHANGED <<routes, queue, reader, key, down, up, errc, stream, eof,
                    nextId, delivered>>
    BY <1>15 DEF UnregisterCloses
  <2> QED BY <1>0, <2>2, <2>3, <2>4 DEF TypeOK
<1>16. ASSUME NEW s \in Session, NEW src \in Addr \cup {"junk"}, FromClient(s, src)
       PROVE TypeOK'
  <2>1. stream' \in [Session -> Seq(Addr \cup {"junk"})]
    BY <1>0, <1>16 DEF TypeOK, FromClient
  <2> QED BY <1>0, <1>16, <2>1 DEF TypeOK, FromClient
<1>17. CASE UNCHANGED vars
  BY <1>0, <1>17 DEF TypeOK, vars
<1> QED
  BY <1>1, <1>2, <1>3, <1>4, <1>5, <1>6, <1>7, <1>8, <1>9, <1>10, <1>11, <1>12,
     <1>13, <1>14, <1>15, <1>16, <1>17 DEF Next

(* Every step keeps the ownership of the channels.                         *)
LEMMA RouteStep == Safe /\ [Next]_vars => RouteInv'
<1> SUFFICES ASSUME Safe, [Next]_vars PROVE RouteInv'
  OBVIOUS
<1> USE RouterAssumption
<1>0. TypeOK /\ RouteInv
  BY DEF Safe
<1>1. ASSUME NEW s \in Session, Register(s) PROVE RouteInv'
  <2>1. key[s] = None /\ bridge[s] = "first" /\ closes[s] = 0
        /\ \A r \in Session : victim[r] # s
    BY <1>0, <1>1 DEF RouteInv, Register
  <2>2. \A a \in Addr : routes[a] # s
    BY <1>0, <2>1 DEF RouteInv
  <2>3. Head(stream[s]) \in Addr \cup {"junk"}
    BY <1>0, <1>1 DEF TypeOK, Register
  <2>4. CASE Head(stream[s]) = "junk"
    BY <1>0, <1>1, <2>1, <2>2, <2>4 DEF TypeOK, RouteInv, Register
  <2>5. CASE Head(stream[s]) # "junk"
    <3> DEFINE src == Head(stream[s])
    <3>1. /\ src \in Addr
          /\ bridge' = [bridge EXCEPT ![s] = "registered"]
          /\ key' = [key EXCEPT ![s] = src] /\ routes' = [routes EXCEPT ![src] = s]
          /\ closes' = closes /\ victim' = victim
      BY <1>1, <2>3, <2>5 DEF Register
    <3> HIDE DEF src
    <3> QED BY <1>0, <2>1, <2>2, <3>1 DEF TypeOK, RouteInv
  <2> QED BY <2>4, <2>5
<1>2. ASSUME NEW s \in Session, UnregisterTakes(s) PROVE RouteInv'
  <2>1. /\ key[s] \in Addr /\ closes' = closes /\ key' = key
        /\ bridge' = [bridge EXCEPT ![s] = "closing"]
        /\ victim' = [victim EXCEPT ![s] = routes[key[s]]]
        /\ routes' = [routes EXCEPT ![key[s]] = None]
        /\ bridge[s] = "returned"
    BY <1>0, <1>2 DEF RouteInv, UnregisterTakes
  <2>2. \A a, b \in Addr : a # b /\ routes[a] # None => routes[a] # routes[b]
    BY <1>0 DEF RouteInv
  <2>3. \A a \in Addr : a # key[s] => routes[a] # s
    BY <1>0 DEF RouteInv, TypeOK
  <2>4. \A r \in Session, a \in Addr : routes[a] # None => routes[a] # victim[r]
    BY <1>0 DEF RouteInv, TypeOK
  <2>5. (\A a \in Addr : routes[a] # None =>
            /\ key[routes[a]] = a /\ closes[routes[a]] = 0
            /\ bridge[routes[a]] \in {"registered", "running", "returned"})'
    BY <1>0, <2>1, <2>3 DEF RouteInv, TypeOK
  <2>6. (\A r \in Session : victim[r] # None =>
            /\ closes[victim[r]] = 0
            /\ \A a \in Addr : routes[a] # victim[r]
            /\ \A q \in Session \ {r} : victim[q] # victim[r])'
    <3> SUFFICES ASSUME NEW r \in Session, victim'[r] # None
                 PROVE /\ closes[victim'[r]] = 0
                       /\ \A a \in Addr : routes'[a] # victim'[r]
                       /\ \A q \in Session \ {r} : victim'[q] # victim'[r]
      BY <2>1
    <3>1. CASE r = s
      <4>1. victim'[r] = routes[key[s]] /\ \A q \in Session \ {r} : victim'[q] = victim[q]
        BY <1>0, <2>1, <3>1 DEF TypeOK
      <4> QED BY <1>0, <2>1, <2>2, <2>4, <4>1 DEF RouteInv, TypeOK
    <3>2. CASE r # s
      <4>1. victim'[r] = victim[r]
            /\ \A q \in Session : victim'[q] = IF q = s THEN routes[key[s]] ELSE victim[q]
        BY <1>0, <2>1, <3>2 DEF TypeOK
      <4> QED BY <1>0, <2>1, <4>1 DEF RouteInv, TypeOK
    <3> QED BY <3>1, <3>2
  <2>7. (\A t \in Session : bridge[t] \in {"idle", "first"} =>
            /\ closes[t] = 0 /\ key[t] = None
            /\ \A r \in Session : victim[r] # t)'
    <3> SUFFICES ASSUME NEW t \in Session, bridge'[t] \in {"idle", "first"}
                 PROVE closes[t] = 0 /\ key[t] = None
                       /\ \A r \in Session : victim'[r] # t
      BY <2>1
    <3>1. t # s /\ bridge[t] \in {"idle", "first"}
      BY <1>0, <2>1 DEF TypeOK
    <3>2. key[t] = None /\ closes[t] = 0 /\ (\A r \in Session : victim[r] # t)
          /\ routes[key[s]] # t
      BY <1>0, <2>1, <3>1 DEF RouteInv
    <3> QED BY <1>0, <2>1, <3>2 DEF TypeOK
  <2>8. (\A t \in Session : closes[t] <= 1)'
        /\ (\A t \in Session :
              bridge[t] \in {"registered", "running", "returned"} => key[t] \in Addr)'
    BY <1>0, <2>1 DEF RouteInv, TypeOK
  <2> QED BY <2>5, <2>6, <2>7, <2>8 DEF RouteInv
<1>3. ASSUME NEW s \in Session, UnregisterCloses(s) PROVE RouteInv'
  <2>1. /\ bridge' = [bridge EXCEPT ![s] = "done"] /\ bridge[s] = "closing"
        /\ victim' = [victim EXCEPT ![s] = None]
        /\ routes' = routes /\ key' = key
    BY <1>3 DEF UnregisterCloses
  <2>2. CASE victim[s] = None
    BY <1>0, <1>3, <2>1, <2>2 DEF RouteInv, TypeOK, UnregisterCloses
  <2>3. CASE victim[s] # None
    <3>1. victim[s] \in Session /\ closes[victim[s]] = 0
          /\ closes' = [closes EXCEPT ![victim[s]] = @ + 1]
      BY <1>0, <1>3, <2>3 DEF RouteInv, TypeOK, UnregisterCloses
    <3> QED BY <1>0, <2>1, <2>3, <3>1 DEF RouteInv, TypeOK
  <2> QED BY <2>2, <2>3
<1>4. ASSUME NEW s \in Session,
             Arrive(s) \/ FirstReadFails(s) \/ StartBridge(s) \/ BridgeReturns(s)
      PROVE RouteInv'
  <2>1. PICK b : /\ bridge' = [bridge EXCEPT ![s] = b]
                 /\ \/ b = "first" /\ bridge[s] = "idle"
                    \/ b = "done" /\ bridge[s] = "first"
                    \/ b = "running" /\ bridge[s] = "registered"
                    \/ b = "returned" /\ bridge[s] = "running"
    BY <1>4 DEF Arrive, FirstReadFails, StartBridge, BridgeReturns
  <2>2. UNCHANGED <<routes, key, victim, closes>>
    BY <1>4 DEF Arrive, FirstReadFails, StartBridge, BridgeReturns
  <2> QED BY <1>0, <2>1, <2>2 DEF RouteInv, TypeOK
<1>5. CASE UNCHANGED <<routes, key, victim, closes, bridge>>
  BY <1>0, <1>5 DEF RouteInv
<1>6. ASSUME NEW s \in Session,
             \/ StreamEnds(s) \/ DownTake(s) \/ DownWritten(s) \/ DownExits(s)
             \/ UpMoves(s) \/ UpExits(s)
      PROVE UNCHANGED <<routes, key, victim, closes, bridge>>
  BY <1>6 DEF StreamEnds, DownTake, DownWritten, DownExits, UpMoves, UpExits
<1>7. ASSUME \/ \E a \in Addr : ReadPacket(a)
             \/ Dispatch
             \/ \E s \in Session, src \in Addr \cup {"junk"} : FromClient(s, src)
             \/ UNCHANGED vars
      PROVE UNCHANGED <<routes, key, victim, closes, bridge>>
  BY <1>7 DEF ReadPacket, Dispatch, FromClient, vars
<1> QED
  BY <1>1, <1>2, <1>3, <1>4, <1>5, <1>6, <1>7 DEF Next

(* Every step keeps the count of reports.                                  *)
LEMMA ExitStep == Safe /\ [Next]_vars => ExitInv'
<1> SUFFICES ASSUME Safe, [Next]_vars PROVE ExitInv'
  OBVIOUS
<1>0. TypeOK /\ ExitInv
  BY DEF Safe
<1>1. ASSUME NEW s \in Session, Arrive(s) \/ FirstReadFails(s) \/ Register(s)
      PROVE ExitInv'
  <2>1. bridge[s] \in {"idle", "first"} /\ UNCHANGED <<errc, up, down>>
        /\ \A t \in Session : t # s => bridge'[t] = bridge[t]
    BY <1>0, <1>1 DEF TypeOK, Arrive, FirstReadFails, Register
  <2> QED BY <1>0, <2>1 DEF ExitInv
<1>2. ASSUME NEW s \in Session, UnregisterTakes(s) \/ UnregisterCloses(s)
      PROVE ExitInv'
  <2>1. bridge'[s] \in {"closing", "done"} /\ UNCHANGED <<errc, up, down>>
        /\ \A t \in Session : t # s => bridge'[t] = bridge[t]
    BY <1>0, <1>2 DEF TypeOK, UnregisterTakes, UnregisterCloses
  <2> QED BY <1>0, <2>1 DEF ExitInv
<1>3. ASSUME NEW s \in Session, BridgeReturns(s) PROVE ExitInv'
  <2>1. bridge[s] = "running" /\ bridge'[s] = "returned" /\ errc'[s] = errc[s] - 1
        /\ UNCHANGED <<up, down>>
    BY <1>0, <1>3 DEF TypeOK, BridgeReturns
  <2>2. \A t \in Session : t # s => bridge'[t] = bridge[t] /\ errc'[t] = errc[t]
    BY <1>0, <1>3 DEF TypeOK, BridgeReturns
  <2>3. errc[s] \in Nat
    <3>1. errc \in [Session -> 0 .. 2]
      BY <1>0 DEF TypeOK
    <3>2. errc[s] \in 0 .. 2
      BY ONLY <3>1, s \in Session
    <3> QED BY ONLY <3>2
  <2>4. ASSUME NEW t \in Session
        PROVE  /\ down'[t].st # "exit" /\ up'[t] # "exit" => errc'[t] = 0
               /\ down'[t].st # "exit" \/ up'[t] # "exit" => errc'[t] <= 1
               /\ bridge'[t] \in {"idle", "first", "registered"} =>
                     down'[t].st = "none" /\ up'[t] = "none"
    <3>1. CASE t = s
      BY <1>0, <1>3, <2>1, <2>3, <3>1 DEF ExitInv, BridgeReturns
    <3>2. CASE t # s
      BY <1>0, <2>1, <2>2, <3>2 DEF ExitInv
    <3> QED BY <3>1, <3>2
  <2> QED BY <2>4 DEF ExitInv
<1>4. ASSUME NEW s \in Session, StartBridge(s) PROVE ExitInv'
  BY <1>0, <1>4 DEF TypeOK, ExitInv, StartBridge
<1>5. ASSUME NEW s \in Session, DownExits(s) PROVE ExitInv'
  <2>1. down[s].st \in {"wait", "write"}
        /\ UNCHANGED <<up, bridge>> /\ down'[s].st = "exit" /\ errc'[s] = errc[s] + 1
    BY <1>0, <1>5 DEF TypeOK, DownExits
  <2>2. \A t \in Session : t # s => down'[t] = down[t] /\ errc'[t] = errc[t]
    BY <1>0, <1>5 DEF TypeOK, DownExits
  <2>3. ASSUME NEW t \in Session
        PROVE  /\ down'[t].st # "exit" /\ up'[t] # "exit" => errc'[t] = 0
               /\ down'[t].st # "exit" \/ up'[t] # "exit" => errc'[t] <= 1
               /\ bridge'[t] \in {"idle", "first", "registered"} =>
                     down'[t].st = "none" /\ up'[t] = "none"
    <3>1. CASE t = s
      BY <1>0, <2>1, <3>1 DEF ExitInv
    <3>2. CASE t # s
      BY <1>0, <2>1, <2>2, <3>2 DEF ExitInv
    <3> QED BY <3>1, <3>2
  <2> QED BY <2>3 DEF ExitInv
<1>6. ASSUME NEW s \in Session, UpExits(s) PROVE ExitInv'
  <2>1. up[s] = "run"
        /\ UNCHANGED <<down, bridge>> /\ up'[s] = "exit" /\ errc'[s] = errc[s] + 1
    BY <1>0, <1>6 DEF TypeOK, UpExits
  <2>2. \A t \in Session : t # s => up'[t] = up[t] /\ errc'[t] = errc[t]
    BY <1>0, <1>6 DEF TypeOK, UpExits
  <2>3. ASSUME NEW t \in Session
        PROVE  /\ down'[t].st # "exit" /\ up'[t] # "exit" => errc'[t] = 0
               /\ down'[t].st # "exit" \/ up'[t] # "exit" => errc'[t] <= 1
               /\ bridge'[t] \in {"idle", "first", "registered"} =>
                     down'[t].st = "none" /\ up'[t] = "none"
    <3>1. CASE t = s
      BY <1>0, <2>1, <3>1 DEF ExitInv
    <3>2. CASE t # s
      BY <1>0, <2>1, <2>2, <3>2 DEF ExitInv
    <3> QED BY <3>1, <3>2
  <2> QED BY <2>3 DEF ExitInv
<1>7. ASSUME NEW s \in Session, DownTake(s) \/ DownWritten(s) PROVE ExitInv'
  <2>1. down[s].st \in {"wait", "write"} /\ down'[s].st \in {"wait", "write"}
        /\ UNCHANGED <<errc, up, bridge>>
        /\ \A t \in Session : t # s => down'[t] = down[t]
    BY <1>0, <1>7 DEF TypeOK, DownTake, DownWritten
  <2> QED BY <1>0, <2>1 DEF ExitInv
<1>8. CASE UNCHANGED <<errc, up, down, bridge>>
  BY <1>0, <1>8 DEF ExitInv
<1>9. ASSUME \/ \E a \in Addr : ReadPacket(a)
             \/ Dispatch
             \/ \E s \in Session : StreamEnds(s) \/ UpMoves(s)
             \/ \E s \in Session, src \in Addr \cup {"junk"} : FromClient(s, src)
             \/ UNCHANGED vars
      PROVE UNCHANGED <<errc, up, down, bridge>>
  BY <1>9 DEF ReadPacket, Dispatch, StreamEnds, UpMoves, FromClient, vars
<1> QED
  BY <1>1, <1>2, <1>3, <1>4, <1>5, <1>6, <1>7, <1>8, <1>9 DEF Next

(* Every step keeps the reader's packet and channel together.              *)
LEMMA ReaderStep == Safe /\ [Next]_vars => ReaderInv'
<1> SUFFICES ASSUME Safe, [Next]_vars PROVE ReaderInv'
  OBVIOUS
<1> USE RouterAssumption
<1>0. TypeOK /\ ReaderInv
  BY DEF Safe
<1>1. ASSUME NEW a \in Addr, ReadPacket(a) PROVE ReaderInv'
  <2>1. nextId # 0
    BY <1>0 DEF TypeOK
  <2> QED BY <1>0, <1>1, <2>1 DEF TypeOK, ReaderInv, ReadPacket, NoPacket, Reading
<1>2. CASE Dispatch
  BY <1>2 DEF ReaderInv, Dispatch
<1>3. CASE UNCHANGED reader
  BY <1>0, <1>3 DEF ReaderInv
<1>4. ASSUME \/ \E s \in Session :
                 \/ Arrive(s) \/ StreamEnds(s) \/ Register(s) \/ FirstReadFails(s)
                 \/ StartBridge(s) \/ DownTake(s) \/ DownWritten(s) \/ DownExits(s)
                 \/ UpMoves(s) \/ UpExits(s) \/ BridgeReturns(s)
                 \/ UnregisterTakes(s) \/ UnregisterCloses(s)
             \/ \E s \in Session, src \in Addr \cup {"junk"} : FromClient(s, src)
             \/ UNCHANGED vars
      PROVE UNCHANGED reader
  BY <1>4 DEF Arrive, StreamEnds, Register, FirstReadFails, StartBridge, DownTake,
     DownWritten, DownExits, UpMoves, UpExits, BridgeReturns, UnregisterTakes,
     UnregisterCloses, FromClient, vars
<1> QED BY <1>1, <1>2, <1>3, <1>4 DEF Next

(* The invariant of the router.                                            *)
LEMMA Inductive == Spec => []Safe
<1>1. Safe /\ [Next]_vars => Safe'
  BY TypeStep, RouteStep, ExitStep, ReaderStep DEF Safe
<1> QED BY SafeInit, <1>1, PTL DEF Spec

(* Every variable keeps its type.                                          *)
THEOREM TypeCorrect == Spec => []TypeOK
<1>1. Safe => TypeOK
  BY DEF Safe
<1> QED BY Inductive, <1>1, PTL

(* A route always leads to a session that has registered that address and  *)
(* has not yet unregistered it.                                            *)
THEOREM RoutesLive == Spec => []NoStaleRoute
<1>1. Safe => NoStaleRoute
  BY DEF Safe, RouteInv, NoStaleRoute
<1> QED BY Inductive, <1>1, PTL

(* No channel is closed twice, although unregister may close the channel   *)
(* of another session of the same address.                                 *)
THEOREM ClosedOnce == Spec => []NoDoubleClose
<1>1. Safe => NoDoubleClose
  BY DEF Safe, RouteInv, NoDoubleClose
<1> QED BY Inductive, <1>1, PTL

-----------------------------------------------------------------------------
(* Who holds a route.                                                      *)
LEMMA HeirStep == Safe /\ RouteOrHeir /\ [Next]_vars => RouteOrHeir'
<1> SUFFICES ASSUME Safe, RouteOrHeir, [Next]_vars PROVE RouteOrHeir'
  OBVIOUS
<1> USE RouterAssumption
<1>0. TypeOK /\ RouteInv
  BY DEF Safe
<1> DEFINE On(s) == bridge[s] \in {"registered", "running", "returned"}
           Gone(r) == bridge[r] \in {"closing", "done"}
           Heir(s, r) == key[r] = key[s] /\ (routes[key[s]] = r \/ Gone(r))
<1>a. ASSUME NEW s \in Session, On(s)
      PROVE key[s] \in Addr /\ (routes[key[s]] = s \/ \E r \in Session \ {s} : Heir(s, r))
  BY <1>0, <1>a DEF RouteInv, RouteOrHeir
<1>1. ASSUME NEW q \in Session, Register(q) PROVE RouteOrHeir'
  <2>1. key[q] = None /\ bridge[q] = "first" /\ ~On(q) /\ ~Gone(q)
        /\ \A a \in Addr : routes[a] # q
    BY <1>0, <1>1 DEF RouteInv, Register
  <2>2. Head(stream[q]) \in Addr \cup {"junk"}
    BY <1>0, <1>1 DEF TypeOK, Register
  <2>3. CASE Head(stream[q]) = "junk"
    <3>1. bridge' = [bridge EXCEPT ![q] = "done"] /\ UNCHANGED <<routes, key>>
      BY <1>1, <2>3 DEF Register
    <3>2. \A t \in Session : t # q => bridge'[t] = bridge[t]
      BY <1>0, <3>1 DEF TypeOK
    <3>3. bridge'[q] = "done"
      BY <1>0, <3>1 DEF TypeOK
    <3>4. ASSUME NEW s \in Session, On(s)'
          PROVE (routes[key[s]] = s \/ \E r \in Session \ {s} : Heir(s, r))'
      <4>1. s # q /\ On(s)
        BY <3>2, <3>3, <3>4
      <4>2. \A r \in Session : Heir(s, r) => Heir(s, r)'
        BY <2>1, <3>1, <3>2, <3>3
      <4> QED BY <1>a, <3>1, <4>1, <4>2
    <3> QED BY <3>4 DEF RouteOrHeir
  <2>4. CASE Head(stream[q]) # "junk"
    <3>1. PICK src \in Addr :
             /\ bridge' = [bridge EXCEPT ![q] = "registered"]
             /\ key' = [key EXCEPT ![q] = src] /\ routes' = [routes EXCEPT ![src] = q]
      BY <1>1, <2>2, <2>4 DEF Register
    <3>2. /\ bridge'[q] = "registered" /\ key'[q] = src /\ routes'[src] = q
          /\ \A t \in Session : t # q => bridge'[t] = bridge[t] /\ key'[t] = key[t]
          /\ \A a \in Addr : a # src => routes'[a] = routes[a]
      BY <1>0, <3>1 DEF TypeOK
    <3>3. ASSUME NEW s \in Session, On(s)'
          PROVE (routes[key[s]] = s \/ \E r \in Session \ {s} : Heir(s, r))'
      <4>1. CASE s = q
        BY <3>2, <4>1
      <4>2. CASE s # q /\ key[s] = src
        BY <3>2, <4>2
      <4>3. CASE s # q /\ key[s] # src
        <5>1. On(s) /\ key'[s] = key[s]
          BY <3>2, <3>3, <4>3
        <5>2. key[s] \in Addr /\ routes'[key[s]] = routes[key[s]]
          BY <1>a, <3>2, <4>3, <5>1
        <5>3. \A r \in Session : Heir(s, r) => Heir(s, r)'
          BY <2>1, <3>2, <4>3, <5>1, <5>2
        <5> QED BY <1>a, <5>1, <5>2, <5>3
      <4> QED BY <4>1, <4>2, <4>3
    <3> QED BY <3>3 DEF RouteOrHeir
  <2> QED BY <2>3, <2>4
<1>2. ASSUME NEW q \in Session, UnregisterTakes(q) PROVE RouteOrHeir'
  <2>1. /\ bridge[q] = "returned" /\ key' = key
        /\ routes' = [routes EXCEPT ![key[q]] = None]
        /\ bridge' = [bridge EXCEPT ![q] = "closing"]
    BY <1>2 DEF UnregisterTakes
  <2>2. /\ key[q] \in Addr /\ bridge'[q] = "closing"
        /\ \A t \in Session : t # q => bridge'[t] = bridge[t]
        /\ \A a \in Addr : a # key[q] => routes'[a] = routes[a]
    BY <1>0, <1>a, <2>1 DEF TypeOK
  <2>3. ASSUME NEW s \in Session, On(s)'
        PROVE (routes[key[s]] = s \/ \E r \in Session \ {s} : Heir(s, r))'
    <3>1. s # q /\ On(s)
      BY <2>2, <2>3
    <3>2. CASE key[s] = key[q]
      BY <2>1, <2>2, <3>1, <3>2
    <3>3. CASE key[s] # key[q]
      <4>1. key[s] \in Addr /\ routes'[key[s]] = routes[key[s]]
        BY <1>a, <2>2, <3>1, <3>3
      <4>2. \A r \in Session : Heir(s, r) => Heir(s, r)'
        BY <2>1, <2>2, <4>1
      <4> QED BY <1>a, <2>1, <3>1, <4>1, <4>2
    <3> QED BY <3>2, <3>3
  <2> QED BY <2>3 DEF RouteOrHeir
<1>3. ASSUME NEW q \in Session,
             \/ Arrive(q) \/ FirstReadFails(q) \/ StartBridge(q) \/ BridgeReturns(q)
             \/ UnregisterCloses(q)
      PROVE RouteOrHeir'
  <2>1. PICK b : /\ bridge' = [bridge EXCEPT ![q] = b] /\ UNCHANGED <<routes, key>>
                 /\ b \in {"running", "returned"} => On(q)
                 /\ Gone(q) => b = "done"
                 /\ b # "registered"
    BY <1>3 DEF Arrive, FirstReadFails, StartBridge, BridgeReturns, UnregisterCloses
  <2>2. bridge'[q] = b /\ \A t \in Session : t # q => bridge'[t] = bridge[t]
    BY <1>0, <2>1 DEF TypeOK
  <2>3. ASSUME NEW s \in Session, On(s)'
        PROVE (routes[key[s]] = s \/ \E r \in Session \ {s} : Heir(s, r))'
    <3>1. On(s)
      BY <2>1, <2>2, <2>3
    <3>2. \A r \in Session : Heir(s, r) => Heir(s, r)'
      BY <2>1, <2>2
    <3> QED BY <1>a, <2>1, <3>1, <3>2
  <2> QED BY <2>3 DEF RouteOrHeir
<1>4. CASE UNCHANGED <<routes, key, bridge>>
  BY <1>4 DEF RouteOrHeir
<1>5. ASSUME \/ \E a \in Addr : ReadPacket(a)
             \/ Dispatch
             \/ \E s \in Session :
                   \/ StreamEnds(s) \/ DownTake(s) \/ DownWritten(s) \/ DownExits(s)
                   \/ UpMoves(s) \/ UpExits(s)
             \/ \E s \in Session, src \in Addr \cup {"junk"} : FromClient(s, src)
             \/ UNCHANGED vars
      PROVE UNCHANGED <<routes, key, bridge>>
  BY <1>5 DEF ReadPacket, Dispatch, StreamEnds, DownTake, DownWritten, DownExits, UpMoves,
     UpExits, FromClient, vars
<1> QED
  BY <1>1, <1>2, <1>3, <1>4, <1>5 DEF Next

(* For all sessions and addresses: a session that has registered keeps its *)
(* route until it unregisters, unless another session registers the same   *)
(* address; then that session has the route, or has deleted it for both    *)
(* when it left (router.go:221-230).                                       *)
THEOREM RouteLostToHeir == Spec => []RouteOrHeir
<1>1. Init => RouteOrHeir
  BY DEF Init, RouteOrHeir
<1> QED BY Inductive, <1>1, HeirStep, PTL DEF Spec

-----------------------------------------------------------------------------
(* The order of the packets.  On its way from the reader to the stream a   *)
(* packet is in the queue of a session, in the hand of its TUN -> stream   *)
(* goroutine, or delivered.                                                *)

Elems(q) == {q[i] : i \in 1 .. Len(q)}
Rising(q) == \A i, j \in 1 .. Len(q) : i < j => q[i].id < q[j].id
Before(A, B) == \A x \in A, y \in B : x.id < y.id

Held(s) == {x \in {down[s].pkt} : down[s].st = "write"}
Packets(s) == Elems(delivered[s]) \cup Held(s) \cup Elems(queue[s])

(* The lowest number no session has seen.                                  *)
Fresh == IF reader = Reading THEN nextId ELSE reader.pkt.id

OrderInv == \A s \in Session :
    /\ Rising(delivered[s]) /\ Rising(queue[s])
    /\ Before(Elems(delivered[s]), Held(s) \cup Elems(queue[s]))
    /\ Before(Held(s), Elems(queue[s]))

FreshInv ==
    /\ \A s \in Session : \A x \in Packets(s) :
          x.id < Fresh /\ x.dst = key[s] /\ x.dst # None
    /\ reader # Reading => /\ reader.pkt.id < nextId
                           /\ reader.pkt.dst = key[reader.ch] /\ reader.pkt.dst # None

OnceInv == \A s, r \in Session : s # r =>
    \A x \in Packets(s), y \in Packets(r) : x.id # y.id

LEMMA AppendElems ==
  ASSUME NEW q \in Seq(Packet), NEW e \in Packet
  PROVE /\ Elems(Append(q, e)) = Elems(q) \cup {e}
        /\ Rising(q) /\ Before(Elems(q), {e}) => Rising(Append(q, e))
<1>1. Len(Append(q, e)) = Len(q) + 1 /\ Append(q, e)[Len(q) + 1] = e
      /\ Len(q) \in Nat /\ \A i \in 1 .. Len(q) : Append(q, e)[i] = q[i]
  OBVIOUS
<1>2. Elems(Append(q, e)) = Elems(q) \cup {e}
  BY <1>1 DEF Elems
<1>3. ASSUME Rising(q), Before(Elems(q), {e}) PROVE Rising(Append(q, e))
  <2> SUFFICES ASSUME NEW i \in 1 .. Len(q) + 1, NEW j \in 1 .. Len(q) + 1, i < j
               PROVE Append(q, e)[i].id < Append(q, e)[j].id
    BY <1>1 DEF Rising
  <2>1. i \in 1 .. Len(q) /\ Append(q, e)[i] = q[i] /\ q[i] \in Elems(q)
    BY <1>1 DEF Elems
  <2>2. CASE j = Len(q) + 1
    BY <1>1, <1>3, <2>1, <2>2 DEF Before
  <2>3. CASE j \in 1 .. Len(q)
    BY <1>1, <1>3, <2>1, <2>3 DEF Rising
  <2> QED BY <1>1, <2>2, <2>3
<1> QED BY <1>2, <1>3

LEMMA TailElems ==
  ASSUME NEW q \in Seq(Packet), q # <<>>
  PROVE /\ Head(q) \in Packet /\ Tail(q) \in Seq(Packet)
        /\ Elems(q) = {Head(q)} \cup Elems(Tail(q))
        /\ Rising(q) => Rising(Tail(q)) /\ Before({Head(q)}, Elems(Tail(q)))
<1>1. /\ Len(q) \in Nat \ {0} /\ Len(Tail(q)) = Len(q) - 1 /\ Head(q) = q[1]
      /\ \A i \in 1 .. Len(q) - 1 : Tail(q)[i] = q[i + 1]
      /\ Head(q) \in Packet /\ Tail(q) \in Seq(Packet)
  OBVIOUS
<1>2. Elems(q) = {Head(q)} \cup Elems(Tail(q))
  <2>1. ASSUME NEW i \in 1 .. Len(q) PROVE q[i] \in {Head(q)} \cup Elems(Tail(q))
    <3>1. i = 1 \/ i - 1 \in 1 .. Len(q) - 1
      BY <1>1
    <3> QED BY <1>1, <3>1 DEF Elems
  <2>2. \A i \in 1 .. Len(q) - 1 : Tail(q)[i] \in Elems(q)
    <3> SUFFICES ASSUME NEW i \in 1 .. Len(q) - 1 PROVE Tail(q)[i] \in Elems(q)
      OBVIOUS
    <3>1. i + 1 \in 1 .. Len(q) /\ Tail(q)[i] = q[i + 1]
      BY <1>1
    <3> QED BY <3>1 DEF Elems
  <2>3. Head(q) \in Elems(q)
    BY <1>1 DEF Elems
  <2> QED BY <1>1, <2>1, <2>2, <2>3 DEF Elems
<1>3. ASSUME Rising(q) PROVE Rising(Tail(q)) /\ Before({Head(q)}, Elems(Tail(q)))
  <2>1. \A i \in 1 .. Len(Tail(q)) : i + 1 \in 1 .. Len(q) /\ 1 < i + 1
                                     /\ Tail(q)[i] = q[i + 1]
    BY <1>1
  <2>2. Rising(Tail(q))
    BY <1>1, <1>3, <2>1 DEF Rising
  <2>3. Before({Head(q)}, Elems(Tail(q)))
    BY <1>1, <1>3, <2>1 DEF Rising, Before, Elems
  <2> QED BY <2>2, <2>3
<1> QED BY <1>1, <1>2, <1>3

LEMMA PacketTypes ==
  ASSUME TypeOK, NEW s \in Session, NEW x \in Packets(s)
  PROVE x \in Packet /\ x.id \in Nat
<1>1. x \in Packet
  <2>1. delivered[s] \in Seq(Packet) /\ queue[s] \in Seq(Packet) /\ down[s].pkt \in Packet
    BY DEF TypeOK
  <2> QED BY <2>1 DEF Packets, Held, Elems
<1>2. x.id \in Nat
  BY <1>1 DEF Packet, NoPacket
<1> QED BY <1>1, <1>2

LEMMA EmptyElems == Elems(<<>>) = {} /\ Rising(<<>>)
<1>1. 1 .. Len(<<>>) = {}
  OBVIOUS
<1> QED BY <1>1, Zenon DEF Elems, Rising

Ordered == Safe /\ OrderInv /\ FreshInv /\ OnceInv

(* A step that gives no packet to a session keeps the order, the session   *)
(* of each packet and its number.                                          *)
LEMMA Shrink ==
  ASSUME Ordered, Safe',
         \A s \in Session : Packets(s)' \subseteq Packets(s),
         OrderInv', reader' = reader, nextId' = nextId,
         \A s \in Session : key[s] # None => key'[s] = key[s]
  PROVE Ordered'
<1>1. OnceInv'
  BY DEF Ordered, OnceInv
<1>2. Fresh' = Fresh
  BY DEF Fresh
<1>3. FreshInv'
  <2>1. ASSUME NEW s \in Session, NEW x \in Packets(s)'
        PROVE x.id < Fresh' /\ x.dst = key'[s] /\ x.dst # None
    <3>1. x \in Packets(s)
      BY <2>1
    <3>2. x.id < Fresh /\ x.dst = key[s] /\ x.dst # None
      BY <3>1 DEF Ordered, FreshInv
    <3> QED BY <1>2, <3>2
  <2>2. reader' # Reading => /\ reader'.pkt.id < nextId'
                             /\ reader'.pkt.dst = key'[reader'.ch]
                             /\ reader'.pkt.dst # None
    BY DEF Ordered, FreshInv, Safe, ReaderInv
  <2> QED BY <2>1, <2>2 DEF FreshInv
<1> QED BY <1>1, <1>3 DEF Ordered

LEMMA OrderStep == Ordered /\ [Next]_vars => Ordered'
<1> SUFFICES ASSUME Ordered, [Next]_vars PROVE Ordered'
  OBVIOUS
<1> USE RouterAssumption
<1>0. Safe /\ Safe' /\ TypeOK /\ TypeOK' /\ RouteInv /\ ReaderInv /\ ExitInv
  BY TypeStep, RouteStep, ExitStep, ReaderStep DEF Ordered, Safe
<1>1. ASSUME NEW a \in Addr, ReadPacket(a) PROVE Ordered'
  <2>1. reader = Reading /\ nextId' = nextId + 1 /\ nextId \in Nat
        /\ UNCHANGED <<delivered, down, queue, key>>
    BY <1>0, <1>1 DEF ReadPacket, TypeOK
  <2>2. \A s \in Session : Held(s)' = Held(s) /\ Packets(s)' = Packets(s)
    BY <2>1 DEF Held, Packets
  <2>3. OrderInv' /\ OnceInv'
    BY <2>1, <2>2 DEF Ordered, OrderInv, OnceInv
  <2>4. Fresh = nextId
    BY <2>1 DEF Fresh
  <2>5. CASE routes[a] = None
    <3>1. reader' = Reading /\ Fresh' = nextId + 1
      BY <1>1, <2>1, <2>5 DEF ReadPacket, Fresh
    <3>2. \A s \in Session : \A x \in Packets(s) : x.id \in Nat
      BY <1>0, PacketTypes
    <3>3. FreshInv'
      BY <2>1, <2>2, <2>4, <3>1, <3>2 DEF Ordered, FreshInv
    <3> QED BY <1>0, <2>3, <3>3 DEF Ordered
  <2>6. CASE routes[a] # None
    <3>1. reader' = [pkt |-> [id |-> nextId, dst |-> a], ch |-> routes[a]]
          /\ key[routes[a]] = a
      BY <1>0, <1>1, <2>6 DEF ReadPacket, RouteInv
    <3>2. reader'.pkt.id = nextId /\ reader'.pkt.dst = a /\ reader'.ch = routes[a]
      BY <3>1
    <3>3. Fresh' = nextId
      <4>1. reader' # Reading
        BY <1>0, <3>2 DEF Reading, NoPacket, TypeOK
      <4> QED BY <3>2, <4>1 DEF Fresh
    <3>4. /\ reader'.pkt.id < nextId' /\ reader'.pkt.dst = key'[reader'.ch]
          /\ reader'.pkt.dst # None
      BY <2>1, <3>1, <3>2
    <3>5. \A s \in Session : \A x \in Packets(s)' :
             x.id < Fresh' /\ x.dst = key'[s] /\ x.dst # None
      BY <2>1, <2>2, <2>4, <3>3 DEF Ordered, FreshInv
    <3>6. FreshInv'
      BY <3>4, <3>5, Zenon DEF FreshInv
    <3> QED BY <1>0, <2>3, <3>6 DEF Ordered
  <2> QED BY <2>5, <2>6
<1>2. CASE Dispatch
  <2>0. PICK c \in Session, x \in Packet : c = reader.ch /\ x = reader.pkt
    BY <1>0, <1>2 DEF Dispatch, ReaderInv, TypeOK
  <2>1. x.id < nextId /\ x.dst = key[c] /\ x.dst # None
        /\ reader # Reading /\ Fresh = x.id
    BY <1>0, <1>2, <2>0 DEF Dispatch, Ordered, FreshInv, Fresh
  <2>2. reader' = Reading /\ Fresh' = nextId /\ UNCHANGED <<delivered, down, key, nextId>>
    BY <1>2 DEF Dispatch, Fresh
  <2>3. queue' = queue \/ queue' = [queue EXCEPT ![c] = Append(queue[c], x)]
    BY <1>2, <2>0 DEF Dispatch
  <2>4. \A s \in Session : Held(s)' = Held(s)
    BY <2>2 DEF Held
  <2>5. \A s \in Session : \A y \in Packets(s) : y.id \in Nat /\ y.id < x.id
    BY <1>0, <2>1, PacketTypes DEF Ordered, FreshInv
  <2>6. x.id \in Nat /\ nextId \in Nat
    <3>1. x.id \in Nat
      BY <2>0 DEF Packet, NoPacket
    <3>2. nextId \in Nat
      BY <1>0 DEF TypeOK
    <3> QED BY <3>1, <3>2
  <2>7. CASE queue' = queue
    <3>1. \A s \in Session : Packets(s)' = Packets(s)
      BY <2>2, <2>4, <2>7 DEF Packets
    <3>a. OrderInv'
      BY <2>2, <2>4, <2>7 DEF Ordered, OrderInv
    <3>b. OnceInv'
      BY <3>1 DEF Ordered, OnceInv
    <3>2. OrderInv' /\ OnceInv'
      BY <3>a, <3>b
    <3>3. FreshInv'
      BY <2>1, <2>2, <2>5, <2>6, <3>1 DEF Ordered, FreshInv
    <3> QED BY <1>0, <3>2, <3>3 DEF Ordered
  <2>8. CASE queue' = [queue EXCEPT ![c] = Append(queue[c], x)]
    <3>1. queue'[c] = Append(queue[c], x) /\ \A s \in Session : s # c => queue'[s] = queue[s]
      BY <1>0, <2>1, <2>8 DEF TypeOK
    <3>2. Before(Elems(queue[c]), {x})
      BY <2>1, <2>5 DEF Before, Packets
    <3>a. queue[c] \in Seq(Packet) /\ Rising(queue[c])
      BY <1>0 DEF TypeOK, Ordered, OrderInv
    <3>3. Elems(queue'[c]) = Elems(queue[c]) \cup {x} /\ Rising(queue'[c])
      BY <3>a, <3>1, <3>2, AppendElems
    <3>4. Packets(c)' = Packets(c) \cup {x}
      BY <2>2, <2>4, <3>3, <2>1 DEF Packets
    <3>5. \A s \in Session : s # c => Packets(s)' = Packets(s)
      BY <2>2, <2>4, <3>1 DEF Packets
    <3>6. OrderInv'
      <4>1. ASSUME NEW s \in Session, s # c
            PROVE /\ Rising(delivered'[s]) /\ Rising(queue'[s])
                  /\ Before(Elems(delivered'[s]), Held(s)' \cup Elems(queue'[s]))
                  /\ Before(Held(s)', Elems(queue'[s]))
        BY <2>2, <2>4, <3>1, <4>1 DEF Ordered, OrderInv
      <4>2. /\ Rising(delivered'[c]) /\ Rising(queue'[c])
            /\ Before(Elems(delivered'[c]), Held(c)' \cup Elems(queue'[c]))
            /\ Before(Held(c)', Elems(queue'[c]))
        <5>1. Before(Elems(delivered[c]), {x}) /\ Before(Held(c), {x})
          BY <2>1, <2>5 DEF Before, Packets
        <5> QED BY <2>1, <2>2, <2>4, <3>3, <5>1 DEF Ordered, OrderInv, Before
      <4> QED BY <4>1, <4>2, <2>1 DEF OrderInv
    <3>7. OnceInv'
      <4> SUFFICES ASSUME NEW s \in Session, NEW r \in Session, s # r,
                          NEW y \in Packets(s)', NEW z \in Packets(r)'
                   PROVE y.id # z.id
        BY DEF OnceInv
      <4>1. CASE s = c
        BY <2>5, <2>6, <3>4, <3>5, <4>1 DEF Ordered, OnceInv
      <4>2. CASE r = c
        BY <2>5, <2>6, <3>4, <3>5, <4>2 DEF Ordered, OnceInv
      <4>3. CASE s # c /\ r # c
        BY <3>5, <4>3 DEF Ordered, OnceInv
      <4> QED BY <4>1, <4>2, <4>3
    <3>8. FreshInv'
      <4> SUFFICES ASSUME NEW s \in Session, NEW y \in Packets(s)'
                   PROVE y.id < nextId /\ y.dst = key[s] /\ y.dst # None
        BY <2>2 DEF FreshInv
      <4>1. CASE y \in Packets(s)
        BY <2>1, <2>5, <2>6, <4>1 DEF Ordered, FreshInv
      <4>2. CASE s = c /\ y = x
        BY <2>1, <4>2
      <4> QED BY <3>4, <3>5, <4>1, <4>2
    <3> QED BY <1>0, <3>6, <3>7, <3>8 DEF Ordered
  <2> QED BY <2>3, <2>7, <2>8
<1>3. ASSUME NEW s \in Session, DownTake(s) PROVE Ordered'
  <2>1. /\ queue[s] # <<>> /\ queue[s] \in Seq(Packet) /\ Held(s) = {}
        /\ queue'[s] = Tail(queue[s]) /\ Held(s)' = {Head(queue[s])}
        /\ \A r \in Session : r # s => queue'[r] = queue[r] /\ Held(r)' = Held(r)
        /\ UNCHANGED <<delivered, reader, nextId, key>>
    BY <1>0, <1>3 DEF DownTake, TypeOK, Held
  <2>2. Elems(queue[s]) = {Head(queue[s])} \cup Elems(queue'[s])
        /\ Rising(queue'[s]) /\ Before({Head(queue[s])}, Elems(queue'[s]))
    BY <2>1, TailElems DEF Ordered, OrderInv
  <2>3. \A r \in Session : Packets(r)' = Packets(r)
    BY <2>1, <2>2 DEF Packets
  <2>4. OrderInv'
    BY <2>1, <2>2 DEF Ordered, OrderInv
  <2> QED BY <1>0, <2>1, <2>3, <2>4, Shrink
<1>4. ASSUME NEW s \in Session, DownWritten(s) PROVE Ordered'
  <2> DEFINE x == down[s].pkt
  <2>1. /\ delivered[s] \in Seq(Packet) /\ x \in Packet /\ Held(s) = {x}
        /\ delivered'[s] = Append(delivered[s], x) /\ Held(s)' = {}
        /\ \A r \in Session : r # s => delivered'[r] = delivered[r] /\ Held(r)' = Held(r)
        /\ UNCHANGED <<queue, reader, nextId, key>>
    BY <1>0, <1>4 DEF DownWritten, TypeOK, Held
  <2> HIDE DEF x
  <2>2. Before(Elems(delivered[s]), {x})
    BY <2>1 DEF Ordered, OrderInv, Before
  <2>3. Elems(delivered'[s]) = Elems(delivered[s]) \cup {x} /\ Rising(delivered'[s])
    BY <2>1, <2>2, AppendElems DEF Ordered, OrderInv
  <2>4. \A r \in Session : Packets(r)' = Packets(r)
    BY <2>1, <2>3 DEF Packets
  <2>5. OrderInv'
    BY <2>1, <2>3 DEF Ordered, OrderInv, Before
  <2> QED BY <1>0, <2>1, <2>4, <2>5, Shrink
<1>5. ASSUME NEW s \in Session, DownExits(s) PROVE Ordered'
  <2>1. /\ Held(s)' = {} /\ \A r \in Session : r # s => Held(r)' = Held(r)
        /\ UNCHANGED <<queue, delivered, reader, nextId, key>>
    BY <1>0, <1>5 DEF DownExits, TypeOK, Held
  <2>2. \A r \in Session : Packets(r)' \subseteq Packets(r)
    BY <2>1 DEF Packets
  <2>3. OrderInv'
    BY <2>1 DEF Ordered, OrderInv, Before
  <2> QED BY <1>0, <2>1, <2>2, <2>3, Shrink
<1>6. ASSUME UNCHANGED <<queue, delivered, reader, nextId>>,
             \A r \in Session : Held(r)' = Held(r),
             \A r \in Session : key[r] # None => key'[r] = key[r]
      PROVE Ordered'
  <2>1. \A r \in Session : Packets(r)' \subseteq Packets(r)
    BY <1>6 DEF Packets
  <2>2. OrderInv'
    BY <1>6 DEF Ordered, OrderInv
  <2> QED BY <1>0, <1>6, <2>1, <2>2, Shrink
<1>7. ASSUME NEW s \in Session, Register(s) PROVE Ordered'
  <2>1. \A r \in Session : key[r] # None => key'[r] = key[r]
    BY <1>0, <1>7 DEF Register, RouteInv, TypeOK
  <2>2. UNCHANGED <<queue, delivered, reader, nextId>> /\ UNCHANGED down
    BY <1>7 DEF Register
  <2>3. \A r \in Session : Held(r)' = Held(r)
    BY <2>2 DEF Held
  <2> QED BY <1>6, <2>1, <2>2, <2>3
<1>8. ASSUME NEW s \in Session, StartBridge(s) PROVE Ordered'
  <2>1. \A r \in Session : Held(r)' = Held(r)
    BY <1>0, <1>8 DEF StartBridge, ExitInv, TypeOK, Held
  <2>2. UNCHANGED <<queue, delivered, reader, nextId, key>>
    BY <1>8 DEF StartBridge
  <2> QED BY <1>6, <2>1, <2>2
<1>9. ASSUME \/ \E s \in Session :
                 \/ Arrive(s) \/ StreamEnds(s) \/ FirstReadFails(s) \/ UpMoves(s)
                 \/ UpExits(s) \/ BridgeReturns(s) \/ UnregisterTakes(s)
                 \/ UnregisterCloses(s)
             \/ \E s \in Session, src \in Addr \cup {"junk"} : FromClient(s, src)
             \/ UNCHANGED vars
      PROVE Ordered'
  <2>1. UNCHANGED <<queue, delivered, reader, nextId, key, down>>
    BY <1>9 DEF Arrive, StreamEnds, FirstReadFails, UpMoves, UpExits, BridgeReturns,
       UnregisterTakes, UnregisterCloses, FromClient, vars
  <2>2. \A r \in Session : Held(r)' = Held(r)
    BY <2>1 DEF Held
  <2> QED BY <1>6, <2>1, <2>2
<1> QED
  BY <1>1, <1>2, <1>3, <1>4, <1>5, <1>7, <1>8, <1>9 DEF Next

(* Packets reach each stream in the order the TUN gave them, each reaches  *)
(* one stream at most, and only a stream whose session has registered its  *)
(* destination.                                                            *)
THEOREM PacketsInOrder == Spec => []InOrderOnce
<1>1. Init => Ordered
  <2> SUFFICES ASSUME Init PROVE Ordered
    OBVIOUS
  <2>1. \A s \in Session : delivered[s] = <<>> /\ queue[s] = <<>> /\ down[s].st = "none"
    <3> SUFFICES ASSUME NEW s \in Session
                 PROVE delivered[s] = <<>> /\ queue[s] = <<>> /\ down[s].st = "none"
      OBVIOUS
    <3>1. down[s] = [st |-> "none", pkt |-> NoPacket]
      BY DEF Init
    <3> QED BY <3>1 DEF Init
  <2>2. \A s \in Session : Elems(delivered[s]) = {} /\ Elems(queue[s]) = {} /\ Held(s) = {}
                           /\ Packets(s) = {}
    BY <2>1, EmptyElems DEF Held, Packets
  <2>3. OrderInv
    BY <2>1, <2>2, EmptyElems DEF OrderInv, Before
  <2>4. OnceInv
    BY <2>2 DEF OnceInv
  <2>5. FreshInv
    BY <2>2 DEF FreshInv, Init
  <2> QED BY SafeInit, <2>3, <2>4, <2>5 DEF Ordered
<1>2. Ordered => InOrderOnce
  <2> SUFFICES ASSUME Ordered PROVE InOrderOnce
    OBVIOUS
  <2>1. \A s \in Session : Rising(delivered[s])
    BY DEF Ordered, OrderInv
  <2>2. \A s \in Session : \A i \in 1 .. Len(delivered[s]) : delivered[s][i] \in Packets(s)
    BY DEF Packets, Elems
  <2>3. \A s \in Session : \A i \in 1 .. Len(delivered[s]) : delivered[s][i].dst = key[s]
    BY <2>2 DEF Ordered, FreshInv
  <2>4. \A s, r \in Session : s # r =>
          \A i \in 1 .. Len(delivered[s]), j \in 1 .. Len(delivered[r]) :
             delivered[s][i].id # delivered[r][j].id
    BY <2>2 DEF Ordered, OnceInv
  <2> QED BY <2>1, <2>3, <2>4 DEF InOrderOnce, Rising
<1> QED BY <1>1, <1>2, OrderStep, PTL DEF Spec
=============================================================================
