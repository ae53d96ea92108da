---------------------------- MODULE ClientSessions ----------------------------
(***************************************************************************)
(* The sessions of the client (cmd/ghost-client/main.go): the rotation     *)
(* loop and the watchdog, which both establish new sessions and swap the   *)
(* atomic pointer activeSession, the closing of the session swapped out,   *)
(* and the goroutine that writes TUN packets to the active session.        *)
(*                                                                         *)
(* A session is a slot of the finite set Session; a slot is used again     *)
(* when nothing refers to the session it held.  The server is what         *)
(* ServerSessions models: it accepts one session of a client and kicks the *)
(* one before.  Every goroutine that flushes a session holds its           *)
(* coalescer's mutex during the transport write (Coalescer): held.         *)
(***************************************************************************)
EXTENDS Naturals, FiniteSets

CONSTANTS Session, First,           \* slots; the one of the initial connection
          MaxRotations, MaxFaults   \* bounds on the rotations and on the faults

Loop == {"rotation", "watchdog"}
MaxTries == 3

ASSUME ClientAssumption ==
    /\ First \in Session /\ MaxRotations \in Nat /\ MaxFaults \in Nat

VARIABLES
    active,     \* activeSession
    phase,      \* how far each session is, from establish() to close()
    net,        \* its connection, as the client sees it
    live,       \* the sessions the server has accepted and not kicked
    lapsed,     \* those its mux has given up, with the connection still open
    done,       \* sessions whose muxConn.Done() is closed
    ended,      \* sessions whose Stream is closed
    held,       \* sessions whose coalescer mutex is held by a blocked write
    loop,       \* the rotation loop and the watchdog
    seen,       \* sessionStart: sessions older than the watchdog's grace
    writer,     \* the TUN-to-stream goroutine
    rotations, faults

server == <<live, lapsed>>

vars == <<active, phase, net, server, done, ended, held, loop, seen,
          writer, rotations, faults>>

Waiting == [pc |-> "wait", s |-> First]
IdleWriter == [pc |-> "idle", s |-> First, tries |-> 0]

Init ==
    /\ active = First
    /\ phase = [s \in Session |-> IF s = First THEN "ready" ELSE "closed"]
    /\ net = [s \in Session |-> IF s = First THEN "up" ELSE "dead"]
    /\ live = {First} /\ lapsed = {}
    /\ done = Session \ {First} /\ ended = Session \ {First} /\ held = {} /\ seen = {}
    /\ loop = [l \in Loop |-> Waiting]
    /\ writer = IdleWriter
    /\ rotations = 0 /\ faults = 0

-----------------------------------------------------------------------------
(* establish().                                                            *)

(* Nothing refers to the session the slot held. *)
Unused(s) == /\ phase[s] = "closed"
             /\ (writer.pc = "idle" \/ writer.s # s)
             /\ ~(loop["watchdog"].pc \in {"check", "closing"} /\ loop["watchdog"].s = s)

(* Loop l dials: a fresh connection, in some slot. *)
Dial(l) ==
    LET s == CHOOSE s \in Session : Unused(s) IN
    /\ \E u \in Session : Unused(u)
    /\ phase' = [phase EXCEPT ![s] = "dialing"]
    /\ net' = [net EXCEPT ![s] = "up"]
    /\ done' = done \ {s} /\ ended' = ended \ {s}
    /\ UNCHANGED <<server, held, seen>>
    /\ loop' = [loop EXCEPT ![l] = [pc |-> "establish", s |-> s]]

(* The server authenticates msg1 and kicks the session before, if its mux   *)
(* still runs: one that has given up is no longer in the server's map.     *)
ServerAuth(s) ==
    /\ phase[s] = "dialing" /\ net[s] = "up"
    /\ phase' = [phase EXCEPT ![s] = "authed"]
    /\ live' = {s}
    /\ UNCHANGED <<active, net, lapsed, done, ended, held, loop, seen, writer,
                   rotations, faults>>

(* Mutant: the loop ends when establish() fails. *)
EstablishFails_Ends(l) ==
    LET s == loop[l].s IN
    /\ loop[l].pc = "establish"
    /\ net[s] = "dead" \/ (phase[s] = "authed" /\ s \notin live \cup lapsed)
    /\ phase' = [phase EXCEPT ![s] = "closed"]
    /\ net' = [net EXCEPT ![s] = "dead"]
    /\ live' = live \ {s} /\ lapsed' = lapsed \ {s}
    /\ done' = done \cup {s} /\ ended' = ended \cup {s} /\ held' = held \ {s}
    /\ loop' = [loop EXCEPT ![l].pc = "ended"]
    /\ UNCHANGED <<active, seen, writer, rotations, faults>>

(* establish() fails, also when another login cuts the response short: it  *)
(* closes the connection, and the loop goes on after a pause.              *)
EstablishFails(l) ==
    LET s == loop[l].s IN
    /\ loop[l].pc = "establish"
    /\ net[s] = "dead" \/ (phase[s] = "authed" /\ s \notin live \cup lapsed)
    /\ phase' = [phase EXCEPT ![s] = "closed"]
    /\ net' = [net EXCEPT ![s] = "dead"]
    /\ live' = live \ {s} /\ lapsed' = lapsed \ {s}
    /\ done' = done \cup {s} /\ ended' = ended \cup {s} /\ held' = held \ {s}
    /\ loop' = [loop EXCEPT ![l] = Waiting]
    /\ UNCHANGED <<active, seen, writer, rotations, faults>>

(* establish() returns, and activeSession.Swap. *)
Swap(l) ==
    LET s == loop[l].s IN
    /\ loop[l].pc = "establish" /\ phase[s] = "authed" /\ net[s] # "stalled"
    /\ active' = s

-----------------------------------------------------------------------------
(* The two loops.                                                          *)

RotationStarts ==
    /\ loop["rotation"].pc = "wait" /\ rotations < MaxRotations
    /\ rotations' = rotations + 1
    /\ Dial("rotation")
    /\ UNCHANGED <<active, writer, faults>>

(* The old session is drained for a grace period by a goroutine of its own. *)
RotationSwaps ==
    /\ Swap("rotation")
    /\ phase' = [phase EXCEPT ![loop["rotation"].s] = "ready", ![active] = "draining"]
    /\ loop' = [loop EXCEPT !["rotation"] = Waiting]
    /\ UNCHANGED <<net, server, done, ended, held, seen, writer, rotations, faults>>

(* The watchdog loads the active session, which may be swapped out now. *)
WatchdogLoads ==
    /\ loop["watchdog"].pc = "wait"
    /\ IF active \notin seen
       THEN seen' = seen \cup {active} /\ UNCHANGED loop
       ELSE /\ loop' = [loop EXCEPT !["watchdog"] = [pc |-> "check", s |-> active]]
            /\ UNCHANGED seen
    /\ UNCHANGED <<active, phase, net, server, done, ended, held, writer,
                   rotations, faults>>

WatchdogChecks ==
    /\ loop["watchdog"].pc = "check"
    /\ IF loop["watchdog"].s \in done
       THEN Dial("watchdog")
       ELSE /\ loop' = [loop EXCEPT !["watchdog"] = Waiting]
            /\ UNCHANGED <<phase, net, server, done, ended, held, seen>>
    /\ UNCHANGED <<active, writer, rotations, faults>>

(* Mutant: the watchdog does not close what it has swapped out. *)
WatchdogSwaps_NoClose ==
    /\ Swap("watchdog")
    /\ phase' = [phase EXCEPT ![loop["watchdog"].s] = "ready"]
    /\ loop' = [loop EXCEPT !["watchdog"] = Waiting]
    /\ UNCHANGED <<net, server, done, ended, held, seen, writer, rotations, faults>>

(* The watchdog itself closes the session it has swapped out. *)
WatchdogSwaps ==
    /\ Swap("watchdog")
    /\ phase' = [phase EXCEPT ![loop["watchdog"].s] = "ready", ![active] = "draining"]
    /\ loop' = [loop EXCEPT !["watchdog"] = [pc |-> "closing", s |-> active]]
    /\ UNCHANGED <<net, server, done, ended, held, seen, writer, rotations, faults>>

WatchdogClosed ==
    /\ loop["watchdog"].pc = "closing" /\ phase[loop["watchdog"].s] = "closed"
    /\ loop' = [loop EXCEPT !["watchdog"] = Waiting]
    /\ UNCHANGED <<active, phase, net, server, done, ended, held, seen,
                   writer, rotations, faults>>

-----------------------------------------------------------------------------
(* close(): the stream, the mux, the coalescer, and the connection last.   *)

(* Stream.Close marks the stream ... *)
CloseStarts(s) ==
    /\ phase[s] = "draining"
    /\ phase' = [phase EXCEPT ![s] = "closing"]
    /\ ended' = ended \cup {s}
    /\ UNCHANGED <<active, net, server, done, held, loop, seen, writer,
                   rotations, faults>>

(* Mutant: close() returns when the mux is already down. *)
StreamCloses_MuxDown(s) ==
    /\ phase[s] = "closing" /\ s \notin held /\ s \notin done
    /\ phase' = [phase EXCEPT ![s] = "muxClosed"]
    /\ done' = done \cup {s}
    /\ UNCHANGED <<active, net, server, ended, held, loop, seen, writer,
                   rotations, faults>>

(* ... and its STREAM_CLOSE needs the coalescer's mutex; then the mux.      *)
StreamCloses(s) ==
    /\ phase[s] = "closing" /\ s \notin held
    /\ phase' = [phase EXCEPT ![s] = "muxClosed"]
    /\ done' = done \cup {s}
    /\ UNCHANGED <<active, net, server, ended, held, loop, seen, writer,
                   rotations, faults>>

(* CoalescingConn.Close needs the mutex too; the connection comes after it. *)
ConnCloses(s) ==
    /\ phase[s] = "muxClosed" /\ s \notin held
    /\ phase' = [phase EXCEPT ![s] = "closed"]
    /\ net' = [net EXCEPT ![s] = "dead"]
    /\ live' = live \ {s} /\ lapsed' = lapsed \ {s} /\ seen' = seen \ {s}
    /\ UNCHANGED <<active, done, ended, held, loop, writer, rotations, faults>>

-----------------------------------------------------------------------------
(* The goroutines of a session and its connection.                         *)

Running(s) == phase[s] \in {"authed", "ready", "draining", "closing", "muxClosed"}

(* The server's pingLoop hears nothing for the timeout and closes its mux.  *)
(* That closes no connection: its readLoop goes on and answers PINGs.      *)
ServerGivesUp(s) ==
    /\ s \in live /\ net[s] = "stalled"
    /\ live' = live \ {s} /\ lapsed' = lapsed \cup {s}
    /\ UNCHANGED <<active, phase, net, done, ended, held, loop, seen, writer,
                   rotations, faults>>

(* The client's mux ends: its read fails, or a ping stays unanswered.  A    *)
(* session that has lapsed answers them.                                   *)
MuxDies(s) ==
    /\ Running(s) /\ s \notin done
    /\ s \notin live \cup lapsed \/ net[s] # "up"
    /\ done' = done \cup {s}
    /\ UNCHANGED <<active, phase, net, server, ended, held, loop, seen,
                   writer, rotations, faults>>

(* A flush, of whichever goroutine, waits in the transport write ... *)
FlushBlocks(s) ==
    /\ Running(s) /\ net[s] = "stalled" /\ s \notin held
    /\ held' = held \cup {s}
    /\ UNCHANGED <<active, phase, net, server, done, ended, loop, seen,
                   writer, rotations, faults>>

(* ... until the transport takes it or fails. *)
FlushReturns(s) ==
    /\ s \in held /\ net[s] # "stalled"
    /\ held' = held \ {s}
    /\ UNCHANGED <<active, phase, net, server, done, ended, loop, seen,
                   writer, rotations, faults>>

(* The network: a connection stalls, or it fails. *)
NetFault(s) ==
    /\ net[s] = "up" /\ faults < MaxFaults
    /\ faults' = faults + 1
    /\ \E n \in {"stalled", "dead"} : net' = [net EXCEPT ![s] = n]
    /\ UNCHANGED <<active, phase, server, done, ended, held, loop, seen,
                   writer, rotations>>

StallEnds(s) ==
    /\ net[s] = "stalled"
    /\ \E n \in {"up", "dead"} : net' = [net EXCEPT ![s] = n]
    /\ UNCHANGED <<active, phase, server, done, ended, held, loop, seen,
                   writer, rotations, faults>>

-----------------------------------------------------------------------------
(* The writer goroutine, for one packet after the other.                   *)

(* Mutant: activeSession.Load() is hoisted out of the loop. *)
WriterLoads_Hoisted ==
    /\ writer.pc \in {"idle", "load"}
    /\ writer' = [pc |-> "write", s |-> First,
                  tries |-> IF writer.pc = "idle" THEN 1 ELSE writer.tries + 1]
    /\ UNCHANGED <<active, phase, net, server, done, ended, held, loop,
                   seen, rotations, faults>>

WriterLoads ==
    /\ writer.pc \in {"idle", "load"}
    /\ writer' = [pc |-> "write", s |-> active,
                  tries |-> IF writer.pc = "idle" THEN 1 ELSE writer.tries + 1]
    /\ UNCHANGED <<active, phase, net, server, done, ended, held, loop,
                   seen, rotations, faults>>

(* Stream.Write: the frame is in the batch, or on its way.  A dead          *)
(* connection may take it as well.                                         *)
WriteSucceeds ==
    /\ writer.pc = "write" /\ writer.s \notin held \cup ended
    /\ writer' = IdleWriter
    /\ UNCHANGED <<active, phase, net, server, done, ended, held, loop,
                   seen, rotations, faults>>

(* Stream.Write fails: the next try loads the active session again. *)
WriteFails ==
    /\ writer.pc = "write" /\ writer.s \notin held
    /\ writer.s \in ended \/ writer.s \notin live \cup lapsed \/ net[writer.s] = "dead"
    /\ writer' = IF writer.tries < MaxTries THEN [writer EXCEPT !.pc = "load"]
                ELSE IdleWriter
    /\ UNCHANGED <<active, phase, net, server, done, ended, held, loop,
                   seen, rotations, faults>>

Next ==
    \/ \E s \in Session :
          \/ ServerAuth(s)
          \/ CloseStarts(s) \/ StreamCloses(s) \/ ConnCloses(s)
          \/ ServerGivesUp(s) \/ MuxDies(s) \/ FlushBlocks(s) \/ FlushReturns(s)
          \/ NetFault(s) \/ StallEnds(s)
    \/ \E l \in Loop : EstablishFails(l)
    \/ RotationStarts \/ RotationSwaps
    \/ WatchdogLoads \/ WatchdogChecks \/ WatchdogSwaps \/ WatchdogClosed
    \/ WriterLoads \/ WriteSucceeds \/ WriteFails

Spec == Init /\ [][Next]_vars

(* The steps of one goroutine after the other. *)
RotationStep == \/ RotationSwaps \/ EstablishFails("rotation")
                \/ loop["rotation"].pc = "establish" /\ ServerAuth(loop["rotation"].s)
WatchdogStep == \/ WatchdogLoads \/ WatchdogChecks \/ WatchdogSwaps \/ WatchdogClosed
                \/ EstablishFails("watchdog")
                \/ loop["watchdog"].pc = "establish" /\ ServerAuth(loop["watchdog"].s)
CloseStep(s) == CloseStarts(s) \/ StreamCloses(s) \/ ConnCloses(s)
WriterStep == WriterLoads \/ WriteSucceeds \/ WriteFails

(***************************************************************************)
(* Every goroutine goes on, the server answers, and a connection that is    *)
(* cut or dead is noticed.  The mutex of a coalescer is handed to a         *)
(* goroutine that has waited for it (sync.Mutex's starvation mode): strong  *)
(* fairness of what waits for held.  Nobody is obliged to start a rotation, *)
(* and no stall has to end.                                                 *)
(***************************************************************************)
Fairness ==
    /\ WF_vars(RotationStep) /\ WF_vars(WatchdogStep) /\ SF_vars(WriterStep)
    /\ \A s \in Session :
          /\ SF_vars(CloseStep(s)) /\ WF_vars(FlushReturns(s))
          /\ WF_vars(net[s] # "stalled" /\ MuxDies(s))

FairSpec == Spec /\ Fairness

-----------------------------------------------------------------------------
(* The type invariant. *)
TypeOK ==
    /\ active \in Session
    /\ phase \in [Session -> {"dialing", "authed", "ready", "draining",
                              "closing", "muxClosed", "closed"}]
    /\ net \in [Session -> {"up", "stalled", "dead"}]
    /\ live \subseteq Session /\ lapsed \subseteq Session
    /\ done \subseteq Session /\ ended \subseteq Session
    /\ held \subseteq Session /\ seen \subseteq Session
    /\ loop \in [Loop -> [pc : {"wait", "check", "establish", "closing"}, s : Session]]
    /\ writer \in [pc : {"idle", "load", "write"}, s : Session, tries : 0 .. MaxTries]
    /\ rotations \in 0 .. MaxRotations /\ faults \in 0 .. MaxFaults

(* The active session is open, and every other session that ever was       *)
(* active is on its way to be closed: two loops that swap the pointer at    *)
(* the same time neither close the session in use nor leave one behind      *)
(* (main.go:425, 475).                                                      *)
OneReady == \A s \in Session : phase[s] = "ready" <=> s = active

(* A loop that establishes owns its session: no other loop has it. *)
Owned == /\ \A l \in Loop : loop[l].pc = "establish" =>
                phase[loop[l].s] \in {"dialing", "authed"}
         /\ \A l, m \in Loop :
                loop[l].pc = "establish" /\ loop[m].pc = "establish"
                /\ loop[l].s = loop[m].s => l = m

(* The writer tries again only when it has a try left. *)
TryLeft == writer.pc = "load" => writer.tries < MaxTries

(* The inductive invariant. *)
IInv == TypeOK /\ OneReady /\ Owned /\ TryLeft

(* A session swapped out is closed, down to its connection, unless that     *)
(* connection stalls for ever.                                              *)
OldIsClosed == \A s \in Session :
    (phase[s] = "draining" ~> phase[s] = "closed") \/ <>[](net[s] = "stalled")

(* A connection that stalls for ever is the one in use, or the watchdog is  *)
(* stuck in it: it waits for the answer of a handshake without a timeout    *)
(* (main.go:223-232), or for the end of a write before it closes.           *)
Stuck(s) ==
    /\ net[s] = "stalled"
    /\ \/ s = active
       \/ loop["watchdog"].pc \in {"establish", "closing"} /\ loop["watchdog"].s = s

(* When the faults and the rotations are over, the active session is one    *)
(* that the server's connection serves (if only by answering PINGs, when    *)
(* its mux has given up): the loops do not kick each other's sessions for   *)
(* ever (main.go:442-487), and nothing but a stall without end keeps the    *)
(* watchdog from replacing a dead one, whatever the rotation is stuck in.   *)
Recovers ==
    \/ <>[](active \in live \cup lapsed /\ net[active] = "up")
    \/ \E s \in Session : <>[]Stuck(s)

(* ... and the TUN packets go to it: the writer does not stay behind on a   *)
(* session swapped out (main.go:347-371), unless its write never ends.      *)
WriterFollows ==
    \/ <>[](writer.pc = "write" => writer.s = active)
    \/ \E s \in Session : <>[](writer.pc = "write" /\ writer.s = s /\ net[s] = "stalled")

(* No session that has lapsed stays in use when nothing else goes wrong.    *)
NoLapsedInUse == <>[](active \notin lapsed)

(* No TUN packet waits for ever. *)
WritesEnd == writer.pc = "write" ~> writer.pc # "write"

-----------------------------------------------------------------------------
(* main.go:12-14: "Migration is hitless: a new connection is established    *)
(* and TUN traffic is atomically switched to it before the old one closes": *)
(* without a fault the server never cuts the session in use.                *)
Hitless == faults = 0 => active \in live
=============================================================================
