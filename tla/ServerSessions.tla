--------------------------- MODULE ServerSessions ---------------------------
(***************************************************************************)
(* The sessions of the server: onAuth, closeSession and the monitors of    *)
(* cmd/ghost-server/main.go, with the HTTP handler that bridges each       *)
(* session (internal/camouflage/h2_server.go) and the two pipes between    *)
(* them.                                                                   *)
(*                                                                         *)
(*   request body -> up goroutine -> pipe1 -> mux readLoop                 *)
(*   mux, coalescer -> pipe2 -> down goroutine -> response                 *)
(*                                                                         *)
(* A pipe has no buffer: the coalescer writes pipe2 with its mutex held    *)
(* until the down goroutine reads.  What passes through is left out.       *)
(***************************************************************************)
EXTENDS Naturals

CONSTANTS Session, Client, ClientOf,    \* one session per accepted handshake
          None

ASSUME SessionsAssumption == ClientOf \in [Session -> Client] /\ None \notin Session

VARIABLES
    mu,         \* sessionsMu: the onAuth that holds it, or None
    active,     \* activeSessions
    auth,       \* where the onAuth of each session is
    old,        \* the session it is kicking
    muxDone,    \* the sessions whose mux.Conn is closed
    coalClosed, \* the sessions whose coalescer is closed
    coalMu,     \* the coalescer's mutex: who is writing pipe2 with it held
    pipe1, pipe2, \* the sessions with that pipe still open
    monitor,    \* the goroutine that waits for the end of the mux
    handler,    \* the HTTP handler of each session
    down, up    \* its two goroutines

vars == <<mu, active, auth, old, muxDone, coalClosed, coalMu, pipe1, pipe2,
          monitor, handler, down, up>>

Init ==
    /\ mu = None /\ active = [c \in Client |-> None]
    /\ auth = [s \in Session |-> "none"] /\ old = [s \in Session |-> None]
    /\ muxDone = {} /\ coalClosed = {} /\ coalMu = [s \in Session |-> "free"]
    /\ pipe1 = {} /\ pipe2 = {}
    /\ monitor = [s \in Session |-> "none"] /\ handler = [s \in Session |-> "none"]
    /\ down = [s \in Session |-> "none"] /\ up = [s \in Session |-> "none"]

-----------------------------------------------------------------------------
(* onAuth, from the handshake's acceptance on.                             *)

Arrive(s) ==
    /\ auth[s] = "none"
    /\ auth' = [auth EXCEPT ![s] = "wait"]
    /\ UNCHANGED <<mu, active, old, muxDone, coalClosed, coalMu, pipe1, pipe2,
                   monitor, handler, down, up>>

(* Mutant: the old session is left alone. *)
AuthLocks_NoKick(s) ==
    /\ auth[s] = "wait" /\ mu = None
    /\ mu' = s
    /\ auth' = [auth EXCEPT ![s] = "register"]
    /\ UNCHANGED <<active, old, muxDone, coalClosed, coalMu, pipe1, pipe2, monitor,
                   handler, down, up>>

(* The lock; a session of the same client is to be kicked. *)
AuthLocks(s) ==
    /\ auth[s] = "wait" /\ mu = None
    /\ mu' = s
    /\ old' = [old EXCEPT ![s] = active[ClientOf[s]]]
    /\ auth' = [auth EXCEPT ![s] = IF old'[s] = None THEN "register" ELSE "mux"]
    /\ UNCHANGED <<active, muxDone, coalClosed, coalMu, pipe1, pipe2, monitor,
                   handler, down, up>>

(* closeSession: the mux ... *)
CloseMux(s) ==
    /\ auth[s] = "mux"
    /\ muxDone' = muxDone \cup {old[s]}
    /\ auth' = [auth EXCEPT ![s] = "coalescer"]
    /\ UNCHANGED <<mu, active, old, coalClosed, coalMu, pipe1, pipe2, monitor,
                   handler, down, up>>

(* ... the coalescer, once its mutex is free; a batch is written to pipe2 ... *)
CloseCoalescer(s) ==
    /\ auth[s] = "coalescer" /\ coalMu[old[s]] = "free"
    /\ coalClosed' = coalClosed \cup {old[s]}
    /\ \E h \in {"free", "close"} : coalMu' = [coalMu EXCEPT ![old[s]] = h]
    /\ auth' = [auth EXCEPT ![s] = "pipes"]
    /\ UNCHANGED <<mu, active, old, muxDone, pipe1, pipe2, monitor, handler, down, up>>

(* Mutant: the mux's side of the pipes only. *)
ClosePipes_Pipe1Only(s) ==
    /\ auth[s] = "pipes" /\ coalMu[old[s]] = "free"
    /\ pipe1' = pipe1 \ {old[s]}
    /\ auth' = [auth EXCEPT ![s] = "register"]
    /\ UNCHANGED <<mu, active, old, muxDone, coalClosed, coalMu, pipe2, monitor,
                   handler, down, up>>

(* ... and, when that is written, both pipes. *)
ClosePipes(s) ==
    /\ auth[s] = "pipes" /\ coalMu[old[s]] = "free"
    /\ pipe1' = pipe1 \ {old[s]} /\ pipe2' = pipe2 \ {old[s]}
    /\ auth' = [auth EXCEPT ![s] = "register"]
    /\ UNCHANGED <<mu, active, old, muxDone, coalClosed, coalMu, monitor, handler,
                   down, up>>

(* Mutant: the mutex is not released. *)
Register_KeepsLock(s) ==
    /\ auth[s] = "register"
    /\ active' = [active EXCEPT ![ClientOf[s]] = s]
    /\ pipe1' = pipe1 \cup {s} /\ pipe2' = pipe2 \cup {s}
    /\ monitor' = [monitor EXCEPT ![s] = "wait"]
    /\ handler' = [handler EXCEPT ![s] = "msg2"]
    /\ auth' = [auth EXCEPT ![s] = "done"]
    /\ UNCHANGED <<mu, old, muxDone, coalClosed, coalMu, down, up>>

(* The new session: pipes, coalescer, mux, map entry; unlock, start the    *)
(* monitor and return to the handler.                                      *)
Register(s) ==
    /\ auth[s] = "register"
    /\ active' = [active EXCEPT ![ClientOf[s]] = s]
    /\ pipe1' = pipe1 \cup {s} /\ pipe2' = pipe2 \cup {s}
    /\ monitor' = [monitor EXCEPT ![s] = "wait"]
    /\ handler' = [handler EXCEPT ![s] = "msg2"]
    /\ auth' = [auth EXCEPT ![s] = "done"]
    /\ mu' = None
    /\ UNCHANGED <<old, muxDone, coalClosed, coalMu, down, up>>

(* Mutant: the monitor deletes the entry whosever it is. *)
MonitorRuns_AnyEntry(s) ==
    /\ monitor[s] = "wait" /\ s \in muxDone /\ mu = None
    /\ active' = [active EXCEPT ![ClientOf[s]] = None]
    /\ monitor' = [monitor EXCEPT ![s] = "done"]
    /\ UNCHANGED <<mu, auth, old, muxDone, coalClosed, coalMu, pipe1, pipe2,
                   handler, down, up>>

(* Mutant: the entry stays. *)
MonitorRuns_KeepsEntry(s) ==
    /\ monitor[s] = "wait" /\ s \in muxDone /\ mu = None
    /\ monitor' = [monitor EXCEPT ![s] = "done"]
    /\ UNCHANGED <<mu, active, auth, old, muxDone, coalClosed, coalMu, pipe1, pipe2,
                   handler, down, up>>

(* The monitor, in one critical section: its own entry only. *)
MonitorRuns(s) ==
    /\ monitor[s] = "wait" /\ s \in muxDone /\ mu = None
    /\ active' = [active EXCEPT ![ClientOf[s]] = IF @ = s THEN None ELSE @]
    /\ monitor' = [monitor EXCEPT ![s] = "done"]
    /\ UNCHANGED <<mu, auth, old, muxDone, coalClosed, coalMu, pipe1, pipe2,
                   handler, down, up>>

-----------------------------------------------------------------------------
(* The mux and the coalescer of a session.                                 *)

(* readLoop: pipe1 is at its end; or pingLoop gives the session up. *)
MuxEnds(s) ==
    /\ handler[s] # "none" /\ s \notin muxDone /\ s \notin pipe1
    /\ muxDone' = muxDone \cup {s}
    /\ UNCHANGED <<mu, active, auth, old, coalClosed, coalMu, pipe1, pipe2,
                   monitor, handler, down, up>>

PingTimeout(s) ==
    /\ handler[s] # "none" /\ s \notin muxDone
    /\ muxDone' = muxDone \cup {s}
    /\ UNCHANGED <<mu, active, auth, old, coalClosed, coalMu, pipe1, pipe2,
                   monitor, handler, down, up>>

(* A flush, by a writer, a timer or the cover loop, begins to write pipe2. *)
Flush(s) ==
    /\ handler[s] # "none" /\ s \notin coalClosed /\ coalMu[s] = "free"
    /\ coalMu' = [coalMu EXCEPT ![s] = "flush"]
    /\ UNCHANGED <<mu, active, auth, old, muxDone, coalClosed, pipe1, pipe2,
                   monitor, handler, down, up>>

(* The write ends: the down goroutine has read it, or the pipe is closed. *)
PipeRead(s) ==
    /\ coalMu[s] # "free" /\ s \in pipe2 /\ down[s] = "read"
    /\ coalMu' = [coalMu EXCEPT ![s] = "free"]
    /\ down' = [down EXCEPT ![s] = "write"]
    /\ UNCHANGED <<mu, active, auth, old, muxDone, coalClosed, pipe1, pipe2,
                   monitor, handler, up>>

PipeRefuses(s) ==
    /\ coalMu[s] # "free" /\ s \notin pipe2
    /\ coalMu' = [coalMu EXCEPT ![s] = "free"]
    /\ UNCHANGED <<mu, active, auth, old, muxDone, coalClosed, pipe1, pipe2,
                   monitor, handler, down, up>>

-----------------------------------------------------------------------------
(* The HTTP handler.                                                       *)

(* It answers msg2, which takes a client that reads, and starts to bridge. *)
SendMsg2(s) ==
    /\ handler[s] = "msg2"
    /\ \/ /\ handler' = [handler EXCEPT ![s] = "bridge"]
          /\ down' = [down EXCEPT ![s] = "read"] /\ up' = [up EXCEPT ![s] = "run"]
          /\ UNCHANGED <<pipe1, pipe2>>
       \/ /\ handler' = [handler EXCEPT ![s] = "returned"]
          /\ pipe1' = pipe1 \ {s} /\ pipe2' = pipe2 \ {s}
          /\ UNCHANGED <<down, up>>
    /\ UNCHANGED <<mu, active, auth, old, muxDone, coalClosed, coalMu, monitor>>

(* How Write and Flush of the response may end: done, failed, or, once the *)
(* handler has returned and net/http has taken the response back, in a     *)
(* panic that no function of this goroutine recovers.                      *)
WriteEnds(s) == {"read", "exit"} \cup IF handler[s] = "returned" THEN {"panic"} ELSE {}

HTTPWritten(s) ==
    /\ down[s] = "write"
    /\ \E d \in WriteEnds(s) : down' = [down EXCEPT ![s] = d]
    /\ UNCHANGED <<mu, active, auth, old, muxDone, coalClosed, coalMu, pipe1, pipe2,
                   monitor, handler, up>>

DownExits(s) ==
    /\ down[s] = "read" /\ s \notin pipe2
    /\ down' = [down EXCEPT ![s] = "exit"]
    /\ UNCHANGED <<mu, active, auth, old, muxDone, coalClosed, coalMu, pipe1, pipe2,
                   monitor, handler, up>>

(* The client leaves, or its next bytes find pipe1 closed. *)
UpExits(s) ==
    /\ up[s] = "run"
    /\ up' = [up EXCEPT ![s] = "exit"]
    /\ UNCHANGED <<mu, active, auth, old, muxDone, coalClosed, coalMu, pipe1, pipe2,
                   monitor, handler, down>>

(* Mutant: the handler waits for both directions. *)
BridgeReturns_AfterBoth(s) ==
    /\ handler[s] = "bridge" /\ down[s] = "exit" /\ up[s] = "exit"
    /\ handler' = [handler EXCEPT ![s] = "returned"]
    /\ pipe1' = pipe1 \ {s} /\ pipe2' = pipe2 \ {s}
    /\ UNCHANGED <<mu, active, auth, old, muxDone, coalClosed, coalMu, monitor,
                   down, up>>

(* Either direction has ended: the handler closes the tunnel and returns,  *)
(* whatever the other is doing.                                            *)
BridgeReturns(s) ==
    /\ handler[s] = "bridge" /\ "exit" \in {down[s], up[s]}
    /\ handler' = [handler EXCEPT ![s] = "returned"]
    /\ pipe1' = pipe1 \ {s} /\ pipe2' = pipe2 \ {s}
    /\ UNCHANGED <<mu, active, auth, old, muxDone, coalClosed, coalMu, monitor,
                   down, up>>

(* A panic in a goroutine ends the process, and every session with it.     *)
Crashed == \E s \in Session : down[s] = "panic"

Next == ~Crashed /\ \E s \in Session :
    \/ Arrive(s) \/ AuthLocks(s) \/ CloseMux(s) \/ CloseCoalescer(s) \/ ClosePipes(s)
    \/ Register(s)
    \/ MonitorRuns(s) \/ MuxEnds(s) \/ PingTimeout(s)
    \/ Flush(s) \/ PipeRead(s) \/ PipeRefuses(s)
    \/ SendMsg2(s) \/ HTTPWritten(s) \/ DownExits(s) \/ UpExits(s) \/ BridgeReturns(s)

Spec == Init /\ [][Next]_vars

(* What the server does by itself, while it runs, it does: an unlock wakes  *)
(* a waiter, a pipe hands over.  sessionsMu is fair to its waiters (Go's    *)
(* starvation mode), the coalescer's too.  No client is obliged to come, to *)
(* send, to read or to leave: SendMsg2, HTTPWritten and UpExits may wait    *)
(* for ever.                                                                *)
Fairness == \A s \in Session :
    /\ SF_vars(~Crashed /\ AuthLocks(s))
    /\ WF_vars(~Crashed /\ CloseMux(s))
    /\ SF_vars(~Crashed /\ CloseCoalescer(s))
    /\ WF_vars(~Crashed /\ ClosePipes(s))
    /\ WF_vars(~Crashed /\ Register(s))
    /\ SF_vars(~Crashed /\ MonitorRuns(s))
    /\ WF_vars(~Crashed /\ MuxEnds(s))
    /\ WF_vars(~Crashed /\ PipeRead(s))
    /\ WF_vars(~Crashed /\ PipeRefuses(s))
    /\ WF_vars(~Crashed /\ DownExits(s))
    /\ WF_vars(~Crashed /\ BridgeReturns(s))

FairSpec == Spec /\ Fairness

-----------------------------------------------------------------------------
(* The type invariant. *)
TypeOK ==
    /\ mu \in Session \cup {None} /\ active \in [Client -> Session \cup {None}]
    /\ auth \in [Session -> {"none", "wait", "mux", "coalescer", "pipes", "register", "done"}]
    /\ old \in [Session -> Session \cup {None}]
    /\ muxDone \subseteq Session /\ coalClosed \subseteq Session
    /\ coalMu \in [Session -> {"free", "flush", "close"}]
    /\ pipe1 \subseteq Session /\ pipe2 \subseteq Session
    /\ monitor \in [Session -> {"none", "wait", "done"}]
    /\ handler \in [Session -> {"none", "msg2", "bridge", "returned"}]
    /\ down \in [Session -> {"none", "read", "write", "exit", "panic"}]
    /\ up \in [Session -> {"none", "run", "exit"}]

Live(s) == handler[s] # "none" /\ s \notin muxDone

(* main.go:150-151: "we close the old session BEFORE starting the new one": *)
(* a client never has two sessions with a mux that runs.                    *)
OneLivePerClient == \A s, r \in Session :
    ClientOf[s] = ClientOf[r] /\ Live(s) /\ Live(r) => s = r

(* A live session can be found, so that the next login kicks it: no         *)
(* monitor of an earlier session has taken its entry away.                  *)
LiveIsActive == \A s \in Session : Live(s) => active[ClientOf[s]] = s

(* A new session starts when the pipes of the one it replaces are closed:   *)
(* no two handlers of a client that are both still connected to a tunnel.   *)
KickedIsCut == \A s \in Session :
    auth[s] = "done" /\ old[s] # None => old[s] \notin pipe1 \cup pipe2

(* main.go:176-177: "Closing the pipes terminates the HTTP bridge io.Copy   *)
(* loops, which in turn lets the HTTP/2 stream complete cleanly": no stream *)
(* of a kicked session ends in a panic.                                     *)
KickedEndsCleanly == \A s \in Session :
    auth[s] \in {"register", "done"} /\ old[s] # None => down[old[s]] # "panic"

(* A login is held up, with sessionsMu locked, by the client it kicks: the  *)
(* coalescer writes a pipe that nobody reads, because the answer or the     *)
(* response waits for that client to read.                                  *)
HeldUp(s) ==
    /\ auth[s] \in {"coalescer", "pipes"}
    /\ handler[old[s]] = "msg2" \/ down[old[s]] = "write"

(* ... and stays so. *)
Blocked == \E s \in Session : <>[]HeldUp(s)

(* No client that does not read holds up the logins for good.               *)
HeldUpEnds == \A s \in Session : HeldUp(s) ~> ~HeldUp(s)

(* main.go:282-283: the entry of an ended session does not leak, unless the *)
(* process ends or one client that never reads holds sessionsMu for ever.   *)
EntriesGo == \A s \in Session :
    (s \in muxDone ~> (active[ClientOf[s]] # s \/ Crashed)) \/ Blocked

(* Every accepted handshake gets its session, whoever else is logging in    *)
(* and whether clients read or not: nothing else in the server than a panic *)
(* or a kicked client that never reads keeps sessionsMu.                    *)
AuthCompletes == \A s \in Session :
    (auth[s] # "none" ~> (auth[s] = "done" \/ Crashed)) \/ Blocked

(* A kicked session's handler returns, unless the process ends or the       *)
(* response waits for ever for its own client to read.                      *)
KickedReturns == \A s, r \in Session :
    \/ (auth[s] = "mux" /\ old[s] = r /\ handler[r] = "bridge")
           ~> (handler[r] = "returned" \/ Crashed)
    \/ <>[](down[r] = "write")
=============================================================================
