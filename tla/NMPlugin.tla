------------------------------ MODULE NMPlugin ------------------------------
(***************************************************************************)
(* The NetworkManager plugin (nm-plugin/plugin.go): its D-Bus methods, the *)
(* ghost-client processes it starts, the watcher that waits for the TUN    *)
(* device of each, and the goroutines in which Disconnect waits for a      *)
(* process.  All of them share the fields of Plugin under p.mu, and each   *)
(* critical section is one action; they look at their context, at the TUN  *)
(* device and at the process outside of it.                                *)
(*                                                                         *)
(* A successful Connect has a number, which is also that of its process,   *)
(* its watcher and its temporary configuration.  All processes use one TUN *)
(* name.  NetworkManager may call at any time; `overlap` and `late` record *)
(* whether it has called while the plugin was stopping, and whether a      *)
(* watcher has touched the plugin after it was cancelled.                  *)
(***************************************************************************)
EXTENDS Naturals

CONSTANTS MaxConnects,      \* bound: successful calls of Connect
          MaxDisconnects,   \* bound: calls of Disconnect
          None

Call == 1 .. MaxConnects

ASSUME NMAssumption ==
    MaxConnects \in Nat /\ MaxDisconnects \in Nat /\ None \notin Nat

VARIABLES
    state,          \* p.state: what the last StateChanged signal said
    proc, cfgTmp,   \* p.proc and p.cfgTmp
    cancelWatch,    \* p.cancelWatch: the watcher it cancels
    cancelled,      \* the watchers whose context is done
    watcher,        \* where each watchTunAndReport is
    waiters,        \* goroutines of Disconnect that wait for each process
    process,        \* the life of each ghost-client
    signalled,      \* the processes that were sent SIGTERM
    files,          \* the temporary configurations on disk
    tun,            \* the process that has the TUN device
    disconnects,    \* calls of Disconnect so far, for the bound
    overlap, late   \* history, see above

plugin == <<state, proc, cfgTmp, cancelWatch>>
vars == <<plugin, cancelled, watcher, waiters, process, signalled, files, tun,
          disconnects, overlap, late>>

Alive(i) == process[i] \in {"exec", "configured", "up"}

Init ==
    /\ state = "init" /\ proc = None /\ cfgTmp = None /\ cancelWatch = None
    /\ cancelled = {} /\ watcher = [i \in Call |-> "none"]
    /\ waiters = [i \in Call |-> 0]
    /\ process = [i \in Call |-> "none"] /\ signalled = {}
    /\ files = {} /\ tun = None
    /\ disconnects = 0 /\ overlap = FALSE /\ late = FALSE

-----------------------------------------------------------------------------
(* The D-Bus methods.  A Connect that is refused changes nothing.          *)

MayConnect == state \notin {"starting", "started"}

(* NetworkManager does not wait for the end of a Disconnect. *)
NotesOverlap == overlap' = (overlap \/ state = "stopping")

(* Mutant: a Connect is taken while another one is starting. *)
Connect_WhileStarting(i) ==
    /\ state # "started"
    /\ process[i] = "none" /\ \A j \in 1 .. i - 1 : process[j] # "none"
    /\ NotesOverlap
    /\ files' = files \cup {i} /\ cfgTmp' = i
    /\ process' = [process EXCEPT ![i] = "exec"] /\ proc' = i
    /\ state' = "starting"
    /\ cancelWatch' = i /\ watcher' = [watcher EXCEPT ![i] = "poll"]
    /\ UNCHANGED <<cancelled, waiters, signalled, tun, disconnects, late>>

Connect(i) ==
    /\ MayConnect
    /\ process[i] = "none" /\ \A j \in 1 .. i - 1 : process[j] # "none"
    /\ NotesOverlap
    /\ files' = files \cup {i} /\ cfgTmp' = i
    /\ process' = [process EXCEPT ![i] = "exec"] /\ proc' = i
    /\ state' = "starting"
    /\ cancelWatch' = i /\ watcher' = [watcher EXCEPT ![i] = "poll"]
    /\ UNCHANGED <<cancelled, waiters, signalled, tun, disconnects, late>>

(* ghost-client cannot be started: its configuration is removed and         *)
(* p.cfgTmp reset, whatever it held before.                                *)
ConnectFails ==
    /\ MayConnect
    /\ NotesOverlap
    /\ cfgTmp' = None
    /\ UNCHANGED <<state, proc, cancelWatch, cancelled, watcher, waiters, process,
                   signalled, files, tun, disconnects, late>>

(* Mutant: the configuration stays on disk. *)
Cleanup_KeepsFile == UNCHANGED files /\ cfgTmp' = None /\ proc' = None

(* cleanup(): the configuration and the process p knows. *)
Cleanup == files' = files \ {cfgTmp} /\ cfgTmp' = None /\ proc' = None

(* Mutant: nobody waits for the process. *)
Disconnect_NoWaiter ==
    /\ disconnects < MaxDisconnects /\ disconnects' = disconnects + 1
    /\ NotesOverlap
    /\ cancelled' = IF cancelWatch = None THEN cancelled ELSE cancelled \cup {cancelWatch}
    /\ cancelWatch' = None
    /\ IF proc # None
       THEN /\ state' = "stopping"
            /\ signalled' = signalled \cup {proc}
            /\ UNCHANGED <<proc, cfgTmp, files>>
       ELSE /\ Cleanup
            /\ state' = "stopped"
            /\ UNCHANGED signalled
    /\ UNCHANGED <<waiters, watcher, process, tun, late>>

(* Disconnect cancels the watcher and terminates the process, whose end a  *)
(* goroutine of its own awaits; without a process it stops at once.        *)
Disconnect ==
    /\ disconnects < MaxDisconnects /\ disconnects' = disconnects + 1
    /\ NotesOverlap
    /\ cancelled' = IF cancelWatch = None THEN cancelled ELSE cancelled \cup {cancelWatch}
    /\ cancelWatch' = None
    /\ IF proc # None
       THEN /\ state' = "stopping"
            /\ signalled' = signalled \cup {proc}
            /\ waiters' = [waiters EXCEPT ![proc] = @ + 1]
            /\ UNCHANGED <<proc, cfgTmp, files>>
       ELSE /\ Cleanup
            /\ state' = "stopped"
            /\ UNCHANGED <<signalled, waiters>>
    /\ UNCHANGED <<watcher, process, tun, late>>

(* The goroutine: Wait has returned. *)
WaiterStops(i) ==
    /\ waiters[i] > 0 /\ process[i] = "dead"
    /\ waiters' = [waiters EXCEPT ![i] = @ - 1]
    /\ Cleanup
    /\ state' = "stopped"
    /\ UNCHANGED <<cancelWatch, cancelled, watcher, process, signalled, tun,
                   disconnects, overlap, late>>

-----------------------------------------------------------------------------
(* watchTunAndReport.                                                      *)

Moves(i, from, to) == watcher[i] = from /\ watcher' = [watcher EXCEPT ![i] = to]

(* A look at the context, before and after the sleep of 1.5 s. *)
SeesCancel(i) ==
    /\ watcher[i] \in {"poll", "found", "settle"} /\ i \in cancelled
    /\ watcher' = [watcher EXCEPT ![i] = "done"]
    /\ UNCHANGED <<plugin, cancelled, waiters, process, signalled, files, tun,
                   disconnects, overlap, late>>

(* A device of that name exists, whosever it is. *)
FindsTun(i) ==
    /\ Moves(i, "poll", "found") /\ tun # None
    /\ UNCHANGED <<plugin, cancelled, waiters, process, signalled, files, tun,
                   disconnects, overlap, late>>

NotCancelled(i) ==
    /\ i \notin cancelled
    /\ Moves(i, "found", "settle") \/ Moves(i, "settle", "report")
    /\ UNCHANGED <<plugin, cancelled, waiters, process, signalled, files, tun,
                   disconnects, overlap, late>>

(* 30 s are over: the loop ends without another look at the context. *)
Expires(i) ==
    /\ Moves(i, "poll", "expired")
    /\ UNCHANGED <<plugin, cancelled, waiters, process, signalled, files, tun,
                   disconnects, overlap, late>>

NotesLate(i) == late' = (late \/ i \in cancelled)

(* Mutant: the failure is signalled, the state is not. *)
GivesUp_NoState(i) ==
    /\ Moves(i, "expired", "failure")
    /\ signalled' = signalled \cup {i}
    /\ Cleanup
    /\ NotesLate(i)
    /\ UNCHANGED <<state, cancelWatch, cancelled, waiters, process, tun, disconnects,
                   overlap>>

GivesUp(i) ==
    /\ Moves(i, "expired", "failure")
    /\ signalled' = signalled \cup {i}
    /\ Cleanup
    /\ state' = "stopped"
    /\ NotesLate(i)
    /\ UNCHANGED <<cancelWatch, cancelled, waiters, process, tun, disconnects, overlap>>

(* The Failure signal, after the unlock. *)
EmitsFailure(i) ==
    /\ Moves(i, "failure", "done")
    /\ UNCHANGED <<plugin, cancelled, waiters, process, signalled, files, tun,
                   disconnects, overlap, late>>

(* The Config and Ip4Config signals, and StateStarted under the mutex. *)
Reports(i) ==
    /\ Moves(i, "report", "wait")
    /\ state' = "started"
    /\ NotesLate(i)
    /\ UNCHANGED <<proc, cfgTmp, cancelWatch, cancelled, waiters, process, signalled,
                   files, tun, disconnects, overlap>>

(* Mutant: the end of the process is logged only. *)
SeesEnd_LogsOnly(i) ==
    /\ Moves(i, "wait", "done") /\ process[i] = "dead"
    /\ UNCHANGED <<plugin, cancelled, waiters, process, signalled, files, tun,
                   disconnects, overlap, late>>

(* Wait has returned: an end nobody asked for is reported. *)
SeesEnd(i) ==
    /\ Moves(i, "wait", "done") /\ process[i] = "dead"
    /\ IF state = "started"
       THEN Cleanup /\ state' = "stopped" /\ NotesLate(i)
       ELSE UNCHANGED <<state, proc, cfgTmp, files, late>>
    /\ UNCHANGED <<cancelWatch, cancelled, waiters, process, signalled, tun,
                   disconnects, overlap>>

-----------------------------------------------------------------------------
(* ghost-client, as the plugin sees it: it reads its configuration, makes  *)
(* its TUN device, and may end at any time.                                *)

Ends(i) ==
    /\ process' = [process EXCEPT ![i] = "dead"]
    /\ tun' = IF tun = i THEN None ELSE tun

ReadsConfig(i) ==
    /\ process[i] = "exec"
    /\ IF i \in files
       THEN process' = [process EXCEPT ![i] = "configured"] /\ UNCHANGED tun
       ELSE Ends(i)
    /\ UNCHANGED <<plugin, cancelled, watcher, waiters, signalled, files,
                   disconnects, overlap, late>>

MakesTun(i) ==
    /\ process[i] = "configured"
    /\ IF tun = None
       THEN process' = [process EXCEPT ![i] = "up"] /\ tun' = i
       ELSE Ends(i)
    /\ UNCHANGED <<plugin, cancelled, watcher, waiters, signalled, files,
                   disconnects, overlap, late>>

Exits(i) ==
    /\ Alive(i) /\ Ends(i)
    /\ UNCHANGED <<plugin, cancelled, watcher, waiters, signalled, files,
                   disconnects, overlap, late>>

-----------------------------------------------------------------------------
Next ==
    \/ ConnectFails \/ Disconnect
    \/ \E i \in Call :
          \/ Connect(i) \/ WaiterStops(i)
          \/ SeesCancel(i) \/ FindsTun(i) \/ NotCancelled(i) \/ Expires(i)
          \/ GivesUp(i) \/ EmitsFailure(i) \/ Reports(i) \/ SeesEnd(i)
          \/ ReadsConfig(i) \/ MakesTun(i) \/ Exits(i)

Spec == Init /\ [][Next]_vars

(* Goroutines run, p.mu is free between the actions, time passes, and a    *)
(* client that was sent SIGTERM ends.  NetworkManager is obliged to nothing.*)
Fairness == \A i \in Call :
    /\ WF_vars(WaiterStops(i)) /\ WF_vars(SeesCancel(i)) /\ WF_vars(NotCancelled(i))
    /\ WF_vars(Expires(i)) /\ WF_vars(GivesUp(i)) /\ WF_vars(EmitsFailure(i))
    /\ WF_vars(Reports(i)) /\ WF_vars(SeesEnd(i))
    /\ WF_vars(i \in signalled /\ Exits(i))

FairSpec == Spec /\ Fairness

-----------------------------------------------------------------------------
(* The type invariant. *)
TypeOK ==
    /\ state \in {"init", "starting", "started", "stopping", "stopped"}
    /\ {proc, cfgTmp, cancelWatch, tun} \subseteq Call \cup {None}
    /\ cancelled \subseteq Call /\ signalled \subseteq Call /\ files \subseteq Call
    /\ watcher \in [Call -> {"none", "poll", "found", "settle", "report", "expired",
                             "failure", "wait", "done"}]
    /\ waiters \in [Call -> Nat]
    /\ process \in [Call -> {"none", "exec", "configured", "up", "dead"}]
    /\ disconnects \in Nat /\ overlap \in BOOLEAN /\ late \in BOOLEAN

(* plugin.go:179: "Disconnect stops ghost-client and cleans up": a client   *)
(* that runs and was not told to end is the one the next Disconnect stops;  *)
(* it takes a call during a stop, or a watcher past its last look at its    *)
(* context, to lose one.                                                    *)
NoOrphan == ~overlap /\ ~late =>
    \A i \in Call : Alive(i) /\ i \notin signalled => proc = i

(* The configuration holds the private key: none stays on disk but that of  *)
(* the current connection, unless NetworkManager calls during a stop.       *)
NoLeakedConfig == ~overlap => files \subseteq {cfgTmp}

(* Every Disconnect ends in StateStopped, whatever else goes on. *)
DisconnectEnds == state = "stopping" ~> state = "stopped"

(* NetworkManager is never left with a connection that is starting: the     *)
(* watcher starts it or gives it up, even if the client has ended unseen.   *)
StartingEnds == state = "starting" ~> state # "starting"

(* A connection that is shown as started and has no client left is stopped, *)
(* by the watcher that reported it, even after p.proc was forgotten.        *)
DeadIsNoticed == (state = "started" /\ \A i \in Call : ~Alive(i)) ~> state # "started"

(* plugin.go:184-185: the watcher is cancelled "so it doesn't emit          *)
(* StateStarted after we've already emitted StateStopping/StateStopped".    *)
NoStartAfterStop ==
    [][state' = "started" /\ state # "started" => state = "starting"]_vars
-----------------------------------------------------------------------------
(* What NoOrphan and NoLeakedConfig rest on.                                *)

(* A plugin that is idle knows of no process and no configuration. *)
IdleIsEmpty == state \in {"init", "stopped"} => proc = None /\ cfgTmp = None

(* The watcher that can be cancelled is that of the process p knows. *)
WatchesProc == cancelWatch # None => proc \in {None, cancelWatch}

Active(i) == watcher[i] \notin {"none", "failure", "done"}

(* As long as nothing overlaps: a watcher that still acts is the one that   *)
(* can be cancelled, none does when the plugin is idle, and a stop has       *)
(* nothing left to cancel ...                                              *)
OneWatcher ==
    /\ \A i \in Call : Active(i) /\ i \notin cancelled =>
          i = cancelWatch /\ state \notin {"init", "stopped"}
    /\ state = "stopping" => cancelWatch = None

(* ... and one goroutine waits, for the process p knows. *)
OneWaiter == \A i \in Call : waiters[i] > 0 =>
    state = "stopping" /\ proc = i /\ waiters[i] = 1 /\ i \in signalled

IInv ==
    /\ TypeOK /\ IdleIsEmpty /\ WatchesProc
    /\ NoLeakedConfig /\ NoOrphan
    /\ ~overlap /\ ~late => OneWatcher /\ OneWaiter
=============================================================================
