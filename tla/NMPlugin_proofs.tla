---------------------------- MODULE NMPlugin_proofs ----------------------------
(***************************************************************************)
(* For any number of connections: the plugin loses no client and no         *)
(* configuration, unless NetworkManager calls during a stop.                *)
(***************************************************************************)
EXTENDS NMPlugin, TLAPS

(* Init establishes the inductive invariant. *)
LEMMA InitInv == Init => IInv
<1> SUFFICES ASSUME Init PROVE IInv
  OBVIOUS
<1> USE DEF Init
<1>1. TypeOK
  BY DEF TypeOK
<1>2. IdleIsEmpty /\ WatchesProc /\ NoLeakedConfig
  BY DEF IdleIsEmpty, WatchesProc, NoLeakedConfig
<1>3. NoOrphan /\ OneWatcher /\ OneWaiter
  BY DEF NoOrphan, OneWatcher, OneWaiter, Alive, Active
<1> QED
  BY <1>1, <1>2, <1>3 DEF IInv

(* A Connect that succeeds starts from an idle plugin, or overlaps. *)
LEMMA ConnectKeeps ==
  ASSUME IInv, NEW i \in Call, Connect(i)
  PROVE  IInv'
<1> USE DEF IInv, Connect
<1>1. ~overlap' => state \in {"init", "stopped"}
  BY DEF TypeOK, MayConnect, NotesOverlap
<1>2. TypeOK'
  BY DEF TypeOK, NotesOverlap
<1>3. IdleIsEmpty' /\ WatchesProc'
  BY DEF IdleIsEmpty, WatchesProc
<1>4. NoLeakedConfig'
  <2>1. ASSUME ~overlap' PROVE files = {}
    BY <1>1, <2>1, NMAssumption
       DEF TypeOK, IdleIsEmpty, NoLeakedConfig, NotesOverlap, Call
  <2> QED
    BY <2>1 DEF NoLeakedConfig
<1>5. NoOrphan'
  BY <1>1, NMAssumption DEF TypeOK, IdleIsEmpty, NoOrphan, NotesOverlap, Alive, Call
<1>6. ASSUME ~overlap', ~late' PROVE OneWatcher' /\ OneWaiter'
  BY <1>1, <1>6 DEF TypeOK, OneWatcher, OneWaiter, NotesOverlap, Active
<1> QED
  BY <1>2, <1>3, <1>4, <1>5, <1>6

(* A Connect that fails is idle before and after, or overlaps. *)
LEMMA ConnectFailsKeeps ==
  ASSUME IInv, ConnectFails
  PROVE  IInv'
<1> USE DEF IInv, ConnectFails
<1>1. ~overlap' => state \in {"init", "stopped"}
  BY DEF TypeOK, MayConnect, NotesOverlap
<1>2. TypeOK'
  BY DEF TypeOK, NotesOverlap
<1>3. IdleIsEmpty' /\ WatchesProc'
  BY DEF IdleIsEmpty, WatchesProc
<1>4. NoLeakedConfig'
  BY <1>1 DEF IdleIsEmpty, NoLeakedConfig, NotesOverlap
<1>5. NoOrphan'
  BY DEF NoOrphan, NotesOverlap, Alive
<1>6. ASSUME ~overlap', ~late' PROVE OneWatcher' /\ OneWaiter'
  BY <1>6 DEF OneWatcher, OneWaiter, NotesOverlap, Active
<1> QED
  BY <1>2, <1>3, <1>4, <1>5, <1>6

(* A Disconnect leaves no watcher that is not cancelled, and one waiter. *)
LEMMA DisconnectKeeps ==
  ASSUME IInv, Disconnect
  PROVE  IInv'
<1> USE DEF IInv, Disconnect
<1>1. ~overlap' => ~overlap /\ state # "stopping"
  BY DEF TypeOK, NotesOverlap
<1>2. TypeOK'
  <2>1. CASE proc = None
    BY <2>1 DEF TypeOK, Cleanup, NotesOverlap
  <2>2. CASE proc # None
    BY <2>2 DEF TypeOK, NotesOverlap
  <2> QED
    BY <2>1, <2>2
<1>3. IdleIsEmpty' /\ WatchesProc'
  BY DEF IdleIsEmpty, WatchesProc, Cleanup
<1>4. NoLeakedConfig'
  BY <1>1 DEF NoLeakedConfig, Cleanup
<1>5. NoOrphan'
  BY <1>1 DEF NoOrphan, Alive, Cleanup
<1>6. ASSUME ~overlap', ~late' PROVE OneWatcher'
  <2>1. ASSUME NEW i \in Call, Active(i)', i \notin cancelled' PROVE FALSE
    <3>1. i \notin cancelled /\ i # cancelWatch
      BY <2>1, NMAssumption DEF Call
    <3> QED
      BY <1>1, <1>6, <2>1, <3>1 DEF OneWatcher, Active
  <2> QED
    BY <2>1 DEF OneWatcher
<1>7. ASSUME ~overlap', ~late' PROVE OneWaiter'
  <2>1. CASE proc = None
    BY <1>1, <1>7, <2>1 DEF OneWaiter, Cleanup
  <2>2. CASE proc # None
    BY <1>1, <1>7, <2>2 DEF TypeOK, OneWaiter
  <2> QED
    BY <2>1, <2>2
<1> QED
  BY <1>2, <1>3, <1>4, <1>5, <1>6, <1>7

(* The one waiter waits for the process p knows, which has ended. *)
LEMMA WaiterKeeps ==
  ASSUME IInv, NEW i \in Call, WaiterStops(i)
  PROVE  IInv'
<1> USE DEF IInv, WaiterStops, Cleanup
<1>1. TypeOK'
  BY DEF TypeOK
<1>2. IdleIsEmpty' /\ WatchesProc' /\ NoLeakedConfig'
  BY DEF IdleIsEmpty, WatchesProc, NoLeakedConfig
<1>3. ASSUME ~overlap, ~late
      PROVE  proc = i /\ state = "stopping" /\ waiters[i] = 1 /\ cancelWatch = None
  BY <1>3 DEF OneWaiter, OneWatcher
<1>4. NoOrphan'
  BY <1>3 DEF NoOrphan, Alive
<1>5. ASSUME ~overlap', ~late' PROVE OneWatcher' /\ OneWaiter'
  <2>1. OneWatcher'
    BY <1>3, <1>5, NMAssumption DEF OneWatcher, Active, Call
  <2>2. \A j \in Call : waiters'[j] = 0
    BY <1>3, <1>5 DEF TypeOK, OneWaiter
  <2> QED
    BY <2>1, <2>2 DEF OneWaiter
<1> QED
  BY <1>1, <1>2, <1>4, <1>5

(* Steps of a watcher that touch the plugin are those of the one watcher,  *)
(* or late.                                                                *)
LEMMA WatcherKeeps ==
  ASSUME IInv, NEW i \in Call, GivesUp(i) \/ Reports(i) \/ SeesEnd(i)
  PROVE  IInv'
<1> USE DEF IInv, Moves, NotesLate
<1>1. ASSUME Active(i), ~overlap, ~late, i \notin cancelled
      PROVE  /\ i = cancelWatch /\ proc \in {None, i}
             /\ state \notin {"init", "stopped", "stopping"}
             /\ \A j \in Call : Active(j) /\ j \notin cancelled => j = i
             /\ \A j \in Call : waiters[j] = 0
  <2>1. /\ i = cancelWatch /\ state \notin {"init", "stopped"}
        /\ state = "stopping" => cancelWatch = None
        /\ \A j \in Call : Active(j) /\ j \notin cancelled => j = i
    BY <1>1 DEF OneWatcher
  <2>2. i # None
    BY NMAssumption DEF Call
  <2>3. state # "stopping" /\ proc \in {None, i}
    BY <2>1, <2>2 DEF WatchesProc
  <2>4. \A j \in Call : waiters[j] = 0
    BY <1>1, <2>3 DEF OneWaiter, TypeOK
  <2> QED
    BY <2>1, <2>3, <2>4
<1>2. CASE GivesUp(i)
  <2> USE <1>2 DEF GivesUp, Cleanup
  <2>1. TypeOK'
    BY DEF TypeOK
  <2>2. IdleIsEmpty' /\ WatchesProc' /\ NoLeakedConfig'
    BY DEF IdleIsEmpty, WatchesProc, NoLeakedConfig
  <2>3. ASSUME ~overlap', ~late' PROVE ~overlap /\ ~late /\ i \notin cancelled /\ Active(i)
    BY <2>3 DEF Active
  <2>4. NoOrphan'
    BY <1>1, <2>3 DEF NoOrphan, Alive
  <2>5. ASSUME ~overlap', ~late' PROVE OneWatcher' /\ OneWaiter'
    <3>1. ASSUME NEW j \in Call, Active(j)', j \notin cancelled' PROVE FALSE
      BY <1>1, <2>3, <2>5, <3>1 DEF TypeOK, Active
    <3>2. OneWatcher'
      BY <3>1 DEF OneWatcher
    <3>3. OneWaiter'
      BY <1>1, <2>3, <2>5 DEF OneWaiter
    <3> QED
      BY <3>2, <3>3
  <2> QED
    BY <2>1, <2>2, <2>4, <2>5
<1>3. CASE Reports(i)
  <2> USE <1>3 DEF Reports
  <2>1. TypeOK'
    BY DEF TypeOK
  <2>2. IdleIsEmpty' /\ WatchesProc' /\ NoLeakedConfig' /\ NoOrphan'
    BY DEF IdleIsEmpty, WatchesProc, NoLeakedConfig, NoOrphan, Alive
  <2>3. ASSUME ~overlap', ~late' PROVE OneWatcher' /\ OneWaiter'
    <3>1. Active(i) /\ ~overlap /\ ~late /\ i \notin cancelled
      BY <2>3 DEF Active
    <3>2. \A j \in Call : Active(j)' => Active(j)
      BY <3>1 DEF TypeOK, Active
    <3> QED
      BY <1>1, <3>1, <3>2 DEF OneWatcher, OneWaiter
  <2> QED
    BY <2>1, <2>2, <2>3
<1>4. CASE SeesEnd(i)
  <2> USE <1>4 DEF SeesEnd, Cleanup
  <2>1. TypeOK'
    BY SMT, ZenonT(30) DEF TypeOK
  <2>2. IdleIsEmpty' /\ WatchesProc' /\ NoLeakedConfig'
    BY DEF IdleIsEmpty, WatchesProc, NoLeakedConfig
  <2>3. \A j \in Call : Active(j)' => Active(j) /\ j # i
    BY DEF TypeOK, Active
  <2>4. CASE state # "started"
    <3>1. NoOrphan'
      BY <2>4 DEF NoOrphan, Alive
    <3>2. ASSUME ~overlap', ~late' PROVE OneWatcher' /\ OneWaiter'
      BY <2>3, <2>4, <3>2 DEF OneWatcher, OneWaiter
    <3> QED
      BY <2>1, <2>2, <3>1, <3>2
  <2>5. CASE state = "started"
    <3>1. ASSUME ~overlap', ~late' PROVE ~overlap /\ ~late /\ i \notin cancelled /\ Active(i)
      BY <2>5, <3>1 DEF Active
    <3>2. NoOrphan'
      BY <1>1, <2>5, <3>1 DEF NoOrphan, Alive
    <3>3. ASSUME ~overlap', ~late' PROVE OneWatcher' /\ OneWaiter'
      BY <1>1, <2>3, <2>5, <3>1, <3>3 DEF OneWatcher, OneWaiter
    <3> QED
      BY <2>1, <2>2, <3>2, <3>3
  <2> QED
    BY <2>4, <2>5
<1> QED
  BY <1>2, <1>3, <1>4

(* The other steps of a watcher move nothing but the watcher, which does   *)
(* not come back to life.                                                  *)
LEMMA LooksKeep ==
  ASSUME IInv, NEW i \in Call,
         SeesCancel(i) \/ FindsTun(i) \/ NotCancelled(i) \/ Expires(i) \/ EmitsFailure(i)
  PROVE  IInv'
<1> USE DEF IInv
<1>1. UNCHANGED <<plugin, cancelled, waiters, process, signalled, files, tun,
                  disconnects, overlap, late>>
  BY DEF SeesCancel, FindsTun, NotCancelled, Expires, EmitsFailure
<1>2. TypeOK' /\ \A j \in Call : Active(j)' => Active(j)
  BY DEF TypeOK, Active, SeesCancel, FindsTun, NotCancelled, Expires, EmitsFailure, Moves, plugin
<1>3. IdleIsEmpty' /\ WatchesProc' /\ NoLeakedConfig' /\ NoOrphan'
  BY <1>1 DEF IdleIsEmpty, WatchesProc, NoLeakedConfig, NoOrphan, Alive, plugin
<1>4. ASSUME ~overlap', ~late' PROVE OneWatcher' /\ OneWaiter'
  BY <1>1, <1>2, <1>4 DEF OneWatcher, OneWaiter, plugin
<1> QED
  BY <1>2, <1>3, <1>4

(* A process that moves on was alive before. *)
LEMMA ProcessKeeps ==
  ASSUME IInv, NEW i \in Call, ReadsConfig(i) \/ MakesTun(i) \/ Exits(i)
  PROVE  IInv'
<1> USE DEF IInv
<1>1. UNCHANGED <<plugin, cancelled, watcher, waiters, signalled, files,
                  disconnects, overlap, late>>
  BY DEF ReadsConfig, MakesTun, Exits
<1>2. TypeOK' /\ \A j \in Call : Alive(j)' => Alive(j)
  BY DEF TypeOK, Alive, ReadsConfig, MakesTun, Exits, Ends, plugin
<1>3. IdleIsEmpty' /\ WatchesProc' /\ NoLeakedConfig' /\ NoOrphan'
  BY <1>1, <1>2 DEF IdleIsEmpty, WatchesProc, NoLeakedConfig, NoOrphan, plugin
<1>4. ASSUME ~overlap', ~late' PROVE OneWatcher' /\ OneWaiter'
  BY <1>1, <1>4 DEF OneWatcher, OneWaiter, Active, plugin
<1> QED
  BY <1>2, <1>3, <1>4

(* Every step keeps the inductive invariant. *)
LEMMA StepInv == IInv /\ [Next]_vars => IInv'
<1> SUFFICES ASSUME IInv, [Next]_vars PROVE IInv'
  OBVIOUS
<1>1. CASE ConnectFails
  BY <1>1, ConnectFailsKeeps
<1>2. CASE Disconnect
  BY <1>2, DisconnectKeeps
<1>3. ASSUME NEW i \in Call, Connect(i) PROVE IInv'
  BY <1>3, ConnectKeeps
<1>4. ASSUME NEW i \in Call, WaiterStops(i) PROVE IInv'
  BY <1>4, WaiterKeeps
<1>5. ASSUME NEW i \in Call, GivesUp(i) \/ Reports(i) \/ SeesEnd(i) PROVE IInv'
  BY <1>5, WatcherKeeps
<1>6. ASSUME NEW i \in Call, \/ SeesCancel(i) \/ FindsTun(i) \/ NotCancelled(i)
                             \/ Expires(i) \/ EmitsFailure(i)
      PROVE  IInv'
  BY <1>6, LooksKeep
<1>7. ASSUME NEW i \in Call, ReadsConfig(i) \/ MakesTun(i) \/ Exits(i) PROVE IInv'
  BY <1>7, ProcessKeeps
<1>8. CASE UNCHANGED vars
  BY <1>8 DEF IInv, TypeOK, IdleIsEmpty, WatchesProc, NoLeakedConfig, NoOrphan,
              OneWatcher, OneWaiter, Alive, Active, vars, plugin
<1> QED
  BY <1>1, <1>2, <1>3, <1>4, <1>5, <1>6, <1>7, <1>8 DEF Next

LEMMA Inductive == Spec => []IInv
  BY InitInv, StepInv, PTL DEF Spec

(* Every variable keeps its type, for any number of connections. *)
THEOREM TypeCorrect == Spec => []TypeOK
<1>1. IInv => TypeOK
  BY DEF IInv
<1> QED
  BY <1>1, Inductive, PTL

(* A client that runs and was not told to end is the one the next          *)
(* Disconnect stops (plugin.go:179), unless calls or watchers overlap a stop.*)
THEOREM NoClientLost == Spec => []NoOrphan
<1>1. IInv => NoOrphan
  BY DEF IInv
<1> QED
  BY <1>1, Inductive, PTL

(* No configuration with its private key stays on disk but that of the     *)
(* current connection, unless calls overlap a stop.                        *)
THEOREM NoConfigLeaks == Spec => []NoLeakedConfig
<1>1. IInv => NoLeakedConfig
  BY DEF IInv
<1> QED
  BY <1>1, Inductive, PTL
=============================================================================
