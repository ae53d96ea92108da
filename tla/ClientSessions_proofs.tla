------------------------- MODULE ClientSessions_proofs -------------------------
(***************************************************************************)
(* Whatever the two loops do at the same time, there is one session open   *)
(* for use, and it is the one the pointer names.                           *)
(***************************************************************************)
EXTENDS ClientSessions, TLAPS

(* Init establishes the inductive invariant. *)
LEMMA InitInv == Init => IInv
  BY ClientAssumption DEF Init, IInv, TypeOK, OneReady, Owned, TryLeft, Waiting, IdleWriter,
                          Loop, MaxTries

(* Dialling takes a slot that no session uses. *)
LEMMA DialKeeps ==
  ASSUME IInv, NEW l \in Loop, Dial(l), UNCHANGED <<active, writer>>,
         rotations' \in 0 .. MaxRotations, faults' \in 0 .. MaxFaults
  PROVE  IInv'
<1> DEFINE s == CHOOSE u \in Session : Unused(u)
<1>1. s \in Session /\ Unused(s)
  BY DEF Dial
<1>2. /\ phase' = [phase EXCEPT ![s] = "dialing"]
      /\ net' = [net EXCEPT ![s] = "up"]
      /\ done' = done \ {s} /\ ended' = ended \ {s}
      /\ UNCHANGED <<server, held, seen>>
      /\ loop' = [loop EXCEPT ![l] = [pc |-> "establish", s |-> s]]
  BY DEF Dial
<1>3. phase[s] = "closed"
  BY <1>1 DEF Unused
<1> HIDE DEF s
<1>4. TypeOK'
  BY <1>1, <1>2 DEF IInv, TypeOK, server
<1>5. OneReady'
  BY <1>1, <1>2, <1>3 DEF IInv, TypeOK, OneReady
<1>6. Owned'
  BY <1>1, <1>2, <1>3 DEF IInv, TypeOK, Owned
<1> QED
  BY <1>4, <1>5, <1>6 DEF IInv, TryLeft

(* Swap makes the established session the active one; what was active is   *)
(* drained.  p is what the loop goes on with.                              *)
LEMMA SwapKeeps ==
  ASSUME IInv, NEW l \in Loop, Swap(l),
         NEW p \in [pc : {"wait", "closing"}, s : Session],
         phase' = [phase EXCEPT ![loop[l].s] = "ready", ![active] = "draining"],
         loop' = [loop EXCEPT ![l] = p],
         UNCHANGED <<net, server, done, ended, held, seen, writer, rotations, faults>>
  PROVE  IInv'
<1> DEFINE s == loop[l].s
<1>1. /\ s \in Session /\ phase[s] = "authed" /\ active' = s
      /\ loop[l].pc = "establish" /\ s # active
  BY DEF IInv, TypeOK, OneReady, Swap
<1>2. TypeOK'
  BY <1>1 DEF IInv, TypeOK, server
<1>3. OneReady'
  BY <1>1 DEF IInv, TypeOK, OneReady
<1>4. Owned'
  <2>1. p.pc # "establish"
    OBVIOUS
  <2>2. ASSUME NEW m \in Loop, loop'[m].pc = "establish"
        PROVE  m # l /\ loop'[m] = loop[m] /\ loop[m].s # s /\ loop[m].s # active
    BY <1>1, <2>1, <2>2 DEF IInv, TypeOK, OneReady, Owned
  <2> QED
    BY <1>1, <2>2 DEF IInv, TypeOK, Owned
<1> QED
  BY <1>2, <1>3, <1>4 DEF IInv, TryLeft, Swap

(* A failed establish() gives its slot back. *)
LEMMA FailKeeps ==
  ASSUME IInv, NEW l \in Loop, EstablishFails(l)
  PROVE  IInv'
<1> DEFINE s == loop[l].s
<1>1. /\ s \in Session /\ phase[s] \in {"dialing", "authed"}
      /\ loop[l].pc = "establish" /\ s # active
  BY DEF IInv, TypeOK, OneReady, Owned, EstablishFails
<1>2. /\ phase' = [phase EXCEPT ![s] = "closed"]
      /\ net' = [net EXCEPT ![s] = "dead"]
      /\ live' = live \ {s} /\ lapsed' = lapsed \ {s}
      /\ done' = done \cup {s} /\ ended' = ended \cup {s} /\ held' = held \ {s}
      /\ loop' = [loop EXCEPT ![l] = [pc |-> "wait", s |-> First]]
      /\ UNCHANGED <<active, seen, writer, rotations, faults>>
  BY DEF EstablishFails, Waiting
<1>3. TypeOK'
  BY <1>1, <1>2, ClientAssumption DEF IInv, TypeOK
<1>4. OneReady'
  BY <1>1, <1>2 DEF IInv, TypeOK, OneReady
<1>5. Owned'
  <2>1. ASSUME NEW m \in Loop, loop'[m].pc = "establish"
        PROVE  m # l /\ loop'[m] = loop[m] /\ loop[m].s # s
    BY <1>1, <1>2, <2>1 DEF IInv, TypeOK, Owned
  <2> QED
    BY <1>1, <1>2, <2>1 DEF IInv, TypeOK, Owned
<1> QED
  BY <1>2, <1>3, <1>4, <1>5 DEF IInv, TryLeft

(* Every step keeps the inductive invariant. *)
LEMMA StepInv == IInv /\ [Next]_vars => IInv'
<1> SUFFICES ASSUME IInv, [Next]_vars PROVE IInv'
  OBVIOUS
<1> USE DEF IInv, server
<1>1. ASSUME NEW s \in Session, ServerAuth(s) PROVE IInv'
  BY <1>1 DEF TypeOK, OneReady, Owned, TryLeft, ServerAuth
<1>2. ASSUME NEW s \in Session, CloseStep(s) PROVE IInv'
  <2>1. CASE CloseStarts(s)
    BY <2>1 DEF TypeOK, OneReady, Owned, TryLeft, CloseStarts
  <2>2. CASE StreamCloses(s)
    BY <2>2 DEF TypeOK, OneReady, Owned, TryLeft, StreamCloses
  <2>3. CASE ConnCloses(s)
    BY <2>3 DEF TypeOK, OneReady, Owned, TryLeft, ConnCloses
  <2> QED
    BY <1>2, <2>1, <2>2, <2>3 DEF CloseStep
<1>3. ASSUME NEW s \in Session, MuxDies(s) \/ ServerGivesUp(s) PROVE IInv'
  BY <1>3 DEF TypeOK, OneReady, Owned, TryLeft, MuxDies, ServerGivesUp
<1>4. ASSUME NEW s \in Session, FlushBlocks(s) \/ FlushReturns(s) PROVE IInv'
  BY <1>4 DEF TypeOK, OneReady, Owned, TryLeft, FlushBlocks, FlushReturns
<1>5. ASSUME NEW s \in Session, NetFault(s) PROVE IInv'
  BY <1>5, ClientAssumption DEF TypeOK, OneReady, Owned, TryLeft, NetFault
<1>6. ASSUME NEW s \in Session, StallEnds(s) PROVE IInv'
  BY <1>6 DEF TypeOK, OneReady, Owned, TryLeft, StallEnds
<1>7. ASSUME NEW l \in Loop, EstablishFails(l) PROVE IInv'
  BY <1>7, FailKeeps
<1>8. CASE RotationStarts
  <2>1. Dial("rotation") /\ UNCHANGED <<active, writer>>
    BY <1>8 DEF RotationStarts
  <2>2. rotations' \in 0 .. MaxRotations /\ faults' \in 0 .. MaxFaults
    BY <1>8, ClientAssumption DEF TypeOK, RotationStarts
  <2> QED
    BY <2>1, <2>2, DialKeeps DEF Loop
<1>9. CASE RotationSwaps
  BY <1>9, SwapKeeps, ClientAssumption DEF RotationSwaps, Waiting, Loop
<1>10. CASE WatchdogLoads
  BY <1>10 DEF TypeOK, OneReady, Owned, TryLeft, WatchdogLoads, Loop
<1>11. CASE WatchdogChecks
  <2>1. CASE loop["watchdog"].s \in done
    <3>1. Dial("watchdog") /\ UNCHANGED <<active, writer>>
      BY <1>11, <2>1 DEF WatchdogChecks
    <3>2. rotations' \in 0 .. MaxRotations /\ faults' \in 0 .. MaxFaults
      BY <1>11 DEF TypeOK, WatchdogChecks
    <3> QED
      BY <3>1, <3>2, DialKeeps DEF Loop
  <2>2. CASE loop["watchdog"].s \notin done
    BY <1>11, <2>2, ClientAssumption
       DEF TypeOK, OneReady, Owned, TryLeft, WatchdogChecks, Waiting, Loop
  <2> QED
    BY <2>1, <2>2
<1>12. CASE WatchdogSwaps
  <2>1. [pc |-> "closing", s |-> active] \in [pc : {"wait", "closing"}, s : Session]
    BY DEF TypeOK
  <2> QED
    BY <1>12, <2>1, SwapKeeps DEF WatchdogSwaps, Loop
<1>13. CASE WatchdogClosed
  BY <1>13, ClientAssumption DEF TypeOK, OneReady, Owned, TryLeft, WatchdogClosed, Waiting, Loop
<1>14. CASE WriterStep
  <2>1. CASE WriterLoads
    BY <2>1 DEF TypeOK, OneReady, Owned, TryLeft, WriterLoads, MaxTries
  <2>2. CASE WriteSucceeds
    BY <2>2, ClientAssumption DEF TypeOK, OneReady, Owned, TryLeft, WriteSucceeds, IdleWriter, MaxTries
  <2>3. CASE WriteFails
    BY <2>3, ClientAssumption DEF TypeOK, OneReady, Owned, TryLeft, WriteFails, IdleWriter, MaxTries
  <2> QED
    BY <1>14, <2>1, <2>2, <2>3 DEF WriterStep
<1>15. CASE UNCHANGED vars
  BY <1>15 DEF TypeOK, OneReady, Owned, TryLeft, vars
<1> QED
  BY <1>1, <1>2, <1>3, <1>4, <1>5, <1>6, <1>7, <1>8, <1>9, <1>10, <1>11, <1>12,
     <1>13, <1>14, <1>15 DEF Next, CloseStep, WriterStep

(* The inductive invariant holds in every state. *)
THEOREM Inductive == Spec => []IInv
  BY InitInv, StepInv, PTL DEF Spec

(* Every variable of the client keeps its type. *)
THEOREM TypeCorrect == Spec => []TypeOK
<1>1. IInv => TypeOK
  BY DEF IInv
<1> QED
  BY Inductive, <1>1, PTL

(* Whatever the loops do at the same time, the session activeSession names *)
(* is open, and no other open session is left behind.                      *)
THEOREM OneOpenSession == Spec => []OneReady
<1>1. IInv => OneReady
  BY DEF IInv
<1> QED
  BY Inductive, <1>1, PTL
=============================================================================
