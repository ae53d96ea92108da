------------------------ MODULE ServerSessions_proofs ------------------------
(***************************************************************************)
(* Proofs about the server's sessions, for all sessions and clients.       *)
(***************************************************************************)
EXTENDS ServerSessions, TLAPS

(* The holder of sessionsMu is the onAuth in its critical section.         *)
LockInv == \A s \in Session :
    auth[s] \in {"mux", "coalescer", "pipes", "register"} <=> mu = s

(* What the critical section knows of the map: it changes it alone.        *)
KickInv == \A s \in Session :
    /\ auth[s] = "mux" => old[s] = active[ClientOf[s]] /\ old[s] # None
    /\ auth[s] \in {"coalescer", "pipes"} =>
          old[s] = active[ClientOf[s]] /\ old[s] # None /\ old[s] \in muxDone
    /\ auth[s] = "register" =>
          active[ClientOf[s]] = None \/ active[ClientOf[s]] \in muxDone

(* A session is in the map, or kicked, only when it has been registered.   *)
DoneInv ==
    /\ \A s \in Session : handler[s] # "none" => auth[s] = "done"
    /\ \A c \in Client : active[c] # None => auth[active[c]] = "done"
    /\ \A s \in Session : old[s] # None => auth[old[s]] = "done"

(* Once closeSession is through, the pipes of the kicked session are shut. *)
CutInv == \A s \in Session :
    auth[s] \in {"register", "done"} /\ old[s] # None => old[s] \notin pipe1 \cup pipe2

IInv == TypeOK /\ LockInv /\ KickInv /\ DoneInv /\ CutInv /\ LiveIsActive

LEMMA InvInit == Init => IInv
<1> SUFFICES ASSUME Init PROVE IInv
  OBVIOUS
<1> USE SessionsAssumption
<1>1. TypeOK
  BY DEF Init, TypeOK
<1>2. LockInv /\ KickInv /\ DoneInv /\ CutInv /\ LiveIsActive
  BY DEF Init, LockInv, KickInv, DoneInv, CutInv, LiveIsActive, Live
<1> QED BY <1>1, <1>2 DEF IInv

LEMMA InvStep == IInv /\ [Next]_vars => IInv'
<1> SUFFICES ASSUME IInv, [Next]_vars PROVE IInv'
  OBVIOUS
<1> USE SessionsAssumption
<1>0. TypeOK /\ LockInv /\ KickInv /\ DoneInv /\ CutInv /\ LiveIsActive
  BY DEF IInv
<1>1. ASSUME NEW s \in Session, Arrive(s) PROVE IInv'
  <2>1. TypeOK'
    BY <1>0, <1>1 DEF Arrive, TypeOK
  <2>2. LockInv' /\ KickInv' /\ DoneInv' /\ CutInv' /\ LiveIsActive'
    BY <1>0, <1>1 DEF Arrive, TypeOK, LockInv, KickInv, DoneInv, CutInv, LiveIsActive, Live
  <2> QED BY <2>1, <2>2 DEF IInv
<1>2. ASSUME NEW s \in Session, AuthLocks(s) PROVE IInv'
  <2>1. /\ active[ClientOf[s]] \in Session \cup {None} /\ auth[s] = "wait" /\ mu' = s
        /\ mu = None /\ old' = [old EXCEPT ![s] = active[ClientOf[s]]]
        /\ auth' = [auth EXCEPT ![s] = IF active[ClientOf[s]] = None THEN "register" ELSE "mux"]
        /\ UNCHANGED <<active, muxDone, coalClosed, coalMu, pipe1, pipe2, monitor,
                       handler, down, up>>
    BY <1>0, <1>2 DEF AuthLocks, TypeOK
  <2>2. TypeOK'
    BY <1>0, <2>1 DEF TypeOK
  <2>3. LockInv'
    BY <1>0, <2>1 DEF TypeOK, LockInv
  <2>4. KickInv'
    BY <1>0, <2>1 DEF TypeOK, KickInv
  <2>5. DoneInv'
    BY <1>0, <2>1 DEF TypeOK, DoneInv
  <2>6. CutInv'
    BY <1>0, <2>1 DEF TypeOK, CutInv
  <2>7. LiveIsActive'
    BY <1>0, <2>1 DEF TypeOK, LiveIsActive, Live
  <2> QED BY <2>2, <2>3, <2>4, <2>5, <2>6, <2>7 DEF IInv
<1>3. ASSUME NEW s \in Session, CloseMux(s) PROVE IInv'
  <2>1. TypeOK'
    BY <1>0, <1>3 DEF CloseMux, TypeOK, KickInv
  <2>2. LockInv' /\ KickInv'
    BY <1>0, <1>3 DEF CloseMux, TypeOK, LockInv, KickInv
  <2>3. DoneInv' /\ CutInv' /\ LiveIsActive'
    BY <1>0, <1>3 DEF CloseMux, TypeOK, DoneInv, CutInv, LiveIsActive, Live
  <2> QED BY <2>1, <2>2, <2>3 DEF IInv
<1>4. ASSUME NEW s \in Session, CloseCoalescer(s) PROVE IInv'
  <2>1. TypeOK'
    BY <1>0, <1>4 DEF CloseCoalescer, TypeOK, KickInv
  <2>2. LockInv' /\ KickInv'
    BY <1>0, <1>4 DEF CloseCoalescer, TypeOK, LockInv, KickInv
  <2>3. DoneInv' /\ CutInv' /\ LiveIsActive'
    BY <1>0, <1>4 DEF CloseCoalescer, TypeOK, DoneInv, CutInv, LiveIsActive, Live
  <2> QED BY <2>1, <2>2, <2>3 DEF IInv
<1>5. ASSUME NEW s \in Session, ClosePipes(s) PROVE IInv'
  <2>1. TypeOK'
    BY <1>0, <1>5 DEF ClosePipes, TypeOK
  <2>2. LockInv' /\ KickInv'
    BY <1>0, <1>5 DEF ClosePipes, TypeOK, LockInv, KickInv
  <2>3. DoneInv' /\ LiveIsActive'
    BY <1>0, <1>5 DEF ClosePipes, TypeOK, DoneInv, LiveIsActive, Live
  <2>4. CutInv'
    BY <1>0, <1>5 DEF ClosePipes, TypeOK, CutInv
  <2> QED BY <2>1, <2>2, <2>3, <2>4 DEF IInv
<1>6. ASSUME NEW s \in Session, Register(s) PROVE IInv'
  <2>1. TypeOK'
    BY <1>0, <1>6 DEF Register, TypeOK
  <2>2. LockInv' /\ KickInv'
    BY <1>0, <1>6 DEF Register, TypeOK, LockInv, KickInv
  <2>3. DoneInv'
    BY <1>0, <1>6 DEF Register, TypeOK, DoneInv
  <2>4. CutInv'
    <3> SUFFICES ASSUME NEW r \in Session, auth'[r] \in {"register", "done"}, old[r] # None
                 PROVE old[r] \notin pipe1' \cup pipe2'
      BY <1>6 DEF Register, CutInv
    <3>1. old[r] # s /\ auth[r] \in {"register", "done"}
      BY <1>0, <1>6 DEF Register, TypeOK, DoneInv
    <3> QED BY <1>0, <1>6, <3>1 DEF Register, CutInv
  <2>5. LiveIsActive'
    <3> SUFFICES ASSUME NEW r \in Session, handler'[r] # "none", r \notin muxDone
                 PROVE active'[ClientOf[r]] = r
      BY <1>6 DEF Register, LiveIsActive, Live
    <3>1. CASE r = s
      BY <1>0, <1>6, <3>1 DEF Register, TypeOK
    <3>2. CASE r # s
      <4>1. active[ClientOf[r]] = r
        BY <1>0, <1>6, <3>2 DEF Register, TypeOK, LiveIsActive, Live
      <4>2. ClientOf[r] # ClientOf[s]
        BY <1>0, <1>6, <4>1 DEF Register, KickInv
      <4> QED BY <1>0, <1>6, <4>1, <4>2 DEF Register, TypeOK
    <3> QED BY <3>1, <3>2
  <2> QED BY <2>1, <2>2, <2>3, <2>4, <2>5 DEF IInv
<1>7. ASSUME NEW s \in Session, MonitorRuns(s) PROVE IInv'
  <2>0. \A c \in Client : active'[c] = active[c] \/ (active[c] = s /\ active'[c] = None)
    <3>1. active' = [active EXCEPT ![ClientOf[s]] =
                        IF active[ClientOf[s]] = s THEN None ELSE active[ClientOf[s]]]
      BY <1>7 DEF MonitorRuns
    <3> QED BY <1>0, <3>1 DEF TypeOK
  <2>1. /\ s \in muxDone /\ mu = None
        /\ \A c \in Client : active'[c] = active[c] \/ (active[c] = s /\ active'[c] = None)
        /\ UNCHANGED <<mu, auth, old, muxDone, coalClosed, coalMu, pipe1, pipe2,
                       handler, down, up>>
    BY <1>7, <2>0 DEF MonitorRuns
  <2>2. TypeOK'
    BY <1>0, <1>7 DEF MonitorRuns, TypeOK
  <2>3. LockInv' /\ CutInv'
    BY <1>0, <2>1 DEF LockInv, CutInv
  <2>4. KickInv'
    BY <1>0, <2>1 DEF LockInv, KickInv
  <2>5. DoneInv'
    BY <1>0, <2>1 DEF DoneInv
  <2>6. LiveIsActive'
    BY <1>0, <2>1 DEF LiveIsActive, Live
  <2> QED BY <2>2, <2>3, <2>4, <2>5, <2>6 DEF IInv
<1>8. ASSUME NEW s \in Session, MuxEnds(s) \/ PingTimeout(s) PROVE IInv'
  <2>1. muxDone' = muxDone \cup {s}
        /\ UNCHANGED <<mu, active, auth, old, coalClosed, coalMu, pipe1, pipe2,
                       monitor, handler, down, up>>
    BY <1>8 DEF MuxEnds, PingTimeout
  <2>2. TypeOK' /\ LockInv' /\ KickInv' /\ DoneInv' /\ CutInv' /\ LiveIsActive'
    BY <1>0, <2>1 DEF TypeOK, LockInv, KickInv, DoneInv, CutInv, LiveIsActive, Live
  <2> QED BY <2>2 DEF IInv
<1>9. ASSUME NEW s \in Session, Flush(s) \/ PipeRead(s) \/ PipeRefuses(s) \/ HTTPWritten(s)
                                \/ DownExits(s) \/ UpExits(s)
      PROVE IInv'
  <2>1. UNCHANGED <<mu, active, auth, old, muxDone, pipe1, pipe2, handler>>
    BY <1>9 DEF Flush, PipeRead, PipeRefuses, HTTPWritten, DownExits, UpExits
  <2>2. TypeOK'
    BY <1>0, <1>9 DEF TypeOK, Flush, PipeRead, PipeRefuses, HTTPWritten, WriteEnds, DownExits, UpExits
  <2>3. LockInv' /\ KickInv' /\ DoneInv' /\ CutInv' /\ LiveIsActive'
    BY <1>0, <2>1 DEF LockInv, KickInv, DoneInv, CutInv, LiveIsActive, Live
  <2> QED BY <2>2, <2>3 DEF IInv
<1>10. ASSUME NEW s \in Session, SendMsg2(s) \/ BridgeReturns(s) PROVE IInv'
  <2>1. /\ pipe1' \subseteq pipe1 /\ pipe2' \subseteq pipe2
        /\ handler[s] # "none" /\ \A r \in Session : r # s => handler'[r] = handler[r]
        /\ UNCHANGED <<mu, active, auth, old, muxDone>>
    BY <1>0, <1>10 DEF SendMsg2, BridgeReturns, TypeOK
  <2>2. TypeOK'
    BY <1>0, <1>10 DEF TypeOK, SendMsg2, BridgeReturns
  <2>3. LockInv' /\ KickInv' /\ DoneInv' /\ CutInv'
    BY <1>0, <2>1 DEF LockInv, KickInv, DoneInv, CutInv
  <2>4. LiveIsActive'
    BY <1>0, <2>1 DEF LiveIsActive, Live
  <2> QED BY <2>2, <2>3, <2>4 DEF IInv
<1>11. CASE UNCHANGED vars
  BY <1>0, <1>11 DEF vars, IInv, TypeOK, LockInv, KickInv, DoneInv, CutInv,
     LiveIsActive, Live
<1> QED
  BY <1>1, <1>2, <1>3, <1>4, <1>5, <1>6, <1>7, <1>8, <1>9, <1>10, <1>11 DEF Next

LEMMA Inductive == Spec => []IInv
<1> QED BY InvInit, InvStep, PTL DEF Spec

(* Every variable keeps its type.                                          *)
THEOREM TypeCorrect == Spec => []TypeOK
<1>1. IInv => TypeOK
  BY DEF IInv
<1> QED BY Inductive, <1>1, PTL

(* A session whose mux runs is the one its client's next login will kick.  *)
THEOREM LiveFound == Spec => []LiveIsActive
<1>1. IInv => LiveIsActive
  BY DEF IInv
<1> QED BY Inductive, <1>1, PTL

(* No client ever has two sessions whose mux runs.                         *)
THEOREM OneLive == Spec => []OneLivePerClient
<1>1. IInv => OneLivePerClient
  BY DEF IInv, LiveIsActive, OneLivePerClient
<1> QED BY Inductive, <1>1, PTL

(* A new session starts only when the pipes of the kicked one are closed,  *)
(* and they stay closed.                                                   *)
THEOREM KickCuts == Spec => []KickedIsCut
<1>1. IInv => KickedIsCut
  BY DEF IInv, CutInv, KickedIsCut
<1> QED BY Inductive, <1>1, PTL
=============================================================================
