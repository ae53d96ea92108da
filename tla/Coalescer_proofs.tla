-------------------------- MODULE Coalescer_proofs --------------------------
(***************************************************************************)
(* Theorems about the coalescer, for every value of its constants.         *)
(***************************************************************************)
EXTENDS Coalescer, SequenceTheorems, TLAPS

-----------------------------------------------------------------------------
(* The size of a flush is a natural number, no less than what was buffered. *)
LEMMA FlushSizeBounds ==
    ASSUME NEW n \in Nat, NEW target \in Target
    PROVE  /\ FlushSize(n, target) \in Nat
           /\ FlushSize(n, target) >= n
           /\ FlushSize(n, target) <= n \/ FlushSize(n, target) <= target
  <1>1. target \in Nat
    BY ConfigAssumption DEF Target
  <1>2. HeaderSize \in Nat /\ MaxPayload \in Nat
    BY ConfigAssumption
  <1> QED BY <1>1, <1>2 DEF FlushSize, PadPayload

(* What a goroutine is doing after it entered inner.Write. *)
LEMMA BeginTyped ==
    ASSUME TypeOK, NEW a \in Actor, NEW fs \in Seq(Frame), NEW n \in Nat, Begin(a, fs, n)
    PROVE  /\ io' \in [Actor -> IOState]
           /\ io'[a].st = "seal" /\ io'[a].frames = fs /\ io'[a].bytes = n
           /\ \A b \in Actor : b # a => io'[b] = io[b]
  BY DEF TypeOK, Begin, IOState

LEMMA FlushLockedTyped ==
    ASSUME TypeOK, NEW a \in Actor, NEW fs \in Seq(Frame), NEW n \in Nat,
           FlushLocked(a, fs, n)
    PROVE  /\ io' \in [Actor -> IOState]
           /\ buf' = <<>> /\ buffered' = 0
           /\ io'[a].st = "seal" /\ io'[a].frames = fs
           /\ io'[a].bytes >= n
           /\ io'[a].bytes <= n \/ \E target \in Target : io'[a].bytes <= target
           /\ \A b \in Actor : b # a => io'[b] = io[b]
  <1>1. PICK target \in Target : Begin(a, fs, FlushSize(n, target))
    BY DEF FlushLocked
  <1>2. /\ FlushSize(n, target) \in Nat /\ FlushSize(n, target) >= n
        /\ FlushSize(n, target) <= n \/ FlushSize(n, target) <= target
    BY FlushSizeBounds
  <1>3. /\ io' \in [Actor -> IOState]
        /\ io'[a].st = "seal" /\ io'[a].frames = fs
        /\ io'[a].bytes = FlushSize(n, target)
        /\ \A b \in Actor : b # a => io'[b] = io[b]
    BY <1>1, <1>2, BeginTyped
  <1> QED BY <1>2, <1>3 DEF FlushLocked

LEMMA ReturnTyped ==
    ASSUME TypeOK, NEW a \in Actor, Return(a)
    PROVE  /\ io' \in [Actor -> IOState]
           /\ io'[a].st = IF a = Closer THEN "shut" ELSE "idle"
           /\ \A b \in Actor : b # a => io'[b] = io[b]
  <1>1. <<>> \in Seq(Frame)
    BY EmptySeq
  <1> QED BY <1>1 DEF TypeOK, Return, Idle, IOState

LEMMA TypeInit == Init => TypeOK
  <1> SUFFICES ASSUME Init PROVE TypeOK
    OBVIOUS
  <1>1. <<>> \in Seq(Frame) /\ <<>> \in Seq([nonce : Nat, bytes : Nat, by : Actor])
    BY EmptySeq
  <1>2. Idle \in IOState
    BY <1>1 DEF Idle, IOState
  <1>3. io \in [Actor -> IOState]
    BY <1>2 DEF Init
  <1>4. buf \in Seq(Frame) /\ accepted \in Seq(Frame) /\ sent \in Seq(Frame)
    BY <1>1 DEF Init
  <1>5. wire \in Seq([nonce : Nat, bytes : Nat, by : Actor])
    BY <1>1 DEF Init
  <1> QED BY <1>3, <1>4, <1>5 DEF Init, TypeOK

LEMMA TypeStep ==
    ASSUME TypeOK, [Next]_vars
    PROVE  TypeOK'
  <1>1. ASSUME NEW w \in Writer, NEW f \in Frame, Write(w, f) PROVE TypeOK'
    <2>1. Size[f] \in Nat /\ buffered + Size[f] \in Nat
      BY SizeAssumption DEF TypeOK
    <2>2. Append(buf, f) \in Seq(Frame) /\ Append(accepted, f) \in Seq(Frame)
      BY AppendProperties DEF TypeOK
    <2>3. w \in Actor
      BY DEF Actor
    <2>4. CASE BatchFull(buffered + Size[f])
      <3>1. StopTimer /\ FlushLocked(w, Append(buf, f), buffered + Size[f])
        BY <1>1, <2>4 DEF Write
      <3>2. io' \in [Actor -> IOState] /\ buf' = <<>> /\ buffered' = 0
        BY <3>1, <2>1, <2>2, <2>3, FlushLockedTyped
      <3> QED BY <1>1, <2>2, <3>1, <3>2 DEF Write, TypeOK, StopTimer
    <2>5. CASE ~BatchFull(buffered + Size[f])
      BY <1>1, <2>1, <2>2, <2>5 DEF Write, TypeOK
    <2> QED BY <2>4, <2>5
  <1>2. ASSUME NEW t \in TimerId, TimerFires(t) PROVE TypeOK'
    BY <1>2 DEF TimerFires, TypeOK
  <1>3. ASSUME NEW t \in TimerId, TimerFlush(t) PROVE TypeOK'
    <2>1. t \in Actor
      BY DEF Actor
    <2>2. io' \in [Actor -> IOState] /\ buf' \in Seq(Frame) /\ buffered' \in Nat
      <3>1. CASE closed \/ buffered = 0
        BY <1>3, <3>1 DEF TimerFlush, TypeOK
      <3>2. CASE ~(closed \/ buffered = 0)
        <4>1. FlushLocked(t, buf, buffered) /\ buf \in Seq(Frame) /\ buffered \in Nat
          BY <1>3, <3>2 DEF TimerFlush, TypeOK
        <4>2. io' \in [Actor -> IOState] /\ buf' = <<>> /\ buffered' = 0
          BY <2>1, <4>1, FlushLockedTyped
        <4> QED BY <4>2, EmptySeq
      <3> QED BY <3>1, <3>2
    <2> QED BY <1>3, <2>2 DEF TimerFlush, TypeOK
  <1>4. ASSUME CoverTick PROVE TypeOK'
    <2>1. Cover \in Actor /\ <<>> \in Seq(Frame)
      BY EmptySeq DEF Actor
    <2>2. CASE buffered # 0
      BY <1>4, <2>2 DEF CoverTick, TypeOK
    <2>3. CASE buffered = 0
      <3>1. FlushLocked(Cover, <<>>, 0) /\ StopTimer /\ covers' = covers + 1
        BY <1>4, <2>3 DEF CoverTick
      <3>2. io' \in [Actor -> IOState] /\ buf' = <<>> /\ buffered' = 0
        BY <2>1, <3>1, FlushLockedTyped
      <3>3. covers' \in Nat
        BY <3>1 DEF TypeOK
      <3> QED BY <1>4, <2>1, <3>1, <3>2, <3>3 DEF CoverTick, StopTimer, TypeOK
    <2> QED BY <2>2, <2>3
  <1>5. ASSUME Close PROVE TypeOK'
    <2>1. Closer \in Actor /\ <<>> \in Seq(Frame)
      BY EmptySeq DEF Actor
    <2>2. io' \in [Actor -> IOState]
      <3>1. CASE buffered # 0
        BY <1>5, <2>1, <3>1, BeginTyped DEF Close, TypeOK
      <3>2. CASE buffered = 0
        BY <1>5, <2>1, <3>2 DEF Close, TypeOK, IOState
      <3> QED BY <3>1, <3>2
    <2> QED BY <1>5, <2>1, <2>2 DEF Close, StopTimer, TypeOK
  <1>6. ASSUME InnerClose PROVE TypeOK'
    <2>1. Idle \in IOState
      BY EmptySeq DEF Idle, IOState
    <2> QED BY <1>6, <2>1 DEF InnerClose, TypeOK
  <1>7. ASSUME TransportFails PROVE TypeOK'
    BY <1>7 DEF TransportFails, TypeOK
  <1>8. ASSUME NEW a \in Actor, Seal(a) PROVE TypeOK'
    <2>1. io' \in [Actor -> IOState] /\ nonce' \in Nat
      <3>1. CASE io[a].bytes = 0 \/ io[a].bytes > MaxSealedPayload
        BY <1>8, <3>1, ReturnTyped DEF Seal, TypeOK
      <3>2. CASE ~(io[a].bytes = 0 \/ io[a].bytes > MaxSealedPayload)
        <4>1. io' = [io EXCEPT ![a].st = "send", ![a].nonce = nonce] /\ nonce' = nonce + 1
          BY <1>8, <3>2 DEF Seal
        <4>2. [io[a] EXCEPT !.st = "send", !.nonce = nonce] \in IOState
          BY DEF TypeOK, IOState
        <4>3. io' = [io EXCEPT ![a] = [io[a] EXCEPT !.st = "send", !.nonce = nonce]]
          BY <4>1 DEF TypeOK
        <4> QED BY <4>1, <4>2, <4>3 DEF TypeOK
      <3> QED BY <3>1, <3>2
    <2> QED BY <1>8, <2>1 DEF Seal, TypeOK
  <1>9. ASSUME NEW a \in Actor, Deliver(a) PROVE TypeOK'
    <2>1. io[a] \in IOState
      BY DEF TypeOK
    <2>2. wire' \in Seq([nonce : Nat, bytes : Nat, by : Actor])
      BY <1>9, <2>1, AppendProperties DEF Deliver, TypeOK, IOState
    <2>3. sent' \in Seq(Frame)
      BY <1>9, <2>1, ConcatProperties DEF Deliver, TypeOK, IOState
    <2>4. io' \in [Actor -> IOState]
      BY <1>9, ReturnTyped DEF Deliver
    <2> QED BY <1>9, <2>2, <2>3, <2>4 DEF Deliver, TypeOK
  <1>10. ASSUME NEW a \in Actor, Refuse(a) PROVE TypeOK'
    BY <1>10, ReturnTyped DEF Refuse, TypeOK
  <1>11. CASE UNCHANGED vars
    BY <1>11 DEF vars, TypeOK
  <1> QED BY <1>1, <1>2, <1>3, <1>4, <1>5, <1>6, <1>7, <1>8, <1>9, <1>10, <1>11 DEF Next

(* Every variable keeps its type. *)
THEOREM TypeCorrect == Spec => []TypeOK
  BY TypeInit, TypeStep, PTL DEF Spec

-----------------------------------------------------------------------------
(* The timers: what the batch holds will be flushed.                       *)

LEMMA TimerStep ==
    ASSUME TypeOK, TimerRef, NothingStranded, [Next]_vars
    PROVE  TimerRef' /\ NothingStranded'
  <1>1. ASSUME NEW w \in Writer, NEW f \in Frame, Write(w, f) PROVE TimerRef' /\ NothingStranded'
    <2>1. CASE BatchFull(buffered + Size[f])
      BY <1>1, <2>1 DEF Write, FlushLocked, StopTimer, TimerRef, NothingStranded
    <2>2. CASE ~BatchFull(buffered + Size[f])
      BY <1>1, <2>2, ActorAssumption DEF Write, TimerRef, NothingStranded, TypeOK
    <2> QED BY <2>1, <2>2
  <1>2. ASSUME NEW t \in TimerId, TimerFires(t) PROVE TimerRef' /\ NothingStranded'
    BY <1>2 DEF TimerFires, TimerRef, NothingStranded
  <1>3. ASSUME NEW t \in TimerId, TimerFlush(t) PROVE TimerRef' /\ NothingStranded'
    BY <1>3 DEF TimerFlush, FlushLocked, TimerRef, NothingStranded
  <1>4. ASSUME CoverTick PROVE TimerRef' /\ NothingStranded'
    BY <1>4 DEF CoverTick, FlushLocked, StopTimer, TimerRef, NothingStranded
  <1>5. ASSUME Close PROVE TimerRef' /\ NothingStranded'
    BY <1>5 DEF Close, StopTimer, TimerRef, NothingStranded
  <1>6. ASSUME InnerClose PROVE TimerRef' /\ NothingStranded'
    BY <1>6 DEF InnerClose, TimerRef, NothingStranded
  <1>7. ASSUME TransportFails PROVE TimerRef' /\ NothingStranded'
    BY <1>7 DEF TransportFails, TimerRef, NothingStranded
  <1>8. ASSUME NEW a \in Actor, Seal(a) PROVE TimerRef' /\ NothingStranded'
    BY <1>8 DEF Seal, TimerRef, NothingStranded
  <1>9. ASSUME NEW a \in Actor, Deliver(a) PROVE TimerRef' /\ NothingStranded'
    BY <1>9 DEF Deliver, TimerRef, NothingStranded
  <1>10. ASSUME NEW a \in Actor, Refuse(a) PROVE TimerRef' /\ NothingStranded'
    BY <1>10 DEF Refuse, TimerRef, NothingStranded
  <1>11. CASE UNCHANGED vars
    BY <1>11 DEF vars, TimerRef, NothingStranded
  <1> QED BY <1>1, <1>2, <1>3, <1>4, <1>5, <1>6, <1>7, <1>8, <1>9, <1>10, <1>11 DEF Next

(* No frame is stranded in the batch: whatever stale timers do to c.timer, *)
(* data in an open connection has a timer armed or a flush on its way.     *)
THEOREM TimersKeepData == Spec => []NothingStranded
  <1>1. Init => TimerRef /\ NothingStranded
    BY DEF Init, TimerRef, NothingStranded
  <1>2. TypeOK /\ TimerRef /\ NothingStranded /\ [Next]_vars => TimerRef' /\ NothingStranded'
    BY TimerStep
  <1> QED BY <1>1, <1>2, TypeCorrect, PTL DEF Spec

-----------------------------------------------------------------------------
(* c.mu: one goroutine at a time is inside inner.Write.                    *)

(* A goroutine that gets c.mu and enters inner.Write ... *)
LEMMA Enters ==
    ASSUME TypeOK, Mutex, AfterClose, ~Locked, ~closed,
           NEW a \in Actor, io' \in [Actor -> IOState], io'[a].st = "seal",
           \A b \in Actor : b # a => io'[b] = io[b],
           buf' = <<>>, transport' = transport,
           closed' = (a = Closer)
    PROVE  Mutex' /\ AfterClose'
  <1>1. \A b \in Actor : ~InWrite(b)
    BY DEF Locked, InWrite
  <1>2. \A b \in Actor : InWrite(b)' => b = a
    BY <1>1 DEF InWrite
  <1>3. Mutex'
    BY <1>2 DEF Mutex
  <1>4. \A b \in Actor \ {Closer} : io'[b].st # "shut"
    BY DEF AfterClose
  <1>5. a # Closer => io'[Closer].st = "idle"
    BY ActorAssumption DEF AfterClose, Actor
  <1>6. transport' # "shut"
    BY DEF AfterClose
  <1> QED BY <1>2, <1>3, <1>4, <1>5, <1>6 DEF AfterClose

(* ... and one that leaves it. *)
LEMMA Leaves ==
    ASSUME TypeOK, Mutex, AfterClose,
           NEW a \in Actor, InWrite(a), Return(a),
           buf' = buf, transport' = transport, closed' = closed
    PROVE  Mutex' /\ AfterClose' /\ \A b \in Actor : ~InWrite(b)'
  <1>1. /\ io'[a].st = IF a = Closer THEN "shut" ELSE "idle"
        /\ \A b \in Actor : b # a => io'[b] = io[b]
    BY ReturnTyped
  <1>2. \A b \in Actor : ~InWrite(b)'
    BY <1>1 DEF Mutex, InWrite
  <1>3. Mutex'
    BY <1>2 DEF Mutex
  <1>4. a = Closer => closed
    BY DEF AfterClose, InWrite
  <1>5. a # Closer => io'[Closer] = io[Closer]
    BY <1>1 DEF Actor
  <1> QED BY <1>1, <1>2, <1>3, <1>4, <1>5 DEF AfterClose

LEMMA MutexStep ==
    ASSUME TypeOK, Mutex, AfterClose, [Next]_vars
    PROVE  Mutex' /\ AfterClose'
  <1>1. ASSUME NEW w \in Writer, NEW f \in Frame, Write(w, f) PROVE Mutex' /\ AfterClose'
    <2>1. w \in Actor /\ w # Closer /\ ~Locked /\ ~closed
      BY <1>1, ActorAssumption DEF Write, Actor
    <2>2. CASE BatchFull(buffered + Size[f])
      <3>1. /\ FlushLocked(w, Append(buf, f), buffered + Size[f])
            /\ transport' = transport /\ closed' = closed
        BY <1>1, <2>2 DEF Write
      <3>2. Append(buf, f) \in Seq(Frame) /\ buffered + Size[f] \in Nat
        BY AppendProperties, SizeAssumption DEF TypeOK
      <3>3. /\ io' \in [Actor -> IOState] /\ buf' = <<>> /\ io'[w].st = "seal"
            /\ \A b \in Actor : b # w => io'[b] = io[b]
        BY <2>1, <3>1, <3>2, FlushLockedTyped
      <3>4. closed' = (w = Closer)
        BY <2>1, <3>1 DEF TypeOK
      <3> QED BY <2>1, <3>1, <3>3, <3>4, Enters
    <2>3. CASE ~BatchFull(buffered + Size[f])
      <3>1. \A b \in Actor : ~InWrite(b)
        BY <2>1 DEF Locked, InWrite
      <3> QED BY <1>1, <2>3, <2>1, <3>1 DEF Write, Mutex, AfterClose, InWrite
    <2> QED BY <2>2, <2>3
  <1>2. ASSUME NEW t \in TimerId, TimerFires(t) PROVE Mutex' /\ AfterClose'
    BY <1>2 DEF TimerFires, Mutex, AfterClose, InWrite
  <1>3. ASSUME NEW t \in TimerId, TimerFlush(t) PROVE Mutex' /\ AfterClose'
    <2>1. t \in Actor /\ t # Closer /\ ~Locked
      BY <1>3, ActorAssumption DEF TimerFlush, Actor
    <2>2. CASE closed \/ buffered = 0
      BY <1>3, <2>2 DEF TimerFlush, Mutex, AfterClose, InWrite
    <2>3. CASE ~(closed \/ buffered = 0)
      <3>1. /\ FlushLocked(t, buf, buffered) /\ buf \in Seq(Frame) /\ buffered \in Nat
            /\ transport' = transport /\ closed' = closed
        BY <1>3, <2>3 DEF TimerFlush, TypeOK
      <3>2. /\ io' \in [Actor -> IOState] /\ buf' = <<>> /\ io'[t].st = "seal"
            /\ \A b \in Actor : b # t => io'[b] = io[b]
        BY <2>1, <3>1, FlushLockedTyped
      <3>3. closed' = (t = Closer)
        BY <2>1, <2>3, <3>1 DEF TypeOK
      <3> QED BY <2>1, <2>3, <3>1, <3>2, <3>3, Enters
    <2> QED BY <2>2, <2>3
  <1>4. ASSUME CoverTick PROVE Mutex' /\ AfterClose'
    <2>1. Cover \in Actor /\ Cover # Closer /\ ~Locked /\ ~closed
      BY <1>4, ActorAssumption DEF CoverTick, Actor
    <2>2. CASE buffered # 0
      BY <1>4, <2>2 DEF CoverTick, Mutex, AfterClose, InWrite
    <2>3. CASE buffered = 0
      <3>1. FlushLocked(Cover, <<>>, 0) /\ transport' = transport /\ closed' = closed
        BY <1>4, <2>3 DEF CoverTick
      <3>2. /\ io' \in [Actor -> IOState] /\ buf' = <<>> /\ io'[Cover].st = "seal"
            /\ \A b \in Actor : b # Cover => io'[b] = io[b]
        BY <2>1, <3>1, FlushLockedTyped, EmptySeq
      <3>3. closed' = (Cover = Closer)
        BY <2>1, <3>1 DEF TypeOK
      <3> QED BY <2>1, <3>1, <3>2, <3>3, Enters
    <2> QED BY <2>2, <2>3
  <1>5. ASSUME Close PROVE Mutex' /\ AfterClose'
    <2>1. /\ Closer \in Actor /\ ~Locked /\ ~closed /\ closed'
          /\ buf' = <<>> /\ transport' = transport
      BY <1>5 DEF Close, Actor
    <2>2. CASE buffered # 0
      <3>1. Begin(Closer, buf, buffered) /\ buf \in Seq(Frame) /\ buffered \in Nat
        BY <1>5, <2>2 DEF Close, TypeOK
      <3>2. /\ io' \in [Actor -> IOState] /\ io'[Closer].st = "seal"
            /\ \A b \in Actor : b # Closer => io'[b] = io[b]
        BY <2>1, <3>1, BeginTyped
      <3>3. closed' = (Closer = Closer)
        BY <1>5 DEF Close
      <3> QED BY <2>1, <3>2, <3>3, Enters
    <2>3. CASE buffered = 0
      <3>1. io' = [io EXCEPT ![Closer].st = "shut"]
        BY <1>5, <2>3 DEF Close
      <3>2. \A b \in Actor : ~InWrite(b) /\ ~InWrite(b)'
        BY <2>1, <3>1 DEF Locked, InWrite, TypeOK
      <3>3. \A b \in Actor \ {Closer} : io'[b] = io[b]
        BY <3>1 DEF TypeOK
      <3> QED BY <2>1, <3>2, <3>3 DEF Mutex, AfterClose
    <2> QED BY <2>2, <2>3
  <1>6. ASSUME InnerClose PROVE Mutex' /\ AfterClose'
    <2>1. /\ Closer \in Actor /\ closed /\ closed' /\ buf' = buf
          /\ io' = [io EXCEPT ![Closer] = Idle]
      BY <1>6 DEF InnerClose, AfterClose, Actor
    <2>2. \A b \in Actor : b # Closer => io'[b] = io[b]
      BY <2>1 DEF TypeOK
    <2>3. io'[Closer].st = "idle"
      BY <2>1 DEF TypeOK, Idle
    <2>4. \A b \in Actor : InWrite(b)' => InWrite(b)
      BY <2>2, <2>3 DEF InWrite
    <2>5. Mutex'
      BY <2>1, <2>4 DEF Mutex
    <2>6. \A b \in Actor \ {Closer} : ~InWrite(b)' /\ io'[b].st # "shut"
      BY <2>1, <2>2, <2>4 DEF AfterClose
    <2>7. buf' = <<>>
      BY <2>1 DEF AfterClose
    <2> QED BY <2>1, <2>5, <2>6, <2>7 DEF AfterClose
  <1>7. ASSUME TransportFails PROVE Mutex' /\ AfterClose'
    BY <1>7 DEF TransportFails, Mutex, AfterClose, InWrite
  <1>8. ASSUME NEW a \in Actor, Seal(a) PROVE Mutex' /\ AfterClose'
    <2>1. InWrite(a) /\ buf' = buf /\ transport' = transport /\ closed' = closed
      BY <1>8 DEF Seal, InWrite
    <2>2. CASE Return(a)
      BY <2>1, <2>2, Leaves
    <2>3. CASE ~Return(a)
      <3>1. io' = [io EXCEPT ![a].st = "send", ![a].nonce = nonce]
        BY <1>8, <2>3 DEF Seal
      <3>2. /\ io'[a].st = "send"
            /\ \A b \in Actor : b # a => io'[b] = io[b]
        BY <3>1 DEF TypeOK
      <3>3. \A b \in Actor : InWrite(b)' <=> InWrite(b)
        BY <2>1, <3>2 DEF InWrite
      <3>4. a = Closer => closed
        BY <2>1 DEF AfterClose, InWrite
      <3>5. ~closed' => io'[Closer].st = "idle"
        BY <2>1, <3>2, <3>4 DEF AfterClose, Actor
      <3>6. \A b \in Actor \ {Closer} : io'[b].st # "shut"
        BY <3>2 DEF AfterClose
      <3>7. Mutex'
        BY <2>1, <3>3 DEF Mutex
      <3> QED BY <2>1, <3>3, <3>5, <3>6, <3>7 DEF AfterClose
    <2> QED BY <2>2, <2>3
  <1>9. ASSUME NEW a \in Actor, Deliver(a) PROVE Mutex' /\ AfterClose'
    BY <1>9, Leaves DEF Deliver, InWrite
  <1>10. ASSUME NEW a \in Actor, Refuse(a) PROVE Mutex' /\ AfterClose'
    BY <1>10, Leaves DEF Refuse, InWrite
  <1>11. CASE UNCHANGED vars
    BY <1>11 DEF vars, Mutex, AfterClose, InWrite
  <1> QED BY <1>1, <1>2, <1>3, <1>4, <1>5, <1>6, <1>7, <1>8, <1>9, <1>10, <1>11 DEF Next

-----------------------------------------------------------------------------
(* Nonces leave in order: only the goroutine inside inner.Write takes one, *)
(* and it puts it on the wire, or finds the transport dead, before the     *)
(* next goroutine gets there.                                              *)

LEMMA NonceStep ==
    ASSUME TypeOK, Mutex, AfterClose, NonceCount, NonceOrder, [Next]_vars
    PROVE  NonceCount' /\ NonceOrder'
  <1> DEFINE Goal == NonceCount' /\ NonceOrder'
  <1>0. ASSUME UNCHANGED <<nonce, wire>>,
               transport' = "up" => transport = "up",
               \A b \in Actor : io'[b].st = "send" => io'[b] = io[b],
               \/ \A b \in Actor : io[b].st = "send" => io'[b] = io[b]
               \/ transport' # "up"
        PROVE  Goal
    BY <1>0 DEF NonceCount, NonceOrder
  <1>1. ASSUME NEW w \in Writer, NEW f \in Frame, Write(w, f) PROVE Goal
    <2>1. w \in Actor /\ \A b \in Actor : ~InWrite(b)
      BY <1>1 DEF Write, Actor, Locked, InWrite
    <2>2. CASE BatchFull(buffered + Size[f])
      <3>1. FlushLocked(w, Append(buf, f), buffered + Size[f])
        BY <1>1, <2>2 DEF Write
      <3>2. Append(buf, f) \in Seq(Frame) /\ buffered + Size[f] \in Nat
        BY AppendProperties, SizeAssumption DEF TypeOK
      <3>3. io'[w].st = "seal" /\ \A b \in Actor : b # w => io'[b] = io[b]
        BY <2>1, <3>1, <3>2, FlushLockedTyped
      <3> QED BY <1>0, <1>1, <2>1, <3>3 DEF Write, InWrite
    <2>3. CASE ~BatchFull(buffered + Size[f])
      BY <1>0, <1>1, <2>3 DEF Write
    <2> QED BY <2>2, <2>3
  <1>2. ASSUME NEW t \in TimerId, TimerFires(t) PROVE Goal
    BY <1>0, <1>2 DEF TimerFires
  <1>3. ASSUME NEW t \in TimerId, TimerFlush(t) PROVE Goal
    <2>1. t \in Actor /\ \A b \in Actor : ~InWrite(b)
      BY <1>3 DEF TimerFlush, Actor, Locked, InWrite
    <2>2. CASE closed \/ buffered = 0
      BY <1>0, <1>3, <2>2 DEF TimerFlush
    <2>3. CASE ~(closed \/ buffered = 0)
      <3>1. FlushLocked(t, buf, buffered) /\ buf \in Seq(Frame) /\ buffered \in Nat
        BY <1>3, <2>3 DEF TimerFlush, TypeOK
      <3>2. io'[t].st = "seal" /\ \A b \in Actor : b # t => io'[b] = io[b]
        BY <2>1, <3>1, FlushLockedTyped
      <3> QED BY <1>0, <1>3, <2>1, <3>2 DEF TimerFlush, InWrite
    <2> QED BY <2>2, <2>3
  <1>4. ASSUME CoverTick PROVE Goal
    <2>1. Cover \in Actor /\ \A b \in Actor : ~InWrite(b)
      BY <1>4 DEF CoverTick, Actor, Locked, InWrite
    <2>2. CASE buffered # 0
      BY <1>0, <1>4, <2>2 DEF CoverTick
    <2>3. CASE buffered = 0
      <3>1. FlushLocked(Cover, <<>>, 0) /\ <<>> \in Seq(Frame)
        BY <1>4, <2>3, EmptySeq DEF CoverTick
      <3>2. io'[Cover].st = "seal" /\ \A b \in Actor : b # Cover => io'[b] = io[b]
        BY <2>1, <3>1, FlushLockedTyped
      <3> QED BY <1>0, <1>4, <2>1, <3>2 DEF CoverTick, InWrite
    <2> QED BY <2>2, <2>3
  <1>5. ASSUME Close PROVE Goal
    <2>1. Closer \in Actor /\ \A b \in Actor : ~InWrite(b)
      BY <1>5 DEF Close, Actor, Locked, InWrite
    <2>2. io'[Closer].st \in {"seal", "shut"} /\ \A b \in Actor : b # Closer => io'[b] = io[b]
      <3>1. CASE buffered # 0
        <4>1. Begin(Closer, buf, buffered) /\ buf \in Seq(Frame) /\ buffered \in Nat
          BY <1>5, <3>1 DEF Close, TypeOK
        <4> QED BY <2>1, <4>1, BeginTyped
      <3>2. CASE buffered = 0
        <4>1. io' = [io EXCEPT ![Closer].st = "shut"]
          BY <1>5, <3>2 DEF Close
        <4>2. io[Closer] \in IOState
          BY <2>1 DEF TypeOK
        <4> QED BY <2>1, <4>1, <4>2 DEF TypeOK, IOState
      <3> QED BY <3>1, <3>2
    <2> QED BY <1>0, <1>5, <2>1, <2>2 DEF Close, InWrite
  <1>6. ASSUME InnerClose PROVE Goal
    <2>1. Closer \in Actor /\ io' = [io EXCEPT ![Closer] = Idle] /\ io[Closer].st = "shut"
      BY <1>6 DEF InnerClose, Actor
    <2>2. io'[Closer].st = "idle" /\ \A b \in Actor : b # Closer => io'[b] = io[b]
      BY <2>1 DEF TypeOK, Idle
    <2>3. UNCHANGED <<nonce, wire>> /\ (transport' = "up" => transport = "up")
      BY <1>6 DEF InnerClose
    <2> QED BY <1>0, <2>1, <2>2, <2>3
  <1>7. ASSUME TransportFails PROVE Goal
    BY <1>0, <1>7 DEF TransportFails
  <1>8. ASSUME NEW a \in Actor, Seal(a) PROVE Goal
    <2>1. InWrite(a) /\ io[a].st # "send" /\ \A b \in Actor : b # a => ~InWrite(b)
      BY <1>8 DEF Seal, Mutex, InWrite
    <2>2. CASE Return(a) /\ UNCHANGED nonce
      <3>1. io'[a].st # "send" /\ \A b \in Actor : b # a => io'[b] = io[b]
        BY <2>2, ReturnTyped
      <3> QED BY <1>0, <1>8, <2>1, <2>2, <3>1 DEF Seal
    <2>3. CASE ~(Return(a) /\ UNCHANGED nonce)
      <3>1. /\ io' = [io EXCEPT ![a].st = "send", ![a].nonce = nonce]
            /\ nonce' = nonce + 1 /\ UNCHANGED <<wire, transport>>
        BY <1>8, <2>3 DEF Seal
      <3>2. /\ io'[a].st = "send" /\ io'[a].nonce = nonce
            /\ \A b \in Actor : b # a => io'[b] = io[b]
        BY <3>1 DEF TypeOK, IOState
      <3>3. transport = "up" => nonce = Len(wire)
        BY <2>1 DEF NonceCount, InWrite
      <3>4. \A b \in Actor : b # a => io'[b].st # "send"
        BY <2>1, <3>2 DEF InWrite
      <3> QED BY <3>1, <3>2, <3>3, <3>4 DEF NonceCount, NonceOrder
    <2> QED BY <2>2, <2>3
  <1>9. ASSUME NEW a \in Actor, Deliver(a) PROVE Goal
    <2> DEFINE rec == [nonce |-> io[a].nonce, bytes |-> io[a].bytes, by |-> a]
    <2>1. InWrite(a) /\ Return(a) /\ transport = "up" /\ transport' = transport
          /\ closed' = closed /\ buf' = buf /\ nonce' = nonce /\ wire' = Append(wire, rec)
      BY <1>9 DEF Deliver, InWrite
    <2>2. \A b \in Actor : ~InWrite(b)'
      BY <2>1, Leaves
    <2>3. io[a].nonce = Len(wire) /\ nonce = Len(wire) + 1
      BY <1>9, <2>1 DEF NonceCount, Deliver
    <2>4. rec \in [nonce : Nat, bytes : Nat, by : Actor]
      BY DEF TypeOK, IOState
    <2>5. /\ Len(wire) \in Nat /\ Len(wire') = Len(wire) + 1
          /\ \A i \in 1 .. Len(wire) : wire'[i] = wire[i]
          /\ wire'[Len(wire) + 1] = rec
      BY <2>1, <2>4, AppendProperties, LenProperties DEF TypeOK
    <2>6. NonceOrder'
      BY <2>3, <2>5 DEF NonceOrder
    <2>7. NonceCount'
      BY <2>1, <2>2, <2>3, <2>5 DEF NonceCount, InWrite
    <2> QED BY <2>6, <2>7
  <1>10. ASSUME NEW a \in Actor, Refuse(a) PROVE Goal
    <2>1. Return(a) /\ transport' # "up" /\ UNCHANGED <<nonce, wire, transport>>
      BY <1>10 DEF Refuse
    <2>2. io'[a].st # "send" /\ \A b \in Actor : b # a => io'[b] = io[b]
      BY <2>1, ReturnTyped
    <2> QED BY <1>0, <2>1, <2>2
  <1>11. CASE UNCHANGED vars
    BY <1>0, <1>11 DEF vars
  <1> QED BY <1>1, <1>2, <1>3, <1>4, <1>5, <1>6, <1>7, <1>8, <1>9, <1>10, <1>11 DEF Next

LEMMA IInvInit == Init => IInv
  <1> SUFFICES ASSUME Init PROVE IInv
    OBVIOUS
  <1>1. TypeOK
    BY TypeInit
  <1>2. \A a \in Actor : io[a] = Idle
    BY DEF Init
  <1>3. Mutex /\ AfterClose
    BY <1>2, ActorAssumption DEF Init, Mutex, AfterClose, InWrite, Idle, Actor
  <1>4. Batch
    BY <1>2, ConfigAssumption DEF Init, Batch, Idle
  <1>5. Len(wire) = 0
    BY EmptySeq DEF Init
  <1>6. NonceCount /\ NonceOrder
    BY <1>2, <1>5 DEF Init, NonceCount, NonceOrder, Idle
  <1>7. TimerRef /\ NothingStranded
    BY DEF Init, TimerRef, NothingStranded
  <1> QED BY <1>1, <1>3, <1>4, <1>6, <1>7 DEF IInv

LEMMA BatchStep ==
    ASSUME TypeOK, Batch, [Next]_vars
    PROVE  Batch'
  <1>0. FlushBytes \in Nat \ {0}
    BY ConfigAssumption
  <1>e. ASSUME NEW a \in Actor, NEW fs \in Seq(Frame), NEW n \in Nat,
               FlushLocked(a, fs, n), n = 0 => fs = <<>>
        PROVE  Batch'
    <2>1. /\ buf' = <<>> /\ buffered' = 0 /\ io' \in [Actor -> IOState]
          /\ io'[a].frames = fs /\ io'[a].bytes >= n
          /\ \A b \in Actor : b # a => io'[b] = io[b]
      BY <1>e, FlushLockedTyped
    <2>2. io'[a].bytes = 0 => n = 0
      BY <2>1
    <2> QED BY <1>0, <1>e, <2>1, <2>2 DEF Batch
  <1>r. ASSUME NEW a \in Actor, Return(a), UNCHANGED <<buf, buffered>> PROVE Batch'
    <2>1. io'[a].st # "seal" /\ \A b \in Actor : b # a => io'[b] = io[b]
      BY <1>r, ReturnTyped
    <2> QED BY <1>r, <2>1 DEF Batch
  <1>1. ASSUME NEW w \in Writer, NEW f \in Frame, Write(w, f) PROVE Batch'
    <2>1. /\ w \in Actor /\ Append(buf, f) \in Seq(Frame) /\ Append(buf, f) # <<>>
          /\ buffered + Size[f] \in Nat /\ buffered + Size[f] # 0
      <3>1. Append(buf, f) \in Seq(Frame) /\ Append(buf, f) # <<>>
        <4>1. buf \in Seq(Frame)
          BY DEF TypeOK
        <4> QED BY <4>1, AppendProperties, Zenon
      <3>2. buffered + Size[f] \in Nat /\ buffered + Size[f] # 0
        BY SizeAssumption DEF TypeOK
      <3> QED BY <3>1, <3>2 DEF Actor
    <2>2. CASE BatchFull(buffered + Size[f])
      BY <1>1, <1>e, <2>1, <2>2 DEF Write
    <2>3. CASE ~BatchFull(buffered + Size[f])
      BY <1>0, <1>1, <2>1, <2>3 DEF Write, Batch, BatchFull
    <2> QED BY <2>2, <2>3
  <1>2. ASSUME NEW t \in TimerId, TimerFires(t) PROVE Batch'
    BY <1>2 DEF TimerFires, Batch
  <1>3. ASSUME NEW t \in TimerId, TimerFlush(t) PROVE Batch'
    <2>1. t \in Actor
      BY DEF Actor
    <2>2. CASE closed \/ buffered = 0
      BY <1>3, <2>2 DEF TimerFlush, Batch
    <2>3. CASE ~(closed \/ buffered = 0)
      <3>1. FlushLocked(t, buf, buffered) /\ buf \in Seq(Frame) /\ buffered \in Nat
        BY <1>3, <2>3 DEF TimerFlush, TypeOK
      <3> QED BY <1>e, <2>1, <2>3, <3>1
    <2> QED BY <2>2, <2>3
  <1>4. ASSUME CoverTick PROVE Batch'
    <2>1. Cover \in Actor /\ <<>> \in Seq(Frame)
      BY EmptySeq DEF Actor
    <2>2. CASE buffered # 0
      BY <1>4, <2>2 DEF CoverTick, Batch
    <2>3. CASE buffered = 0
      <3>1. FlushLocked(Cover, <<>>, 0)
        BY <1>4, <2>3 DEF CoverTick
      <3> QED BY <1>e, <2>1, <3>1
    <2> QED BY <2>2, <2>3
  <1>5. ASSUME Close PROVE Batch'
    <2>1. Closer \in Actor /\ buf' = <<>> /\ buffered' = 0
      BY <1>5 DEF Close, Actor
    <2>2. CASE buffered # 0
      <3>1. Begin(Closer, buf, buffered) /\ buf \in Seq(Frame) /\ buffered \in Nat
        BY <1>5, <2>2 DEF Close, TypeOK
      <3>2. io'[Closer].bytes # 0 /\ \A b \in Actor : b # Closer => io'[b] = io[b]
        BY <2>1, <2>2, <3>1, BeginTyped
      <3> QED BY <1>0, <2>1, <3>2 DEF Batch
    <2>3. CASE buffered = 0
      <3>1. io' = [io EXCEPT ![Closer].st = "shut"]
        BY <1>5, <2>3 DEF Close
      <3>2. io'[Closer].st # "seal" /\ \A b \in Actor : b # Closer => io'[b] = io[b]
        <4>1. io[Closer] \in IOState
          BY <2>1 DEF TypeOK
        <4> QED BY <2>1, <3>1, <4>1 DEF TypeOK, IOState
      <3> QED BY <1>0, <2>1, <3>2 DEF Batch
    <2> QED BY <2>2, <2>3
  <1>6. ASSUME InnerClose PROVE Batch'
    <2>1. /\ Closer \in Actor /\ UNCHANGED <<buf, buffered>>
          /\ io' = [io EXCEPT ![Closer] = Idle]
      BY <1>6 DEF InnerClose, Actor
    <2>2. io'[Closer].st = "idle" /\ \A b \in Actor : b # Closer => io'[b] = io[b]
      BY <2>1 DEF TypeOK, Idle
    <2> QED BY <2>1, <2>2 DEF Batch
  <1>7. ASSUME TransportFails PROVE Batch'
    BY <1>7 DEF TransportFails, Batch
  <1>8. ASSUME NEW a \in Actor, Seal(a) PROVE Batch'
    <2>1. CASE Return(a)
      BY <1>8, <1>r, <2>1 DEF Seal
    <2>2. CASE ~Return(a)
      <3>1. io' = [io EXCEPT ![a].st = "send", ![a].nonce = nonce] /\ UNCHANGED <<buf, buffered>>
        BY <1>8, <2>2 DEF Seal
      <3>2. io'[a].st = "send" /\ \A b \in Actor : b # a => io'[b] = io[b]
        BY <3>1 DEF TypeOK, IOState
      <3> QED BY <3>1, <3>2 DEF Batch
    <2> QED BY <2>1, <2>2
  <1>9. ASSUME NEW a \in Actor, Deliver(a) PROVE Batch'
    BY <1>9, <1>r DEF Deliver
  <1>10. ASSUME NEW a \in Actor, Refuse(a) PROVE Batch'
    BY <1>10, <1>r DEF Refuse
  <1>11. CASE UNCHANGED vars
    BY <1>11 DEF vars, Batch
  <1> QED BY <1>1, <1>2, <1>3, <1>4, <1>5, <1>6, <1>7, <1>8, <1>9, <1>10, <1>11 DEF Next

(* The inductive invariant. *)
THEOREM Inductive == Spec => []IInv
  <1>1. IInv /\ [Next]_vars => IInv'
    BY TypeStep, MutexStep, BatchStep, TimerStep, NonceStep DEF IInv
  <1> QED BY IInvInit, <1>1, PTL DEF Spec

(* Sealed frames reach the transport in nonce order, with no gap, whatever *)
(* mixture of writers, stale timers, cover traffic and Close is at work.   *)
THEOREM NoncesInOrder == Spec => []NonceOrder
  <1>1. IInv => NonceOrder
    BY DEF IInv
  <1> QED BY Inductive, <1>1, PTL

-----------------------------------------------------------------------------
(* The data: with MTU-sized frames nothing accepted is lost or reordered   *)
(* while the transport works.                                              *)

LEMMA AppendAssociates ==
    \A s, t \in Seq(Frame), e \in Frame : Append(s \o t, e) = s \o Append(t, e)
  <1> TAKE s, t \in Seq(Frame), e \in Frame
  <1>1. s \o t \in Seq(Frame) /\ <<e>> \in Seq(Frame)
    BY ConcatProperties
  <1>2. Append(s \o t, e) = (s \o t) \o <<e>>
    BY <1>1, AppendIsConcat
  <1>3. Append(t, e) = t \o <<e>>
    BY AppendIsConcat
  <1> QED BY <1>1, <1>2, <1>3, ConcatAssociative

(* A batch that is flushed fits into one sealed frame. *)
LEMMA FitsStep ==
    ASSUME MTUSized, TypeOK, Batch, NeverRefused, [Next]_vars
    PROVE  NeverRefused'
  <1> DEFINE Goal == NeverRefused'
  <1>0. /\ MaxSealedPayload \in Nat /\ FlushBytes \in Nat \ {0} /\ buffered \in Nat
        /\ \A target \in Target : target \in Nat /\ target <= MaxSealedPayload
    BY ConfigAssumption DEF MTUSized, Target, TypeOK
  <1>s. buffered <= MaxSealedPayload \/ Frame = {}
    BY <1>0, SizeAssumption DEF Batch, MTUSized
  <1>e. ASSUME NEW a \in Actor, NEW fs \in Seq(Frame), NEW n \in Nat,
               FlushLocked(a, fs, n), n <= MaxSealedPayload
        PROVE  Goal
    <2>1. /\ io'[a].bytes <= n \/ \E target \in Target : io'[a].bytes <= target
          /\ \A b \in Actor : b # a => io'[b] = io[b]
          /\ io' \in [Actor -> IOState]
      BY <1>e, FlushLockedTyped
    <2>2. io'[a].bytes \in Nat
      BY <2>1 DEF IOState
    <2>3. io'[a].bytes <= MaxSealedPayload
      BY <1>0, <1>e, <2>1, <2>2
    <2> QED BY <2>1, <2>3 DEF NeverRefused
  <1>r. ASSUME NEW a \in Actor, io'[a].st # "seal",
               \A b \in Actor : b # a => io'[b] = io[b]
        PROVE  Goal
    BY <1>r DEF NeverRefused
  <1>f. ASSUME NEW f \in Frame
        PROVE  /\ Append(buf, f) \in Seq(Frame) /\ buffered + Size[f] \in Nat
               /\ buffered + Size[f] <= MaxSealedPayload
    <2>1. Append(buf, f) \in Seq(Frame)
      BY AppendProperties DEF TypeOK
    <2> QED BY <1>0, <2>1, SizeAssumption DEF Batch, MTUSized
  <1>1. ASSUME NEW w \in Writer, NEW f \in Frame, Write(w, f) PROVE Goal
    <2>1. CASE BatchFull(buffered + Size[f])
      BY <1>1, <1>e, <1>f, <2>1 DEF Write, Actor
    <2>2. CASE ~BatchFull(buffered + Size[f])
      BY <1>1, <2>2 DEF Write, NeverRefused
    <2> QED BY <2>1, <2>2
  <1>2. ASSUME NEW t \in TimerId, TimerFires(t) PROVE Goal
    BY <1>2 DEF TimerFires, NeverRefused
  <1>3. ASSUME NEW t \in TimerId, TimerFlush(t) PROVE Goal
    <2>1. CASE closed \/ buffered = 0
      BY <1>3, <2>1 DEF TimerFlush, NeverRefused
    <2>2. CASE ~(closed \/ buffered = 0)
      <3>1. FlushLocked(t, buf, buffered) /\ buf \in Seq(Frame) /\ t \in Actor
        BY <1>3, <2>2 DEF TimerFlush, TypeOK, Actor
      <3>2. buf # <<>>
        BY <2>2 DEF Batch
      <3>3. Frame # {}
        BY <3>1, <3>2, HeadTailProperties
      <3>4. buffered \in Nat /\ buffered <= MaxSealedPayload
        BY <1>0, <1>s, <3>3
      <3> QED BY <1>e, <3>1, <3>4
    <2> QED BY <2>1, <2>2
  <1>4. ASSUME CoverTick PROVE Goal
    <2>1. CASE buffered # 0
      BY <1>4, <2>1 DEF CoverTick, NeverRefused
    <2>2. CASE buffered = 0
      <3>1. FlushLocked(Cover, <<>>, 0) /\ <<>> \in Seq(Frame) /\ Cover \in Actor
        BY <1>4, <2>2, EmptySeq DEF CoverTick, Actor
      <3>2. 0 \in Nat /\ 0 <= MaxSealedPayload
        BY <1>0
      <3> QED BY <1>e, <3>1, <3>2
    <2> QED BY <2>1, <2>2
  <1>5. ASSUME Close PROVE Goal
    <2>1. Closer \in Actor
      BY DEF Actor
    <2>2. CASE buffered # 0
      <3>1. Begin(Closer, buf, buffered) /\ buf \in Seq(Frame)
        BY <1>5, <2>2 DEF Close, TypeOK
      <3>2. io'[Closer].bytes = buffered /\ \A b \in Actor : b # Closer => io'[b] = io[b]
        BY <1>0, <2>1, <3>1, BeginTyped
      <3>3. Frame # {}
        BY <2>2, <3>1, HeadTailProperties DEF Batch
      <3> QED BY <1>s, <3>2, <3>3 DEF NeverRefused
    <2>3. CASE buffered = 0
      <3>1. io' = [io EXCEPT ![Closer].st = "shut"] /\ io[Closer] \in IOState
        BY <1>5, <2>1, <2>3 DEF Close, TypeOK
      <3>2. io'[Closer].st # "seal" /\ \A b \in Actor : b # Closer => io'[b] = io[b]
        BY <2>1, <3>1 DEF TypeOK, IOState
      <3> QED BY <1>r, <2>1, <3>2
    <2> QED BY <2>2, <2>3
  <1>6. ASSUME InnerClose PROVE Goal
    <2>1. Closer \in Actor /\ io' = [io EXCEPT ![Closer] = Idle]
      BY <1>6 DEF InnerClose, Actor
    <2>2. io'[Closer].st = "idle" /\ \A b \in Actor : b # Closer => io'[b] = io[b]
      BY <2>1 DEF TypeOK, Idle
    <2> QED BY <1>r, <2>1, <2>2
  <1>7. ASSUME TransportFails PROVE Goal
    BY <1>7 DEF TransportFails, NeverRefused
  <1>8. ASSUME NEW a \in Actor, Seal(a) PROVE Goal
    <2>1. CASE Return(a)
      <3>1. io'[a].st # "seal" /\ \A b \in Actor : b # a => io'[b] = io[b]
        BY <2>1, ReturnTyped
      <3> QED BY <1>r, <3>1
    <2>2. CASE ~Return(a)
      <3>1. io' = [io EXCEPT ![a].st = "send", ![a].nonce = nonce]
        BY <1>8, <2>2 DEF Seal
      <3>2. io'[a].st = "send" /\ \A b \in Actor : b # a => io'[b] = io[b]
        BY <3>1 DEF TypeOK, IOState
      <3> QED BY <1>r, <3>2
    <2> QED BY <2>1, <2>2
  <1>9. ASSUME NEW a \in Actor, Deliver(a) \/ Refuse(a) PROVE Goal
    <2>1. io'[a].st # "seal" /\ \A b \in Actor : b # a => io'[b] = io[b]
      BY <1>9, ReturnTyped DEF Deliver, Refuse
    <2> QED BY <1>r, <2>1
  <1>10. CASE UNCHANGED vars
    BY <1>10 DEF vars, NeverRefused
  <1> QED BY <1>1, <1>2, <1>3, <1>4, <1>5, <1>6, <1>7, <1>8, <1>9, <1>10 DEF Next

(* What is accepted is sent, in the write under way, or in the batch. *)
LEMMA PendingStep ==
    ASSUME IInv, NeverRefused, Pending, [Next]_vars
    PROVE  Pending'
  <1> DEFINE Goal == Pending'
  <1>0. TypeOK /\ Mutex /\ Batch /\ AfterClose
    BY DEF IInv
  <1>e. ASSUME ~Locked, NEW a \in Actor, io'[a].st = "seal",
               \A b \in Actor : b # a => io'[b] = io[b],
               sent' = sent, transport' = transport,
               transport = "up" => accepted' = sent \o io'[a].frames
        PROVE  Goal
    <2>1. \A b \in Actor : InWrite(b)' <=> b = a
      BY <1>e DEF Locked, InWrite
    <2> QED BY <1>e, <2>1 DEF Pending
  <1>l. ASSUME ~Locked PROVE \A a \in Actor : ~InWrite(a)
    BY <1>l DEF Locked, InWrite
  <1>b. transport = "up" /\ ~Locked => accepted = sent \o buf
    BY <1>l DEF Pending
  <1>1. ASSUME NEW w \in Writer, NEW f \in Frame, Write(w, f) PROVE Goal
    <2>1. /\ w \in Actor /\ ~Locked /\ accepted' = Append(accepted, f)
          /\ sent' = sent /\ transport' = transport
      BY <1>1 DEF Write, Actor
    <2>2. transport = "up" => accepted' = sent \o Append(buf, f)
      <3>1. sent \in Seq(Frame) /\ buf \in Seq(Frame)
        BY <1>0 DEF TypeOK
      <3>2. Append(sent \o buf, f) = sent \o Append(buf, f)
        BY <3>1, AppendAssociates, Zenon
      <3> QED BY <1>b, <2>1, <3>2
    <2>3. CASE BatchFull(buffered + Size[f])
      <3>1. FlushLocked(w, Append(buf, f), buffered + Size[f])
        BY <1>1, <2>3 DEF Write
      <3>2. Append(buf, f) \in Seq(Frame) /\ buffered + Size[f] \in Nat
        BY <1>0, AppendProperties, SizeAssumption DEF TypeOK
      <3>3. /\ io'[w].st = "seal" /\ io'[w].frames = Append(buf, f)
            /\ \A b \in Actor : b # w => io'[b] = io[b]
        BY <1>0, <2>1, <3>1, <3>2, FlushLockedTyped
      <3> QED BY <1>e, <2>1, <2>2, <3>3
    <2>4. CASE ~BatchFull(buffered + Size[f])
      <3>1. buf' = Append(buf, f) /\ io' = io
        BY <1>1, <2>4 DEF Write
      <3> QED BY <1>l, <2>1, <2>2, <3>1 DEF Pending, InWrite
    <2> QED BY <2>3, <2>4
  <1>2. ASSUME NEW t \in TimerId, TimerFires(t) PROVE Goal
    BY <1>2 DEF TimerFires, Pending, InWrite
  <1>3. ASSUME NEW t \in TimerId, TimerFlush(t) PROVE Goal
    <2>1. /\ t \in Actor /\ ~Locked /\ UNCHANGED <<accepted, sent, transport>>
      BY <1>3 DEF TimerFlush, Actor
    <2>2. CASE closed \/ buffered = 0
      BY <1>3, <2>2 DEF TimerFlush, Pending, InWrite
    <2>3. CASE ~(closed \/ buffered = 0)
      <3>1. FlushLocked(t, buf, buffered) /\ buf \in Seq(Frame) /\ buffered \in Nat
        BY <1>0, <1>3, <2>3 DEF TimerFlush, TypeOK
      <3>2. /\ io'[t].st = "seal" /\ io'[t].frames = buf
            /\ \A b \in Actor : b # t => io'[b] = io[b]
        BY <1>0, <2>1, <3>1, FlushLockedTyped
      <3> QED BY <1>b, <1>e, <2>1, <3>2
    <2> QED BY <2>2, <2>3
  <1>4. ASSUME CoverTick PROVE Goal
    <2>1. /\ Cover \in Actor /\ ~Locked /\ UNCHANGED <<accepted, sent, transport>>
      BY <1>4 DEF CoverTick, Actor
    <2>2. CASE buffered # 0
      BY <1>4, <2>2 DEF CoverTick, Pending, InWrite
    <2>3. CASE buffered = 0
      <3>1. FlushLocked(Cover, <<>>, 0) /\ <<>> \in Seq(Frame)
        BY <1>4, <2>3, EmptySeq DEF CoverTick
      <3>2. /\ io'[Cover].st = "seal" /\ io'[Cover].frames = <<>>
            /\ \A b \in Actor : b # Cover => io'[b] = io[b]
        BY <1>0, <2>1, <3>1, FlushLockedTyped
      <3>3. buf = <<>>
        BY <1>0, <2>3 DEF Batch
      <3> QED BY <1>b, <1>e, <2>1, <3>2, <3>3
    <2> QED BY <2>2, <2>3
  <1>5. ASSUME Close PROVE Goal
    <2>1. /\ Closer \in Actor /\ ~Locked /\ buf' = <<>>
          /\ UNCHANGED <<accepted, sent, transport>>
      BY <1>5 DEF Close, Actor
    <2>2. CASE buffered # 0
      <3>1. Begin(Closer, buf, buffered) /\ buf \in Seq(Frame) /\ buffered \in Nat
        BY <1>0, <1>5, <2>2 DEF Close, TypeOK
      <3>2. /\ io'[Closer].st = "seal" /\ io'[Closer].frames = buf
            /\ \A b \in Actor : b # Closer => io'[b] = io[b]
        BY <1>0, <2>1, <3>1, BeginTyped
      <3> QED BY <1>b, <1>e, <2>1, <3>2
    <2>3. CASE buffered = 0
      <3>1. io' = [io EXCEPT ![Closer].st = "shut"] /\ io[Closer] \in IOState
        BY <1>0, <1>5, <2>1, <2>3 DEF Close, TypeOK
      <3>2. \A a \in Actor : ~InWrite(a)'
        BY <1>0, <1>l, <2>1, <3>1 DEF InWrite, TypeOK, IOState
      <3>3. buf = <<>>
        BY <1>0, <2>3 DEF Batch
      <3> QED BY <1>b, <2>1, <3>2, <3>3 DEF Pending
    <2> QED BY <2>2, <2>3
  <1>6. ASSUME InnerClose PROVE Goal
    BY <1>6 DEF InnerClose, Pending
  <1>7. ASSUME TransportFails PROVE Goal
    BY <1>7 DEF TransportFails, Pending
  <1>8. ASSUME NEW a \in Actor, Seal(a) PROVE Goal
    <2>1. /\ InWrite(a) /\ buf' = buf /\ buf = <<>> /\ io[a].bytes <= MaxSealedPayload
          /\ UNCHANGED <<closed, accepted, sent, transport>>
      BY <1>0, <1>8 DEF Seal, InWrite, Mutex, NeverRefused
    <2>2. CASE Return(a) /\ UNCHANGED nonce
      <3>1. \A b \in Actor : ~InWrite(b)'
        BY <1>0, <2>1, <2>2, Leaves
      <3>2. io[a].bytes = 0
        <4>1. io[a].bytes \in Nat /\ MaxSealedPayload \in Nat /\ nonce \in Nat
          BY <1>0, ConfigAssumption DEF TypeOK, IOState
        <4> QED BY <1>8, <2>1, <2>2, <4>1 DEF Seal
      <3>3. io[a].frames = <<>>
        BY <1>0, <1>8, <3>2 DEF Batch, Seal
      <3> QED BY <2>1, <3>1, <3>3 DEF Pending
    <2>3. CASE ~(Return(a) /\ UNCHANGED nonce)
      <3>1. io' = [io EXCEPT ![a].st = "send", ![a].nonce = nonce] /\ io[a] \in IOState
        BY <1>0, <1>8, <2>3 DEF Seal, TypeOK
      <3>2. /\ io'[a].st = "send" /\ io'[a].frames = io[a].frames
            /\ \A b \in Actor : b # a => io'[b] = io[b]
        BY <1>0, <3>1 DEF TypeOK, IOState
      <3>3. \A b \in Actor : InWrite(b)' <=> InWrite(b)
        BY <2>1, <3>2 DEF InWrite
      <3> QED BY <2>1, <3>2, <3>3 DEF Pending
    <2> QED BY <2>2, <2>3
  <1>9. ASSUME NEW a \in Actor, Deliver(a) PROVE Goal
    <2>1. /\ InWrite(a) /\ Return(a) /\ buf' = buf /\ transport = "up"
          /\ sent' = sent \o io[a].frames /\ UNCHANGED <<closed, accepted, transport>>
      BY <1>9 DEF Deliver, InWrite
    <2>2. \A b \in Actor : ~InWrite(b)'
      BY <1>0, <2>1, Leaves
    <2>3. accepted = sent' /\ buf = <<>>
      BY <1>0, <2>1 DEF Pending, Mutex
    <2>4. accepted' = sent' \o buf'
      BY <1>0, <2>1, <2>3, ConcatEmptySeq DEF TypeOK
    <2> QED BY <2>2, <2>4 DEF Pending
  <1>10. ASSUME NEW a \in Actor, Refuse(a) PROVE Goal
    BY <1>10 DEF Refuse, Pending
  <1>11. CASE UNCHANGED vars
    BY <1>11 DEF vars, Pending, InWrite
  <1> QED BY <1>1, <1>2, <1>3, <1>4, <1>5, <1>6, <1>7, <1>8, <1>9, <1>10, <1>11 DEF Next

LEMMA PrefixStep ==
    ASSUME IInv, Pending, PrefixSent, [Next]_vars
    PROVE  PrefixSent'
  <1>0. TypeOK /\ Mutex
    BY DEF IInv
  <1>1. ASSUME NEW w \in Writer, NEW f \in Frame, Write(w, f) PROVE PrefixSent'
    <2>1. accepted' = Append(accepted, f) /\ sent' = sent
      BY <1>1 DEF Write
    <2>2. accepted \in Seq(Frame) /\ Len(accepted) \in Nat /\ Len(sent) \in Nat
      BY <1>0, LenProperties DEF TypeOK
    <2>3. /\ Len(accepted') = Len(accepted) + 1
          /\ \A i \in 1 .. Len(accepted) : accepted'[i] = accepted[i]
      BY <2>1, <2>2, AppendProperties
    <2> QED BY <2>1, <2>2, <2>3 DEF PrefixSent
  <1>2. ASSUME NEW a \in Actor, Deliver(a) PROVE PrefixSent'
    <2>1. sent' = accepted /\ accepted' = accepted
      BY <1>0, <1>2 DEF Deliver, Pending, Mutex, InWrite
    <2>2. Len(accepted) \in Nat
      BY <1>0, LenProperties DEF TypeOK
    <2> QED BY <2>1, <2>2 DEF PrefixSent
  <1>3. ASSUME UNCHANGED <<accepted, sent>> PROVE PrefixSent'
    BY <1>3 DEF PrefixSent
  <1>4. ASSUME Next, \A w \in Writer, f \in Frame : ~Write(w, f),
               \A a \in Actor : ~Deliver(a)
        PROVE  UNCHANGED <<accepted, sent>>
    BY <1>4 DEF Next, TimerFires, TimerFlush, CoverTick, Close, InnerClose,
                TransportFails, Seal, Refuse
  <1>5. CASE UNCHANGED vars
    BY <1>3, <1>5 DEF vars
  <1> QED BY <1>1, <1>2, <1>3, <1>4, <1>5

LEMMA DataInit == ASSUME Init PROVE NeverRefused /\ Pending /\ PrefixSent
  <1>1. \A a \in Actor : io[a] = Idle
    BY DEF Init
  <1>2. <<>> \o <<>> = <<>> /\ Len(<<>>) = 0
    BY EmptySeq, ConcatEmptySeq
  <1> QED BY <1>1, <1>2 DEF Init, NeverRefused, Pending, PrefixSent, InWrite, Idle

THEOREM DataInductive ==
    ASSUME MTUSized PROVE Spec => []DataInv
  <1>1. Init => DataInv
    BY IInvInit, DataInit DEF DataInv
  <1>2. DataInv /\ [Next]_vars => DataInv'
    <2> SUFFICES ASSUME DataInv, [Next]_vars PROVE DataInv'
      OBVIOUS
    <2>1. IInv /\ NeverRefused /\ Pending /\ PrefixSent
      BY DEF DataInv
    <2>2. IInv'
      BY <2>1, TypeStep, MutexStep, BatchStep, TimerStep, NonceStep DEF IInv
    <2>3. NeverRefused'
      BY <2>1, FitsStep DEF IInv
    <2>4. Pending' /\ PrefixSent'
      BY <2>1, PendingStep, PrefixStep
    <2> QED BY <2>2, <2>3, <2>4 DEF DataInv
  <1> QED BY <1>1, <1>2, PTL DEF Spec

(* With MTU-sized frames no batch is refused by the cipher, so that no     *)
(* frame is dropped after its Write has returned success.                  *)
THEOREM NoBatchRefused ==
    ASSUME MTUSized PROVE Spec => []NeverRefused
  <1>1. DataInv => NeverRefused
    BY DEF DataInv
  <1> QED BY DataInductive, <1>1, PTL

(* With MTU-sized frames the receiver gets a prefix of what was written.   *)
THEOREM FramesInOrder ==
    ASSUME MTUSized PROVE Spec => []PrefixSent
  <1>1. DataInv => PrefixSent
    BY DEF DataInv
  <1> QED BY DataInductive, <1>1, PTL

-----------------------------------------------------------------------------
(* The padding: the size of what leaves before Close.                      *)

(* What a goroutine other than Close writes has been padded.               *)
Padded == \A a \in Actor \ {Closer} :
    InWrite(a) => io[a].bytes + HeaderSize >= MinPaddedSize

(* A flush misses its target by less than one header, which is too little  *)
(* room for a padding frame, when one padding frame can fill the rest.     *)
LEMMA FlushPads ==
    ASSUME MinPaddedSize <= MaxPayload,
           TypeOK, NEW a \in Actor, NEW fs \in Seq(Frame), NEW n \in Nat, FlushLocked(a, fs, n)
    PROVE  /\ io'[a].bytes + HeaderSize >= MinPaddedSize
           /\ \A b \in Actor : b # a => io'[b] = io[b]
  <1>1. PICK target \in Target : Begin(a, fs, FlushSize(n, target))
    BY DEF FlushLocked
  <1>2. target \in Nat /\ target >= MinPaddedSize
    BY ConfigAssumption DEF Target
  <1>3. {MinPaddedSize, HeaderSize, MaxPayload} \subseteq Nat \ {0}
    BY ConfigAssumption
  <1>4. FlushSize(n, target) \in Nat
    BY FlushSizeBounds
  <1>5. FlushSize(n, target) + HeaderSize >= MinPaddedSize
    BY <1>2, <1>3 DEF FlushSize, PadPayload
  <1>6. io'[a].bytes = FlushSize(n, target) /\ \A b \in Actor : b # a => io'[b] = io[b]
    BY <1>1, <1>4, BeginTyped
  <1> QED BY <1>5, <1>6

LEMMA PaddedStep ==
    ASSUME MinPaddedSize <= MaxPayload, TypeOK, Padded, [Next]_vars
    PROVE  Padded'
  (* Only a flush brings a goroutine into inner.Write. *)
  <1>e. ASSUME NEW a \in Actor, io'[a].bytes + HeaderSize >= MinPaddedSize,
               \A b \in Actor : b # a => io'[b] = io[b]
        PROVE  Padded'
    BY <1>e DEF Padded, InWrite
  <1>k. ASSUME NEW a \in Actor, InWrite(a)' => InWrite(a) /\ io'[a].bytes = io[a].bytes,
               \A b \in Actor : b # a => io'[b] = io[b]
        PROVE  Padded'
    BY <1>k DEF Padded, InWrite
  <1>u. ASSUME io' = io PROVE Padded'
    BY <1>u DEF Padded, InWrite
  <1>1. ASSUME NEW w \in Writer, NEW f \in Frame, Write(w, f) PROVE Padded'
    <2>1. CASE BatchFull(buffered + Size[f])
      <3>1. /\ FlushLocked(w, Append(buf, f), buffered + Size[f]) /\ w \in Actor
            /\ Append(buf, f) \in Seq(Frame) /\ buffered + Size[f] \in Nat
        BY <1>1, <2>1, AppendProperties, SizeAssumption DEF Write, TypeOK, Actor
      <3> QED BY <1>e, <3>1, FlushPads
    <2>2. CASE ~BatchFull(buffered + Size[f])
      BY <1>1, <1>u, <2>2 DEF Write
    <2> QED BY <2>1, <2>2
  <1>2. ASSUME NEW t \in TimerId, TimerFlush(t) PROVE Padded'
    <2>1. CASE closed \/ buffered = 0
      BY <1>2, <1>u, <2>1 DEF TimerFlush
    <2>2. CASE ~(closed \/ buffered = 0)
      <3>1. /\ FlushLocked(t, buf, buffered) /\ t \in Actor
            /\ buf \in Seq(Frame) /\ buffered \in Nat
        BY <1>2, <2>2 DEF TimerFlush, TypeOK, Actor
      <3> QED BY <1>e, <3>1, FlushPads
    <2> QED BY <2>1, <2>2
  <1>3. ASSUME CoverTick PROVE Padded'
    <2>1. CASE buffered # 0
      BY <1>3, <1>u, <2>1 DEF CoverTick
    <2>2. CASE buffered = 0
      <3>1. FlushLocked(Cover, <<>>, 0) /\ Cover \in Actor /\ <<>> \in Seq(Frame)
        BY <1>3, <2>2, EmptySeq DEF CoverTick, Actor
      <3> QED BY <1>e, <3>1, FlushPads
    <2> QED BY <2>1, <2>2
  <1>4. ASSUME Close \/ InnerClose PROVE Padded'
    <2>1. \A b \in Actor \ {Closer} : io'[b] = io[b]
      BY <1>4 DEF Close, InnerClose, Begin, TypeOK
    <2> QED BY <2>1 DEF Padded, InWrite
  <1>5. ASSUME NEW a \in Actor, Seal(a) PROVE Padded'
    <2>1. CASE Return(a)
      <3>1. ~InWrite(a)' /\ \A b \in Actor : b # a => io'[b] = io[b]
        BY <2>1, ReturnTyped DEF InWrite
      <3> QED BY <1>k, <3>1
    <2>2. CASE ~Return(a)
      <3>1. io' = [io EXCEPT ![a].st = "send", ![a].nonce = nonce] /\ InWrite(a)
        BY <1>5, <2>2 DEF Seal, InWrite
      <3>2. io'[a].bytes = io[a].bytes /\ \A b \in Actor : b # a => io'[b] = io[b]
        BY <3>1 DEF TypeOK, IOState
      <3> QED BY <1>k, <3>1, <3>2
    <2> QED BY <2>1, <2>2
  <1>6. ASSUME NEW a \in Actor, Deliver(a) \/ Refuse(a) PROVE Padded'
    <2>1. ~InWrite(a)' /\ \A b \in Actor : b # a => io'[b] = io[b]
      BY <1>6, ReturnTyped DEF Deliver, Refuse, InWrite
    <2> QED BY <1>k, <2>1
  <1>7. ASSUME (\E t \in TimerId : TimerFires(t)) \/ TransportFails \/ UNCHANGED vars
        PROVE  Padded'
    BY <1>7, <1>u DEF TimerFires, TransportFails, vars
  <1> QED BY <1>1, <1>2, <1>3, <1>4, <1>5, <1>6, <1>7 DEF Next

LEMMA PaddedFlushStep ==
    ASSUME TypeOK, Padded, PaddedFlush, [Next]_vars
    PROVE  PaddedFlush'
  <1>1. ASSUME NEW a \in Actor, Deliver(a) PROVE PaddedFlush'
    <2> DEFINE e == [nonce |-> io[a].nonce, bytes |-> io[a].bytes, by |-> a]
    <2>1. wire' = Append(wire, e) /\ wire \in Seq([nonce : Nat, bytes : Nat, by : Actor])
      BY <1>1 DEF Deliver, TypeOK
    <2>2. e \in [nonce : Nat, bytes : Nat, by : Actor]
      BY DEF TypeOK, IOState
    <2>3. e.by # Closer => e.bytes + HeaderSize >= MinPaddedSize
      BY <1>1 DEF Deliver, Padded, InWrite
    <2> HIDE DEF e
    <2>4. /\ Len(wire') = Len(wire) + 1 /\ wire'[Len(wire) + 1] = e /\ Len(wire) \in Nat
          /\ \A i \in 1 .. Len(wire) : wire'[i] = wire[i]
      BY <2>1, <2>2, AppendProperties, LenProperties
    <2>5. \A i \in 1 .. Len(wire') : i \in 1 .. Len(wire) \/ i = Len(wire) + 1
      BY <2>4
    <2> QED BY <2>3, <2>4, <2>5 DEF PaddedFlush
  <1>2. CASE wire' = wire
    BY <1>2 DEF PaddedFlush
  <1>3. ASSUME \/ \E w \in Writer, f \in Frame : Write(w, f)
               \/ \E t \in TimerId : TimerFires(t) \/ TimerFlush(t)
               \/ CoverTick \/ Close \/ InnerClose \/ TransportFails
               \/ \E a \in Actor : Seal(a) \/ Refuse(a)
               \/ UNCHANGED vars
        PROVE  wire' = wire
    BY <1>3 DEF Write, TimerFires, TimerFlush, CoverTick, Close, InnerClose, TransportFails,
                Seal, Refuse, vars
  <1> QED BY <1>1, <1>2, <1>3 DEF Next

(* Every flush but the last of Close leaves with at least the smallest     *)
(* target less one header (coalesce.go:183-205), for every configuration   *)
(* whose smallest target one padding frame can reach: both programs use    *)
(* 1100 bytes, and a frame carries 65535.                                  *)
THEOREM FlushesPadded ==
    ASSUME MinPaddedSize <= MaxPayload PROVE Spec => []PaddedFlush
  <1>1. Init => Padded /\ PaddedFlush
    <2>1. Init => Len(wire) = 0 /\ \A a \in Actor : io[a].st = "idle"
      BY EmptySeq DEF Init, Idle
    <2> QED BY <2>1 DEF Padded, PaddedFlush, InWrite
  <1>2. TypeOK /\ Padded /\ PaddedFlush /\ [Next]_vars => Padded' /\ PaddedFlush'
    BY PaddedStep, PaddedFlushStep
  <1> QED BY <1>1, <1>2, TypeCorrect, PTL DEF Spec

-----------------------------------------------------------------------------
(* The coalescer implements the frame queue: every step of it is a step of *)
(* the queue or changes nothing the queue knows of.                        *)

LEMMA QueueStep ==
    ASSUME DataInv, [Next]_vars
    PROVE  [Abstract!Next]_(Abstract!vars)
  <1> DEFINE Goal == [Abstract!Next]_(Abstract!vars)
  <1>0. TypeOK /\ Mutex /\ AfterClose /\ Pending
    BY DEF DataInv, IInv
  <1>u. ASSUME UNCHANGED <<accepted, sent, transport>> PROVE Goal
    BY <1>u DEF Abstract!vars
  <1>1. ASSUME NEW w \in Writer, NEW f \in Frame, Write(w, f) PROVE Goal
    <2>1. transport # "shut"
      BY <1>0, <1>1 DEF Write, AfterClose
    <2>2. Abstract!Accept(f)
      BY <1>1, <2>1 DEF Write, Abstract!Accept
    <2> QED BY <2>2 DEF Abstract!Next
  <1>2. ASSUME NEW a \in Actor, Deliver(a) PROVE Goal
    <2>1. /\ InWrite(a) /\ transport = "up" /\ UNCHANGED <<accepted, transport>>
          /\ sent' = sent \o io[a].frames /\ accepted = sent'
      BY <1>0, <1>2 DEF Deliver, Pending, InWrite
    <2>2. CASE io[a].frames = <<>>
      <3>1. sent' = sent
        BY <1>0, <2>1, <2>2, ConcatEmptySeq DEF TypeOK
      <3> QED BY <1>u, <2>1, <3>1
    <2>3. CASE io[a].frames # <<>>
      <3>1. io[a].frames \in Seq(Frame) /\ sent \in Seq(Frame) /\ accepted \in Seq(Frame)
        BY <1>0 DEF TypeOK, IOState
      <3>2. /\ Len(accepted) = Len(sent) + Len(io[a].frames)
            /\ Len(sent) \in Nat /\ Len(io[a].frames) \in Nat \ {0}
        BY <2>1, <2>3, <3>1, ConcatProperties, LenProperties, EmptySeq
      <3>3. Len(accepted) \in Len(sent) + 1 .. Len(accepted)
        BY <3>2
      <3>4. sent' = SubSeq(accepted, 1, Len(accepted))
        BY <2>1, <3>1, SubSeqFull
      <3>5. Abstract!Deliver
        BY <2>1, <3>3, <3>4 DEF Abstract!Deliver
      <3> QED BY <3>5 DEF Abstract!Next
    <2> QED BY <2>2, <2>3
  <1>3. ASSUME InnerClose PROVE Goal
    <2>1. CASE transport # "up"
      BY <1>3, <1>u, <2>1 DEF InnerClose
    <2>2. CASE transport = "up"
      <3>1. closed /\ io[Closer].st = "shut" /\ Closer \in Actor
        BY <1>0, <1>3 DEF InnerClose, AfterClose, Actor
      <3>2. buf = <<>> /\ \A a \in Actor : ~InWrite(a)
        BY <1>0, <3>1 DEF AfterClose, InWrite
      <3>3. accepted = sent
        BY <1>0, <2>2, <3>2, ConcatEmptySeq DEF Pending, TypeOK
      <3>4. Abstract!Shut
        BY <1>3, <2>2, <3>3 DEF InnerClose, Abstract!Shut
      <3> QED BY <3>4 DEF Abstract!Next
    <2> QED BY <2>1, <2>2
  <1>4. ASSUME TransportFails PROVE Goal
    <2>1. Abstract!Fail
      BY <1>4 DEF TransportFails, Abstract!Fail
    <2> QED BY <2>1 DEF Abstract!Next
  <1>5. ASSUME Next, \A w \in Writer, f \in Frame : ~Write(w, f),
               \A a \in Actor : ~Deliver(a), ~InnerClose, ~TransportFails
        PROVE  UNCHANGED <<accepted, sent, transport>>
    BY <1>5 DEF Next, TimerFires, TimerFlush, CoverTick, Close, Seal, Refuse
  <1>6. CASE UNCHANGED vars
    BY <1>6, <1>u DEF vars
  <1> QED BY <1>1, <1>2, <1>3, <1>4, <1>5, <1>6, <1>u

(* The coalescer, with MTU-sized frames, implements the safety half of the *)
(* frame queue: a FIFO of whole frames that Close empties before it shuts. *)
THEOREM CoalescerImplementsQueue ==
    ASSUME MTUSized PROVE Spec => Abstract!Spec
  <1>1. Init => Abstract!Init
    BY DEF Init, Abstract!Init
  <1>2. DataInv /\ [Next]_vars => [Abstract!Next]_(Abstract!vars)
    BY QueueStep
  <1> QED BY <1>1, <1>2, DataInductive, PTL DEF Spec, Abstract!Spec
=============================================================================
