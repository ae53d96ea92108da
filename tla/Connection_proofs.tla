--------------------------- MODULE Connection_proofs ---------------------------
(***************************************************************************)
(* Theorems about the two guards of a connection: the replay window, for    *)
(* every size and every set of nonces, and the keepalive, for intervals,   *)
(* delays and loads of any size within the hypotheses each theorem names.  *)
(***************************************************************************)
EXTENDS ReplayWindow, Keepalive, FiniteSetTheorems, SequenceTheorems, TLAPS

-----------------------------------------------------------------------------
(* The replay window.                                                      *)

LEMMA WindowInitIInv == ASSUME WindowInit PROVE IInv
  <1>1. times \in [Nonce -> Nat] /\ \A n \in Nonce : times[n] = 0
    BY DEF WindowInit
  <1>2. outcome \in [n : Nonce \cup {0}, fresh : BOOLEAN]
    BY DEF WindowInit
  <1>3. WindowTypeOK
    BY <1>1, <1>2 DEF WindowInit, WindowTypeOK
  <1>4. WindowExact /\ AtMostOnce
    BY <1>1 DEF WindowInit, WindowExact, AtMostOnce
  <1> QED BY <1>3, <1>4 DEF IInv

(* The history of an accepted nonce and of a refused one. *)
LEMMA Accepted ==
    ASSUME WindowTypeOK, NEW n \in Nonce, times[n] = 0, Result(n, TRUE)
    PROVE  /\ outcome' = [n |-> n, fresh |-> TRUE]
           /\ outcome' \in [n : Nonce \cup {0}, fresh : BOOLEAN]
           /\ times' \in [Nonce -> Nat] /\ times'[n] = 1
           /\ \A m \in Nonce : m # n => times'[m] = times[m]
  <1>1. times' = [times EXCEPT ![n] = @ + 1] /\ outcome' = [n |-> n, fresh |-> TRUE]
    BY DEF Result
  <1>2. times \in [Nonce -> Nat]
    BY DEF WindowTypeOK
  <1> QED BY <1>1, <1>2

LEMMA Refused ==
    ASSUME WindowTypeOK, NEW n \in Nonce, Result(n, FALSE)
    PROVE  /\ outcome' = [n |-> n, fresh |-> FALSE]
           /\ outcome' \in [n : Nonce \cup {0}, fresh : BOOLEAN]
           /\ times' = times
  BY DEF Result

LEMMA WindowStepIInv ==
    ASSUME IInv, [WindowNext]_windowVars
    PROVE  IInv'
  <1>0. /\ WindowTypeOK /\ WindowExact /\ AtMostOnce
        /\ WindowSize \in Nat \ {0} /\ Nonce \subseteq Nat
        /\ head \in Nat /\ \A m \in Nonce : times[m] \in Nat /\ m \in Nat
    BY WindowAssumption DEF IInv, WindowTypeOK
  <1>1. ASSUME Reset PROVE IInv'
    <2>1. /\ head' = 0 /\ bitmap' = {} /\ hasAny' = FALSE /\ outcome' = outcome
          /\ times' = [n \in Nonce |-> 0]
      BY <1>1 DEF Reset
    <2>2. times' \in [Nonce -> Nat] /\ \A n \in Nonce : times'[n] = 0
      BY <2>1
    <2>3. WindowTypeOK'
      BY <1>0, <2>1, <2>2 DEF WindowTypeOK
    <2>4. WindowExact' /\ AtMostOnce'
      BY <2>1, <2>2 DEF WindowExact, AtMostOnce
    <2> QED BY <2>3, <2>4 DEF IInv
  <1>2. ASSUME NEW n \in Nonce, MarkFirst(n) PROVE IInv'
    <2>1. /\ hasAny' = TRUE /\ head' = n /\ bitmap' = {0} /\ Result(n, TRUE)
          /\ \A m \in Nonce : times[m] = 0
      BY <1>0, <1>2 DEF MarkFirst, WindowExact
    <2>2. /\ times' \in [Nonce -> Nat] /\ times'[n] = 1
          /\ outcome' \in [n : Nonce \cup {0}, fresh : BOOLEAN]
          /\ \A m \in Nonce : m # n => times'[m] = 0
      BY <1>0, <2>1, Accepted
    <2>3. WindowTypeOK'
      BY <1>0, <2>1, <2>2 DEF WindowTypeOK
    <2>4. AtMostOnce'
      BY <2>2 DEF AtMostOnce
    <2>5. WindowExact'
      BY <1>0, <2>1, <2>2 DEF WindowExact
    <2> QED BY <2>3, <2>4, <2>5 DEF IInv
  <1>3. ASSUME NEW n \in Nonce, MarkAhead(n) PROVE IInv'
    <2>1. /\ hasAny /\ hasAny' = hasAny /\ n > head /\ head' = n
          /\ bitmap' = IF n - head >= WindowSize
                       THEN {0} ELSE ShiftLeft(bitmap, n - head) \cup {0}
          /\ Result(n, TRUE) /\ times[n] = 0 /\ n \in Nat /\ head \in Nonce
      BY <1>0, <1>3 DEF MarkAhead, WindowExact
    <2>2. /\ times' \in [Nonce -> Nat] /\ times'[n] = 1
          /\ outcome' \in [n : Nonce \cup {0}, fresh : BOOLEAN]
          /\ \A m \in Nonce : m # n => times'[m] = times[m]
      BY <1>0, <2>1, Accepted
    <2>3. bitmap' \subseteq 0 .. WindowSize - 1
      BY <1>0, <2>1 DEF ShiftLeft
    <2>4. WindowTypeOK'
      BY <1>0, <2>1, <2>2, <2>3 DEF WindowTypeOK
    <2>5. AtMostOnce'
      BY <1>0, <2>2 DEF AtMostOnce
    <2>6. ASSUME NEW m \in Nonce, m <= n, n - m < WindowSize
          PROVE  times'[m] > 0 <=> n - m \in bitmap'
      <3>1. CASE m = n
        BY <1>0, <2>1, <2>2, <3>1
      <3>2. CASE m < n /\ m > head
        <4>1. times'[m] = 0
          BY <1>0, <2>1, <2>2, <3>2 DEF WindowExact
        <4>2. n - m \notin bitmap'
          BY <1>0, <2>1, <2>6, <3>2 DEF ShiftLeft, WindowTypeOK
        <4> QED BY <4>1, <4>2
      <3>3. CASE m < n /\ m <= head
        <4>1. times'[m] = times[m]
          BY <1>0, <2>2, <3>3
        <4>2. head - m < WindowSize /\ n - head < WindowSize
          BY <1>0, <2>1, <2>6, <3>3
        <4>3. times[m] > 0 <=> head - m \in bitmap
          BY <1>0, <2>1, <3>3, <4>2 DEF WindowExact
        <4>4. n - m \in bitmap' <=> head - m \in bitmap
          <5>1. n - m \in 0 .. WindowSize - 1 /\ n - m >= n - head /\ n - m # 0
            BY <1>0, <2>1, <2>6, <3>3
          <5>2. (n - m) - (n - head) = head - m
            BY <1>0, <2>1
          <5> QED BY <1>0, <2>1, <4>2, <5>1, <5>2 DEF ShiftLeft
        <4> QED BY <4>1, <4>3, <4>4
      <3> QED BY <1>0, <2>1, <2>6, <3>1, <3>2, <3>3
    <2>7. \A m \in Nonce : m > n => times'[m] = 0
      BY <1>0, <2>1, <2>2 DEF WindowExact
    <2>8. WindowExact'
      BY <1>0, <2>1, <2>6, <2>7 DEF WindowExact
    <2> QED BY <2>4, <2>5, <2>8 DEF IInv
  <1>4. ASSUME NEW n \in Nonce, MarkBehind(n) PROVE IInv'
    <2>1. /\ hasAny /\ hasAny' = hasAny /\ n <= head /\ head' = head
          /\ head \in Nonce /\ n \in Nat /\ 0 \in bitmap
      BY <1>0, <1>4 DEF MarkBehind, WindowExact
    <2>2. CASE TooOld(head - n) \/ head - n \in bitmap
      <3>1. Result(n, FALSE) /\ bitmap' = bitmap
        BY <1>4, <2>2 DEF MarkBehind
      <3>2. /\ times' \in [Nonce -> Nat]
            /\ outcome' \in [n : Nonce \cup {0}, fresh : BOOLEAN]
            /\ times' = times
        BY <1>0, <3>1, Refused DEF WindowTypeOK
      <3> QED BY <1>0, <2>1, <3>1, <3>2 DEF IInv, WindowTypeOK, WindowExact, AtMostOnce
    <2>3. CASE ~(TooOld(head - n) \/ head - n \in bitmap)
      <3>1. /\ Result(n, TRUE)
            /\ bitmap' = bitmap \cup ({head - n} \cap 0 .. WindowSize - 1)
        BY <1>4, <2>3 DEF MarkBehind
      <3>2. head - n \in 0 .. WindowSize - 1 /\ head - n \notin bitmap
        BY <1>0, <2>1, <2>3 DEF TooOld
      <3>3. bitmap' = bitmap \cup {head - n}
        BY <3>1, <3>2
      <3>4. times[n] = 0
        BY <1>0, <2>1, <3>2 DEF WindowExact
      <3>5. /\ times' \in [Nonce -> Nat] /\ times'[n] = 1
            /\ outcome' \in [n : Nonce \cup {0}, fresh : BOOLEAN]
            /\ \A m \in Nonce : m # n => times'[m] = times[m]
        BY <1>0, <3>1, <3>4, Accepted
      <3>6. WindowTypeOK'
        BY <1>0, <2>1, <3>2, <3>3, <3>5 DEF WindowTypeOK
      <3>7. AtMostOnce'
        BY <1>0, <3>5 DEF AtMostOnce
      <3>8. ASSUME NEW m \in Nonce, m # n, m <= head
            PROVE  head - m \in bitmap' <=> head - m \in bitmap
        BY <1>0, <2>1, <3>3, <3>8
      <3>9. WindowExact'
        BY <1>0, <2>1, <3>2, <3>3, <3>5, <3>8 DEF WindowExact
      <3> QED BY <3>6, <3>7, <3>9 DEF IInv
    <2> QED BY <2>2, <2>3
  <1>5. CASE UNCHANGED windowVars
    BY <1>0, <1>5 DEF windowVars, IInv, WindowTypeOK, WindowExact, AtMostOnce
  <1> QED BY <1>1, <1>2, <1>3, <1>4, <1>5 DEF WindowNext

(* The bitmap is exact and no nonce is accepted twice. *)
THEOREM WindowCorrect == WindowSpec => []IInv
  BY WindowInitIInv, WindowStepIInv, PTL DEF WindowSpec

(* The replay guarantee for every window size. *)
THEOREM NoReplay == WindowSpec => []AtMostOnce
  <1>1. IInv => AtMostOnce
    BY DEF IInv
  <1> QED BY WindowCorrect, <1>1, PTL

-----------------------------------------------------------------------------
(* The window answers as the set of all accepted nonces would.             *)

LEMMA SeenStep ==
    ASSUME IInv, [WindowNext]_windowVars
    PROVE  [Abstract!Next]_(Abstract!vars)
  <1> DEFINE seen == {n \in Nonce : times[n] > 0}
             Goal == [Abstract!Next]_(Abstract!vars)
  <1>0. /\ WindowTypeOK /\ WindowExact /\ AtMostOnce
        /\ WindowSize \in Nat \ {0} /\ Nonce \subseteq Nat
        /\ head \in Nat /\ \A m \in Nonce : times[m] \in Nat /\ m \in Nat
    BY WindowAssumption DEF IInv, WindowTypeOK
  <1>a. ASSUME NEW n \in Nonce, times[n] = 0, Result(n, TRUE),
               \A m \in seen : m < n + WindowSize
        PROVE  Goal
    <2>1. /\ outcome' = [n |-> n, fresh |-> TRUE] /\ times'[n] = 1
          /\ \A m \in Nonce : m # n => times'[m] = times[m]
      BY <1>0, <1>a, Accepted
    <2>2. {m \in Nonce : times'[m] > 0} = seen \cup {n}
      <3>1. \A m \in Nonce : times'[m] > 0 <=> m \in seen \/ m = n
        BY <1>0, <2>1
      <3> QED BY <3>1
    <2>3. n \notin seen
      BY <1>a
    <2>4. Abstract!Fresh(n)
      BY <1>a, <2>3 DEF Abstract!Fresh
    <2>5. Abstract!Mark(n)
      BY <2>1, <2>2, <2>4 DEF Abstract!Mark
    <2> QED BY <2>5 DEF Abstract!Next
  <1>r. ASSUME NEW n \in Nonce, Result(n, FALSE),
               n \in seen \/ \E m \in seen : ~(m < n + WindowSize)
        PROVE  Goal
    <2>1. outcome' = [n |-> n, fresh |-> FALSE] /\ times' = times
      BY <1>0, <1>r, Refused
    <2>2. Abstract!Fresh(n) = FALSE
      BY <1>r DEF Abstract!Fresh
    <2>3. Abstract!Mark(n)
      <3>1. {m \in Nonce : times'[m] > 0} = seen
        BY <2>1
      <3> QED BY <2>1, <2>2, <3>1 DEF Abstract!Mark
    <2> QED BY <2>3 DEF Abstract!Next
  <1>1. ASSUME Reset PROVE Goal
    <2>1. times' = [n \in Nonce |-> 0] /\ outcome' = outcome
      BY <1>1 DEF Reset
    <2>2. {n \in Nonce : times'[n] > 0} = {}
      BY <2>1
    <2>3. Abstract!Reset
      BY <2>1, <2>2 DEF Abstract!Reset
    <2> QED BY <2>3 DEF Abstract!Next
  <1>2. ASSUME NEW n \in Nonce, MarkFirst(n) PROVE Goal
    <2>1. Result(n, TRUE) /\ \A m \in Nonce : times[m] = 0
      BY <1>0, <1>2 DEF MarkFirst, WindowExact
    <2>2. seen = {}
      BY <2>1
    <2> QED BY <1>a, <2>1, <2>2
  <1>3. ASSUME NEW n \in Nonce, MarkAhead(n) PROVE Goal
    <2>1. Result(n, TRUE) /\ n > head /\ \A m \in Nonce : m > head => times[m] = 0
      BY <1>0, <1>3 DEF MarkAhead, WindowExact
    <2>2. \A m \in seen : m < n + WindowSize
      BY <1>0, <2>1
    <2> QED BY <1>a, <2>1, <2>2
  <1>4. ASSUME NEW n \in Nonce, MarkBehind(n) PROVE Goal
    <2>1. /\ hasAny /\ n <= head /\ head \in Nonce /\ 0 \in bitmap /\ n \in Nat
          /\ \A m \in Nonce : m > head => times[m] = 0
          /\ \A m \in Nonce : m <= head /\ head - m < WindowSize =>
                (times[m] > 0 <=> head - m \in bitmap)
      BY <1>0, <1>4 DEF MarkBehind, WindowExact
    <2>2. head \in seen
      <3>1. head <= head /\ head - head = 0 /\ 0 < WindowSize
        BY <1>0
      <3> QED BY <2>1, <3>1
    <2>3. CASE TooOld(head - n) \/ head - n \in bitmap
      <3>1. Result(n, FALSE)
        BY <1>4, <2>3 DEF MarkBehind
      <3>2. CASE head - n < WindowSize
        <4>1. n \in seen
          BY <1>0, <2>1, <2>3, <3>2 DEF TooOld
        <4> QED BY <1>r, <3>1, <4>1
      <3>3. CASE ~(head - n < WindowSize)
        <4>1. ~(head < n + WindowSize)
          BY <1>0, <2>1, <3>3
        <4> QED BY <1>r, <2>2, <3>1, <4>1
      <3> QED BY <3>2, <3>3
    <2>4. CASE ~(TooOld(head - n) \/ head - n \in bitmap)
      <3>1. Result(n, TRUE)
        BY <1>4, <2>4 DEF MarkBehind
      <3>2. times[n] = 0 /\ head < n + WindowSize
        BY <1>0, <2>1, <2>4 DEF TooOld
      <3>3. \A m \in seen : m < n + WindowSize
        BY <1>0, <2>1, <3>2
      <3> QED BY <1>a, <3>1, <3>2, <3>3
    <2> QED BY <2>3, <2>4
  <1>5. CASE UNCHANGED windowVars
    BY <1>5 DEF windowVars, Abstract!vars
  <1> QED BY <1>1, <1>2, <1>3, <1>4, <1>5 DEF WindowNext

(* For every window size, Mark answers exactly as an unbounded set of the  *)
(* accepted nonces would: neither a replay nor a false alarm.              *)
THEOREM WindowImplementsSeenSet == WindowSpec => ImplementsSeenSet
  <1>1. WindowInit => Abstract!Init
    <2> SUFFICES ASSUME WindowInit PROVE Abstract!Init
      OBVIOUS
    <2>1. {n \in Nonce : times[n] > 0} = {}
      BY DEF WindowInit
    <2> QED BY <2>1 DEF WindowInit, Abstract!Init
  <1>2. IInv /\ [WindowNext]_windowVars => [Abstract!Next]_(Abstract!vars)
    BY SeenStep
  <1> QED BY <1>1, <1>2, WindowCorrect, PTL DEF WindowSpec, ImplementsSeenSet, Abstract!Spec
-----------------------------------------------------------------------------
(* The keepalive: what the constants are, and the two sides.               *)
LEMMA Bounds ==
    /\ Interval \in Nat /\ Interval > 0 /\ PingTimeout \in Nat
    /\ MaxDelay \in Nat /\ MaxWire \in Nat
  BY KeepaliveAssumption

LEMMA Sides ==
    /\ Side = {"client", "server"}
    /\ \A x \in Side : Peer(x) \in Side /\ Peer(x) # x /\ Peer(Peer(x)) = x
    /\ \A x, y \in Side : x = y \/ x = Peer(y)
  BY DEF Side, Peer

(* A frame that is under way.                                              *)
Frame == [type : {"ping", "pong"}, left : 0 .. MaxDelay]

TypeOK ==
    /\ conn \in [Side -> {"open", "closed"}]
    /\ pinger \in [Side -> {"wait", "ping", "store", "ended"}]
    /\ pingIn \in [Side -> 1 .. Interval] /\ pingDue \in [Side -> BOOLEAN]
    /\ sentAge \in [Side -> 0 .. OldPing] /\ pongAge \in [Side -> 0 .. OldPing]
    /\ shaper \in [Side -> {"wait", "ping", "off"}]
    /\ shaperIn \in [Side -> 1 .. Interval] /\ shaperDue \in [Side -> BOOLEAN]
    /\ reader \in [Side -> {"read", "pong", "ended"}]
    /\ wire \in [Side -> Seq(Frame)]
    /\ full \subseteq Loaded /\ hung \subseteq Side /\ hungFor \in 0 .. OldHang
    /\ broken \in BOOLEAN /\ brokenFor \in 0 .. 1 /\ shut \subseteq Side
    /\ gaveUp \subseteq Side

(* The frames of a wire after a unit of time.                              *)
Aged(w) == [i \in DOMAIN w |-> [w[i] EXCEPT !.left = IF @ = 0 THEN 0 ELSE @ - 1]]

LEMMA AgedFrames ==
    ASSUME NEW w \in Seq(Frame)
    PROVE  /\ Aged(w) \in Seq(Frame) /\ Len(Aged(w)) = Len(w)
           /\ \A i \in 1 .. Len(w) :
                 /\ Aged(w)[i].type = w[i].type
                 /\ Aged(w)[i].left = IF w[i].left = 0 THEN 0 ELSE w[i].left - 1
<1> USE Bounds
<1>1. Len(w) \in Nat /\ DOMAIN w = 1 .. Len(w) /\ \A i \in 1 .. Len(w) : w[i] \in Frame
  BY LenProperties, ElementOfSeq
<1>2. \A i \in 1 .. Len(w) :
        /\ w[i].type \in {"ping", "pong"} /\ w[i].left \in 0 .. MaxDelay
        /\ [w[i] EXCEPT !.left = IF @ = 0 THEN 0 ELSE @ - 1]
             = [type |-> w[i].type, left |-> IF w[i].left = 0 THEN 0 ELSE w[i].left - 1]
  BY <1>1 DEF Frame
<1>3. Aged(w) = [i \in 1 .. Len(w) |->
                   [type |-> w[i].type, left |-> IF w[i].left = 0 THEN 0 ELSE w[i].left - 1]]
  BY <1>1, <1>2 DEF Aged
<1>4. ASSUME NEW i \in 1 .. Len(w)
      PROVE  [type |-> w[i].type, left |-> IF w[i].left = 0 THEN 0 ELSE w[i].left - 1] \in Frame
  <2>1. PICK n \in 0 .. MaxDelay : n = w[i].left
    BY <1>2
  <2>2. (IF n = 0 THEN 0 ELSE n - 1) \in 0 .. MaxDelay
    OBVIOUS
  <2> QED BY <1>2, <2>1, <2>2 DEF Frame
<1>5. Aged(w) \in [1 .. Len(w) -> Frame]
  BY <1>3, <1>4
<1>6. Aged(w) \in Seq(Frame) /\ Len(Aged(w)) = Len(w)
  BY <1>1, <1>5, SeqDef, LenProperties
<1> QED BY <1>3, <1>6

(* A frame written, and a frame read.                                      *)
LEMMA Sent ==
    ASSUME TypeOK, NEW x \in Side, NEW type \in {"ping", "pong"}, Send(x, type)
    PROVE  /\ CanWrite(x) /\ wire' \in [Side -> Seq(Frame)] /\ wire'[Peer(x)] = wire[Peer(x)]
           /\ x \in hung \/ broken => wire' = wire
           /\ x \notin hung /\ ~broken =>
                 wire'[x] = Append(wire[x], [type |-> type, left |-> MaxDelay])
<1> USE Bounds
<1>1. [type |-> type, left |-> MaxDelay] \in Frame
  BY DEF Frame
<1>2. wire \in [Side -> Seq(Frame)] /\ Append(wire[x], [type |-> type, left |-> MaxDelay]) \in Seq(Frame)
  BY <1>1, AppendProperties DEF TypeOK
<1> QED BY <1>2, Sides DEF Send

LEMMA Received ==
    ASSUME TypeOK, NEW x \in Side, NEW type \in {"ping", "pong"}, Receive(x, type)
    PROVE  /\ reader[x] = "read" /\ wire[Peer(x)] # <<>> /\ wire[Peer(x)][1].type = type
           /\ wire' \in [Side -> Seq(Frame)] /\ wire'[x] = wire[x]
           /\ wire'[Peer(x)] = Tail(wire[Peer(x)])
<1>1. wire \in [Side -> Seq(Frame)] /\ Peer(x) \in Side /\ Peer(x) # x
  BY Sides DEF TypeOK
<1>2. wire[Peer(x)] # <<>> /\ Head(wire[Peer(x)]).type = type
  BY DEF Receive
<1>3. Tail(wire[Peer(x)]) \in Seq(Frame) /\ Head(wire[Peer(x)]) = wire[Peer(x)][1]
  BY <1>1, <1>2, HeadTailProperties
<1> QED BY <1>1, <1>2, <1>3 DEF Receive

(* A ticker, and an age, after a unit of time.                             *)
LEMMA Ticks ==
    ASSUME NEW ended \in [Side -> BOOLEAN], NEW in \in [Side -> 1 .. Interval],
           NEW due \in [Side -> BOOLEAN], NEW in2, NEW due2, Ticker(ended, in, due, in2, due2)
    PROVE  /\ in2 \in [Side -> 1 .. Interval] /\ due2 \in [Side -> BOOLEAN]
<1> USE Bounds
<1>1. \A x \in Side : in[x] \in 1 .. Interval
  OBVIOUS
<1>2. ASSUME NEW x \in Side
      PROVE  (IF ended[x] THEN Interval ELSE IF in[x] = 1 THEN Interval ELSE in[x] - 1)
                \in 1 .. Interval
  <2>1. PICK n \in 1 .. Interval : n = in[x]
    BY <1>1
  <2>2. n # 1 => n - 1 \in 1 .. Interval
    OBVIOUS
  <2> QED BY <2>1, <2>2
<1>3. /\ in2 = [x \in Side |-> IF ended[x] THEN Interval
                              ELSE IF in[x] = 1 THEN Interval ELSE in[x] - 1]
      /\ due2 = [x \in Side |-> ~ended[x] /\ (due[x] \/ in[x] = 1)]
  BY DEF Ticker
<1> QED BY <1>2, <1>3

LEMMA Olders ==
    ASSUME NEW max \in Nat, NEW age \in 0 .. max
    PROVE  /\ Older(age, max) \in 0 .. max /\ Older(age, max) >= age
           /\ age < max => Older(age, max) = age + 1
           /\ age = max => Older(age, max) = max
  BY DEF Older

LEMMA TypeInit == Init => TypeOK
<1> USE Bounds
<1> SUFFICES ASSUME Init PROVE TypeOK
  OBVIOUS
<1>1. <<>> \in Seq(Frame)
  OBVIOUS
<1>2. pingIn \in [Side -> 1 .. Interval] /\ \A x \in Side : Interval - pingIn[x] \in 0 .. OldPing
  <2>1. \A n \in 1 .. Interval : Interval - n \in 0 .. OldPing
    BY DEF OldPing
  <2> QED BY <2>1 DEF Init
<1>3. sentAge \in [Side -> 0 .. OldPing] /\ pongAge \in [Side -> 0 .. OldPing]
  BY <1>2 DEF Init
<1>4. hungFor \in 0 .. OldHang /\ brokenFor \in 0 .. 1
  BY DEF Init, OldHang
<1>5. wire \in [Side -> Seq(Frame)]
  BY <1>1 DEF Init
<1> QED BY <1>2, <1>3, <1>4, <1>5 DEF Init, TypeOK

LEMMA TypeTick == ASSUME TypeOK, Tick PROVE TypeOK'
<1> USE Bounds
<1>1. wire' \in [Side -> Seq(Frame)]
  <2>1. \A x \in Side : Aged(wire[x]) \in Seq(Frame)
    BY AgedFrames DEF TypeOK
  <2>2. wire' = [x \in Side |-> Aged(wire[x])]
    BY DEF Tick, Aged
  <2> QED BY <2>1, <2>2
<1>2. pingIn' \in [Side -> 1 .. Interval] /\ pingDue' \in [Side -> BOOLEAN]
  <2>1. pingIn \in [Side -> 1 .. Interval] /\ pingDue \in [Side -> BOOLEAN]
    BY DEF TypeOK
  <2>2. PICK ended \in [Side -> BOOLEAN] : ended = [x \in Side |-> pinger[x] = "ended"]
    OBVIOUS
  <2>3. Ticker(ended, pingIn, pingDue, pingIn', pingDue')
    BY <2>2 DEF Tick
  <2> QED BY ONLY Ticks, <2>1, <2>2, <2>3
<1>3. shaperIn' \in [Side -> 1 .. Interval] /\ shaperDue' \in [Side -> BOOLEAN]
  <2>1. shaperIn \in [Side -> 1 .. Interval] /\ shaperDue \in [Side -> BOOLEAN]
    BY DEF TypeOK
  <2>2. PICK ended \in [Side -> BOOLEAN] : ended = [x \in Side |-> shaper[x] = "off"]
    OBVIOUS
  <2>3. Ticker(ended, shaperIn, shaperDue, shaperIn', shaperDue')
    BY <2>2 DEF Tick
  <2> QED BY ONLY Ticks, <2>1, <2>2, <2>3
<1>4. sentAge' \in [Side -> 0 .. OldPing] /\ pongAge' \in [Side -> 0 .. OldPing]
  <2>1. OldPing \in Nat
    BY DEF OldPing
  <2>2. \A x \in Side : /\ Older(sentAge[x], OldPing) \in 0 .. OldPing
                       /\ Older(pongAge[x], OldPing) \in 0 .. OldPing
    BY <2>1, Olders DEF TypeOK
  <2> QED BY <2>2 DEF Tick
<1>5. hungFor' \in 0 .. OldHang /\ brokenFor' \in 0 .. 1
  <2>1. OldHang \in Nat /\ 1 \in Nat
    BY DEF OldHang
  <2>2. Older(hungFor, OldHang) \in 0 .. OldHang /\ 0 \in 0 .. OldHang
    BY <2>1, Olders DEF TypeOK
  <2>3. Older(brokenFor, 1) \in 0 .. 1 /\ 0 \in 0 .. 1
    BY <2>1, Olders DEF TypeOK
  <2> QED BY <2>2, <2>3 DEF Tick
<1>6. UNCHANGED <<conn, pinger, shaper, reader, full, hung, broken, shut, gaveUp>>
  BY DEF Tick
<1> QED BY <1>1, <1>2, <1>3, <1>4, <1>5, <1>6 DEF TypeOK

LEMMA TypeStep == ASSUME TypeOK, [Next]_vars PROVE TypeOK'
<1> USE Bounds
<1>1. CASE Tick
  BY <1>1, TypeTick
<1>2. ASSUME NEW x \in Side, PingerSends(x) \/ ShaperSends(x) PROVE TypeOK'
  <2>1. Send(x, "ping")
    BY <1>2 DEF PingerSends, ShaperSends
  <2>2. wire' \in [Side -> Seq(Frame)]
    BY <2>1, Sent
  <2> QED BY <1>2, <2>2 DEF TypeOK, PingerSends, ShaperSends, pings, shapers, faults
<1>3. ASSUME NEW x \in Side, ReadsPing(x) \/ ReadsPong(x) PROVE TypeOK'
  <2>1. Receive(x, "ping") \/ Receive(x, "pong")
    BY <1>3 DEF ReadsPing, ReadsPong
  <2>2. wire' \in [Side -> Seq(Frame)]
    BY <2>1, Received
  <2>3. 0 \in 0 .. OldPing
    BY DEF OldPing
  <2> QED BY <1>3, <2>2, <2>3 DEF TypeOK, ReadsPing, ReadsPong, pings, shapers, faults
<1>4. ASSUME NEW x \in Side, Echoes(x) PROVE TypeOK'
  <2>1. wire' \in [Side -> Seq(Frame)]
    BY <1>4, Sent DEF Echoes
  <2> QED BY <1>4, <2>1 DEF TypeOK, Echoes, pings, shapers, faults
<1>5. ASSUME NEW x \in Side, SessionCloses(x) \/ Hangs(x) PROVE TypeOK'
  <2>1. <<>> \in Seq(Frame)
    OBVIOUS
  <2>2. wire' \in [Side -> Seq(Frame)]
    <3>1. wire' = [y \in Side |-> <<>>] \/ wire' = [wire EXCEPT ![x] = <<>>]
      BY <1>5 DEF SessionCloses, Breaks, Hangs
    <3> QED BY <2>1, <3>1 DEF TypeOK
  <2> QED BY <1>5, <2>2 DEF TypeOK, SessionCloses, Breaks, Hangs, pings, shapers
<1>11. CASE Breaks
  <2>1. <<>> \in Seq(Frame)
    OBVIOUS
  <2> QED BY <1>11, <2>1 DEF TypeOK, Breaks, pings, shapers
<1>6. ASSUME NEW x \in Side, PingerEnds(x) \/ ShaperTicks(x) \/ ReadFails(x) PROVE TypeOK'
  BY <1>6 DEF TypeOK, PingerEnds, ShaperTicks, ReadFails, pings, shapers, faults
<1>10. ASSUME NEW x \in Side, PingerTicks(x) PROVE TypeOK'
  <2>1. /\ conn' \in [Side -> {"open", "closed"}] /\ gaveUp' \subseteq Side
        /\ pinger' \in [Side -> {"wait", "ping", "store", "ended"}]
        /\ pingDue' \in [Side -> BOOLEAN]
    <3>1. CASE Unanswered(x)
      <4>1. /\ pinger' = [pinger EXCEPT ![x] = "ended"] /\ conn' = [conn EXCEPT ![x] = "closed"]
            /\ gaveUp' = gaveUp \cup {x} /\ pingDue' = [pingDue EXCEPT ![x] = FALSE]
        BY <1>10, <3>1 DEF PingerTicks
      <4>2. gaveUp' \subseteq Side
        BY <4>1 DEF TypeOK
      <4> QED BY <4>1, <4>2 DEF TypeOK
    <3>2. CASE ~Unanswered(x)
      BY <1>10, <3>2 DEF TypeOK, PingerTicks
    <3> QED BY <3>1, <3>2
  <2> QED BY <1>10, <2>1 DEF TypeOK, PingerTicks, shapers, faults
<1>9. ASSUME NEW x \in Side, PingerStores(x) PROVE TypeOK'
  <2>1. 0 \in 0 .. OldPing
    BY DEF OldPing
  <2> QED BY <1>9, <2>1 DEF TypeOK, PingerStores, shapers, faults
<1>7. ASSUME NEW x \in Side, Fills(x) \/ Drains(x) PROVE TypeOK'
  BY <1>7 DEF TypeOK, Fills, Drains, pings, shapers
<1>8. CASE UNCHANGED vars
  BY <1>8 DEF TypeOK, vars, pings, shapers, faults
<1> QED BY <1>1, <1>2, <1>3, <1>4, <1>5, <1>6, <1>7, <1>8, <1>9, <1>10, <1>11 DEF Next

(* What a unit of time changes, side by side.                              *)
LEMMA Ticked ==
    ASSUME TypeOK, Tick
    PROVE  /\ UNCHANGED <<conn, pinger, shaper, reader, full, hung, broken, shut, gaveUp>>
           /\ hungFor' = IF hung = {} THEN 0 ELSE Older(hungFor, OldHang)
           /\ brokenFor' = IF broken THEN Older(brokenFor, 1) ELSE 0
           /\ \A x \in Side :
                 /\ ~Urgent(x)
                 /\ pingDue'[x] <=> pinger[x] # "ended" /\ (pingDue[x] \/ pingIn[x] = 1)
                 /\ pinger[x] = "ended" \/ pingIn[x] = 1 => pingIn'[x] = Interval
                 /\ pinger[x] # "ended" /\ pingIn[x] # 1 => pingIn'[x] = pingIn[x] - 1
                 /\ shaperDue'[x] <=> shaper[x] # "off" /\ (shaperDue[x] \/ shaperIn[x] = 1)
                 /\ shaper[x] = "off" \/ shaperIn[x] = 1 => shaperIn'[x] = Interval
                 /\ shaper[x] # "off" /\ shaperIn[x] # 1 => shaperIn'[x] = shaperIn[x] - 1
                 /\ sentAge'[x] = Older(sentAge[x], OldPing)
                 /\ pongAge'[x] = Older(pongAge[x], OldPing)
                 /\ wire'[x] = Aged(wire[x])
<1>1. pingIn \in [Side -> 1 .. Interval] /\ pingDue \in [Side -> BOOLEAN]
      /\ shaperIn \in [Side -> 1 .. Interval] /\ shaperDue \in [Side -> BOOLEAN]
  BY DEF TypeOK
<1>2. PICK ended \in [Side -> BOOLEAN] : ended = [x \in Side |-> pinger[x] = "ended"]
  OBVIOUS
<1>3. Ticker(ended, pingIn, pingDue, pingIn', pingDue')
  BY <1>2 DEF Tick
<1>4. \A x \in Side :
        /\ pingDue'[x] <=> ~ended[x] /\ (pingDue[x] \/ pingIn[x] = 1)
        /\ ended[x] \/ pingIn[x] = 1 => pingIn'[x] = Interval
        /\ ~ended[x] /\ pingIn[x] # 1 => pingIn'[x] = pingIn[x] - 1
  BY <1>1, <1>3, Bounds DEF Ticker
<1>5. PICK off \in [Side -> BOOLEAN] : off = [x \in Side |-> shaper[x] = "off"]
  OBVIOUS
<1>6. Ticker(off, shaperIn, shaperDue, shaperIn', shaperDue')
  BY <1>5 DEF Tick
<1>7. \A x \in Side :
        /\ shaperDue'[x] <=> ~off[x] /\ (shaperDue[x] \/ shaperIn[x] = 1)
        /\ off[x] \/ shaperIn[x] = 1 => shaperIn'[x] = Interval
        /\ ~off[x] /\ shaperIn[x] # 1 => shaperIn'[x] = shaperIn[x] - 1
  BY <1>1, <1>6, Bounds DEF Ticker
<1>8. \A x \in Side :
        /\ ~Urgent(x) /\ sentAge'[x] = Older(sentAge[x], OldPing)
        /\ pongAge'[x] = Older(pongAge[x], OldPing) /\ wire'[x] = Aged(wire[x])
  BY DEF Tick, Aged
<1>9. \A x \in Side : (ended[x] <=> pinger[x] = "ended") /\ (off[x] <=> shaper[x] = "off")
  BY <1>2, <1>5
<1>10. /\ UNCHANGED <<conn, pinger, shaper, reader, full, hung, broken, shut, gaveUp>>
       /\ hungFor' = IF hung = {} THEN 0 ELSE Older(hungFor, OldHang)
       /\ brokenFor' = IF broken THEN Older(brokenFor, 1) ELSE 0
  BY DEF Tick
<1> QED BY <1>4, <1>7, <1>8, <1>9, <1>10

-----------------------------------------------------------------------------
(* What holds of each side whatever the constants: nothing is on a wire     *)
(* that delivers nothing, and as long as the transport works a loop has     *)
(* ended only on the side whose pingLoop gave up.                           *)
Idle(x) ==
    /\ x \in hung \/ broken => wire[x] = <<>>
    /\ "ended" \in {pinger[x], reader[x]} => conn[x] = "closed"

Working(x) ==
    /\ reader[x] # "ended" /\ shaper[x] # "off"
    /\ conn[x] = "closed" => pinger[x] = "ended"
    /\ pinger[x] = "ended" <=> x \in gaveUp
    /\ pinger[x] # "ended" => pingIn[x] = shaperIn[x]

Basic ==
    /\ hung = {} => hungFor = 0
    /\ ~broken => brokenFor = 0 /\ shut = {}
    /\ \A x \in Side : Idle(x) /\ (~broken => Working(x))

LEMMA BasicInit == Init => Basic
  BY DEF Init, Basic, Idle, Working

LEMMA BasicStep == ASSUME TypeOK, Basic, [Next]_vars PROVE Basic'
<1> USE Bounds
<1>1. CASE Tick
  <2>0. ASSUME NEW x \in Side, wire[x] = <<>> PROVE wire'[x] = <<>>
    <3>1. Aged(<<>>) = <<>>
      BY EmptySeq, AgedFrames, SeqEqual
    <3> QED BY <1>1, <2>0, <3>1, Ticked
  <2>1. ASSUME NEW x \in Side PROVE Idle(x)' /\ (~broken' => Working(x)')
    <3>1. Idle(x) /\ (~broken => Working(x))
      BY DEF Basic
    <3>2. /\ UNCHANGED <<conn, pinger, shaper, reader, hung, broken, gaveUp>>
          /\ wire[x] = <<>> => wire'[x] = <<>>
          /\ pinger[x] # "ended" /\ shaper[x] # "off" /\ pingIn[x] = shaperIn[x] =>
                pingIn'[x] = shaperIn'[x]
      BY <1>1, <2>0, Ticked
    <3> QED BY <3>1, <3>2 DEF Idle, Working
  <2>2. hung' = {} => hungFor' = 0
    BY <1>1, Ticked
  <2>3. ~broken' => brokenFor' = 0 /\ shut' = {}
    BY <1>1, Ticked DEF Basic
  <2> QED BY <2>1, <2>2, <2>3 DEF Basic
<1>2. ASSUME NEW x \in Side, PingerSends(x) \/ ShaperSends(x) \/ Echoes(x) PROVE Basic'
  <2>1. UNCHANGED <<hung, hungFor, broken, brokenFor, shut, pingIn, shaperIn, gaveUp>>
    BY <1>2 DEF PingerSends, ShaperSends, Echoes, pings, shapers, faults
  <2>2. wire'[Peer(x)] = wire[Peer(x)] /\ (x \in hung \/ broken => wire'[x] = wire[x])
    BY <1>2, Sent DEF PingerSends, ShaperSends, Echoes
  <2>3. ASSUME NEW y \in Side PROVE Idle(y)' /\ (~broken' => Working(y)')
    <3>1. Idle(y) /\ (~broken => Working(y))
      BY DEF Basic
    <3>2. y \in hung \/ broken => wire'[y] = wire[y]
      BY <2>2, Sides
    <3>3. CASE broken
      BY <1>2, <2>1, <3>1, <3>2, <3>3
         DEF Idle, TypeOK, PingerSends, ShaperSends, Echoes, pings, shapers
    <3>4. CASE ~broken
      <4>1. WriteResult(x) = {"nil"}
        BY <3>4 DEF Basic, WriteResult
      <4> QED BY <1>2, <2>1, <3>1, <3>2, <3>4, <4>1
              DEF Idle, Working, TypeOK, PingerSends, ShaperSends, Echoes, pings, shapers
    <3> QED BY <3>3, <3>4
  <2> QED BY <2>1, <2>3 DEF Basic
<1>3. ASSUME NEW x \in Side, ReadsPing(x) \/ ReadsPong(x) PROVE Basic'
  <2>1. UNCHANGED <<conn, pinger, pingIn, shaper, shaperIn, hung, hungFor, broken, brokenFor, shut,
                    gaveUp>>
    BY <1>3 DEF ReadsPing, ReadsPong, pings, shapers, faults
  <2>2. wire'[x] = wire[x] /\ wire[Peer(x)] # <<>> /\ reader[x] = "read"
    BY <1>3, Received DEF ReadsPing, ReadsPong
  <2>3. ASSUME NEW y \in Side PROVE Idle(y)' /\ (~broken' => Working(y)')
    <3>1. Idle(y) /\ (~broken => Working(y))
      BY DEF Basic
    <3>2. y \in hung \/ broken => wire'[y] = wire[y]
      BY <2>2, <3>1, Sides DEF Idle
    <3>3. reader'[y] = reader[y] \/ (y = x /\ reader'[y] = "pong")
      BY <1>3 DEF ReadsPing, ReadsPong, TypeOK
    <3> QED BY <2>1, <2>2, <3>1, <3>2, <3>3 DEF Idle, Working
  <2> QED BY <2>1, <2>3 DEF Basic
<1>4. ASSUME NEW x \in Side, SessionCloses(x) PROVE Basic'
  <2>1. ASSUME NEW y \in Side PROVE Idle(y)'
    <3>1. Idle(y)
      BY DEF Basic
    <3> QED BY <1>4, <3>1 DEF SessionCloses, Breaks, Idle, TypeOK, pings
  <2> QED BY <1>4, <2>1 DEF SessionCloses, Breaks, Basic
<1>9. CASE Breaks
  <2>1. ASSUME NEW y \in Side PROVE Idle(y)'
    <3>1. Idle(y)
      BY DEF Basic
    <3> QED BY <1>9, <3>1 DEF Breaks, Idle, TypeOK, pings
  <2> QED BY <1>9, <2>1 DEF Breaks, Basic
<1>5. ASSUME NEW x \in Side, Hangs(x) PROVE Basic'
  <2>1. ASSUME NEW y \in Side PROVE Idle(y)' /\ (~broken' => Working(y)')
    <3>1. Idle(y) /\ (~broken => Working(y))
      BY DEF Basic
    <3> QED BY <1>5, <3>1 DEF Hangs, Idle, Working, TypeOK, pings, shapers
  <2> QED BY <1>5, <2>1 DEF Hangs, Basic
<1>6. ASSUME NEW x \in Side, PingerTicks(x) PROVE Basic'
  <2>1. ASSUME NEW y \in Side PROVE Idle(y)' /\ (~broken' => Working(y)')
    <3>1. Idle(y) /\ (~broken => Working(y))
      BY DEF Basic
    <3>2. CASE Unanswered(x)
      BY <1>6, <3>1, <3>2 DEF PingerTicks, Idle, Working, TypeOK, shapers, faults
    <3>3. CASE ~Unanswered(x)
      BY <1>6, <3>1, <3>3 DEF PingerTicks, Idle, Working, TypeOK, shapers, faults
    <3> QED BY <3>2, <3>3
  <2> QED BY <1>6, <2>1 DEF PingerTicks, Basic, faults
<1>7. ASSUME NEW x \in Side, PingerEnds(x) \/ PingerStores(x) \/ ShaperTicks(x) \/ ReadFails(x)
      PROVE Basic'
  <2>1. ASSUME NEW y \in Side PROVE Idle(y)' /\ (~broken' => Working(y)')
    <3>1. Idle(y) /\ (~broken => Working(y))
      BY DEF Basic
    <3>2. Idle(x) /\ (~broken => Working(x))
      BY DEF Basic
    <3> QED BY <1>7, <3>1, <3>2 DEF PingerEnds, PingerStores, ShaperTicks, ReadFails, Idle, Working,
                             TypeOK, pings, shapers, faults
  <2> QED BY <1>7, <2>1 DEF PingerEnds, PingerStores, ShaperTicks, ReadFails, Basic, faults
<1>8. CASE UNCHANGED vars \/ \E x \in Side : Fills(x) \/ Drains(x)
  <2>1. UNCHANGED <<conn, pinger, pingIn, shaper, shaperIn, reader, wire, hung, hungFor, broken,
                    brokenFor, shut, gaveUp>>
    BY <1>8 DEF vars, Fills, Drains, pings, shapers, faults
  <2> QED BY <2>1 DEF Basic, Idle, Working
<1> QED BY <1>1, <1>2, <1>3, <1>4, <1>5, <1>6, <1>7, <1>8, <1>9 DEF Next

(* While the transport works a SendPing succeeds.                          *)
LEMMA PingSent ==
    ASSUME TypeOK, Basic, ~broken, NEW x \in Side
    PROVE  /\ PingerSends(x) => /\ pinger' = [pinger EXCEPT ![x] = "store"] /\ conn' = conn
                                /\ pinger[x] = "ping" /\ pinger'[x] = "store"
           /\ ShaperSends(x) => /\ shaper' = [shaper EXCEPT ![x] = "wait"]
                                /\ shaper[x] = "ping" /\ shaper'[x] = "wait"
<1>1. WriteResult(x) = {"nil"}
  BY DEF Basic, WriteResult
<1> QED BY <1>1 DEF PingerSends, ShaperSends, TypeOK

-----------------------------------------------------------------------------
(* A unit cannot end on a broken transport while a read has to fail, or a   *)
(* pingLoop has to see that Conn is closed.                                *)
Ending == brokenFor >= 1 => broken /\ \A x \in Side :
    reader[x] = "ended" /\ pinger[x] = "ended" /\ conn[x] = "closed"

LEMMA EndingInit == Init => Ending
  BY DEF Init, Ending

LEMMA EndingTick == ASSUME StoreLags = FALSE, TypeOK, Basic, Ending, Tick PROVE Ending'
<1>1. CASE ~broken
  BY <1>1, Ticked DEF Ending
<1>2. CASE broken
  <2>1. ASSUME NEW x \in Side
        PROVE  reader[x] = "ended" /\ pinger[x] = "ended" /\ conn[x] = "closed"
    <3>1. CanWrite(x)
      BY <1>2 DEF CanWrite
    <3>2. ~Urgent(x)
      BY Ticked
    <3>3. reader[x] = "ended"
      BY <1>2, <3>1, <3>2 DEF Urgent, TypeOK
    <3>4. conn[x] = "closed"
      BY <3>3 DEF Basic, Idle
    <3>5. pinger[x] = "ended"
      BY <3>1, <3>2, <3>4 DEF Urgent, TypeOK
    <3> QED BY <3>3, <3>4, <3>5
  <2> QED BY <1>2, <2>1, Ticked DEF Ending
<1> QED BY <1>1, <1>2

LEMMA EndingStep ==
    ASSUME StoreLags = FALSE, TypeOK, Basic, Ending, [Next]_vars PROVE Ending'
<1>1. CASE Tick
  BY <1>1, EndingTick
<1>2. CASE brokenFor >= 1 /\ ~Tick
  <2>0. broken /\ \A x \in Side : reader[x] = "ended" /\ pinger[x] = "ended" /\ conn[x] = "closed"
    BY <1>2 DEF Ending
  <2>1. ASSUME NEW x \in Side, ShaperTicks(x) \/ ShaperSends(x) \/ Drains(x) \/ Fills(x) \/ Hangs(x)
        PROVE  Ending'
    BY <2>0, <2>1 DEF Ending, ShaperTicks, ShaperSends, Drains, Fills, Hangs, pings, faults
  <2>2. ASSUME NEW x \in Side, SessionCloses(x) PROVE Ending'
    BY <2>0, <2>2 DEF Ending, SessionCloses, pings, TypeOK
  <2>3. CASE UNCHANGED vars
    BY <2>0, <2>3 DEF Ending, vars, pings, faults
  <2>4. ~Breaks /\ \A x \in Side : /\ ~PingerTicks(x) /\ ~PingerEnds(x) /\ ~PingerSends(x)
                                  /\ ~PingerStores(x) /\ ~ReadsPing(x) /\ ~ReadsPong(x)
                                  /\ ~Echoes(x) /\ ~ReadFails(x)
    BY <2>0 DEF Breaks, PingerTicks, PingerEnds, PingerSends, PingerStores, ReadsPing, ReadsPong,
       Receive, Echoes, ReadFails
  <2> QED BY <1>2, <2>1, <2>2, <2>3, <2>4 DEF Next
<1>3. CASE ~(brokenFor >= 1) /\ ~Tick
  <2>1. brokenFor' = brokenFor
    BY <1>3 DEF Next, vars, PingerTicks, PingerEnds, PingerSends, PingerStores, ShaperTicks,
       ShaperSends, ReadsPing, ReadsPong, Echoes, ReadFails, SessionCloses, Breaks, Fills, Drains,
       Hangs, faults
  <2> QED BY <1>3, <2>1 DEF Ending
<1> QED BY <1>1, <1>2, <1>3

(* Every variable keeps its type, for all intervals, bounds and loads.     *)
THEOREM KeepaliveTypes == Spec => []TypeOK
<1> QED BY TypeInit, TypeStep, PTL DEF Spec

(* A broken transport closes Conn on both sides and ends its two loops,     *)
(* though no write reports the break: for every interval, delay and load,  *)
(* as long as pingLoop does not pause between SendPing and the store.      *)
THEOREM ConnAlwaysEnds == ASSUME StoreLags = FALSE PROVE Spec => []ConnEnds
<1> DEFINE Inv == TypeOK /\ Basic /\ Ending
<1>1. Init => Inv
  BY TypeInit, BasicInit, EndingInit
<1>2. Inv /\ [Next]_vars => Inv'
  BY TypeStep, BasicStep, EndingStep
<1>3. Inv => ConnEnds
  <2>1. TypeOK /\ brokenFor > 0 => brokenFor >= 1
    BY DEF TypeOK
  <2> QED BY <2>1 DEF Ending, ConnEnds
<1> QED BY <1>1, <1>2, <1>3, PTL DEF Spec

-----------------------------------------------------------------------------
(* How many frames of a type are on a wire.                                *)
Places(w, t) == {i \in 1 .. Len(w) : w[i].type = t}
Num(w, t) == Cardinality(Places(w, t))

LEMMA NumType ==
    ASSUME NEW w \in Seq(Frame), NEW t
    PROVE  /\ IsFiniteSet(Places(w, t)) /\ Num(w, t) \in Nat
           /\ Num(w, t) = 0 <=> \A i \in 1 .. Len(w) : w[i].type # t
<1>1. Len(w) \in Nat
  OBVIOUS
<1>2. IsFiniteSet(1 .. Len(w))
  BY <1>1, FS_Interval
<1>3. IsFiniteSet(Places(w, t))
  BY <1>2, FS_Subset DEF Places
<1>4. Num(w, t) \in Nat /\ (Num(w, t) = 0 <=> Places(w, t) = {})
  BY <1>3, FS_CardinalityType, FS_EmptySet DEF Num
<1> QED BY <1>3, <1>4 DEF Places

LEMMA NumEmpty == \A t : Num(<<>>, t) = 0
<1> SUFFICES ASSUME NEW t PROVE Num(<<>>, t) = 0
  OBVIOUS
<1>1. Places(<<>>, t) = {}
  BY DEF Places
<1> QED BY <1>1, FS_EmptySet DEF Num

(* Both types together are all the frames.                                 *)
LEMMA NumLen ==
    ASSUME NEW w \in Seq(Frame) PROVE Len(w) = Num(w, "ping") + Num(w, "pong")
<1>1. Len(w) \in Nat /\ \A i \in 1 .. Len(w) : w[i].type \in {"ping", "pong"}
  <2>1. Len(w) \in Nat /\ \A i \in 1 .. Len(w) : w[i] \in Frame
    BY ElementOfSeq
  <2> QED BY <2>1 DEF Frame
<1>2. /\ Places(w, "ping") \cup Places(w, "pong") = 1 .. Len(w)
      /\ Places(w, "ping") \cap Places(w, "pong") = {}
  BY <1>1 DEF Places
<1>3. Cardinality(1 .. Len(w)) = Len(w)
  BY <1>1, FS_Interval
<1>4. IsFiniteSet(Places(w, "ping")) /\ IsFiniteSet(Places(w, "pong"))
      /\ Num(w, "ping") \in Nat /\ Num(w, "pong") \in Nat
  BY NumType
<1>5. Cardinality(Places(w, "ping") \cup Places(w, "pong"))
        = Num(w, "ping") + Num(w, "pong") - Cardinality({})
  BY <1>2, <1>4, FS_Union DEF Num
<1>6. Cardinality({}) = 0
  BY FS_EmptySet
<1>7. Len(w) = Num(w, "ping") + Num(w, "pong") - 0
  BY <1>2, <1>3, <1>5, <1>6
<1> QED BY <1>4, <1>7

(* A frame written adds itself; a frame read is the first.                 *)
LEMMA NumAppend ==
    ASSUME NEW w \in Seq(Frame), NEW f \in Frame, NEW t
    PROVE  Num(Append(w, f), t) = Num(w, t) + (IF f.type = t THEN 1 ELSE 0)
<1>1. /\ Len(w) \in Nat /\ Len(Append(w, f)) = Len(w) + 1
      /\ \A i \in 1 .. Len(w) : Append(w, f)[i] = w[i]
      /\ Append(w, f)[Len(w) + 1] = f
  BY AppendProperties
<1>2. IsFiniteSet(Places(w, t)) /\ Num(w, t) \in Nat /\ Len(w) + 1 \notin Places(w, t)
  <2>1. Len(w) + 1 \notin 1 .. Len(w)
    BY <1>1
  <2> QED BY <2>1, NumType DEF Places
<1>3. CASE f.type = t
  <2>1. Places(Append(w, f), t) = Places(w, t) \cup {Len(w) + 1}
    BY <1>1, <1>3 DEF Places
  <2> QED BY <1>2, <1>3, <2>1, FS_AddElement DEF Num
<1>4. CASE f.type # t
  <2>1. Places(Append(w, f), t) = Places(w, t)
    BY <1>1, <1>4 DEF Places
  <2> QED BY <1>2, <1>4, <2>1 DEF Num
<1> QED BY <1>3, <1>4

LEMMA NumTail ==
    ASSUME NEW w \in Seq(Frame), w # <<>>, NEW t
    PROVE  Num(w, t) = Num(Tail(w), t) + (IF w[1].type = t THEN 1 ELSE 0)
<1> DEFINE rest == Places(w, t) \ {1}
           back == [i \in rest |-> i - 1]
<1>1. /\ Len(w) \in Nat /\ Len(w) >= 1 /\ Tail(w) \in Seq(Frame) /\ Len(Tail(w)) = Len(w) - 1
      /\ \A i \in 1 .. Len(w) - 1 : Tail(w)[i] = w[i + 1]
  BY HeadTailProperties, EmptySeq
<1>2. /\ IsFiniteSet(Places(w, t)) /\ Num(w, t) \in Nat /\ Num(Tail(w), t) \in Nat
  BY <1>1, NumType
<1>3. IsFiniteSet(rest) /\ Cardinality(rest) = IF w[1].type = t THEN Num(w, t) - 1 ELSE Num(w, t)
  <2>1. 1 \in Places(w, t) <=> w[1].type = t
    BY <1>1 DEF Places
  <2>2. /\ IsFiniteSet(rest)
        /\ Cardinality(rest) = IF 1 \in Places(w, t) THEN Cardinality(Places(w, t)) - 1
                               ELSE Cardinality(Places(w, t))
    BY <1>2, FS_RemoveElement
  <2> QED BY <2>1, <2>2 DEF Num
<1>4. ExistsBijection(rest, Places(Tail(w), t))
  <2>1. back \in [rest -> Places(Tail(w), t)]
    BY <1>1 DEF Places
  <2>2. \A a, b \in rest : back[a] = back[b] => a = b
    BY <1>1 DEF Places
  <2>3. ASSUME NEW j \in Places(Tail(w), t) PROVE \E i \in rest : back[i] = j
    <3>1. j + 1 \in rest /\ back[j + 1] = j
      BY <1>1 DEF Places
    <3> QED BY <3>1
  <2>4. back \in Bijection(rest, Places(Tail(w), t))
    <3>1. back \in Injection(rest, Places(Tail(w), t))
      <4> HIDE DEF rest, back
      <4> QED BY <2>1, <2>2 DEF Injection, IsInjective
    <3>2. back \in Surjection(rest, Places(Tail(w), t))
      <4> HIDE DEF rest, back
      <4> QED BY <2>1, <2>3 DEF Surjection
    <3> QED BY <3>1, <3>2 DEF Bijection
  <2> QED BY <2>4 DEF ExistsBijection
<1>5. Cardinality(Places(Tail(w), t)) = Cardinality(rest)
  <2> HIDE DEF rest
  <2> QED BY <1>3, <1>4, FS_Bijection
<1> QED BY <1>2, <1>3, <1>5 DEF Num

LEMMA NumAged ==
    ASSUME NEW w \in Seq(Frame), NEW t PROVE Num(Aged(w), t) = Num(w, t)
<1>1. Places(Aged(w), t) = Places(w, t)
  BY AgedFrames DEF Places
<1> QED BY <1>1 DEF Num

-----------------------------------------------------------------------------
(* Outstanding PINGs: those of x under way, the one its peer answers, and   *)
(* the answers under way.                                                   *)
Answer(x) == IF reader[x] = "pong" THEN 1 ELSE 0

Out(x) == Num(wire[x], "ping") + Answer(Peer(x)) + Num(wire[Peer(x)], "pong")

(* How many of its two PINGs of the interval x has sent, when none is due.  *)
Spent(due, loop) == IF due \/ loop = "ping" THEN 0 ELSE 1

Spare(x) == Spent(pingDue[x], pinger[x]) + Spent(shaperDue[x], shaper[x])

LEMMA Parts ==
    ASSUME TypeOK, NEW x \in Side
    PROVE  /\ wire[x] \in Seq(Frame) /\ Answer(x) \in Nat /\ Out(x) \in Nat
           /\ Num(wire[x], "ping") \in Nat /\ Num(wire[x], "pong") \in Nat
<1>1. \A y \in Side : wire[y] \in Seq(Frame)
  BY DEF TypeOK
<1>2. \A y \in Side : Num(wire[y], "ping") \in Nat /\ Num(wire[y], "pong") \in Nat
  BY <1>1, NumType
<1>3. \A y \in Side : Answer(y) \in Nat
  BY DEF Answer
<1>4. Out(x) \in Nat
  BY <1>2, <1>3, Sides DEF Out
<1> QED BY <1>1, <1>2, <1>3, <1>4

LEMMA Counts ==
    ASSUME TypeOK, NEW x \in Side
    PROVE  /\ Spare(x) \in 0 .. 2 /\ Len(wire[x]) \in Nat
           /\ Len(wire[x]) = Num(wire[x], "ping") + Num(wire[x], "pong")
           /\ Len(wire[x]) <= Out(x) + Out(Peer(x))
<1>1. wire[x] \in Seq(Frame) /\ Len(wire[x]) \in Nat
  BY DEF TypeOK
<1>2. Len(wire[x]) = Num(wire[x], "ping") + Num(wire[x], "pong")
  BY <1>1, NumLen
<1>3. /\ Out(x) = Num(wire[x], "ping") + Answer(Peer(x)) + Num(wire[Peer(x)], "pong")
      /\ Out(Peer(x)) = Num(wire[Peer(x)], "ping") + Answer(x) + Num(wire[x], "pong")
  BY Sides DEF Out
<1>4. /\ Num(wire[x], "ping") \in Nat /\ Num(wire[x], "pong") \in Nat
      /\ Num(wire[Peer(x)], "ping") \in Nat /\ Num(wire[Peer(x)], "pong") \in Nat
      /\ Answer(x) \in Nat /\ Answer(Peer(x)) \in Nat
  BY Parts, Sides
<1>5. Len(wire[x]) <= Out(x) + Out(Peer(x))
  BY <1>2, <1>3, <1>4
<1>6. Spare(x) \in 0 .. 2
  BY DEF Spare, Spent
<1> QED BY <1>1, <1>2, <1>5, <1>6

(* What each step does to the PINGs outstanding.                           *)
LEMMA OutSame ==
    ASSUME TypeOK, UNCHANGED <<wire, reader>>, NEW y \in Side PROVE Out(y)' = Out(y)
  BY DEF Out, Answer

LEMMA OutSent ==
    ASSUME TypeOK, ~broken, NEW x \in Side, NEW y \in Side, PingerSends(x) \/ ShaperSends(x)
    PROVE  Out(y)' = Out(y) + (IF y = x /\ x \notin hung THEN 1 ELSE 0)
<1> USE Bounds
<1>0. PICK f \in Frame : f = [type |-> "ping", left |-> MaxDelay]
  <2>1. [type |-> "ping", left |-> MaxDelay] \in Frame
    BY DEF Frame
  <2> QED BY <2>1
<1>1. /\ wire'[Peer(x)] = wire[Peer(x)] /\ (x \in hung => wire'[x] = wire[x])
      /\ x \notin hung => wire'[x] = Append(wire[x], f)
  BY <1>0, Sent DEF PingerSends, ShaperSends
<1>2. reader' = reader
  BY DEF PingerSends, ShaperSends
<1>3. f \in Frame /\ f.type = "ping" /\ wire[x] \in Seq(Frame) /\ wire[Peer(x)] \in Seq(Frame)
  BY <1>0, Sides DEF TypeOK
<1>4. x \notin hung => /\ Num(wire'[x], "ping") = Num(wire[x], "ping") + 1
                       /\ Num(wire'[x], "pong") = Num(wire[x], "pong") + 0
  <2>1. /\ Num(Append(wire[x], f), "ping") = Num(wire[x], "ping") + (IF f.type = "ping" THEN 1 ELSE 0)
        /\ Num(Append(wire[x], f), "pong") = Num(wire[x], "pong") + (IF f.type = "pong" THEN 1 ELSE 0)
    BY <1>3, NumAppend
  <2> QED BY <1>1, <1>3, <2>1
<1>5. /\ Num(wire'[x], "pong") = Num(wire[x], "pong")
      /\ Num(wire'[x], "ping") = Num(wire[x], "ping") + (IF x \notin hung THEN 1 ELSE 0)
  BY <1>1, <1>3, <1>4, NumType
<1>6. /\ Out(x) = Num(wire[x], "ping") + Answer(Peer(x)) + Num(wire[Peer(x)], "pong")
      /\ Out(x)' = Num(wire'[x], "ping") + Answer(Peer(x)) + Num(wire[Peer(x)], "pong")
      /\ Out(Peer(x))' = Num(wire[Peer(x)], "ping") + Answer(x) + Num(wire'[x], "pong")
      /\ Out(Peer(x)) = Num(wire[Peer(x)], "ping") + Answer(x) + Num(wire[x], "pong")
  BY <1>1, <1>2, Sides DEF Out, Answer
<1>7. /\ Num(wire[x], "ping") \in Nat /\ Answer(Peer(x)) \in Nat /\ Num(wire[Peer(x)], "pong") \in Nat
      /\ Out(Peer(x)) \in Nat
  BY Parts, Sides
<1>8. Out(x)' = Out(x) + (IF x \notin hung THEN 1 ELSE 0) /\ Out(Peer(x))' = Out(Peer(x)) + 0
  BY <1>5, <1>6, <1>7
<1> QED BY <1>8, Sides

LEMMA OutReadsPing ==
    ASSUME TypeOK, NEW x \in Side, NEW y \in Side, ReadsPing(x) PROVE Out(y)' = Out(y)
<1>1. /\ reader[x] = "read" /\ wire[Peer(x)] # <<>> /\ wire[Peer(x)][1].type = "ping"
      /\ wire'[x] = wire[x] /\ wire'[Peer(x)] = Tail(wire[Peer(x)])
  BY Received DEF ReadsPing
<1>2. reader'[x] = "pong" /\ reader'[Peer(x)] = reader[Peer(x)]
  BY Sides DEF ReadsPing, TypeOK
<1>3. wire[Peer(x)] \in Seq(Frame) /\ Peer(x) \in Side /\ Peer(Peer(x)) = x
  BY Sides DEF TypeOK
<1>4. /\ Num(wire[Peer(x)], "ping") = Num(wire'[Peer(x)], "ping") + 1
      /\ Num(wire[Peer(x)], "pong") = Num(wire'[Peer(x)], "pong") + 0
  BY <1>1, <1>3, NumTail
<1>5. Tail(wire[Peer(x)]) \in Seq(Frame)
  BY <1>1, <1>3, HeadTailProperties
<1>6. /\ Num(wire'[Peer(x)], "ping") \in Nat /\ Num(wire'[Peer(x)], "pong") \in Nat
      /\ Num(wire[x], "ping") \in Nat /\ Num(wire[x], "pong") \in Nat /\ Answer(Peer(x)) \in Nat
  BY <1>1, <1>3, <1>5, NumType, Parts
<1>7. /\ Out(x) = Num(wire[x], "ping") + Answer(Peer(x)) + Num(wire[Peer(x)], "pong")
      /\ Out(x)' = Num(wire[x], "ping") + Answer(Peer(x)) + Num(wire'[Peer(x)], "pong")
      /\ Out(Peer(x)) = Num(wire[Peer(x)], "ping") + 0 + Num(wire[x], "pong")
      /\ Out(Peer(x))' = Num(wire'[Peer(x)], "ping") + 1 + Num(wire[x], "pong")
  BY <1>1, <1>2, <1>3 DEF Out, Answer
<1>8. Out(x)' = Out(x) /\ Out(Peer(x))' = Out(Peer(x))
  BY <1>4, <1>6, <1>7
<1> QED BY <1>8, Sides

LEMMA OutReadsPong ==
    ASSUME TypeOK, NEW x \in Side, NEW y \in Side, ReadsPong(x)
    PROVE  Out(y) = Out(y)' + (IF y = x THEN 1 ELSE 0) /\ Out(y)' \in Nat
<1>1. /\ wire[Peer(x)] # <<>> /\ wire[Peer(x)][1].type = "pong"
      /\ wire'[x] = wire[x] /\ wire'[Peer(x)] = Tail(wire[Peer(x)])
  BY Received DEF ReadsPong
<1>2. reader' = reader
  BY DEF ReadsPong
<1>3. wire[Peer(x)] \in Seq(Frame) /\ Peer(x) \in Side /\ Peer(Peer(x)) = x
  BY Sides DEF TypeOK
<1>4. /\ Num(wire[Peer(x)], "ping") = Num(wire'[Peer(x)], "ping") + 0
      /\ Num(wire[Peer(x)], "pong") = Num(wire'[Peer(x)], "pong") + 1
  BY <1>1, <1>3, NumTail
<1>5. Tail(wire[Peer(x)]) \in Seq(Frame)
  BY <1>1, <1>3, HeadTailProperties
<1>6. /\ Num(wire'[Peer(x)], "ping") \in Nat /\ Num(wire'[Peer(x)], "pong") \in Nat
      /\ Num(wire[x], "ping") \in Nat /\ Num(wire[x], "pong") \in Nat
      /\ Answer(Peer(x)) \in Nat /\ Answer(x) \in Nat
  BY <1>1, <1>3, <1>5, NumType, Parts
<1>7. /\ Out(x) = Num(wire[x], "ping") + Answer(Peer(x)) + Num(wire[Peer(x)], "pong")
      /\ Out(x)' = Num(wire[x], "ping") + Answer(Peer(x)) + Num(wire'[Peer(x)], "pong")
      /\ Out(Peer(x)) = Num(wire[Peer(x)], "ping") + Answer(x) + Num(wire[x], "pong")
      /\ Out(Peer(x))' = Num(wire'[Peer(x)], "ping") + Answer(x) + Num(wire[x], "pong")
  BY <1>1, <1>2, <1>3 DEF Out, Answer
<1>8. /\ Out(x) = Out(x)' + 1 /\ Out(x)' \in Nat
      /\ Out(Peer(x)) = Out(Peer(x))' + 0 /\ Out(Peer(x))' \in Nat
  BY <1>4, <1>6, <1>7
<1> QED BY <1>8, Sides

LEMMA OutEchoes ==
    ASSUME TypeOK, ~broken, NEW x \in Side, NEW y \in Side, Echoes(x)
    PROVE  Out(y) = Out(y)' + (IF y = Peer(x) /\ x \in hung THEN 1 ELSE 0) /\ Out(y)' \in Nat
<1> USE Bounds
<1>0. PICK f \in Frame : f = [type |-> "pong", left |-> MaxDelay]
  <2>1. [type |-> "pong", left |-> MaxDelay] \in Frame
    BY DEF Frame
  <2> QED BY <2>1
<1>1. /\ wire'[Peer(x)] = wire[Peer(x)] /\ (x \in hung => wire'[x] = wire[x])
      /\ x \notin hung => wire'[x] = Append(wire[x], f)
  BY <1>0, Sent DEF Echoes
<1>2. reader[x] = "pong" /\ reader'[x] = "read" /\ reader'[Peer(x)] = reader[Peer(x)]
  BY Sides DEF Echoes, TypeOK
<1>3. f \in Frame /\ f.type = "pong" /\ wire[x] \in Seq(Frame) /\ wire[Peer(x)] \in Seq(Frame)
  BY <1>0, Sides DEF TypeOK
<1>4. x \notin hung => /\ Num(wire'[x], "ping") = Num(wire[x], "ping") + 0
                       /\ Num(wire'[x], "pong") = Num(wire[x], "pong") + 1
  <2>1. /\ Num(Append(wire[x], f), "ping") = Num(wire[x], "ping") + (IF f.type = "ping" THEN 1 ELSE 0)
        /\ Num(Append(wire[x], f), "pong") = Num(wire[x], "pong") + (IF f.type = "pong" THEN 1 ELSE 0)
    BY <1>3, NumAppend
  <2> QED BY <1>1, <1>3, <2>1
<1>5. /\ Num(wire'[x], "ping") = Num(wire[x], "ping")
      /\ Num(wire'[x], "pong") = Num(wire[x], "pong") + (IF x \notin hung THEN 1 ELSE 0)
  BY <1>1, <1>3, <1>4, NumType
<1>6. /\ Out(x) = Num(wire[x], "ping") + Answer(Peer(x)) + Num(wire[Peer(x)], "pong")
      /\ Out(x)' = Num(wire'[x], "ping") + Answer(Peer(x)) + Num(wire[Peer(x)], "pong")
      /\ Out(Peer(x)) = Num(wire[Peer(x)], "ping") + 1 + Num(wire[x], "pong")
      /\ Out(Peer(x))' = Num(wire[Peer(x)], "ping") + 0 + Num(wire'[x], "pong")
  BY <1>1, <1>2, Sides DEF Out, Answer
<1>7. /\ Num(wire[x], "ping") \in Nat /\ Answer(Peer(x)) \in Nat /\ Num(wire[Peer(x)], "pong") \in Nat
      /\ Num(wire[Peer(x)], "ping") \in Nat /\ Num(wire[x], "pong") \in Nat
  BY Parts, Sides
<1>8. /\ Out(x) = Out(x)' + 0 /\ Out(x)' \in Nat /\ Out(Peer(x))' \in Nat
      /\ Out(Peer(x)) = Out(Peer(x))' + (IF x \in hung THEN 1 ELSE 0)
  BY <1>5, <1>6, <1>7
<1> QED BY <1>8, Sides

LEMMA OutHangs ==
    ASSUME TypeOK, NEW x \in Side, NEW y \in Side, Hangs(x)
    PROVE  Out(y)' \in Nat /\ Out(y)' <= Out(y)
<1>1. /\ wire'[x] = <<>> /\ wire'[Peer(x)] = wire[Peer(x)] /\ reader' = reader
  BY Sides DEF Hangs, TypeOK
<1>2. Num(wire'[x], "ping") = 0 /\ Num(wire'[x], "pong") = 0
  BY <1>1, NumEmpty
<1>3. /\ Out(x) = Num(wire[x], "ping") + Answer(Peer(x)) + Num(wire[Peer(x)], "pong")
      /\ Out(x)' = Num(wire'[x], "ping") + Answer(Peer(x)) + Num(wire[Peer(x)], "pong")
      /\ Out(Peer(x)) = Num(wire[Peer(x)], "ping") + Answer(x) + Num(wire[x], "pong")
      /\ Out(Peer(x))' = Num(wire[Peer(x)], "ping") + Answer(x) + Num(wire'[x], "pong")
  BY <1>1, Sides DEF Out, Answer
<1>4. /\ Num(wire[x], "ping") \in Nat /\ Num(wire[x], "pong") \in Nat
      /\ Num(wire[Peer(x)], "ping") \in Nat /\ Num(wire[Peer(x)], "pong") \in Nat
      /\ Answer(x) \in Nat /\ Answer(Peer(x)) \in Nat
  BY Parts, Sides
<1>5. /\ Out(x)' \in Nat /\ Out(x)' <= Out(x) /\ Out(Peer(x))' \in Nat /\ Out(Peer(x))' <= Out(Peer(x))
  BY <1>2, <1>3, <1>4
<1> QED BY <1>5, Sides

LEMMA OutTick == ASSUME TypeOK, Tick, NEW y \in Side PROVE Out(y)' = Out(y)
<1>1. \A z \in Side : \A t : Num(wire'[z], t) = Num(wire[z], t)
  <2> SUFFICES ASSUME NEW z \in Side, NEW t PROVE Num(wire'[z], t) = Num(wire[z], t)
    OBVIOUS
  <2>1. wire'[z] = Aged(wire[z]) /\ wire[z] \in Seq(Frame)
    BY Ticked DEF TypeOK
  <2> QED BY <2>1, NumAged
<1>2. reader' = reader
  BY Ticked
<1> QED BY <1>1, <1>2, Sides DEF Out, Answer

-----------------------------------------------------------------------------
(* The transport is in time: an answer is back before the next PING, the    *)
(* transport holds the PINGs and answers of an interval, one side sends in  *)
(* bulk at most, and pingLoop does not pause between SendPing and the store.*)
Timely ==
    /\ 2 * MaxDelay < Interval /\ MaxWire > 4
    /\ Loaded # Side /\ StoreLags = FALSE

(* A readLoop that waits for ever with its answer: its transport is full    *)
(* and hangs.                                                              *)
StuckAt(y) == y \in hung \cap full /\ reader[y] = "pong"
Stuck == \E y \in Side : StuckAt(y)

(* The time since the shaper's last tick, and pingLoop's too while it runs. *)
Age(x) == Interval - shaperIn[x]

(* The frames on a wire, when their sender's last tick was a ago and that   *)
(* of the receiver b: the later, the more time left.                       *)
OnTime(w, a, b) == \A i \in 1 .. Len(w) :
    /\ w[i].type = "ping" => w[i].left + a <= MaxDelay
    /\ w[i].type = "pong" => w[i].left + b <= 2 * MaxDelay
    /\ \A j \in 1 .. i : w[j].left <= w[i].left

Timed(x) == OnTime(wire[x], Age(x), Age(Peer(x)))
Answering(x) == reader[x] = "pong" => Age(Peer(x)) <= MaxDelay
Counted(x) == Out(x) <= Spare(x)
Prompt(x) == x \notin hung =>
    /\ pingDue[x] \/ pinger[x] \in {"ping", "store"} \/ shaperDue[x] \/ shaper[x] = "ping"
          => shaperIn[x] = Interval
    /\ pingDue[x] => pinger[x] \in {"wait", "ended"}
    /\ shaperDue[x] => shaper[x] = "wait"

FlowOf(x) == Timed(x) /\ Answering(x) /\ Counted(x) /\ Prompt(x)
Flow == ~broken /\ ~Stuck => \A x \in Side : FlowOf(x)

LEMMA OnTimeAppend ==
    ASSUME NEW w \in Seq(Frame), NEW a, NEW b, OnTime(w, a, b), NEW f \in Frame,
           f.left = MaxDelay, f.type = "ping" => a = 0, f.type = "pong" => b <= MaxDelay /\ b \in Nat
    PROVE  OnTime(Append(w, f), a, b)
<1> USE Bounds
<1>1. /\ Len(w) \in Nat /\ Len(Append(w, f)) = Len(w) + 1
      /\ \A i \in 1 .. Len(w) : Append(w, f)[i] = w[i]
      /\ Append(w, f)[Len(w) + 1] = f
  BY AppendProperties
<1>2. \A i \in 1 .. Len(w) : w[i] \in Frame
  BY ElementOfSeq
<1>3. \A i \in 1 .. Len(w) : w[i].left \in 0 .. MaxDelay
  BY <1>2 DEF Frame
<1> SUFFICES ASSUME NEW i \in 1 .. Len(w) + 1
             PROVE  LET v == Append(w, f) IN
                    /\ v[i].type = "ping" => v[i].left + a <= MaxDelay
                    /\ v[i].type = "pong" => v[i].left + b <= 2 * MaxDelay
                    /\ \A j \in 1 .. i : v[j].left <= v[i].left
  BY <1>1 DEF OnTime
<1>4. CASE i \in 1 .. Len(w)
  <2>1. \A j \in 1 .. i : j \in 1 .. Len(w)
    BY <1>1, <1>4
  <2> QED BY <1>1, <1>4, <2>1 DEF OnTime
<1>5. CASE i = Len(w) + 1
  <2>1. f.type = "ping" => f.left + a <= MaxDelay
    OBVIOUS
  <2>2. f.type = "pong" => f.left + b <= 2 * MaxDelay
    OBVIOUS
  <2>3. \A j \in 1 .. i : Append(w, f)[j].left <= f.left
    <3> SUFFICES ASSUME NEW j \in 1 .. i PROVE Append(w, f)[j].left <= f.left
      OBVIOUS
    <3>1. CASE j = i
      BY <1>1, <1>5, <3>1
    <3>2. CASE j # i
      <4>1. j \in 1 .. Len(w)
        BY <1>1, <1>5, <3>2
      <4> QED BY <1>1, <1>3, <4>1
    <3> QED BY <3>1, <3>2
  <2> QED BY <1>1, <1>5, <2>1, <2>2, <2>3
<1> QED BY <1>1, <1>4, <1>5

LEMMA OnTimeTail ==
    ASSUME NEW w \in Seq(Frame), w # <<>>, NEW a, NEW b, OnTime(w, a, b)
    PROVE  OnTime(Tail(w), a, b)
<1>1. /\ Len(w) \in Nat /\ Len(w) >= 1 /\ Len(Tail(w)) = Len(w) - 1
      /\ \A i \in 1 .. Len(w) - 1 : Tail(w)[i] = w[i + 1]
  BY HeadTailProperties, EmptySeq
<1> SUFFICES ASSUME NEW i \in 1 .. Len(w) - 1
             PROVE  LET v == Tail(w) IN
                    /\ v[i].type = "ping" => v[i].left + a <= MaxDelay
                    /\ v[i].type = "pong" => v[i].left + b <= 2 * MaxDelay
                    /\ \A j \in 1 .. i : v[j].left <= v[i].left
  BY <1>1 DEF OnTime
<1>2. i + 1 \in 1 .. Len(w) /\ \A j \in 1 .. i : j + 1 \in 1 .. i + 1 /\ j \in 1 .. Len(w) - 1
  BY <1>1
<1> QED BY <1>1, <1>2 DEF OnTime

LEMMA OnTimeAged ==
    ASSUME NEW w \in Seq(Frame), NEW a \in Nat, NEW b \in Nat, OnTime(w, a, b),
           \A i \in 1 .. Len(w) : w[i].left >= 1, NEW a2, NEW b2,
           a2 = a + 1 \/ \A i \in 1 .. Len(w) : w[i].type # "ping",
           b2 = b + 1 \/ \A i \in 1 .. Len(w) : w[i].type # "pong"
    PROVE  OnTime(Aged(w), a2, b2)
<1> USE Bounds
<1>1. Len(w) \in Nat /\ Len(Aged(w)) = Len(w)
      /\ \A i \in 1 .. Len(w) : Aged(w)[i].type = w[i].type
  BY AgedFrames
<1>2. \A i \in 1 .. Len(w) : w[i] \in Frame
  BY ElementOfSeq
<1>3. \A i \in 1 .. Len(w) : w[i].left \in 1 .. MaxDelay
  BY <1>2 DEF Frame
<1>4. \A i \in 1 .. Len(w) : Aged(w)[i].left = w[i].left - 1
  BY <1>3, AgedFrames
<1> SUFFICES ASSUME NEW i \in 1 .. Len(w)
             PROVE  LET v == Aged(w) IN
                    /\ v[i].type = "ping" => v[i].left + a2 <= MaxDelay
                    /\ v[i].type = "pong" => v[i].left + b2 <= 2 * MaxDelay
                    /\ \A j \in 1 .. i : v[j].left <= v[i].left
  BY <1>1 DEF OnTime
<1>5. \A j \in 1 .. i : j \in 1 .. Len(w)
  BY <1>1
<1>6. PICK n \in 1 .. MaxDelay : n = w[i].left
  BY <1>3
<1>7. w[i].type = "ping" => n - 1 + a2 <= MaxDelay
  <2>1. w[i].type = "ping" => n + a <= MaxDelay /\ a2 = a + 1
    BY <1>6 DEF OnTime
  <2> QED BY <2>1
<1>8. w[i].type = "pong" => n - 1 + b2 <= 2 * MaxDelay
  <2>1. w[i].type = "pong" => n + b <= 2 * MaxDelay /\ b2 = b + 1
    BY <1>6 DEF OnTime
  <2> QED BY <2>1
<1>9. \A j \in 1 .. i : w[j].left - 1 <= n - 1
  BY <1>3, <1>5, <1>6 DEF OnTime
<1> QED BY <1>1, <1>4, <1>5, <1>6, <1>7, <1>8, <1>9

(* Only the end of the connection frees a readLoop that is stuck.          *)
LEMMA StuckStays ==
    ASSUME TypeOK, [Next]_vars, ~broken, NEW y \in Side, StuckAt(y) PROVE broken' \/ StuckAt(y)'
<1>1. ~CanWrite(y) /\ reader[y] = "pong" /\ y \in hung /\ y \in full
  BY DEF CanWrite, StuckAt
<1>2. CASE Tick
  BY <1>1, <1>2, Ticked DEF StuckAt
<1>3. ASSUME NEW x \in Side, Echoes(x) PROVE StuckAt(y)'
  <2>1. x # y
    BY <1>1, <1>3 DEF Echoes, Send
  <2> QED BY <1>1, <1>3, <2>1 DEF Echoes, StuckAt, faults, TypeOK
<1>4. ASSUME NEW x \in Side, ReadsPing(x) \/ ReadsPong(x) PROVE StuckAt(y)'
  BY <1>1, <1>4 DEF ReadsPing, ReadsPong, Receive, StuckAt, faults, TypeOK
<1>5. ASSUME Breaks \/ \E x \in Side : ReadFails(x) \/ SessionCloses(x) PROVE broken'
  BY <1>5 DEF ReadFails, SessionCloses, Breaks, faults
<1>6. ASSUME NEW x \in Side, PingerTicks(x) \/ PingerEnds(x) \/ PingerSends(x) \/ PingerStores(x)
                             \/ ShaperTicks(x) \/ ShaperSends(x)
      PROVE StuckAt(y)'
  BY <1>1, <1>6 DEF PingerTicks, PingerEnds, PingerSends, PingerStores, ShaperTicks, ShaperSends,
     StuckAt, faults
<1>7. ASSUME NEW x \in Side, Fills(x) \/ Drains(x) \/ Hangs(x) PROVE StuckAt(y)'
  BY <1>1, <1>7 DEF Fills, Drains, MayDrain, Hangs, StuckAt
<1>8. CASE UNCHANGED vars
  BY <1>1, <1>8 DEF vars, faults, StuckAt
<1> QED BY <1>2, <1>3, <1>4, <1>5, <1>6, <1>7, <1>8 DEF Next

(* When a unit of time passes and no readLoop is stuck, all is quiet: every *)
(* frame under way has time left, and a side that does not hang has neither *)
(* a tick to take nor a PING to write.  No PING is unanswered when the next *)
(* ones are due.                                                           *)
LEMMA Quiet ==
    ASSUME Timely, TypeOK, Basic, Flow, Tick, ~broken, ~Stuck, NEW x \in Side
    PROVE  /\ FlowOf(x) /\ reader[x] = "read" /\ \A i \in 1 .. Len(wire[x]) : wire[x][i].left >= 1
           /\ x \notin hung => /\ pinger[x] \in {"wait", "ended"} /\ shaper[x] = "wait"
                               /\ ~shaperDue[x] /\ (pinger[x] = "wait" => ~pingDue[x])
           /\ shaperIn[x] = 1 => Out(x) = 0
<1> USE Bounds
<1>1. \A y \in Side : /\ FlowOf(y) /\ Working(y) /\ ~Urgent(y) /\ Peer(y) \in Side
                      /\ Peer(y) # y /\ Peer(Peer(y)) = y
  BY Ticked, Sides DEF Flow, Basic
<1>2. ASSUME NEW y \in Side PROVE Len(wire[y]) < MaxWire
  <2>1. Out(y) <= Spare(y) /\ Out(Peer(y)) <= Spare(Peer(y))
    BY <1>1 DEF FlowOf, Counted
  <2>2. /\ Spare(y) \in 0 .. 2 /\ Len(wire[y]) \in Nat /\ Len(wire[y]) <= Out(y) + Out(Peer(y))
        /\ Spare(Peer(y)) \in 0 .. 2
    BY <1>1, Counts
  <2>3. Out(y) \in Nat /\ Out(Peer(y)) \in Nat
    BY <1>1, Parts
  <2> QED BY <2>1, <2>2, <2>3 DEF Timely
<1>3. ASSUME NEW y \in Side, reader[y] # "read" PROVE reader[y] = "pong" /\ y \in full \ hung
  <2>1. reader[y] = "pong"
    BY <1>1, <1>3 DEF Working, TypeOK
  <2>2. ~CanWrite(y)
    BY <1>1, <2>1 DEF Urgent
  <2>3. y \in full
    BY <1>2, <2>2 DEF CanWrite
  <2>4. y \notin hung
    BY <2>1, <2>3 DEF Stuck, StuckAt
  <2> QED BY <2>1, <2>3, <2>4
<1>4. ASSUME NEW y \in Side PROVE reader[y] = "read"
  <2> SUFFICES ASSUME reader[y] # "read" PROVE FALSE
    OBVIOUS
  <2>1. y \in full \ hung
    BY <1>3
  <2>2. reader[Peer(y)] # "read"
    BY <1>1, <2>1 DEF Urgent, MayDrain
  <2>3. Peer(y) \in full
    BY <1>1, <1>3, <2>2
  <2>4. y \in Loaded /\ Peer(y) \in Loaded
    BY <2>1, <2>3 DEF TypeOK
  <2>5. \A z \in Side : z \in Loaded
    BY <2>4, Sides
  <2>6. Loaded = Side
    BY <2>5, KeepaliveAssumption
  <2> QED BY <2>6 DEF Timely
<1>5. \A i \in 1 .. Len(wire[x]) : wire[x][i].left >= 1
  <2> SUFFICES ASSUME NEW i \in 1 .. Len(wire[x]) PROVE wire[x][i].left >= 1
    OBVIOUS
  <2>1. wire[x] \in Seq(Frame) /\ Len(wire[x]) \in Nat
    BY DEF TypeOK
  <2>2. wire[x] # <<>> /\ 1 \in 1 .. i /\ 1 \in 1 .. Len(wire[x]) /\ Head(wire[x]) = wire[x][1]
    BY <2>1, HeadTailProperties
  <2>3. wire[x][1] \in Frame /\ wire[x][i] \in Frame
    BY <2>1, <2>2, ElementOfSeq
  <2>4. wire[x][1].left \in Nat /\ wire[x][i].left \in Nat
    BY <2>3 DEF Frame
  <2>5. wire[x][1].left # 0
    BY <1>1, <1>4, <2>2 DEF Urgent
  <2>6. wire[x][1].left <= wire[x][i].left
    BY <1>1, <2>2 DEF FlowOf, Timed, OnTime
  <2> QED BY <2>4, <2>5, <2>6
<1>6. ASSUME x \notin hung
      PROVE  /\ pinger[x] \in {"wait", "ended"} /\ shaper[x] = "wait"
             /\ ~shaperDue[x] /\ (pinger[x] = "wait" => ~pingDue[x])
  <2>1. x \notin full
    BY <1>1, <1>4, <1>6 DEF Urgent, MayDrain
  <2>2. CanWrite(x)
    BY <1>2, <2>1 DEF CanWrite
  <2> QED BY <1>1, <2>2 DEF Urgent, Working, TypeOK, Timely
<1>7. ASSUME shaperIn[x] = 1 PROVE Out(x) = 0
  <2>1. Age(x) = Interval - 1
    BY <1>7 DEF Age
  <2>2. \A i \in 1 .. Len(wire[x]) : wire[x][i].type # "ping"
    <3> SUFFICES ASSUME NEW i \in 1 .. Len(wire[x]), wire[x][i].type = "ping" PROVE FALSE
      OBVIOUS
    <3>1. wire[x][i].left + Age(x) <= MaxDelay
      BY <1>1 DEF FlowOf, Timed, OnTime
    <3>2. wire[x][i] \in Frame
      BY ElementOfSeq DEF TypeOK
    <3>3. wire[x][i].left \in Nat /\ wire[x][i].left >= 1
      BY <1>5, <3>2 DEF Frame
    <3> QED BY <2>1, <3>1, <3>3 DEF Timely
  <2>3. \A i \in 1 .. Len(wire[Peer(x)]) : wire[Peer(x)][i].type # "pong"
    <3> SUFFICES ASSUME NEW i \in 1 .. Len(wire[Peer(x)]), wire[Peer(x)][i].type = "pong"
                 PROVE  FALSE
      OBVIOUS
    <3>1. wire[Peer(x)][i].left + Age(x) <= 2 * MaxDelay
      BY <1>1 DEF FlowOf, Timed, OnTime
    <3>2. /\ wire[Peer(x)] \in Seq(Frame) /\ wire[Peer(x)][1] \in Frame /\ wire[Peer(x)][i] \in Frame
          /\ wire[Peer(x)] # <<>> /\ 1 \in 1 .. Len(wire[Peer(x)]) /\ 1 \in 1 .. i
      <4>1. wire[Peer(x)] \in Seq(Frame) /\ Len(wire[Peer(x)]) \in Nat
        BY <1>1 DEF TypeOK
      <4>2. wire[Peer(x)] # <<>> /\ 1 \in 1 .. Len(wire[Peer(x)]) /\ 1 \in 1 .. i
        BY <4>1
      <4> QED BY <4>1, <4>2, ElementOfSeq
    <3>3. Head(wire[Peer(x)]).left # 0
      BY <1>1, <1>4, <3>2 DEF Urgent
    <3>4. wire[Peer(x)][1].left \in Nat /\ wire[Peer(x)][i].left \in Nat
      BY <3>2 DEF Frame
    <3>5. wire[Peer(x)][1].left # 0
      BY <3>2, <3>3, HeadTailProperties
    <3>6. wire[Peer(x)][1].left <= wire[Peer(x)][i].left
      BY <1>1, <3>2 DEF FlowOf, Timed, OnTime
    <3> QED BY <2>1, <3>1, <3>4, <3>5, <3>6 DEF Timely
  <2>4. Num(wire[x], "ping") = 0 /\ Num(wire[Peer(x)], "pong") = 0
    BY <1>1, <2>2, <2>3, NumType DEF TypeOK
  <2>5. Answer(Peer(x)) = 0
    BY <1>1, <1>4 DEF Answer
  <2> QED BY <2>4, <2>5 DEF Out
<1> QED BY <1>1, <1>4, <1>5, <1>6, <1>7

LEMMA FlowInit == Init => Flow
<1> USE Bounds
<1> SUFFICES ASSUME Init, NEW x \in Side PROVE FlowOf(x)
  BY DEF Flow
<1>1. \A y \in Side : /\ wire[y] = <<>> /\ reader[y] = "read" /\ ~pingDue[y] /\ ~shaperDue[y]
                      /\ pinger[y] = "wait" /\ shaper[y] = "wait"
  BY DEF Init
<1>2. Timed(x) /\ Answering(x) /\ Prompt(x)
  BY <1>1 DEF Timed, OnTime, Answering, Prompt
<1>3. Out(x) = 0
  BY <1>1, NumEmpty, Sides DEF Out, Answer
<1>4. Spare(x) \in 0 .. 2
  BY TypeInit, Counts
<1> QED BY <1>2, <1>3, <1>4 DEF FlowOf, Counted

LEMMA FlowTick ==
    ASSUME Timely, TypeOK, Basic, Flow, Tick, ~broken, ~Stuck, NEW x \in Side PROVE FlowOf(x)'
<1> USE Bounds
<1>1. \A y \in Side :
        /\ FlowOf(y) /\ reader[y] = "read" /\ \A i \in 1 .. Len(wire[y]) : wire[y][i].left >= 1
        /\ y \notin hung => /\ pinger[y] \in {"wait", "ended"} /\ shaper[y] = "wait"
                            /\ ~shaperDue[y] /\ (pinger[y] = "wait" => ~pingDue[y])
        /\ shaperIn[y] = 1 => Out(y) = 0
        /\ Working(y) /\ shaperIn[y] \in 1 .. Interval /\ pingIn[y] \in 1 .. Interval
        /\ wire[y] \in Seq(Frame) /\ Peer(y) \in Side /\ Peer(Peer(y)) = y
  BY Quiet, Sides DEF Basic, TypeOK
<1>2. \A y \in Side :
        /\ Age(y) \in Nat /\ Age(y)' \in Nat
        /\ shaperIn[y] # 1 => Age(y)' = Age(y) + 1
        /\ shaperIn[y] = 1 => shaperIn'[y] = Interval
  BY <1>1, Ticked DEF Age, Working
<1>3. ASSUME NEW y \in Side, shaperIn[y] = 1
      PROVE  /\ \A i \in 1 .. Len(wire[y]) : wire[y][i].type # "ping"
             /\ \A i \in 1 .. Len(wire[Peer(y)]) : wire[Peer(y)][i].type # "pong"
  <2>1. Num(wire[y], "ping") + Answer(Peer(y)) + Num(wire[Peer(y)], "pong") = 0
    BY <1>1, <1>3 DEF Out
  <2>2. Num(wire[y], "ping") \in Nat /\ Answer(Peer(y)) \in Nat /\ Num(wire[Peer(y)], "pong") \in Nat
    BY <1>1, Parts
  <2>3. Num(wire[y], "ping") = 0 /\ Num(wire[Peer(y)], "pong") = 0
    BY <2>1, <2>2
  <2> QED BY <1>1, <2>3, NumType
<1>4. Timed(x)'
  <2>1. /\ wire[x] \in Seq(Frame) /\ Age(x) \in Nat /\ Age(Peer(x)) \in Nat
        /\ OnTime(wire[x], Age(x), Age(Peer(x)))
        /\ \A i \in 1 .. Len(wire[x]) : wire[x][i].left >= 1
    BY <1>1, <1>2 DEF FlowOf, Timed
  <2>2. /\ Age(x)' = Age(x) + 1 \/ \A i \in 1 .. Len(wire[x]) : wire[x][i].type # "ping"
        /\ Age(Peer(x))' = Age(Peer(x)) + 1
              \/ \A i \in 1 .. Len(wire[x]) : wire[x][i].type # "pong"
    BY <1>1, <1>2, <1>3
  <2>3. OnTime(Aged(wire[x]), Age(x)', Age(Peer(x))')
    BY ONLY <2>1, <2>2, OnTimeAged
  <2>4. wire'[x] = Aged(wire[x])
    BY Ticked
  <2> QED BY <2>3, <2>4 DEF Timed
<1>5. Answering(x)'
  BY <1>1, Ticked DEF Answering
<1>6. /\ pingDue'[x] => pingDue[x] \/ shaperIn[x] = 1
      /\ shaperDue'[x] => shaperDue[x] \/ shaperIn[x] = 1
      /\ UNCHANGED <<pinger, shaper>> /\ hung' = hung
  BY <1>1, Ticked DEF Working
<1>7. Counted(x)'
  <2>1. Out(x)' = Out(x) /\ Out(x) <= Spare(x) /\ Out(x) \in Nat
    BY <1>1, OutTick, Parts DEF FlowOf, Counted
  <2>2. TypeOK'
    BY TypeTick
  <2>3. Spare(x)' \in Nat
    BY <2>2 DEF Spare, Spent
  <2>4. shaperIn[x] # 1 => Spare(x)' >= Spare(x)
    BY <1>6 DEF Spare, Spent
  <2>5. Spare(x) \in Nat
    BY Counts
  <2> QED BY <1>1, <2>1, <2>3, <2>4, <2>5 DEF Counted
<1>8. Prompt(x)'
  <2> SUFFICES ASSUME x \notin hung PROVE Prompt(x)'
    BY <1>6 DEF Prompt
  <2>1. /\ pinger[x] \in {"wait", "ended"} /\ shaper[x] = "wait" /\ ~shaperDue[x]
        /\ pinger[x] = "wait" => ~pingDue[x]
    BY <1>1
  <2>2. pingDue'[x] => pinger[x] = "wait"
    BY <2>1, Ticked
  <2>3. pingDue'[x] \/ shaperDue'[x] => shaperIn'[x] = Interval
    BY <1>2, <1>6, <2>1, <2>2
  <2> QED BY <1>6, <2>1, <2>2, <2>3 DEF Prompt
<1> QED BY <1>4, <1>5, <1>7, <1>8 DEF FlowOf

LEMMA FlowStep == ASSUME Timely, TypeOK, Basic, Flow, [Next]_vars PROVE Flow'
<1> USE Bounds
<1> SUFFICES ASSUME ~broken', ~Stuck', NEW x \in Side PROVE FlowOf(x)'
  BY DEF Flow
<1>1. ~broken
  BY DEF Next, vars, faults, Tick, PingerTicks, PingerEnds, PingerSends, PingerStores, ShaperTicks,
     ShaperSends, ReadsPing, ReadsPong, Echoes, ReadFails, SessionCloses, Breaks, Fills, Drains, Hangs
<1>2. ~Stuck
  BY <1>1, StuckStays DEF Stuck
<1>3. \A y \in Side : /\ FlowOf(y) /\ wire[y] \in Seq(Frame) /\ Peer(y) \in Side /\ Peer(y) # y
                      /\ Peer(Peer(y)) = y /\ Age(y) \in Nat /\ Out(y) \in Nat
                      /\ Spare(y) \in 0 .. 2
  <2> SUFFICES ASSUME NEW y \in Side
               PROVE  /\ FlowOf(y) /\ wire[y] \in Seq(Frame) /\ Peer(y) \in Side /\ Peer(y) # y
                      /\ Peer(Peer(y)) = y /\ Age(y) \in Nat /\ Out(y) \in Nat
                      /\ Spare(y) \in 0 .. 2
    OBVIOUS
  <2>1. FlowOf(y)
    BY <1>1, <1>2 DEF Flow
  <2>2. shaperIn[y] \in 1 .. Interval
    BY DEF TypeOK
  <2>3. Age(y) \in Nat
    BY <2>2 DEF Age
  <2> QED BY <2>1, <2>3, Sides, Parts, Counts
<1>4. CASE Tick
  BY <1>1, <1>2, <1>4, FlowTick
<1>5. ASSUME NEW y \in Side, PingerSends(y) \/ ShaperSends(y) PROVE FlowOf(x)'
  <2>1. UNCHANGED <<shaperIn, reader, hung>>
    BY <1>5 DEF PingerSends, ShaperSends, shapers, faults
  <2>2. \A z \in Side : Age(z)' = Age(z)
    BY <2>1 DEF Age
  <2>3. Timed(x)'
    <3>1. CASE x = y /\ x \notin hung
      <4>1. wire'[x] = Append(wire[x], [type |-> "ping", left |-> MaxDelay])
        BY <1>1, <1>5, <3>1, Sent DEF PingerSends, ShaperSends
      <4>2. Age(x) = 0
        <5>1. pinger[x] = "ping" \/ shaper[x] = "ping"
          BY <1>5, <3>1 DEF PingerSends, ShaperSends
        <5>2. shaperIn[x] = Interval
          BY <1>3, <3>1, <5>1 DEF FlowOf, Prompt
        <5> QED BY <5>2 DEF Age
      <4>3. PICK f \in Frame : f = [type |-> "ping", left |-> MaxDelay]
        <5>1. [type |-> "ping", left |-> MaxDelay] \in Frame
          BY DEF Frame
        <5> QED BY <5>1
      <4>4. f.left = MaxDelay /\ f.type = "ping" /\ wire'[x] = Append(wire[x], f)
        BY <4>1, <4>3
      <4>5. OnTime(Append(wire[x], f), Age(x), Age(Peer(x)))
        BY <1>3, <4>2, <4>4, OnTimeAppend DEF FlowOf, Timed
      <4> QED BY <1>3, <2>2, <4>4, <4>5 DEF Timed
    <3>2. CASE x # y \/ x \in hung
      <4>1. wire'[x] = wire[x]
        BY <1>5, <3>2, Sent, Sides DEF PingerSends, ShaperSends
      <4> QED BY <1>3, <2>2, <4>1 DEF FlowOf, Timed
    <3> QED BY <3>1, <3>2
  <2>4. Answering(x)'
    BY <1>3, <2>1, <2>2 DEF FlowOf, Answering
  <2>5. Counted(x)'
    <3>1. Out(x)' = Out(x) + (IF x = y /\ y \notin hung THEN 1 ELSE 0) /\ Out(x) <= Spare(x)
      BY <1>1, <1>3, <1>5, OutSent DEF FlowOf, Counted
    <3>2. CASE x = y /\ PingerSends(y)
      <4>1. pinger[x] = "ping" /\ pinger'[x] = "store" /\ UNCHANGED <<pingDue, shaperDue, shaper>>
        BY <1>1, <3>2, PingSent DEF PingerSends, shapers
      <4>2. x \notin hung => ~pingDue[x]
        BY <1>3, <4>1 DEF FlowOf, Prompt
      <4>3. x \notin hung => Spare(x)' = Spare(x) + 1
        BY <4>1, <4>2 DEF Spare, Spent
      <4>4. Spare(x)' >= Spare(x)
        BY <4>1 DEF Spare, Spent
      <4>5. Spare(x)' \in Nat
        BY DEF Spare, Spent
      <4> QED BY <1>3, <3>1, <3>2, <4>3, <4>4, <4>5 DEF Counted
    <3>3. CASE x = y /\ ShaperSends(y)
      <4>1. shaper[x] = "ping" /\ shaper'[x] = "wait" /\ UNCHANGED <<pingDue, shaperDue, pinger>>
        BY <1>1, <3>3, PingSent DEF ShaperSends, pings
      <4>2. x \notin hung => ~shaperDue[x]
        BY <1>3, <4>1 DEF FlowOf, Prompt
      <4>3. x \notin hung => Spare(x)' = Spare(x) + 1
        BY <4>1, <4>2 DEF Spare, Spent
      <4>4. Spare(x)' >= Spare(x)
        BY <4>1 DEF Spare, Spent
      <4>5. Spare(x)' \in Nat
        BY DEF Spare, Spent
      <4> QED BY <1>3, <3>1, <3>3, <4>3, <4>4, <4>5 DEF Counted
    <3>4. CASE x # y
      <4>1. UNCHANGED <<pingDue, shaperDue>> /\ pinger'[x] = pinger[x] /\ shaper'[x] = shaper[x]
        BY <1>5, <3>4 DEF PingerSends, ShaperSends, pings, shapers, TypeOK
      <4>2. Spare(x)' = Spare(x)
        BY <4>1 DEF Spare
      <4> QED BY <1>3, <3>1, <3>4, <4>2 DEF Counted
    <3> QED BY <1>5, <3>2, <3>3, <3>4
  <2>6. Prompt(x)'
    <3>1. Prompt(x)
      BY <1>3 DEF FlowOf
    <3> QED BY <1>1, <1>5, <2>1, <3>1 DEF Prompt, PingerSends, ShaperSends, pings, shapers, TypeOK
  <2> QED BY <2>3, <2>4, <2>5, <2>6 DEF FlowOf
<1>6. ASSUME NEW y \in Side, ReadsPing(y) \/ ReadsPong(y) PROVE FlowOf(x)'
  <2>1. UNCHANGED <<shaperIn, pinger, pingDue, shaper, shaperDue, hung>>
    BY <1>6 DEF ReadsPing, ReadsPong, pings, shapers, faults
  <2>2. \A z \in Side : Age(z)' = Age(z)
    BY <2>1 DEF Age
  <2>3. /\ wire[Peer(y)] # <<>> /\ wire'[y] = wire[y] /\ wire'[Peer(y)] = Tail(wire[Peer(y)])
        /\ ReadsPing(y) => wire[Peer(y)][1].type = "ping"
    BY <1>6, Received DEF ReadsPing, ReadsPong
  <2>4. Timed(x)'
    <3>1. CASE x = y
      BY <1>3, <2>2, <2>3, <3>1 DEF FlowOf, Timed
    <3>2. CASE x = Peer(y)
      <4>1. OnTime(Tail(wire[x]), Age(x), Age(Peer(x)))
        BY <1>3, <2>3, <3>2, OnTimeTail DEF FlowOf, Timed
      <4> QED BY <1>3, <2>2, <2>3, <3>2, <4>1 DEF Timed
    <3> QED BY <3>1, <3>2, Sides
  <2>5. Answering(x)'
    <3>1. CASE x = y /\ ReadsPing(y)
      <4>1. wire[Peer(x)] \in Seq(Frame) /\ 1 \in 1 .. Len(wire[Peer(x)])
        BY <1>3, <2>3, <3>1
      <4>2. wire[Peer(x)][1] \in Frame
        BY <4>1, ElementOfSeq
      <4>3. wire[Peer(x)][1].left + Age(Peer(x)) <= MaxDelay
        BY <1>3, <2>3, <3>1, <4>1 DEF FlowOf, Timed, OnTime
      <4>4. Age(Peer(x)) <= MaxDelay
        BY <1>3, <4>2, <4>3 DEF Frame
      <4> QED BY <1>3, <2>2, <4>4 DEF Answering
    <3>2. CASE x # y \/ ReadsPong(y)
      <4>1. reader'[x] = reader[x]
        BY <1>6, <3>2 DEF ReadsPing, ReadsPong, TypeOK
      <4> QED BY <1>3, <2>2, <4>1 DEF FlowOf, Answering
    <3> QED BY <1>6, <3>1, <3>2
  <2>6. Counted(x)'
    <3>1. Out(x)' \in Nat /\ Out(x)' <= Out(x) /\ Out(x) <= Spare(x)
      BY <1>3, <1>6, OutReadsPing, OutReadsPong DEF FlowOf, Counted
    <3>2. Spare(x)' = Spare(x)
      BY <2>1 DEF Spare
    <3> QED BY <1>3, <3>1, <3>2 DEF Counted
  <2>7. Prompt(x)'
    BY <1>3, <2>1 DEF FlowOf, Prompt
  <2> QED BY <2>4, <2>5, <2>6, <2>7 DEF FlowOf
<1>7. ASSUME NEW y \in Side, Echoes(y) PROVE FlowOf(x)'
  <2>1. UNCHANGED <<shaperIn, pinger, pingDue, shaper, shaperDue, hung>>
    BY <1>7 DEF Echoes, pings, shapers, faults
  <2>2. \A z \in Side : Age(z)' = Age(z)
    BY <2>1 DEF Age
  <2>3. Timed(x)'
    <3>1. CASE x = y /\ x \notin hung
      <4>1. wire'[x] = Append(wire[x], [type |-> "pong", left |-> MaxDelay])
        BY <1>1, <1>7, <3>1, Sent DEF Echoes
      <4>2. Age(Peer(x)) <= MaxDelay
        BY <1>3, <1>7, <3>1 DEF FlowOf, Answering, Echoes
      <4>3. PICK f \in Frame : f = [type |-> "pong", left |-> MaxDelay]
        <5>1. [type |-> "pong", left |-> MaxDelay] \in Frame
          BY DEF Frame
        <5> QED BY <5>1
      <4>4. f.left = MaxDelay /\ f.type = "pong" /\ wire'[x] = Append(wire[x], f)
        BY <4>1, <4>3
      <4>5. OnTime(Append(wire[x], f), Age(x), Age(Peer(x)))
        BY <1>3, <4>2, <4>4, OnTimeAppend DEF FlowOf, Timed
      <4> QED BY <1>3, <2>2, <4>4, <4>5 DEF Timed
    <3>2. CASE x # y \/ x \in hung
      <4>1. wire'[x] = wire[x]
        BY <1>7, <3>2, Sent, Sides DEF Echoes
      <4> QED BY <1>3, <2>2, <4>1 DEF FlowOf, Timed
    <3> QED BY <3>1, <3>2
  <2>4. Answering(x)'
    <3>1. reader'[x] = "pong" => reader[x] = "pong"
      BY <1>7 DEF Echoes, TypeOK
    <3> QED BY <1>3, <2>2, <3>1 DEF FlowOf, Answering
  <2>5. Counted(x)'
    <3>1. Out(x)' \in Nat /\ Out(x)' <= Out(x) /\ Out(x) <= Spare(x)
      BY <1>1, <1>3, <1>7, OutEchoes DEF FlowOf, Counted
    <3>2. Spare(x)' = Spare(x)
      BY <2>1 DEF Spare
    <3> QED BY <1>3, <3>1, <3>2 DEF Counted
  <2>6. Prompt(x)'
    BY <1>3, <2>1 DEF FlowOf, Prompt
  <2> QED BY <2>3, <2>4, <2>5, <2>6 DEF FlowOf
<1>8. ASSUME NEW y \in Side, Hangs(y) PROVE FlowOf(x)'
  <2>1. UNCHANGED <<shaperIn, pinger, pingDue, shaper, shaperDue, reader>>
    BY <1>8 DEF Hangs, pings, shapers
  <2>2. \A z \in Side : Age(z)' = Age(z)
    BY <2>1 DEF Age
  <2>3. wire'[x] = wire[x] \/ wire'[x] = <<>>
    BY <1>8 DEF Hangs, TypeOK
  <2>4. Timed(x)'
    <3>1. OnTime(<<>>, Age(x), Age(Peer(x)))
      BY DEF OnTime
    <3>2. OnTime(wire[x], Age(x), Age(Peer(x)))
      BY <1>3 DEF FlowOf, Timed
    <3> QED BY <1>3, <2>2, <2>3, <3>1, <3>2 DEF Timed
  <2>5. Answering(x)'
    BY <1>3, <2>1, <2>2 DEF FlowOf, Answering
  <2>6. Counted(x)'
    <3>1. Out(x)' \in Nat /\ Out(x)' <= Out(x) /\ Out(x) <= Spare(x)
      BY <1>3, <1>8, OutHangs DEF FlowOf, Counted
    <3>2. Spare(x)' = Spare(x)
      BY <2>1 DEF Spare
    <3> QED BY <1>3, <3>1, <3>2 DEF Counted
  <2>7. Prompt(x)'
    <3>1. x \notin hung' => x \notin hung
      BY <1>8 DEF Hangs
    <3> QED BY <1>3, <2>1, <3>1 DEF FlowOf, Prompt
  <2> QED BY <2>4, <2>5, <2>6, <2>7 DEF FlowOf
<1>9. ASSUME UNCHANGED <<wire, reader, shaperIn, hung>>, Spare(x)' >= Spare(x), Spare(x)' \in Nat,
             Prompt(x)'
      PROVE  FlowOf(x)'
  <2>1. \A z \in Side : Age(z)' = Age(z)
    BY <1>9 DEF Age
  <2>2. Timed(x)' /\ Answering(x)'
    BY <1>3, <1>9, <2>1 DEF FlowOf, Timed, Answering
  <2>3. Counted(x)'
    <3>1. Out(x)' = Out(x) /\ Out(x) <= Spare(x)
      BY <1>3, <1>9, OutSame DEF FlowOf, Counted
    <3> QED BY <1>3, <1>9, <3>1 DEF Counted
  <2> QED BY <1>9, <2>2, <2>3 DEF FlowOf
<1>10. ASSUME NEW y \in Side,
              PingerTicks(y) \/ PingerEnds(y) \/ PingerStores(y) \/ ShaperTicks(y)
       PROVE  FlowOf(x)'
  <2>1. UNCHANGED <<wire, reader, shaperIn, hung>>
    BY <1>10 DEF PingerTicks, PingerEnds, PingerStores, ShaperTicks, shapers, faults
  <2>2. Prompt(x)
    BY <1>3 DEF FlowOf
  <2>3. CASE PingerTicks(y)
    <3>1. /\ UNCHANGED <<shaper, shaperDue>> /\ pinger[y] = "wait" /\ pingDue[y]
          /\ pinger'[y] \in {"ping", "ended"} /\ ~pingDue'[y]
          /\ x # y => pinger'[x] = pinger[x] /\ pingDue'[x] = pingDue[x]
      BY <2>3 DEF PingerTicks, shapers, TypeOK
    <3>2. Spare(x)' >= Spare(x) /\ Spare(x)' \in Nat
      BY <3>1 DEF Spare, Spent
    <3>3. Prompt(x)'
      <4>1. CASE x = y
        BY <2>1, <2>2, <3>1, <4>1 DEF Prompt
      <4>2. CASE x # y
        BY <2>1, <2>2, <3>1, <4>2 DEF Prompt
      <4> QED BY <4>1, <4>2
    <3> QED BY <1>9, <2>1, <3>2, <3>3
  <2>4. CASE PingerEnds(y) \/ PingerStores(y)
    <3>1. /\ UNCHANGED <<shaper, shaperDue, pingDue>> /\ pinger[y] \in {"wait", "store"}
          /\ pinger'[y] \in {"wait", "ended"} /\ (pinger[y] = "wait" => pinger'[y] = "ended")
          /\ x # y => pinger'[x] = pinger[x]
      BY <2>4 DEF PingerEnds, PingerStores, shapers, TypeOK
    <3>2. Spare(x)' >= Spare(x) /\ Spare(x)' \in Nat
      BY <3>1 DEF Spare, Spent
    <3>3. Prompt(x)'
      <4>1. CASE x = y
        BY <2>1, <2>2, <3>1, <4>1 DEF Prompt
      <4>2. CASE x # y
        BY <2>1, <2>2, <3>1, <4>2 DEF Prompt
      <4> QED BY <4>1, <4>2
    <3> QED BY <1>9, <2>1, <3>2, <3>3
  <2>5. CASE ShaperTicks(y)
    <3>1. /\ UNCHANGED <<pinger, pingDue>> /\ shaper[y] = "wait" /\ shaperDue[y]
          /\ shaper'[y] = "ping" /\ ~shaperDue'[y]
          /\ x # y => shaper'[x] = shaper[x] /\ shaperDue'[x] = shaperDue[x]
      BY <2>5 DEF ShaperTicks, pings, TypeOK
    <3>2. Spare(x)' >= Spare(x) /\ Spare(x)' \in Nat
      BY <3>1 DEF Spare, Spent
    <3>3. Prompt(x)'
      BY <2>1, <2>2, <3>1 DEF Prompt
    <3> QED BY <1>9, <2>1, <3>2, <3>3
  <2> QED BY <1>10, <2>3, <2>4, <2>5
<1>11. CASE UNCHANGED vars \/ \E y \in Side : Fills(y) \/ Drains(y)
  <2>1. UNCHANGED <<wire, reader, shaperIn, hung, pinger, pingDue, shaper, shaperDue>>
    BY <1>11 DEF vars, Fills, Drains, pings, shapers, faults
  <2>2. Spare(x)' = Spare(x) /\ Prompt(x)'
    BY <1>3, <2>1 DEF Spare, Prompt, FlowOf
  <2> QED BY <1>3, <1>9, <2>1, <2>2
<1>12. ~Breaks /\ \A y \in Side : ~SessionCloses(y) /\ ~ReadFails(y)
  BY <1>1 DEF SessionCloses, Breaks, ReadFails
<1> QED BY <1>4, <1>5, <1>6, <1>7, <1>8, <1>10, <1>11, <1>12 DEF Next

(* There are never more frames under way than the PINGs of both loops of a  *)
(* side in an interval and its answers to those of the other, unless the    *)
(* reader waits with an answer on a transport that is full and hangs.       *)
THEOREM EchoesBounded == ASSUME Timely PROVE Spec => []NoEchoStorm
<1> DEFINE Inv == TypeOK /\ Basic /\ Flow
<1>1. Init => Inv
  BY TypeInit, BasicInit, FlowInit
<1>2. Inv /\ [Next]_vars => Inv'
  BY TypeStep, BasicStep, FlowStep
<1>3. Inv => NoEchoStorm
  <2> SUFFICES ASSUME Inv, NEW x \in Side, Len(wire[x]) > 4
               PROVE  reader[Peer(x)] = "pong" /\ hung # {}
    BY DEF NoEchoStorm
  <2>1. Len(wire[x]) \in Nat /\ wire[x] # <<>>
    BY DEF TypeOK
  <2>2. x \notin hung /\ ~broken
    BY <2>1 DEF Basic, Idle
  <2>3. CASE Stuck
    <3>1. PICK y \in Side : StuckAt(y)
      BY <2>3 DEF Stuck
    <3>2. y = Peer(x) /\ y \in hung /\ reader[y] = "pong"
      BY <2>2, <3>1, Sides DEF StuckAt
    <3> QED BY <3>2
  <2>4. CASE ~Stuck
    <3>1. Peer(x) \in Side
      BY Sides
    <3>2. Out(x) <= Spare(x) /\ Out(Peer(x)) <= Spare(Peer(x))
      BY <2>2, <2>4, <3>1 DEF Flow, FlowOf, Counted
    <3>3. /\ Out(x) \in Nat /\ Out(Peer(x)) \in Nat /\ Spare(x) \in 0 .. 2
          /\ Spare(Peer(x)) \in 0 .. 2 /\ Len(wire[x]) <= Out(x) + Out(Peer(x))
      BY <3>1, Parts, Counts
    <3> QED BY <2>1, <3>2, <3>3
  <2> QED BY <2>3, <2>4
<1> QED BY <1>1, <1>2, <1>3, PTL DEF Spec

-----------------------------------------------------------------------------
(* While nothing hangs, a PING without its answer is still outstanding,     *)
(* and nothing is when the next is due.                                    *)
AliveOf(x) ==
    /\ x \notin gaveUp
    /\ pinger[x] = "wait" => pongAge[x] <= sentAge[x] \/ (~pingDue[x] /\ Out(x) > 0)
    /\ pinger[x] = "store" => pongAge[x] = 0 \/ Out(x) > 0

Alive == hung = {} /\ ~broken => \A x \in Side : AliveOf(x)

LEMMA AliveInit == Init => Alive
<1> USE Bounds
<1> SUFFICES ASSUME Init, NEW x \in Side PROVE AliveOf(x)
  BY DEF Alive
<1>1. pongAge[x] = sentAge[x] /\ sentAge[x] \in Nat /\ pinger[x] = "wait" /\ x \notin gaveUp
  BY TypeInit DEF Init, TypeOK
<1> QED BY <1>1 DEF AliveOf

LEMMA AliveStep == ASSUME Timely, TypeOK, Basic, Flow, Alive, [Next]_vars PROVE Alive'
<1> USE Bounds
<1> SUFFICES ASSUME ~broken', hung' = {}, NEW x \in Side PROVE AliveOf(x)'
  BY DEF Alive
<1>1. ~broken /\ hung = {}
  BY DEF Next, vars, faults, Tick, PingerTicks, PingerEnds, PingerSends, PingerStores, ShaperTicks,
     ShaperSends, ReadsPing, ReadsPong, Echoes, ReadFails, SessionCloses, Breaks, Fills, Drains, Hangs
<1>2. ~Stuck
  BY <1>1 DEF Stuck, StuckAt
<1>3. \A y \in Side : FlowOf(y) /\ AliveOf(y) /\ Working(y)
  BY <1>1, <1>2 DEF Flow, Alive, Basic
<1>4. /\ sentAge[x] \in 0 .. OldPing /\ pongAge[x] \in 0 .. OldPing /\ OldPing \in Nat
      /\ Out(x) \in Nat
  BY Parts DEF TypeOK, OldPing
<1>5. CASE Tick
  <2>1. /\ pinger[x] \in {"wait", "ended"} /\ (pinger[x] = "wait" => ~pingDue[x])
        /\ shaperIn[x] = 1 => Out(x) = 0
    BY <1>1, <1>2, <1>5, Quiet
  <2>2. /\ pinger'[x] = pinger[x] /\ gaveUp' = gaveUp
        /\ sentAge'[x] = Older(sentAge[x], OldPing) /\ pongAge'[x] = Older(pongAge[x], OldPing)
        /\ pingDue'[x] <=> pinger[x] # "ended" /\ (pingDue[x] \/ pingIn[x] = 1)
    BY <1>5, Ticked
  <2>3. Out(x)' = Out(x)
    BY <1>5, OutTick
  <2>4. CASE pinger[x] = "wait"
    <3>1. CASE pongAge[x] <= sentAge[x]
      <4>1. pongAge'[x] <= sentAge'[x]
        BY <1>4, <2>2, <3>1 DEF Older
      <4> QED BY <1>3, <2>2, <2>4, <4>1 DEF AliveOf
    <3>2. CASE ~(pongAge[x] <= sentAge[x])
      <4>1. Out(x) > 0
        BY <1>3, <2>4, <3>2 DEF AliveOf
      <4>2. shaperIn[x] # 1 /\ pingIn[x] = shaperIn[x]
        BY <1>3, <2>1, <2>4, <4>1 DEF Working
      <4>3. ~pingDue'[x]
        BY <2>1, <2>2, <2>4, <4>2
      <4> QED BY <1>3, <2>2, <2>3, <2>4, <4>1, <4>3 DEF AliveOf
    <3> QED BY <3>1, <3>2
  <2>5. CASE pinger[x] = "ended"
    BY <1>3, <2>2, <2>5 DEF AliveOf
  <2> QED BY <2>1, <2>4, <2>5
<1>6. ASSUME NEW y \in Side, PingerTicks(y) PROVE AliveOf(x)'
  <2>1. pinger[y] = "wait" /\ pingDue[y] /\ UNCHANGED <<sentAge, pongAge, wire, reader>>
    BY <1>6 DEF PingerTicks, faults
  <2>2. Out(x)' = Out(x)
    BY <2>1, OutSame
  <2>3. pongAge[y] <= sentAge[y] /\ sentAge[y] \in Nat /\ pongAge[y] \in Nat
    BY <1>3, <2>1 DEF AliveOf, TypeOK
  <2>4. ~Unanswered(y)
    BY <2>3 DEF Unanswered
  <2>5. /\ gaveUp' = gaveUp /\ pinger'[y] = "ping"
        /\ x # y => pinger'[x] = pinger[x] /\ pingDue'[x] = pingDue[x]
    BY <1>6, <2>4 DEF PingerTicks, TypeOK
  <2> QED BY <1>3, <2>1, <2>2, <2>5 DEF AliveOf
<1>7. ~Breaks /\ \A y \in Side : ~PingerEnds(y) /\ ~ReadFails(y) /\ ~SessionCloses(y)
  BY <1>1, <1>3 DEF PingerEnds, ReadFails, SessionCloses, Breaks, Working
<1>8. ASSUME NEW y \in Side, PingerSends(y) \/ ShaperSends(y) PROVE AliveOf(x)'
  <2>1. UNCHANGED <<sentAge, pongAge, pingDue, gaveUp>>
    BY <1>8 DEF PingerSends, ShaperSends, pings
  <2>2. Out(x)' = Out(x) + (IF x = y THEN 1 ELSE 0)
    BY <1>1, <1>8, OutSent
  <2>3. CASE pinger'[x] = pinger[x]
    <3>1. Out(x)' >= Out(x)
      BY <1>4, <2>2
    <3>2. Out(x) > 0 => Out(x)' > 0
      BY <1>4, <2>2
    <3> QED BY <1>3, <2>1, <2>3, <3>2 DEF AliveOf
  <2>4. CASE pinger'[x] # pinger[x]
    <3>1. x = y /\ pinger'[x] = "store"
      <4>1. PingerSends(y)
        BY <1>8, <2>4 DEF ShaperSends, pings
      <4>2. pinger' = [pinger EXCEPT ![y] = "store"] /\ pinger'[y] = "store"
        BY <1>1, <4>1, PingSent
      <4>3. x # y => pinger'[x] = pinger[x]
        BY <4>2
      <4> QED BY <2>4, <4>2, <4>3
    <3>2. Out(x)' > 0
      BY <1>4, <2>2, <3>1
    <3> QED BY <1>3, <2>1, <3>1, <3>2 DEF AliveOf
  <2> QED BY <2>3, <2>4
<1>9. ASSUME NEW y \in Side, PingerStores(y) PROVE AliveOf(x)'
  <2>1. UNCHANGED <<pongAge, pingDue, gaveUp, wire, reader>>
    BY <1>9 DEF PingerStores, faults
  <2>2. Out(x)' = Out(x)
    BY <2>1, OutSame
  <2>3. CASE x = y
    <3>1. pinger[x] = "store" /\ pinger'[x] = "wait" /\ sentAge'[x] = 0
      BY <1>9, <2>3 DEF PingerStores, TypeOK
    <3>2. ~pingDue[x]
      BY <1>1, <1>3, <3>1 DEF FlowOf, Prompt
    <3>3. pongAge[x] = 0 \/ Out(x) > 0
      BY <1>3, <3>1 DEF AliveOf
    <3> QED BY <1>3, <2>1, <2>2, <3>1, <3>2, <3>3 DEF AliveOf
  <2>4. CASE x # y
    <3>1. pinger'[x] = pinger[x] /\ sentAge'[x] = sentAge[x]
      BY <1>9, <2>4 DEF PingerStores, TypeOK
    <3> QED BY <1>3, <2>1, <2>2, <3>1 DEF AliveOf
  <2> QED BY <2>3, <2>4
<1>10. ASSUME NEW y \in Side, ReadsPong(y) PROVE AliveOf(x)'
  <2>1. UNCHANGED <<sentAge, pingDue, pinger, gaveUp>>
    BY <1>10 DEF ReadsPong, pings
  <2>2. CASE x = y
    <3>1. pongAge'[x] = 0
      BY <1>10, <2>2 DEF ReadsPong, TypeOK
    <3> QED BY <1>3, <1>4, <2>1, <3>1 DEF AliveOf
  <2>3. CASE x # y
    <3>1. pongAge'[x] = pongAge[x]
      BY <1>10, <2>3 DEF ReadsPong, TypeOK
    <3>2. Out(x)' = Out(x)
      BY <1>4, <1>10, <2>3, OutReadsPong
    <3> QED BY <1>3, <2>1, <3>1, <3>2 DEF AliveOf
  <2> QED BY <2>2, <2>3
<1>11. ASSUME UNCHANGED <<sentAge, pongAge, pingDue, pinger, gaveUp>>, Out(x)' = Out(x)
       PROVE  AliveOf(x)'
  BY <1>3, <1>11 DEF AliveOf
<1>12. ASSUME NEW y \in Side, ReadsPing(y) PROVE AliveOf(x)'
  BY <1>11, <1>12, OutReadsPing DEF ReadsPing, pings
<1>13. ASSUME NEW y \in Side, Echoes(y) PROVE AliveOf(x)'
  <2>1. Out(x)' = Out(x)
    BY <1>1, <1>4, <1>13, OutEchoes
  <2> QED BY <1>11, <1>13, <2>1 DEF Echoes, pings
<1>14. CASE UNCHANGED vars \/ \E y \in Side : ShaperTicks(y) \/ Fills(y) \/ Drains(y)
  <2>1. UNCHANGED <<sentAge, pongAge, pingDue, pinger, gaveUp, wire, reader>>
    BY <1>14 DEF vars, ShaperTicks, Fills, Drains, pings, faults
  <2> QED BY <1>11, <2>1, OutSame
<1>15. ASSUME NEW y \in Side, Hangs(y) PROVE FALSE
  BY <1>15 DEF Hangs
<1> QED BY <1>5, <1>6, <1>7, <1>8, <1>9, <1>10, <1>12, <1>13, <1>14, <1>15 DEF Next

(* A transport that delivers within the bound is never given up, whatever   *)
(* the interval, the timeout and the bound, under the hypotheses of Timely: *)
(* an answer is back within an interval, one side at most sends in bulk,   *)
(* and pingLoop does not pause between SendPing and its store.  The last   *)
(* two are not the code's to guarantee (conn.go:229-233, 105-110); without  *)
(* the last it is false.                                                   *)
THEOREM LiveKept == ASSUME Timely PROVE Spec => []KeepsLive
<1> DEFINE Inv == TypeOK /\ Basic /\ Flow /\ Alive
<1>1. Init => Inv
  BY TypeInit, BasicInit, FlowInit, AliveInit
<1>2. Inv /\ [Next]_vars => Inv'
  BY TypeStep, BasicStep, FlowStep, AliveStep
<1>3. Inv => KeepsLive
  BY DEF KeepsLive, Alive, AliveOf, TypeOK
<1> QED BY <1>1, <1>2, <1>3, PTL DEF Spec

-----------------------------------------------------------------------------
(* After a hang.  pingLoop of x waits for ever in a write, or x hears no    *)
(* answer any more.                                                        *)
Blocked(x) == pinger[x] = "ping" /\ x \in full /\ x \in hung

Deaf(x) ==
    \/ Peer(x) \in hung
    \/ x \in hung /\ (Out(x) = 0 \/ (reader[x] = "pong" /\ x \in full))

Since(x) == Interval - pingIn[x]

(* The four phases of a pingLoop that detects it: no tick yet since the     *)
(* hang; the PING of that tick, or one sent as the hang came; it waits for  *)
(* the answer; its time is over.                                           *)
Unaware(x) == pinger[x] = "wait" /\ ~pingDue[x] /\ hungFor <= Since(x)
Probing(x) ==
    /\ (pinger[x] = "wait" /\ pingDue[x]) \/ (pinger[x] \in {"ping", "store"} /\ ~pingDue[x])
    /\ pingIn[x] = Interval
    /\ hungFor = 0 \/ (hungFor <= Interval /\ Deaf(x) /\ pongAge[x] >= 1)
Waiting(x) ==
    /\ pinger[x] = "wait" /\ ~pingDue[x] /\ Deaf(x)
    /\ sentAge[x] = Since(x) /\ pongAge[x] > Since(x) /\ hungFor <= Since(x) + Interval
Expired(x) ==
    /\ pinger[x] = "wait" /\ pingDue[x] /\ Deaf(x)
    /\ Unanswered(x) /\ hungFor <= 2 * Interval

Detecting(x) == Unaware(x) \/ Probing(x) \/ Waiting(x) \/ Expired(x)

DeadOf(x) == conn[x] = "open" /\ hung # {} /\ ~Blocked(x) /\ ~broken => Detecting(x)
Dead == \A x \in Side : DeadOf(x)

(* The peer of a readLoop that is stuck goes on, and its PINGs stay on the  *)
(* wire: two of the interval before the hang, and two after it, until it    *)
(* has detected the hang.                                                  *)
Unread(z) == z \notin hung /\ conn[z] = "open" /\ ~Expired(z) =>
    /\ Out(z) <= Spare(z) + (IF hungFor > Since(z) THEN 2 ELSE 0)
    /\ pingDue[z] => pinger[z] # "ping"
    /\ shaperDue[z] => shaper[z] # "ping"
Held == ~broken => \A y \in Side : StuckAt(y) => Out(y) <= 2 /\ Unread(Peer(y))

(* An unanswered PING is over before the next is due.                      *)
Probes == PingTimeout >= 1 /\ PingTimeout < Interval

LEMMA Spans ==
    ASSUME TypeOK, NEW x \in Side
    PROVE  /\ Since(x) \in 0 .. Interval - 1 /\ pingIn[x] \in 1 .. Interval
           /\ hungFor \in Nat /\ hungFor <= OldHang
           /\ sentAge[x] \in 0 .. OldPing /\ pongAge[x] \in 0 .. OldPing
           /\ OldPing \in Nat /\ OldHang \in Nat /\ OldPing = Interval + PingTimeout
           /\ OldHang = 2 * Interval + PingTimeout
<1>1. pingIn[x] \in 1 .. Interval /\ hungFor \in 0 .. OldHang
  BY DEF TypeOK
<1>2. OldPing \in Nat /\ OldHang \in Nat
  BY Bounds DEF OldPing, OldHang
<1>3. Since(x) \in 0 .. Interval - 1
  BY <1>1, Bounds DEF Since
<1> QED BY <1>1, <1>2, <1>3, Bounds DEF TypeOK, OldPing, OldHang

LEMMA DetectingSoon ==
    ASSUME Probes, TypeOK, NEW x \in Side, Detecting(x) PROVE hungFor < OldHang
<1>1. hungFor <= 2 * Interval
  <2>1. Unaware(x) => hungFor <= 2 * Interval
    BY Spans, Bounds DEF Unaware
  <2>2. Probing(x) => hungFor <= 2 * Interval
    BY Spans, Bounds DEF Probing
  <2>3. Waiting(x) => hungFor <= 2 * Interval
    BY Spans, Bounds DEF Waiting
  <2>4. Expired(x) => hungFor <= 2 * Interval
    BY DEF Expired
  <2> QED BY <2>1, <2>2, <2>3, <2>4 DEF Detecting
<1> QED BY <1>1, Spans, Bounds DEF Probes

LEMMA DeadInit == Init => Dead /\ Held
  BY DEF Init, Dead, DeadOf, Held, StuckAt

(* No PING of a side that hangs is added to those outstanding.             *)
LEMMA OutFalls ==
    ASSUME TypeOK, [Next]_vars, ~broken, NEW x \in Side, x \in hung
    PROVE  broken' \/ (Out(x)' \in Nat /\ Out(x)' <= Out(x))
<1>0. Out(x) \in Nat
  BY Parts
<1>1. CASE Tick
  BY <1>0, <1>1, OutTick
<1>2. ASSUME NEW y \in Side, PingerSends(y) \/ ShaperSends(y)
      PROVE  Out(x)' \in Nat /\ Out(x)' <= Out(x)
  BY <1>0, <1>2, OutSent
<1>3. ASSUME NEW y \in Side, ReadsPing(y) PROVE Out(x)' \in Nat /\ Out(x)' <= Out(x)
  BY <1>0, <1>3, OutReadsPing
<1>4. ASSUME NEW y \in Side, ReadsPong(y) PROVE Out(x)' \in Nat /\ Out(x)' <= Out(x)
  BY <1>0, <1>4, OutReadsPong
<1>5. ASSUME NEW y \in Side, Echoes(y) PROVE Out(x)' \in Nat /\ Out(x)' <= Out(x)
  BY <1>0, <1>5, OutEchoes
<1>6. ASSUME NEW y \in Side, Hangs(y) PROVE Out(x)' \in Nat /\ Out(x)' <= Out(x)
  BY <1>0, <1>6, OutHangs
<1>7. ASSUME Breaks \/ \E y \in Side : ReadFails(y) \/ SessionCloses(y) PROVE broken'
  BY <1>7 DEF ReadFails, SessionCloses, Breaks, faults
<1>8. CASE UNCHANGED vars \/ \E y \in Side : PingerTicks(y) \/ PingerEnds(y) \/ PingerStores(y)
                                             \/ ShaperTicks(y) \/ Fills(y) \/ Drains(y)
  <2>1. UNCHANGED <<wire, reader>>
    BY <1>8 DEF vars, PingerTicks, PingerEnds, PingerStores, ShaperTicks, Fills, Drains
  <2> QED BY <1>0, <2>1, OutSame
<1> QED BY <1>1, <1>2, <1>3, <1>4, <1>5, <1>6, <1>7, <1>8 DEF Next

LEMMA HungStays == ASSUME TypeOK, [Next]_vars PROVE hung \subseteq hung'
  BY DEF Next, vars, faults, Tick, PingerTicks, PingerEnds, PingerSends, PingerStores, ShaperTicks,
     ShaperSends, ReadsPing, ReadsPong, Echoes, ReadFails, SessionCloses, Breaks, Fills, Drains, Hangs

LEMMA DeafStays ==
    ASSUME TypeOK, [Next]_vars, ~broken, ~broken', NEW x \in Side, Deaf(x) PROVE Deaf(x)'
<1>1. CASE Peer(x) \in hung
  BY <1>1, HungStays DEF Deaf
<1>2. CASE x \in hung /\ Out(x) = 0
  <2>1. Out(x)' \in Nat /\ Out(x)' <= Out(x)
    BY <1>2, OutFalls
  <2>2. Out(x)' = 0
    BY <1>2, <2>1
  <2> QED BY <1>2, <2>2, HungStays DEF Deaf
<1>3. CASE x \in hung /\ reader[x] = "pong" /\ x \in full
  <2>1. StuckAt(x)
    BY <1>3 DEF StuckAt
  <2>2. StuckAt(x)'
    BY <2>1, StuckStays
  <2> QED BY <2>2 DEF StuckAt, Deaf
<1> QED BY <1>1, <1>2, <1>3 DEF Deaf

LEMMA DeafReads ==
    ASSUME TypeOK, Basic, NEW x \in Side, Deaf(x) PROVE ~ReadsPong(x)
<1> SUFFICES ASSUME ReadsPong(x) PROVE FALSE
  OBVIOUS
<1>1. /\ reader[x] = "read" /\ wire[Peer(x)] # <<>> /\ wire[Peer(x)][1].type = "pong"
  BY Received DEF ReadsPong
<1>2. wire[Peer(x)] \in Seq(Frame) /\ Peer(x) \in Side
  BY Sides DEF TypeOK
<1>3. Peer(x) \notin hung
  BY <1>1, <1>2 DEF Basic, Idle
<1>4. Out(x) = 0
  BY <1>1, <1>3 DEF Deaf
<1>5. /\ Num(wire[x], "ping") \in Nat /\ Answer(Peer(x)) \in Nat
      /\ Num(wire[Peer(x)], "pong") \in Nat
  BY <1>2, Parts
<1>6. Num(wire[Peer(x)], "pong") = 0
  BY <1>4, <1>5 DEF Out
<1>7. 1 \in 1 .. Len(wire[Peer(x)])
  BY <1>1, <1>2
<1> QED BY <1>1, <1>2, <1>6, <1>7, NumType

(* At most one side is loaded, and full.                                   *)
LEMMA OneFull ==
    ASSUME Timely, TypeOK, NEW x \in Side, x \in full PROVE Peer(x) \notin full
<1> SUFFICES ASSUME Peer(x) \in full PROVE FALSE
  OBVIOUS
<1>1. \A z \in Side : z \in Loaded
  BY Sides DEF TypeOK
<1>2. Loaded = Side
  BY <1>1, KeepaliveAssumption
<1> QED BY <1>2 DEF Timely

(* When a unit passes, a PING that is not blocked for ever has been sent.  *)
LEMMA NothingToSend ==
    ASSUME Timely, TypeOK, Basic, Flow, Held, Tick, ~broken, NEW x \in Side, conn[x] = "open"
    PROVE  /\ pinger[x] = "ping" => Blocked(x)
           /\ Stuck /\ x \notin hung /\ ~Expired(x) => shaper[x] # "ping"
<1> USE Bounds
<1>1. ~Urgent(x) /\ Peer(x) \in Side /\ Peer(Peer(x)) = x
  BY Ticked, Sides
<1>2. ASSUME x \in hung, pinger[x] = "ping" PROVE Blocked(x)
  <2>1. Len(wire[x]) = 0
    BY <1>2 DEF Basic, Idle
  <2>2. x \in full
    BY <1>1, <1>2, <2>1 DEF Urgent, CanWrite, Timely
  <2> QED BY <1>2, <2>2 DEF Blocked
<1>3. ASSUME ~Stuck, x \notin hung PROVE pinger[x] # "ping"
  BY <1>3, Quiet
<1>4. ASSUME Stuck, x \notin hung, ~Expired(x) PROVE pinger[x] # "ping" /\ shaper[x] # "ping"
  <2> SUFFICES ASSUME pinger[x] = "ping" \/ shaper[x] = "ping" PROVE FALSE
    OBVIOUS
  <2>1. StuckAt(Peer(x))
    BY <1>4, Sides DEF Stuck, StuckAt
  <2>2. x \notin full
    BY <1>1, <2>1, OneFull DEF StuckAt
  <2>3. wire[Peer(x)] = <<>>
    BY <1>1, <2>1 DEF StuckAt, Basic, Idle
  <2>4. Out(Peer(x)) <= 2 /\ Out(x) <= Spare(x) + (IF hungFor > Since(x) THEN 2 ELSE 0)
    BY <1>1, <1>4, <2>1 DEF Held, Unread
  <2>5. Spare(x) \in 0 .. 1
    BY DEF Spare, Spent
  <2>6. Out(x) <= 3
    BY <2>4, <2>5, Parts
  <2>7. /\ Num(wire[x], "ping") \in Nat /\ Num(wire[x], "pong") \in Nat /\ Answer(x) \in Nat
        /\ Num(<<>>, "ping") = 0 /\ Num(<<>>, "pong") = 0
    BY Parts, NumEmpty
  <2>8. /\ Out(x) = Num(wire[x], "ping") + 1 + 0
        /\ Out(Peer(x)) = 0 + Answer(x) + Num(wire[x], "pong")
    BY <1>1, <2>1, <2>3, <2>7 DEF Out, Answer, StuckAt
  <2>9. Len(wire[x]) = Num(wire[x], "ping") + Num(wire[x], "pong")
    BY Counts
  <2>10. Len(wire[x]) < MaxWire
    BY <2>4, <2>6, <2>7, <2>8, <2>9 DEF Timely
  <2>11. CanWrite(x)
    BY <2>2, <2>10 DEF CanWrite
  <2> QED BY <1>1, <2>11 DEF Urgent
<1>5. Expired(x) => pinger[x] # "ping"
  BY DEF Expired
<1> QED BY <1>2, <1>3, <1>4, <1>5

(* pingLoop of a side, as time passes.                                     *)
LEMMA DetectingTick ==
    ASSUME Timely, Probes, TypeOK, Basic, Flow, Held, Tick, ~broken, hung # {},
           NEW x \in Side, conn[x] = "open", ~Blocked(x), Detecting(x)
    PROVE  /\ Detecting(x)' /\ hungFor' = hungFor + 1 /\ pinger[x] = "wait" /\ ~pingDue[x]
           /\ pingIn[x] = shaperIn[x]
           /\ pingIn[x] = 1 /\ hungFor > Since(x) => Expired(x)'
<1> USE Bounds
<1>1. /\ ~Urgent(x) /\ UNCHANGED <<pinger, hung, broken, conn>>
      /\ hungFor' = Older(hungFor, OldHang)
      /\ pingDue'[x] <=> pinger[x] # "ended" /\ (pingDue[x] \/ pingIn[x] = 1)
      /\ pinger[x] = "ended" \/ pingIn[x] = 1 => pingIn'[x] = Interval
      /\ pinger[x] # "ended" /\ pingIn[x] # 1 => pingIn'[x] = pingIn[x] - 1
      /\ sentAge'[x] = Older(sentAge[x], OldPing) /\ pongAge'[x] = Older(pongAge[x], OldPing)
  BY Ticked
<1>2. /\ Since(x) \in 0 .. Interval - 1 /\ pingIn[x] \in 1 .. Interval
      /\ hungFor \in Nat /\ sentAge[x] \in 0 .. OldPing /\ pongAge[x] \in 0 .. OldPing
      /\ OldPing \in Nat /\ OldHang \in Nat /\ OldPing = Interval + PingTimeout
      /\ Since(x) = Interval - pingIn[x]
  BY Spans DEF Since
<1>3. hungFor' = hungFor + 1
  BY <1>1, <1>2, DetectingSoon DEF Older
<1>4. pinger[x] = "wait" /\ ~pingDue[x]
  <2>1. pinger[x] # "ping"
    BY NothingToSend
  <2>2. pinger[x] # "store"
    BY <1>1 DEF Urgent, Timely
  <2>3. pinger[x] = "wait" => ~pingDue[x]
    BY <1>1 DEF Urgent
  <2> QED BY <2>1, <2>2, <2>3 DEF Detecting, Unaware, Probing, Waiting, Expired
<1>5. pingIn[x] = shaperIn[x]
  BY <1>4 DEF Basic, Working
<1>6. Unaware(x) \/ Waiting(x)
  BY <1>4 DEF Detecting, Probing, Expired
<1>7. CASE pingIn[x] # 1
  <2>1. pinger'[x] = "wait" /\ ~pingDue'[x] /\ pingIn'[x] = pingIn[x] - 1
    BY <1>1, <1>4, <1>7
  <2>2. Since(x)' = Since(x) + 1 /\ Since(x) + 1 <= Interval - 1
    BY <1>2, <1>7, <2>1 DEF Since
  <2>3. CASE Unaware(x)
    <3>1. hungFor' <= Since(x)'
      BY <1>2, <1>3, <2>2, <2>3 DEF Unaware
    <3>2. Unaware(x)'
      BY <2>1, <3>1 DEF Unaware
    <3> QED BY <1>3, <1>4, <1>5, <1>7, <3>2 DEF Detecting
  <2>4. CASE Waiting(x)
    <3>1. Deaf(x)'
      BY <1>1, <2>4, DeafStays DEF Waiting, Next
    <3>2. sentAge'[x] = Since(x)'
      BY <1>1, <1>2, <2>2, <2>4 DEF Waiting, Older
    <3>3. pongAge'[x] > Since(x)'
      BY <1>1, <1>2, <2>2, <2>4 DEF Waiting, Older
    <3>4. hungFor' <= Since(x)' + Interval
      BY <1>2, <1>3, <2>2, <2>4 DEF Waiting
    <3>5. Waiting(x)'
      BY <2>1, <3>1, <3>2, <3>3, <3>4 DEF Waiting
    <3> QED BY <1>3, <1>4, <1>5, <1>7, <3>5 DEF Detecting
  <2> QED BY <1>6, <2>3, <2>4
<1>8. CASE pingIn[x] = 1
  <2>1. pinger'[x] = "wait" /\ pingDue'[x] /\ pingIn'[x] = Interval /\ Since(x) = Interval - 1
    BY <1>1, <1>2, <1>4, <1>8
  <2>2. CASE Waiting(x)
    <3>1. sentAge'[x] = Interval
      BY <1>1, <1>2, <2>1, <2>2 DEF Waiting, Older
    <3>2. pongAge'[x] > Interval
      BY <1>1, <1>2, <2>1, <2>2 DEF Waiting, Older, Probes
    <3>3. Unanswered(x)'
      BY <3>1, <3>2 DEF Unanswered, Probes
    <3>4. hungFor' <= 2 * Interval
      BY <1>2, <1>3, <2>1, <2>2 DEF Waiting
    <3>5. Deaf(x)'
      BY <1>1, <2>2, DeafStays DEF Waiting, Next
    <3>6. Expired(x)'
      BY <2>1, <3>3, <3>4, <3>5 DEF Expired
    <3> QED BY <1>3, <1>4, <1>5, <3>6 DEF Detecting
  <2>3. CASE Unaware(x)
    <3>1. hungFor' <= Interval /\ ~(hungFor > Since(x))
      BY <1>2, <1>3, <2>1, <2>3 DEF Unaware
    <3>2. Deaf(x)
      <4>1. CASE Stuck
        BY <4>1, Sides DEF Stuck, StuckAt, Deaf
      <4>2. CASE ~Stuck
        <5>1. Out(x) = 0
          BY <1>5, <1>8, <4>2, Quiet
        <5>2. x \in hung \/ Peer(x) \in hung
          <6>1. PICK y \in Side : y \in hung
            BY DEF TypeOK
          <6> QED BY <6>1, Sides
        <5> QED BY <5>1, <5>2 DEF Deaf
      <4> QED BY <4>1, <4>2
    <3>3. Deaf(x)'
      BY <1>1, <3>2, DeafStays DEF Next
    <3>4. pongAge'[x] >= 1
      BY <1>1, <1>2 DEF Older, Probes
    <3>5. Probing(x)'
      BY <2>1, <3>1, <3>3, <3>4 DEF Probing
    <3> QED BY <1>3, <1>4, <1>5, <3>1, <3>5 DEF Detecting
  <2> QED BY <1>6, <2>2, <2>3
<1> QED BY <1>7, <1>8

(* A side whose pingLoop waits for ever in a write goes on to.             *)
LEMMA BlockedStays ==
    ASSUME TypeOK, [Next]_vars, NEW x \in Side, Blocked(x), ~broken' PROVE Blocked(x)'
<1>1. pinger[x] = "ping" /\ x \in full /\ x \in hung
  BY DEF Blocked
<1>2. ASSUME NEW y \in Side, PingerSends(y) PROVE Blocked(x)'
  <2>1. CASE x = y
    BY <1>1, <1>2, <2>1 DEF PingerSends, Send, CanWrite, faults
  <2>2. CASE x # y
    BY <1>1, <1>2, <2>2 DEF PingerSends, Blocked, faults, TypeOK
  <2> QED BY <2>1, <2>2
<1>3. ASSUME NEW y \in Side, PingerTicks(y) \/ PingerEnds(y) \/ PingerStores(y) PROVE Blocked(x)'
  <2>1. x # y
    BY <1>1, <1>3 DEF PingerTicks, PingerEnds, PingerStores
  <2>2. pinger'[x] = pinger[x]
    BY <1>3, <2>1 DEF PingerTicks, PingerEnds, PingerStores, TypeOK
  <2> QED BY <1>1, <1>3, <2>2 DEF PingerTicks, PingerEnds, PingerStores, Blocked, faults
<1>4. CASE Tick
  BY <1>1, <1>4, Ticked DEF Blocked
<1>5. CASE Breaks \/ \E y \in Side : Fills(y) \/ Drains(y) \/ Hangs(y) \/ SessionCloses(y)
  BY <1>1, <1>5 DEF Fills, Drains, MayDrain, Hangs, SessionCloses, Breaks, Blocked, pings
<1>6. CASE UNCHANGED vars \/ \E y \in Side : ShaperTicks(y) \/ ShaperSends(y) \/ ReadsPing(y)
                                             \/ ReadsPong(y) \/ Echoes(y) \/ ReadFails(y)
  BY <1>1, <1>6 DEF vars, ShaperTicks, ShaperSends, ReadsPing, ReadsPong, Echoes, ReadFails,
     Blocked, pings, faults
<1> QED BY <1>2, <1>3, <1>4, <1>5, <1>6 DEF Next

(* A step that is none of x's pingLoop's, and no time.                     *)
LEMMA DetectingStays ==
    ASSUME TypeOK, [Next]_vars, ~broken, ~broken', NEW x \in Side, Detecting(x),
           hungFor' = hungFor, pinger'[x] = pinger[x], pingDue'[x] = pingDue[x],
           pingIn'[x] = pingIn[x], sentAge'[x] = sentAge[x],
           pongAge'[x] = pongAge[x] \/ ~Deaf(x)
    PROVE  Detecting(x)' /\ (Expired(x) => Expired(x)')
<1>1. Deaf(x) => Deaf(x)'
  BY DeafStays
<1>2. Since(x)' = Since(x)
  BY DEF Since
<1>3. Unaware(x) => Unaware(x)'
  BY <1>2 DEF Unaware
<1>4. Probing(x) => Probing(x)'
  BY <1>1 DEF Probing
<1>5. Waiting(x) => Waiting(x)'
  BY <1>1, <1>2 DEF Waiting
<1>6. Expired(x) => Expired(x)'
  BY <1>1 DEF Expired, Unanswered
<1> QED BY <1>3, <1>4, <1>5, <1>6 DEF Detecting

(* A Conn that is closed stays so.                                         *)
LEMMA ClosedStays ==
    ASSUME TypeOK, [Next]_vars, NEW x \in Side, conn'[x] = "open" PROVE conn[x] = "open"
<1>1. ASSUME NEW y \in Side, conn' = [conn EXCEPT ![y] = "closed"] PROVE conn[x] = "open"
  BY <1>1 DEF TypeOK
<1>2. conn' = conn \/ \E y \in Side : conn' = [conn EXCEPT ![y] = "closed"]
  BY DEF Next, vars, Tick, PingerTicks, PingerEnds, PingerSends, PingerStores, ShaperTicks,
     ShaperSends, ReadsPing, ReadsPong, Echoes, ReadFails, SessionCloses, Breaks, Fills, Drains, Hangs
<1> QED BY <1>1, <1>2

LEMMA DeadStep ==
    ASSUME Timely, Probes, TypeOK, Basic, Flow, Dead, Held, [Next]_vars PROVE Dead'
<1> USE Bounds
<1> SUFFICES ASSUME NEW x \in Side, conn'[x] = "open", hung' # {}, ~Blocked(x)', ~broken'
             PROVE  Detecting(x)'
  BY DEF Dead, DeadOf
<1>0. ~broken
  BY DEF Next, vars, faults, Tick, PingerTicks, PingerEnds, PingerSends, PingerStores, ShaperTicks,
     ShaperSends, ReadsPing, ReadsPong, Echoes, ReadFails, SessionCloses, Breaks, Fills, Drains, Hangs
<1>1. conn[x] = "open"
  BY ClosedStays
<1>2. ~Blocked(x)
  BY BlockedStays
<1>3. /\ hungFor \in Nat /\ OldHang \in Nat /\ OldHang > 0 /\ Since(x) \in 0 .. Interval - 1
      /\ pingIn[x] \in 1 .. Interval
  BY Spans DEF Probes
<1>4. hung = {} => hungFor = 0
  BY DEF Basic
<1>5. hung # {} => Detecting(x)
  BY <1>0, <1>1, <1>2 DEF Dead, DeadOf
<1>7. CASE Tick
  <2>1. hung' = hung
    BY <1>7, Ticked
  <2> QED BY <1>0, <1>1, <1>2, <1>5, <1>7, <2>1, DetectingTick
<1>8. ~Breaks /\ \A y \in Side : ~SessionCloses(y)
  BY DEF Breaks, SessionCloses
<1>10. ASSUME ~broken, NEW y \in Side, Hangs(y) PROVE ~broken' /\ Detecting(x)'
  <2>1. UNCHANGED <<pings, pongAge, broken, hungFor, conn>> /\ hung' = hung \cup {y}
    BY <1>10 DEF Hangs
  <2>2. CASE hung = {}
    <3>1. hungFor' = 0
      BY <1>4, <2>1, <2>2
    <3>2. pinger[x] # "ended"
      BY <1>1 DEF Basic, Idle
    <3>3. pingIn[x] = shaperIn[x] /\ Prompt(x)
      BY <1>10, <2>2, <3>2 DEF Basic, Working, Flow, FlowOf, Stuck, StuckAt
    <3>4. UNCHANGED <<pinger, pingDue, pingIn>>
      BY <2>1 DEF pings
    <3>5. CASE pinger[x] = "wait" /\ ~pingDue[x]
      <4>1. Since(x)' >= 0
        BY <1>3, <3>4 DEF Since
      <4> QED BY <2>1, <3>1, <3>4, <3>5, <4>1, <1>10 DEF Detecting, Unaware
    <3>6. CASE ~(pinger[x] = "wait" /\ ~pingDue[x])
      <4>1. \/ pinger[x] = "wait" /\ pingDue[x]
            \/ pinger[x] \in {"ping", "store"} /\ ~pingDue[x]
        BY <2>2, <3>2, <3>3, <3>6 DEF Prompt, TypeOK
      <4>2. pingIn[x] = Interval
        BY <2>2, <3>3, <4>1 DEF Prompt
      <4>3. Probing(x)'
        BY <3>1, <3>4, <4>1, <4>2 DEF Probing
      <4> QED BY <1>10, <2>1, <4>3 DEF Detecting
    <3> QED BY <3>5, <3>6
  <2>3. CASE hung # {}
    <3>1. Detecting(x)
      BY <1>5, <1>10, <2>3
    <3>2. /\ hungFor' = hungFor /\ pinger'[x] = pinger[x] /\ pingDue'[x] = pingDue[x]
          /\ pingIn'[x] = pingIn[x] /\ sentAge'[x] = sentAge[x] /\ pongAge'[x] = pongAge[x]
      BY <2>1 DEF pings
    <3> QED BY <1>10, <2>1, <3>1, <3>2, DetectingStays
  <2> QED BY <2>2, <2>3
<1>11. ASSUME ~broken, ~Tick, \A y \in Side : ~Hangs(y) PROVE ~broken' /\ Detecting(x)'
  <2>1. UNCHANGED <<broken, hung, hungFor>>
    BY <1>8, <1>11 DEF Next, vars, faults, PingerTicks, PingerEnds, PingerSends, PingerStores, ShaperTicks,
       ShaperSends, ReadsPing, ReadsPong, Echoes, ReadFails, Fills, Drains
  <2>2. Detecting(x)
    BY <1>5, <1>11, <2>1
  <2>3. UNCHANGED pingIn
    BY <1>8, <1>11 DEF Next, vars, pings, PingerTicks, PingerEnds, PingerSends, PingerStores, ShaperTicks,
       ShaperSends, ReadsPing, ReadsPong, Echoes, ReadFails, Fills, Drains
  <2>4. CASE PingerTicks(x)
    <3>1. ~Unanswered(x) /\ pinger'[x] = "ping" /\ ~pingDue'[x]
          /\ pinger[x] = "wait" /\ pingDue[x] /\ UNCHANGED <<sentAge, pongAge>>
      BY <1>11, <2>4 DEF PingerTicks, TypeOK
    <3>2. Probing(x)
      BY <2>2, <3>1 DEF Detecting, Unaware, Waiting, Expired
    <3>3. Deaf(x) => Deaf(x)'
      BY <1>11, <2>1, DeafStays
    <3>4. Probing(x)'
      BY <2>1, <2>3, <3>1, <3>2, <3>3 DEF Probing
    <3> QED BY <1>11, <2>1, <3>4 DEF Detecting
  <2>5. CASE PingerSends(x)
    <3>1. pinger'[x] = "store" /\ pinger[x] = "ping" /\ UNCHANGED <<pingDue, sentAge, pongAge>>
      BY <1>11, <2>5, PingSent DEF PingerSends
    <3>2. Probing(x)
      BY <2>2, <3>1 DEF Detecting, Unaware, Waiting, Expired
    <3>3. Deaf(x) => Deaf(x)'
      BY <1>11, <2>1, DeafStays
    <3>4. Probing(x)'
      BY <2>1, <2>3, <3>1, <3>2, <3>3 DEF Probing
    <3> QED BY <1>11, <2>1, <3>4 DEF Detecting
  <2>6. CASE PingerStores(x)
    <3>1. /\ pinger'[x] = "wait" /\ pinger[x] = "store" /\ UNCHANGED <<pingDue, pongAge>>
          /\ sentAge'[x] = 0
      BY <1>11, <2>6 DEF PingerStores, TypeOK
    <3>2. Probing(x)
      BY <2>2, <3>1 DEF Detecting, Unaware, Waiting, Expired
    <3>3. Deaf(x) => Deaf(x)'
      BY <1>11, <2>1, DeafStays
    <3>4. ~pingDue'[x] /\ Since(x)' = 0
      BY <2>3, <3>1, <3>2 DEF Probing, Since
    <3>5. CASE hungFor = 0
      <4>1. Unaware(x)'
        BY <2>1, <3>1, <3>4, <3>5 DEF Unaware
      <4> QED BY <1>11, <2>1, <4>1 DEF Detecting
    <3>6. CASE hungFor # 0
      <4>1. hungFor <= Interval /\ Deaf(x) /\ pongAge[x] >= 1
        BY <3>2, <3>6 DEF Probing
      <4>2. Waiting(x)'
        BY <1>3, <2>1, <3>1, <3>3, <3>4, <4>1 DEF Waiting, TypeOK
      <4> QED BY <1>11, <2>1, <4>2 DEF Detecting
    <3> QED BY <3>5, <3>6
  <2>7. CASE PingerEnds(x)
    BY <1>1, <2>7 DEF PingerEnds
  <2>8. CASE ~PingerTicks(x) /\ ~PingerSends(x) /\ ~PingerStores(x) /\ ~PingerEnds(x)
    <3>1. pinger'[x] = pinger[x] /\ pingDue'[x] = pingDue[x] /\ sentAge'[x] = sentAge[x]
      <4>1. ASSUME NEW y \in Side, y # x,
                   PingerTicks(y) \/ PingerEnds(y) \/ PingerSends(y) \/ PingerStores(y)
            PROVE  pinger'[x] = pinger[x] /\ pingDue'[x] = pingDue[x] /\ sentAge'[x] = sentAge[x]
        BY <4>1 DEF PingerTicks, PingerEnds, PingerSends, PingerStores, TypeOK
      <4>2. \/ UNCHANGED pings
            \/ \E y \in Side : PingerTicks(y) \/ PingerEnds(y) \/ PingerSends(y) \/ PingerStores(y)
        BY <1>8, <1>11 DEF Next, vars, ShaperTicks, ShaperSends, ReadsPing, ReadsPong, Echoes, ReadFails,
           Fills, Drains
      <4> QED BY <2>8, <4>1, <4>2 DEF pings
    <3>2. pongAge'[x] = pongAge[x] \/ ReadsPong(x)
      <4>1. ASSUME NEW y \in Side, y # x, ReadsPong(y) PROVE pongAge'[x] = pongAge[x]
        BY <4>1 DEF ReadsPong, TypeOK
      <4>2. UNCHANGED pongAge \/ \E y \in Side : ReadsPong(y)
        BY <1>8, <1>11 DEF Next, vars, PingerTicks, PingerEnds, PingerSends, PingerStores,
           ShaperTicks, ShaperSends, ReadsPing, Echoes, ReadFails, Fills, Drains
      <4> QED BY <4>1, <4>2
    <3>3. pongAge'[x] = pongAge[x] \/ ~Deaf(x)
      BY <3>2, DeafReads
    <3> QED BY <1>11, <2>1, <2>2, <2>3, <3>1, <3>3, DetectingStays
  <2> QED BY <2>4, <2>5, <2>6, <2>7, <2>8
<1> QED BY <1>0, <1>7, <1>10, <1>11

(* The peer of a readLoop that is stuck.                                   *)
LEMMA UnreadTick ==
    ASSUME Timely, Probes, TypeOK, Basic, Flow, Dead, Held, Tick, ~broken, NEW y \in Side,
           StuckAt(y), NEW z \in Side, z = Peer(y)
    PROVE  Unread(z)'
<1> USE Bounds
<1>0. UNCHANGED <<hung, conn, pinger, shaper, broken>> /\ ~Urgent(z)
      /\ (pingDue'[z] <=> pinger[z] # "ended" /\ (pingDue[z] \/ pingIn[z] = 1))
      /\ (shaperDue'[z] <=> shaper[z] # "off" /\ (shaperDue[z] \/ shaperIn[z] = 1))
      /\ (pinger[z] # "ended" /\ pingIn[z] # 1 => pingIn'[z] = pingIn[z] - 1)
      /\ (pingIn[z] = 1 => pingIn'[z] = Interval)
  BY Ticked
<1> SUFFICES ASSUME z \notin hung, conn[z] = "open", ~Expired(z)'
             PROVE  /\ Out(z)' <= Spare(z)' + (IF hungFor' > Since(z)' THEN 2 ELSE 0)
                    /\ pingDue'[z] => pinger'[z] # "ping"
                    /\ shaperDue'[z] => shaper'[z] # "ping"
  BY <1>0 DEF Unread
<1>1. Stuck /\ hung # {} /\ ~Blocked(z)
  BY DEF Stuck, StuckAt, Blocked
<1>2. Detecting(z)
  BY <1>1 DEF Dead, DeadOf
<1>3. /\ hungFor' = hungFor + 1 /\ pinger[z] = "wait" /\ ~pingDue[z] /\ pingIn[z] = shaperIn[z]
      /\ pingIn[z] = 1 /\ hungFor > Since(z) => Expired(z)'
  BY <1>1, <1>2, DetectingTick
<1>4. ~Expired(z)
  BY <1>3 DEF Expired
<1>5. shaper[z] = "wait" /\ ~shaperDue[z]
  <2>1. shaper[z] # "ping" /\ shaper[z] # "off"
    BY <1>1, <1>4, NothingToSend DEF Basic, Working
  <2> QED BY <1>0, <2>1 DEF Urgent, TypeOK
<1>6. Out(z) <= Spare(z) + (IF hungFor > Since(z) THEN 2 ELSE 0)
  BY <1>4 DEF Held, Unread
<1>7. Spare(z) = 2 /\ Out(z)' = Out(z) /\ Out(z) \in Nat
  BY <1>3, <1>5, OutTick, Parts DEF Spare, Spent
<1>8. Since(z) \in 0 .. Interval - 1 /\ hungFor \in Nat /\ Since(z) = Interval - pingIn[z]
      /\ pingIn[z] \in 1 .. Interval
  BY Spans DEF Since
<1>9. pinger'[z] = "wait" /\ shaper'[z] = "wait"
  BY <1>0, <1>3, <1>5
<1>10. CASE pingIn[z] # 1
  <2>1. ~pingDue'[z] /\ ~shaperDue'[z] /\ pingIn'[z] = pingIn[z] - 1
    BY <1>0, <1>3, <1>5, <1>10
  <2>2. Spare(z)' = 2
    BY <1>9, <2>1 DEF Spare, Spent
  <2>3. Since(z)' = Since(z) + 1
    BY <1>8, <2>1 DEF Since
  <2>4. hungFor' > Since(z)' <=> hungFor > Since(z)
    BY <1>3, <1>8, <2>3
  <2>5. Out(z)' <= Spare(z)' + (IF hungFor' > Since(z)' THEN 2 ELSE 0)
    BY <1>6, <1>7, <2>2, <2>4
  <2> QED BY <1>9, <2>5
<1>11. CASE pingIn[z] = 1
  <2>1. ~(hungFor > Since(z))
    BY <1>3, <1>11
  <2>2. Since(z)' = 0
    BY <1>0, <1>11 DEF Since
  <2>3. hungFor' > Since(z)'
    BY <1>3, <1>8, <2>2
  <2>4. Spare(z)' \in Nat
    BY DEF Spare, Spent
  <2>5. Out(z)' <= Spare(z)' + 2
    BY <1>6, <1>7, <2>1, <2>4
  <2> QED BY <1>9, <2>3, <2>5
<1> QED BY <1>10, <1>11

LEMMA UnreadStep ==
    ASSUME Timely, Probes, TypeOK, Basic, Flow, Dead, Held, [Next]_vars, ~Tick, ~broken, ~broken',
           NEW y \in Side, StuckAt(y), NEW z \in Side, z = Peer(y)
    PROVE  Unread(z)'
<1> USE Bounds
<1> SUFFICES ASSUME z \notin hung', conn'[z] = "open", ~Expired(z)'
             PROVE  /\ Out(z)' <= Spare(z)' + (IF hungFor' > Since(z)' THEN 2 ELSE 0)
                    /\ pingDue'[z] => pinger'[z] # "ping"
                    /\ shaperDue'[z] => shaper'[z] # "ping"
  BY DEF Unread
<1>1. /\ y \in hung /\ y \in full /\ reader[y] = "pong" /\ Peer(z) = y /\ z # y
      /\ wire[y] = <<>> /\ \A x \in Side : x = y \/ x = z
  BY Sides DEF StuckAt, Basic, Idle
<1>2. z \notin hung
  BY HungStays
<1>3. conn[z] = "open"
  BY ClosedStays
<1>4. ~Blocked(z) /\ Detecting(z)
  BY <1>1, <1>2, <1>3 DEF Dead, DeadOf, Blocked
<1>5. hungFor' = hungFor /\ pingIn' = pingIn /\ Since(z)' = Since(z)
  <2>1. UNCHANGED <<hungFor, pingIn>>
    BY DEF Next, vars, pings, faults, PingerTicks, PingerEnds, PingerSends, PingerStores, ShaperTicks,
       ShaperSends, ReadsPing, ReadsPong, Echoes, ReadFails, SessionCloses, Breaks, Fills, Drains, Hangs
  <2> QED BY <2>1 DEF Since
<1>6. \A x \in Side : ~ReadsPing(x) /\ ~ReadsPong(x)
  BY <1>1 DEF ReadsPing, ReadsPong, Receive
<1>7. /\ Out(z) \in Nat /\ Spare(z) \in 0 .. 2 /\ Spare(z)' \in 0 .. 2
  BY Parts, Counts DEF Spare, Spent
<1>8. ASSUME ~Expired(z)
      PROVE  /\ Out(z) <= Spare(z) + (IF hungFor > Since(z) THEN 2 ELSE 0)
             /\ pingDue[z] => pinger[z] # "ping"
             /\ shaperDue[z] => shaper[z] # "ping"
  BY <1>1, <1>2, <1>3, <1>8 DEF Held, Unread
<1>9. CASE PingerTicks(z)
  <2>1. /\ ~Unanswered(z) /\ pinger[z] = "wait" /\ pingDue[z] /\ pinger'[z] = "ping" /\ ~pingDue'[z]
        /\ UNCHANGED <<shaper, shaperDue, wire, reader>>
    BY <1>9 DEF PingerTicks, shapers, TypeOK
  <2>2. ~Expired(z) /\ Spare(z)' = Spare(z) /\ Out(z)' = Out(z)
    BY <2>1, OutSame DEF Expired, Spare, Spent
  <2> QED BY <1>5, <1>8, <2>1, <2>2
<1>10. CASE PingerSends(z) \/ ShaperSends(z)
  <2>1. Out(z)' = Out(z) + 1
    BY <1>2, <1>10, OutSent
  <2>2. CASE PingerSends(z)
    <3>1. /\ pinger[z] = "ping" /\ pinger'[z] = "store" /\ UNCHANGED <<shaper, shaperDue, pingDue>>
      BY <2>2, PingSent DEF PingerSends, shapers
    <3>2. ~Expired(z)
      BY <3>1 DEF Expired
    <3>3. ~pingDue[z] /\ Spare(z)' = Spare(z) + 1
      BY <1>8, <3>1, <3>2 DEF Spare, Spent
    <3> QED BY <1>5, <1>7, <1>8, <2>1, <3>1, <3>2, <3>3
  <2>3. CASE ShaperSends(z)
    <3>1. /\ shaper[z] = "ping" /\ shaper'[z] = "wait" /\ UNCHANGED <<pings, pongAge, shaperDue>>
      BY <2>3, PingSent DEF ShaperSends
    <3>2. ~Expired(z)
      <4>1. Expired(z) => Expired(z)'
        <5>1. UNCHANGED <<pinger, pingDue, pingIn, sentAge, pongAge>>
          BY <3>1 DEF pings
        <5> QED BY <1>4, <1>5, <5>1, DetectingStays
      <4> QED BY <4>1
    <3>3. ~shaperDue[z] /\ UNCHANGED <<pinger, pingDue>>
      BY <1>8, <3>1, <3>2 DEF pings
    <3>4. Spare(z)' = Spare(z) + 1
      BY <3>1, <3>3 DEF Spare, Spent
    <3> QED BY <1>5, <1>7, <1>8, <2>1, <3>1, <3>2, <3>3, <3>4
  <2> QED BY <1>10, <2>2, <2>3
<1>11. CASE PingerStores(z)
  <2>1. /\ pinger[z] = "store" /\ pinger'[z] = "wait"
        /\ UNCHANGED <<shaper, shaperDue, pingDue, wire, reader>>
    BY <1>11 DEF PingerStores, shapers, TypeOK
  <2>2. ~Expired(z) /\ Spare(z)' = Spare(z) /\ Out(z)' = Out(z)
    BY <2>1, OutSame DEF Expired, Spare, Spent
  <2> QED BY <1>5, <1>8, <2>1, <2>2
<1>12. CASE ShaperTicks(z)
  <2>1. /\ shaper[z] = "wait" /\ shaperDue[z] /\ shaper'[z] = "ping" /\ ~shaperDue'[z]
        /\ UNCHANGED <<pings, pongAge, wire, reader>>
    BY <1>12 DEF ShaperTicks, TypeOK
  <2>2. UNCHANGED <<pinger, pingDue, pingIn, sentAge, pongAge>>
    BY <2>1 DEF pings
  <2>3. ~Expired(z)
    BY <1>4, <1>5, <2>2, DetectingStays
  <2>4. Spare(z)' = Spare(z) /\ Out(z)' = Out(z)
    BY <2>1, <2>2, OutSame DEF Spare, Spent
  <2> QED BY <1>5, <1>8, <2>1, <2>2, <2>3, <2>4
<1>13. CASE PingerEnds(z)
  BY <1>3, <1>13 DEF PingerEnds
<1>14. ASSUME /\ pinger'[z] = pinger[z] /\ pingDue'[z] = pingDue[z] /\ sentAge'[z] = sentAge[z]
              /\ shaper'[z] = shaper[z] /\ shaperDue'[z] = shaperDue[z] /\ pongAge'[z] = pongAge[z],
              Out(z)' \in Nat, Out(z)' <= Out(z)
       PROVE  /\ Out(z)' <= Spare(z)' + (IF hungFor' > Since(z)' THEN 2 ELSE 0)
              /\ pingDue'[z] => pinger'[z] # "ping"
              /\ shaperDue'[z] => shaper'[z] # "ping"
  <2>1. ~Expired(z)
    BY <1>4, <1>5, <1>14, DetectingStays
  <2>2. Spare(z)' = Spare(z)
    BY <1>14 DEF Spare
  <2> QED BY <1>5, <1>7, <1>8, <1>14, <2>1, <2>2
<1>15. CASE \/ PingerTicks(y) \/ PingerEnds(y) \/ PingerStores(y) \/ ShaperTicks(y)
            \/ UNCHANGED vars \/ \E x \in Side : Fills(x) \/ Drains(x)
  <2>1. UNCHANGED <<wire, reader, pongAge>>
    BY <1>15 DEF PingerTicks, PingerEnds, PingerStores, ShaperTicks, vars, Fills, Drains
  <2>2. /\ pinger'[z] = pinger[z] /\ pingDue'[z] = pingDue[z] /\ sentAge'[z] = sentAge[z]
        /\ shaper'[z] = shaper[z] /\ shaperDue'[z] = shaperDue[z]
    BY <1>1, <1>15 DEF PingerTicks, PingerEnds, PingerStores, ShaperTicks, vars, Fills, Drains,
       pings, shapers, TypeOK
  <2>3. Out(z)' = Out(z)
    BY <2>1, OutSame
  <2> QED BY <1>7, <1>14, <2>1, <2>2, <2>3
<1>16. CASE PingerSends(y) \/ ShaperSends(y) \/ Echoes(y)
  BY <1>1, <1>16 DEF PingerSends, ShaperSends, Echoes, Send, CanWrite
<1>17. CASE Echoes(z) \/ \E x \in Side : Hangs(x)
  <2>1. Out(z)' \in Nat /\ Out(z)' <= Out(z)
    BY <1>7, <1>17, OutEchoes, OutHangs
  <2>2. UNCHANGED <<pings, shapers, pongAge>>
    BY <1>17 DEF Echoes, Hangs
  <2> QED BY <1>14, <2>1, <2>2 DEF pings, shapers
<1>18. ~Breaks /\ \A x \in Side : ~SessionCloses(x) /\ ~ReadFails(x)
  BY DEF SessionCloses, Breaks, ReadFails
<1> QED BY <1>1, <1>6, <1>9, <1>10, <1>11, <1>12, <1>13, <1>15, <1>16, <1>17, <1>18 DEF Next

(* A readLoop that gets stuck: the PINGs outstanding are those that Flow    *)
(* counts.                                                                 *)
LEMMA GetsStuck ==
    ASSUME Timely, TypeOK, Basic, Flow, [Next]_vars, TypeOK', ~Tick, ~broken, ~broken',
           NEW y \in Side, ~StuckAt(y), StuckAt(y)'
    PROVE  Out(y)' <= 2 /\ Unread(Peer(y))'
<1> USE Bounds
<1>1. y \in hung' /\ y \in full' /\ reader'[y] = "pong"
  BY DEF StuckAt
<1>2. ReadsPing(y) \/ Hangs(y) \/ Fills(y)
  <2>1. ASSUME NEW x \in Side, Echoes(x) \/ ReadsPing(x), reader[y] # "pong"
        PROVE  x = y /\ ReadsPing(x)
    <3>1. CASE x # y
      <4>1. reader' = [reader EXCEPT ![x] = "read"] \/ reader' = [reader EXCEPT ![x] = "pong"]
        BY <2>1 DEF Echoes, ReadsPing
      <4>2. reader \in [Side -> {"read", "pong", "ended"}]
        BY DEF TypeOK
      <4>3. reader'[y] = reader[y]
        BY ONLY <3>1, <4>1, <4>2, x \in Side, y \in Side
      <4> QED BY <1>1, <2>1, <4>3
    <3>2. CASE x = y
      <4>1. ~Echoes(x)
        BY <1>1, <2>1, <3>2 DEF Echoes
      <4> QED BY <2>1, <3>2, <4>1
    <3> QED BY <3>1, <3>2
  <2>2. ASSUME NEW x \in Side, Hangs(x) \/ Fills(x), y \notin hung \/ y \notin full PROVE x = y
    BY <1>1, <2>2 DEF Hangs, Fills
  <2>3. ASSUME reader[y] # "pong" PROVE \E x \in Side : Echoes(x) \/ ReadsPing(x)
    BY <1>1, <2>3 DEF Next, vars, PingerTicks, PingerEnds, PingerSends, PingerStores, ShaperTicks,
       ShaperSends, ReadsPong, ReadFails, SessionCloses, Breaks, Fills, Drains, Hangs
  <2>4. ASSUME y \notin hung \/ y \notin full PROVE \E x \in Side : Hangs(x) \/ Fills(x)
    BY <1>1, <2>4 DEF Next, vars, faults, PingerTicks, PingerEnds, PingerSends, PingerStores,
       ShaperTicks, ShaperSends, ReadsPing, ReadsPong, Echoes, ReadFails, SessionCloses, Breaks, Drains
  <2> QED BY <2>1, <2>2, <2>3, <2>4 DEF StuckAt
<1>3. UNCHANGED <<pings, shapers, conn, hungFor>>
  BY <1>2 DEF ReadsPing, Hangs, Fills, faults
<1>4. ~Stuck
  <2> SUFFICES ASSUME NEW x \in Side, StuckAt(x) PROVE FALSE
    BY DEF Stuck
  <2>1. x = Peer(y) /\ StuckAt(x)'
    BY Sides, StuckStays
  <2>2. \A z \in Side : z \in full'
    BY <1>1, <2>1, Sides DEF StuckAt
  <2>3. Loaded = Side
    BY <2>2, KeepaliveAssumption DEF TypeOK
  <2> QED BY <2>3 DEF Timely
<1>5. \A x \in Side : FlowOf(x)
  BY <1>4 DEF Flow
<1>6. ASSUME NEW x \in Side PROVE Out(x)' \in Nat /\ Out(x)' <= Spare(x) /\ Spare(x) \in 0 .. 2
  <2>1. Out(x) \in Nat /\ Out(x) <= Spare(x) /\ Spare(x) \in 0 .. 2
    BY <1>5, Parts, Counts DEF FlowOf, Counted
  <2>2. Out(x)' \in Nat /\ Out(x)' <= Out(x)
    <3>1. CASE ReadsPing(y)
      BY <2>1, <3>1, OutReadsPing
    <3>2. CASE Hangs(y)
      BY <3>2, OutHangs
    <3>3. CASE Fills(y)
      BY <2>1, <3>3, OutSame DEF Fills
    <3> QED BY <1>2, <3>1, <3>2, <3>3
  <2> QED BY <2>1, <2>2
<1>7. PICK z \in Side : z = Peer(y)
  BY Sides
<1>8. Unread(z)'
  <2> SUFFICES ASSUME z \notin hung', conn'[z] = "open"
               PROVE  /\ Out(z)' <= Spare(z)' + (IF hungFor' > Since(z)' THEN 2 ELSE 0)
                      /\ pingDue'[z] => pinger'[z] # "ping"
                      /\ shaperDue'[z] => shaper'[z] # "ping"
    BY DEF Unread
  <2>1. Prompt(z) /\ z \notin hung
    BY <1>5, HungStays DEF FlowOf
  <2>2. UNCHANGED <<pinger, pingDue, shaper, shaperDue>>
    BY <1>3 DEF pings, shapers
  <2>3. Spare(z)' = Spare(z)
    BY <2>2 DEF Spare
  <2>4. Out(z)' <= Spare(z)' + (IF hungFor' > Since(z)' THEN 2 ELSE 0)
    BY <1>6, <2>3
  <2> QED BY <2>1, <2>2, <2>4 DEF Prompt
<1>9. Out(y)' <= 2
  BY <1>6
<1> QED BY <1>7, <1>8, <1>9

LEMMA HeldStep ==
    ASSUME Timely, Probes, TypeOK, Basic, Flow, Dead, Held, [Next]_vars, TypeOK' PROVE Held'
<1> SUFFICES ASSUME ~broken', NEW y \in Side, StuckAt(y)' PROVE Out(y)' <= 2 /\ Unread(Peer(y))'
  BY DEF Held
<1>1. ~broken
  BY DEF Next, vars, faults, Tick, PingerTicks, PingerEnds, PingerSends, PingerStores, ShaperTicks,
     ShaperSends, ReadsPing, ReadsPong, Echoes, ReadFails, SessionCloses, Breaks, Fills, Drains, Hangs
<1>2. CASE StuckAt(y)
  <2>1. y \in hung /\ Out(y) <= 2
    BY <1>1, <1>2 DEF Held, StuckAt
  <2>2. Out(y) \in Nat /\ Out(y)' \in Nat /\ Out(y)' <= Out(y)
    BY <1>1, <2>1, OutFalls, Parts
  <2>3. Out(y)' <= 2
    BY <2>1, <2>2
  <2>4. PICK z \in Side : z = Peer(y)
    BY Sides
  <2>5. Unread(z)'
    BY <1>1, <1>2, <2>4, UnreadTick, UnreadStep
  <2> QED BY <2>3, <2>4, <2>5
<1>3. CASE ~StuckAt(y)
  <2>1. ~Tick
    BY <1>3, Ticked DEF StuckAt, Tick
  <2> QED BY <1>1, <1>3, <2>1, GetsStuck
<1> QED BY <1>2, <1>3

(* Once the transport of a side has hung for two intervals and a            *)
(* PingTimeout, no Conn is open any more, except one whose pingLoop waits   *)
(* in a write that the full transport does not take: the inductive          *)
(* invariant says in which of its phases each pingLoop is, and that the     *)
(* PINGs of the peer of a readLoop that is stuck fit on the wire.           *)
THEOREM HangsDetected == ASSUME Timely, Probes PROVE Spec => []DetectsDead
<1> DEFINE Inv == TypeOK /\ Basic /\ Flow /\ Dead /\ Held
<1>1. Init => Inv
  BY TypeInit, BasicInit, FlowInit, DeadInit
<1>2. Inv /\ [Next]_vars => Inv'
  <2> SUFFICES ASSUME Inv, [Next]_vars PROVE Inv'
    OBVIOUS
  <2>1. TypeOK' /\ Basic' /\ Flow'
    BY TypeStep, BasicStep, FlowStep
  <2>2. Dead'
    BY DeadStep
  <2>3. Held'
    BY <2>1, HeldStep
  <2> QED BY <2>1, <2>2, <2>3
<1>3. Inv => DetectsDead
  <2> SUFFICES ASSUME Inv, NEW x \in Side, hungFor >= OldHang, ~broken, conn[x] # "closed",
                      ~(pinger[x] = "ping" /\ x \in full)
               PROVE  FALSE
    BY DEF DetectsDead
  <2>0. conn[x] = "open" /\ ~Blocked(x)
    BY DEF TypeOK, Blocked
  <2>1. OldHang > 0 /\ hungFor \in Nat /\ OldHang \in Nat
    BY Spans, Bounds DEF Probes
  <2>2. hung # {}
    BY <2>1 DEF Basic
  <2>3. Detecting(x)
    BY <2>0, <2>2 DEF Dead, DeadOf
  <2>4. hungFor < OldHang
    BY <2>3, DetectingSoon
  <2> QED BY <2>1, <2>4
<1> QED BY <1>1, <1>2, <1>3, PTL DEF Spec
=============================================================================
