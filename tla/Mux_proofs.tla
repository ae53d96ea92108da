------------------------------- MODULE Mux_proofs -------------------------------
(***************************************************************************)
(* A reader of a stream gets the peer's bytes in order, then the EOF; the  *)
(* table forgets the stream: for any number of streams, frames and sizes.  *)
(* Each direction of a stream is a channel of ByteChannels.                *)
(***************************************************************************)
EXTENDS Mux, TLAPS

(* Division and remainder of a byte's place by the size of a message. *)
LEMMA DivMod ==
  ASSUME NEW q \in Nat, NEW r \in 0 .. Unit - 1
  PROVE  (Unit * q + r) \div Unit = q /\ (Unit * q + r) % Unit = r
<1>1. Unit \in Nat \ {0}
  BY MuxAssumption
<1>2. Unit * q \in Nat
  BY <1>1
<1>3. Unit * q <= Unit * q + r /\ Unit * q + r < Unit * q + Unit
  BY <1>1, <1>2
<1> QED
  BY <1>1, <1>2, <1>3

(* The number of whole messages in m bytes. *)
LEMMA DivNat ==
  ASSUME NEW m \in Nat
  PROVE  m \div Unit \in Nat
  BY MuxAssumption

LEMMA Distributes ==
  ASSUME NEW q \in Nat, NEW m \in Nat
  PROVE  Unit * (q + m) = Unit * q + Unit * m /\ Unit * q \in Nat
  BY MuxAssumption

LEMMA Regroup == \A a, b \in Nat : (a + 1) + (b - 1) = a + b
  OBVIOUS

(* A function on 1 .. n is a sequence of length n. *)
LEMMA MakeSeq ==
  ASSUME NEW S, NEW n \in Nat, NEW f \in [1 .. n -> S]
  PROVE  f \in Seq(S) /\ Len(f) = n
  OBVIOUS

LEMMA Concat ==
  ASSUME NEW S, NEW a \in Seq(S), NEW b \in Seq(S)
  PROVE  /\ a \o b \in Seq(S) /\ Len(a \o b) = Len(a) + Len(b)
         /\ \A k \in 1 .. Len(a \o b) :
              (a \o b)[k] = IF k <= Len(a) THEN a[k] ELSE b[k - Len(a)]
  OBVIOUS

LEMMA TailSeq ==
  ASSUME NEW S, NEW a \in Seq(S), a # <<>>
  PROVE  /\ Tail(a) \in Seq(S) /\ Len(Tail(a)) = Len(a) - 1 /\ Len(a) \in Nat \ {0}
         /\ \A k \in 1 .. Len(a) - 1 : Tail(a)[k] = a[k + 1]
         /\ Head(a) = a[1] /\ Head(a) \in S
  OBVIOUS

LEMMA AppendSeq ==
  ASSUME NEW S, NEW a \in Seq(S), NEW x \in S
  PROVE  /\ Append(a, x) \in Seq(S) /\ Len(Append(a, x)) = Len(a) + 1
         /\ \A k \in 1 .. Len(a) : Append(a, x)[k] = a[k]
         /\ Append(a, x)[Len(a) + 1] = x
  OBVIOUS

LEMMA PrefixSeq ==
  ASSUME NEW S, NEW a \in Seq(S), NEW n \in 0 .. Len(a)
  PROVE  /\ SubSeq(a, 1, n) \in Seq(S) /\ Len(SubSeq(a, 1, n)) = n
         /\ \A k \in 1 .. n : SubSeq(a, 1, n)[k] = a[k]
  OBVIOUS

-----------------------------------------------------------------------------
(* One Stream object.                                                      *)

Byte == (1 .. MaxData) \X (1 .. Unit)

At(k) == <<1 + ((k - 1) \div Unit), 1 + ((k - 1) % Unit)>>

(* The next n bytes are those of message q + 1. *)
LEMMA NextBytes ==
  ASSUME NEW q \in Nat, NEW off \in 0 .. Unit - 1, NEW n \in 1 .. Unit - off,
         NEW k \in 1 .. n
  PROVE  At(Unit * q + off + k) = <<q + 1, off + k>>
<1> DEFINE b == Unit * q
<1>1. Unit \in Nat \ {0} /\ off \in Nat /\ n \in Nat /\ b \in Nat
  BY MuxAssumption, Distributes
<1>2. PICK x \in 0 .. Unit - 1 : x = (off + k) - 1
  BY <1>1
<1>3. (b + off + k) - 1 = b + x /\ 1 + q = q + 1 /\ 1 + x = off + k
  BY <1>1, <1>2
<1>4. (b + x) \div Unit = q /\ (b + x) % Unit = x
  BY DivMod
<1> HIDE DEF b
<1>5. At(b + off + k) = <<q + 1, off + k>>
  BY <1>3, <1>4, Zenon DEF At
<1> QED
  BY <1>5 DEF b

(* What is known of a stream of the right type. *)
LEMMA ConsumedNat ==
  ASSUME NEW s \in StreamType
  PROVE  /\ Consumed(s) \in Nat /\ Taken(s) \in Nat /\ Len(s.msgs) \in Nat
         /\ s.msgs \in Seq(1 .. MaxData) /\ s.got \in Seq(Byte) /\ Len(s.got) \in Nat
         /\ s.off \in 0 .. Unit - 1 /\ Unit \in Nat \ {0} /\ MaxData \in Nat
<1>1. /\ s.msgs \in Seq(1 .. MaxData) /\ s.got \in Seq(Byte) /\ s.off \in 0 .. Unit - 1
  BY DEF StreamType, Byte
<1>2. Len(s.msgs) \in Nat /\ Len(s.got) \in Nat
  BY <1>1
<1>3. Consumed(s) \in Nat
  BY <1>2, DivNat DEF Consumed
<1> QED
  BY <1>1, <1>2, <1>3, MuxAssumption DEF Taken

(* The bytes a Read takes from the first message. *)
Taking(s, n) == [j \in 1 .. n |-> <<Head(s.msgs), s.off + j>>]

LEMMA Takes ==
  ASSUME NEW s \in StreamType, Reads(s), s.msgs # <<>>, NEW n \in 1 .. Unit - s.off
  PROVE  LET g == s.got \o Taking(s, n) IN
         /\ g \in Seq(Byte) /\ Len(g) = Unit * Consumed(s) + (s.off + n)
         /\ \A k \in 1 .. Len(g) : g[k] = At(k)
<1>1. /\ Unit \in Nat \ {0} /\ MaxData \in Nat
      /\ s.off \in 0 .. Unit - 1 /\ s.msgs \in Seq(1 .. MaxData)
      /\ s.got \in Seq(Byte) /\ Len(s.got) \in Nat
  BY ConsumedNat
<1>2. PICK q : q = Consumed(s)
  OBVIOUS
<1>3. /\ q \in Nat /\ Len(s.got) = Unit * q + s.off
      /\ \A k \in 1 .. Len(s.msgs) : s.msgs[k] = q + k
      /\ \A k \in 1 .. Len(s.got) : s.got[k] = At(k)
  BY <1>1, <1>2, ConsumedNat DEF Reads, At
<1>4. Len(s.msgs) \in Nat \ {0} /\ Head(s.msgs) = s.msgs[1] /\ Head(s.msgs) \in 1 .. MaxData
  BY <1>1, TailSeq
<1>5. Head(s.msgs) = q + 1
  BY <1>3, <1>4
<1>6. \A j \in 1 .. n : <<Head(s.msgs), s.off + j>> \in Byte
  <2>1. \A j \in 1 .. n : s.off + j \in 1 .. Unit
    BY <1>1
  <2> QED
    BY <1>4, <2>1 DEF Byte
<1>7. /\ Taking(s, n) \in [1 .. n -> Byte] /\ n \in Nat
      /\ \A j \in 1 .. n : Taking(s, n)[j] = <<q + 1, s.off + j>>
  BY <1>5, <1>6 DEF Taking
<1>8. Taking(s, n) \in Seq(Byte) /\ Len(Taking(s, n)) = n
  BY <1>7, MakeSeq
<1>9. PICK t : t = Taking(s, n)
  OBVIOUS
<1>10. t \in Seq(Byte) /\ Len(t) = n /\ \A j \in 1 .. n : t[j] = <<q + 1, s.off + j>>
  BY <1>7, <1>8, <1>9
<1> DEFINE b == Unit * q
           g == s.got \o t
<1>11. b \in Nat /\ Len(s.got) = b + s.off /\ s.off \in Nat /\ n \in Nat
  BY <1>1, <1>3, Distributes
<1>12. \A k \in 1 .. n : At(b + s.off + k) = <<q + 1, s.off + k>>
  BY <1>1, <1>3, NextBytes
<1>13. /\ g \in Seq(Byte) /\ Len(g) = Len(s.got) + n
       /\ \A k \in 1 .. Len(g) : g[k] = IF k <= Len(s.got) THEN s.got[k] ELSE t[k - Len(s.got)]
  <2>1. s.got \in Seq(Byte) /\ t \in Seq(Byte) /\ Len(t) = n
    BY <1>1, <1>10
  <2> QED
    BY ONLY <2>1, Concat
<1> HIDE DEF b, g
<1>14. \A k \in 1 .. Len(g) : g[k] = At(k)
  <2> TAKE k \in 1 .. Len(g)
  <2>1. CASE k <= Len(s.got)
    BY <1>3, <1>11, <1>13, <2>1
  <2>2. CASE ~(k <= Len(s.got))
    <3>1. k - Len(s.got) \in 1 .. n /\ b + s.off + (k - Len(s.got)) = k
      <4>1. k \in Nat /\ k <= Len(s.got) + n /\ b + s.off \in Nat
        BY <1>11, <1>13
      <4>2. PICK l \in Nat : l = Len(s.got) /\ l = b + s.off
        BY <1>11, <4>1
      <4>3. n \in Nat /\ ~(k <= l) /\ k <= l + n
        BY <1>11, <2>2, <4>1, <4>2
      <4>4. k - l \in 1 .. n /\ l + (k - l) = k
        BY ONLY <4>1, <4>2, <4>3
      <4> QED
        BY <4>2, <4>4
    <3>2. g[k] = t[k - Len(s.got)]
      BY <1>13, <2>2
    <3> QED
      BY <1>10, <1>12, <3>1, <3>2
  <2> QED
    BY <2>1, <2>2
<1>15. Len(g) = b + (s.off + n)
  BY <1>11, <1>13
<1> QED
  BY <1>2, <1>9, <1>13, <1>14, <1>15 DEF b, g

(* A Read that leaves bytes of the first message ... *)
LEMMA ReadsPart ==
  ASSUME NEW s \in StreamType, Reads(s), s.msgs # <<>>, NEW n \in 1 .. Unit - s.off,
         s.off + n # Unit
  PROVE  LET r == [s EXCEPT !.got = s.got \o Taking(s, n), !.off = s.off + n]
         IN  r \in StreamType /\ Reads(r) /\ Taken(r) = Taken(s)
<1> DEFINE r == [s EXCEPT !.got = s.got \o Taking(s, n), !.off = s.off + n]
<1>1. PICK g : g = s.got \o Taking(s, n)
  OBVIOUS
<1>2. r = [s EXCEPT !.got = g, !.off = s.off + n]
  BY <1>1
<1> HIDE DEF r
<1>3. PICK q : q = Consumed(s)
  OBVIOUS
<1>4. /\ g \in Seq(Byte) /\ Len(g) = Unit * q + (s.off + n)
      /\ \A k \in 1 .. Len(g) : g[k] = At(k)
  BY <1>1, <1>3, Takes
<1>5. s.off + n \in 0 .. Unit - 1 /\ q \in Nat
  <2>1. s.off \in 0 .. Unit - 1 /\ Unit \in Nat \ {0} /\ q \in Nat
    BY <1>3, ConsumedNat
  <2> QED
    BY <2>1
<1>6. Len(g) \div Unit = q
  BY <1>4, <1>5, DivMod
<1>7. r \in StreamType /\ r.got = g /\ r.off = s.off + n /\ r.msgs = s.msgs
  BY <1>2, <1>4, <1>5 DEF StreamType, Byte
<1>8. Consumed(r) = q
  BY <1>6, <1>7 DEF Consumed
<1>9. Reads(r)
  BY <1>3, <1>4, <1>7, <1>8 DEF Reads, At
<1> QED
  BY <1>3, <1>7, <1>8, <1>9 DEF Taken, r

(* ... and one that ends it. *)
LEMMA ReadsRest ==
  ASSUME NEW s \in StreamType, Reads(s), s.msgs # <<>>, NEW n \in 1 .. Unit - s.off,
         s.off + n = Unit
  PROVE  LET r == [s EXCEPT !.got = s.got \o Taking(s, n), !.off = 0, !.msgs = Tail(s.msgs)]
         IN  /\ r \in StreamType /\ Reads(r) /\ Taken(r) = Taken(s)
             /\ Len(r.msgs) = Len(s.msgs) - 1
<1> DEFINE r == [s EXCEPT !.got = s.got \o Taking(s, n), !.off = 0, !.msgs = Tail(s.msgs)]
<1>1. PICK g : g = s.got \o Taking(s, n)
  OBVIOUS
<1>a. PICK m : m = Tail(s.msgs)
  OBVIOUS
<1>2. r = [s EXCEPT !.got = g, !.off = 0, !.msgs = m]
  BY <1>1, <1>a
<1> HIDE DEF r
<1>3. PICK q : q = Consumed(s)
  OBVIOUS
<1>4. /\ g \in Seq(Byte) /\ Len(g) = Unit * q + Unit
      /\ \A k \in 1 .. Len(g) : g[k] = At(k)
  BY <1>1, <1>3, Takes
<1>5. q \in Nat /\ Unit \in Nat \ {0} /\ s.msgs \in Seq(1 .. MaxData)
  BY <1>3, ConsumedNat
<1>6. Len(g) = Unit * (q + 1) + 0 /\ Len(g) \div Unit = q + 1
  <2>1. q + 1 \in Nat /\ 0 \in 0 .. Unit - 1 /\ Unit * 1 = Unit /\ Unit * (q + 1) \in Nat
    BY <1>5, Distributes
  <2>2. Unit * (q + 1) = Unit * q + Unit * 1
    BY <1>5, Distributes
  <2>3. Len(g) = Unit * (q + 1) + 0
    BY <1>4, <2>1, <2>2
  <2> QED
    BY <2>1, <2>3, DivMod
<1>7. /\ m \in Seq(1 .. MaxData) /\ Len(s.msgs) \in Nat \ {0} /\ Len(m) = Len(s.msgs) - 1
      /\ \A k \in 1 .. Len(s.msgs) - 1 : m[k] = s.msgs[k + 1]
  BY <1>5, <1>a, TailSeq
<1>8. \A k \in 1 .. Len(m) : m[k] = (q + 1) + k
  <2>1. \A k \in 1 .. Len(s.msgs) : s.msgs[k] = q + k
    BY <1>3 DEF Reads
  <2> QED
    BY <1>5, <1>7, <2>1
<1>9. r \in StreamType /\ r.got = g /\ r.off = 0 /\ r.msgs = m
  <2>1. 0 \in 0 .. Unit - 1
    BY <1>5
  <2> QED
    BY <1>2, <1>4, <1>7, <2>1 DEF StreamType, Byte
<1>10. Consumed(r) = q + 1
  BY <1>6, <1>9 DEF Consumed
<1>11. Reads(r)
  BY <1>4, <1>6, <1>8, <1>9, <1>10 DEF Reads, At
<1>12. Taken(r) = Taken(s)
  <2>1. (q + 1) + Len(m) = q + Len(s.msgs)
    <3>1. q \in Nat /\ Len(s.msgs) \in Nat /\ Len(m) = Len(s.msgs) - 1
      BY <1>5, <1>7
    <3> QED
      BY <3>1, Regroup
  <2> QED
    BY <1>3, <1>9, <1>10, <2>1 DEF Taken
<1> QED
  BY <1>7, <1>9, <1>11, <1>12 DEF r

(* A message that follows the last one is queued. *)
LEMMA DeliverStep ==
  ASSUME NEW s \in StreamType, Reads(s), ~s.err,
         NEW n \in 1 .. MaxData, n = Taken(s) + 1
  PROVE  /\ DeliverData(s, n) \in StreamType /\ Reads(DeliverData(s, n))
         /\ Taken(DeliverData(s, n)) = n
<1> DEFINE r == DeliverData(s, n)
<1>1. /\ r.msgs = Append(s.msgs, n) /\ r.got = s.got /\ r.off = s.off /\ r.err = s.err
      /\ r.closed = s.closed /\ r.left = s.left /\ r.closing = s.closing
      /\ r.sent = s.sent /\ r.closeAt = s.closeAt
      /\ s.msgs \in Seq(1 .. MaxData)
  BY DEF DeliverData, StreamType
<1>a. r \in StreamType
  <2>1. Append(s.msgs, n) \in Seq(1 .. MaxData)
    BY <1>1, AppendSeq
  <2> QED
    BY <2>1 DEF DeliverData, StreamType
<1>2. Consumed(r) = Consumed(s) /\ Consumed(s) \in Nat
  <2>1. Len(s.got) \in Nat
    BY DEF StreamType
  <2> QED
    BY <1>1, <2>1, DivNat DEF Consumed
<1> HIDE DEF r
<1>3. /\ Len(r.msgs) = Len(s.msgs) + 1 /\ Len(s.msgs) \in Nat /\ r.msgs # <<>>
      /\ \A k \in 1 .. Len(s.msgs) : r.msgs[k] = s.msgs[k]
      /\ r.msgs[Len(s.msgs) + 1] = n
  BY <1>1, AppendSeq
<1>4. \A m \in 1 .. Len(r.msgs) : r.msgs[m] = Consumed(r) + m
  <2>1. \A m \in 1 .. Len(s.msgs) : s.msgs[m] = Consumed(s) + m
    BY DEF Reads
  <2>2. n = Consumed(s) + (Len(s.msgs) + 1)
    BY <1>2, <1>3 DEF Taken
  <2> TAKE m \in 1 .. Len(r.msgs)
  <2>3. m \in 1 .. Len(s.msgs) \/ m = Len(s.msgs) + 1
    BY <1>3
  <2> QED
    BY <1>2, <1>3, <2>1, <2>2, <2>3
<1>5. Reads(r)
  BY <1>1, <1>2, <1>3, <1>4 DEF Reads
<1>6. Taken(r) = n
  BY <1>2, <1>3 DEF Taken
<1> QED
  BY <1>a, <1>5, <1>6 DEF r

(* Nothing but the end of the read side differs. *)
SameFields(s, r) ==
    /\ r.msgs = s.msgs /\ r.off = s.off /\ r.got = s.got
    /\ r.closed = s.closed /\ r.left = s.left /\ r.closing = s.closing
    /\ r.sent = s.sent /\ r.closeAt = s.closeAt

(* What a reader depends on are three fields. *)
LEMMA SameReader ==
  ASSUME NEW s, NEW r, r.msgs = s.msgs, r.off = s.off, r.got = s.got
  PROVE  (Reads(s) => Reads(r)) /\ Taken(r) = Taken(s)
  BY DEF Reads, Taken, Consumed

-----------------------------------------------------------------------------
(* The frames of one stream on one wire.                                   *)

(* The reader reads, or its end comes. *)
LEMMA LinkReader ==
  ASSUME NEW w, NEW i, NEW s, NEW t, NEW here, NEW ended, NEW works,
         Link(w, i, s, t, here, ended, works),
         NEW s2, Reads(s2), Taken(s2) = Taken(s), s.err => s2.err,
         NEW ended2, EndKnown(s2, t, ended2)
  PROVE  Link(w, i, s2, t, here, ended2, works)
<1>1. InOrder(w, i, s2, t)
  BY DEF Link, InOrder
<1>2. FindStream(w, i, s2, here)
  BY DEF Link, FindStream
<1>3. CloseInOrder(w, i, s2, t)
  BY DEF Link, CloseInOrder
<1>4. works => AllSent(w, i, s2, t) /\ CloseComes(w, i, t, here)
  BY DEF Link, AllSent
<1> QED
  BY <1>1, <1>2, <1>3, <1>4 DEF Link

(* What the writer does to its own read side does not matter. *)
LEMMA LinkWriter ==
  ASSUME NEW w, NEW i, NEW s, NEW t, NEW here, NEW ended, NEW works,
         Link(w, i, s, t, here, ended, works),
         NEW t2, t2.sent = t.sent, t2.closed = t.closed, t2.closing = t.closing,
         t2.closeAt = t.closeAt
  PROVE  Link(w, i, s, t2, here, ended, works)
<1>1. InOrder(w, i, s, t2)
  BY DEF Link, InOrder
<1>2. CloseInOrder(w, i, s, t2)
  BY DEF Link, CloseInOrder
<1>3. EndKnown(s, t2, ended)
  BY DEF Link, EndKnown
<1>4. works => AllSent(w, i, s, t2) /\ CloseComes(w, i, t2, here)
  BY DEF Link, AllSent, CloseComes
<1> QED
  BY <1>1, <1>2, <1>3, <1>4 DEF Link

(* The writer starts to close. *)
LEMMA LinkCloses ==
  ASSUME NEW w, NEW i, NEW s, NEW t, NEW here, NEW ended, NEW works,
         Link(w, i, s, t, here, ended, works), ~t.closed,
         NEW t2, t2.sent = t.sent, t2.closed, t2.closing
  PROVE  Link(w, i, s, t2, here, ended, works)
<1>1. InOrder(w, i, s, t2)
  BY DEF Link, InOrder
<1>2. CloseInOrder(w, i, s, t2)
  BY DEF Link, CloseInOrder
<1>3. EndKnown(s, t2, ended)
  BY DEF Link, EndKnown
<1>4. works => AllSent(w, i, s, t2) /\ CloseComes(w, i, t2, here)
  BY DEF Link, AllSent, CloseComes
<1> QED
  BY <1>1, <1>2, <1>3, <1>4 DEF Link

IsAppend(w, f, v) ==
    /\ Len(w) \in Nat /\ Len(v) = Len(w) + 1
    /\ \A k \in 1 .. Len(w) : v[k] = w[k]
    /\ v[Len(w) + 1] = f

(* A frame of another stream is sent. *)
LEMMA LinkAppendOther ==
  ASSUME NEW w, NEW i, NEW s, NEW t, NEW here, NEW ended, NEW works,
         Link(w, i, s, t, here, ended, works),
         NEW f, NEW v, IsAppend(w, f, v), f.id # i
  PROVE  Link(v, i, s, t, here, ended, works)
<1>1. \A k \in 1 .. Len(v), y \in {"open", "data", "close"} : Is(v[k], y, i) =>
        k \in 1 .. Len(w) /\ v[k] = w[k]
  BY DEF IsAppend, Is
<1>2. \A k \in 1 .. Len(w) : k \in 1 .. Len(v) /\ v[k] = w[k]
  BY DEF IsAppend
<1>3. InOrder(v, i, s, t)
  BY <1>1, <1>2 DEF Link, InOrder
<1>4. FindStream(v, i, s, here)
  BY <1>1, <1>2 DEF Link, FindStream
<1>5. CloseInOrder(v, i, s, t)
  BY <1>1, <1>2 DEF Link, CloseInOrder
<1>6. works => AllSent(v, i, s, t) /\ CloseComes(v, i, t, here)
  BY <1>1, <1>2 DEF Link, AllSent, CloseComes, HasOpen, HasClose
<1> QED
  BY <1>3, <1>4, <1>5, <1>6 DEF Link

(* STREAM_OPEN is sent. *)
LEMMA LinkAppendOpen ==
  ASSUME NEW w, NEW i, NEW s, NEW t, NEW here, NEW ended, NEW works,
         Link(w, i, s, t, here, ended, works), ~t.closed,
         NEW f, NEW v, IsAppend(w, f, v), f.type = "open"
  PROVE  Link(v, i, s, t, here, ended, works)
<1>1. \A k \in 1 .. Len(v), y \in {"data", "close"} : Is(v[k], y, i) =>
        k \in 1 .. Len(w) /\ v[k] = w[k]
  BY DEF IsAppend, Is
<1>2. \A k \in 1 .. Len(w) : k \in 1 .. Len(v) /\ v[k] = w[k]
  BY DEF IsAppend
<1>3. InOrder(v, i, s, t)
  BY <1>1, <1>2 DEF Link, InOrder
<1>4. FindStream(v, i, s, here)
  BY <1>1, <1>2 DEF Link, FindStream
<1>5. CloseInOrder(v, i, s, t)
  BY <1>1, <1>2 DEF Link, CloseInOrder
<1>6. works => AllSent(v, i, s, t) /\ CloseComes(v, i, t, here)
  BY <1>1, <1>2 DEF Link, AllSent, CloseComes
<1> QED
  BY <1>3, <1>4, <1>5, <1>6 DEF Link

(* The next DATA frame is sent, to a stream that can be found. *)
LEMMA LinkAppendData ==
  ASSUME NEW w, NEW i, NEW s \in StreamType, NEW t \in StreamType,
         NEW here, NEW ended,
         Link(w, i, s, t, here, ended, TRUE),
         NEW f, NEW v, IsAppend(w, f, v), f.type = "data", f.id = i, f.n = t.sent + 1,
         s.err \/ here \/ HasOpen(w, i),
         NEW t2, t2.sent = t.sent + 1, t2.closed = t.closed, t2.closing = t.closing,
         t2.closeAt = t.closeAt
  PROVE  Link(v, i, s, t2, here, ended, TRUE)
<1>1. \A k \in 1 .. Len(v), y \in {"open", "close"} : Is(v[k], y, i) =>
        k \in 1 .. Len(w) /\ v[k] = w[k]
  BY DEF IsAppend, Is
<1>2. /\ \A k \in 1 .. Len(w) : k \in 1 .. Len(v) /\ v[k] = w[k]
      /\ Len(v) \in 1 .. Len(v) /\ Is(v[Len(v)], "data", i) /\ v[Len(v)].n = t2.sent
      /\ \A k \in 1 .. Len(v) : k \in 1 .. Len(w) \/ (k = Len(v) /\ k = Len(w) + 1)
      /\ Len(w) \in Nat /\ Len(v) = Len(w) + 1
  BY DEF IsAppend, Is
<1>3. t.sent \in Nat /\ Taken(s) \in Nat
  BY ConsumedNat, MuxAssumption DEF StreamType
<1>4. InOrder(v, i, s, t2)
  <2>1. \A k \in 1 .. Len(v) : Is(v[k], "data", i) => v[k].n \in 1 .. t2.sent
    BY <1>2, <1>3 DEF Link, InOrder
  <2>2. \A j, k \in 1 .. Len(v) :
          j < k /\ Is(v[j], "data", i) /\ Is(v[k], "data", i) => v[j].n < v[k].n
    <3> SUFFICES ASSUME NEW j \in 1 .. Len(v), NEW k \in 1 .. Len(v), j < k,
                        Is(v[j], "data", i), Is(v[k], "data", i)
                 PROVE  v[j].n < v[k].n
      OBVIOUS
    <3>1. j \in 1 .. Len(w) /\ v[j] = w[j]
      BY <1>2
    <3>2. w[j].n \in 1 .. t.sent
      BY <3>1 DEF Link, InOrder
    <3>3. CASE k \in 1 .. Len(w)
      BY <1>2, <3>1, <3>3 DEF Link, InOrder
    <3>4. CASE k = Len(v)
      BY <1>2, <1>3, <3>1, <3>2, <3>4
    <3> QED
      BY <1>2, <3>3, <3>4
  <2>3. ASSUME ~s.err, NEW k \in 1 .. Len(v), Is(v[k], "data", i)
        PROVE  \/ v[k].n = Taken(s) + 1
               \/ \E j \in 1 .. k - 1 : Is(v[j], "data", i) /\ v[k].n = v[j].n + 1
    <3>1. CASE k \in 1 .. Len(w)
      <4>1. \/ w[k].n = Taken(s) + 1
            \/ \E j \in 1 .. k - 1 : Is(w[j], "data", i) /\ w[k].n = w[j].n + 1
        BY <1>2, <2>3, <3>1 DEF Link, InOrder
      <4>2. \A j \in 1 .. k - 1 : v[j] = w[j]
        BY <1>2, <3>1
      <4> QED
        BY <1>2, <3>1, <4>1, <4>2
    <3>2. CASE k = Len(v)
      <4>1. v[k].n = t.sent + 1
        BY <1>2, <3>2
      <4>2. Taken(s) = t.sent \/ \E j \in 1 .. Len(w) : Is(w[j], "data", i) /\ w[j].n = t.sent
        BY <2>3 DEF Link, AllSent
      <4>3. \A j \in 1 .. Len(w) : j \in 1 .. k - 1
        <5>1. k - 1 = Len(w)
          BY <1>2, <3>2
        <5> QED
          BY <5>1
      <4> QED
        BY <1>2, <4>1, <4>2, <4>3
    <3> QED
      BY <1>2, <3>1, <3>2
  <2>4. Taken(s) <= t2.sent
    BY <1>3 DEF Link, InOrder
  <2> QED
    BY <2>1, <2>2, <2>3, <2>4 DEF InOrder
<1>5. FindStream(v, i, s, here)
  <2> SUFFICES ASSUME NEW k \in 1 .. Len(v), Is(v[k], "data", i), ~s.err, ~here
               PROVE  \E j \in 1 .. k - 1 : Is(v[j], "open", i)
    BY DEF FindStream
  <2>1. CASE k \in 1 .. Len(w)
    BY <1>2, <2>1 DEF Link, FindStream
  <2>2. CASE k = Len(v)
    <3>1. \A j \in 1 .. Len(w) : j \in 1 .. k - 1
      <4>1. k - 1 = Len(w)
        BY <1>2, <2>2
      <4> QED
        BY <4>1
    <3> QED
      BY <1>2, <3>1 DEF HasOpen
  <2> QED
    BY <1>2, <2>1, <2>2
<1>6. CloseInOrder(v, i, s, t2)
  <2> SUFFICES ASSUME NEW k \in 1 .. Len(v), Is(v[k], "close", i)
               PROVE  /\ t2.closed /\ ~t2.closing
                      /\ \A j \in 1 .. k - 1 : Is(v[j], "data", i) => v[j].n <= t2.closeAt
                      /\ \/ s.err \/ Taken(s) = t2.closeAt
                         \/ \E j \in 1 .. k - 1 : Is(v[j], "data", i) /\ v[j].n = t2.closeAt
    BY DEF CloseInOrder
  <2>1. k \in 1 .. Len(w) /\ v[k] = w[k] /\ \A j \in 1 .. k - 1 : v[j] = w[j]
    BY <1>1, <1>2
  <2> QED
    BY <2>1 DEF Link, CloseInOrder
<1>7. EndKnown(s, t2, ended)
  BY DEF Link, EndKnown
<1>8. AllSent(v, i, s, t2)
  BY <1>2 DEF AllSent
<1>9. CloseComes(v, i, t2, here)
  BY <1>1, <1>2 DEF Link, CloseComes, HasOpen, HasClose
<1> QED
  BY <1>4, <1>5, <1>6, <1>7, <1>8, <1>9 DEF Link

(* STREAM_CLOSE is sent. *)
LEMMA LinkAppendClose ==
  ASSUME NEW w, NEW i, NEW s \in StreamType, NEW t \in StreamType,
         NEW here, NEW ended,
         Link(w, i, s, t, here, ended, TRUE), t.closed, t.closing,
         NEW f, NEW v, IsAppend(w, f, v), f.type = "close", f.id = i,
         NEW t2, t2.sent = t.sent, t2.closed, ~t2.closing, t2.closeAt = t.sent
  PROVE  Link(v, i, s, t2, here, ended, TRUE)
<1>1. \A k \in 1 .. Len(v), y \in {"open", "data"} : Is(v[k], y, i) =>
        k \in 1 .. Len(w) /\ v[k] = w[k]
  BY DEF IsAppend, Is
<1>2. /\ \A k \in 1 .. Len(w) : k \in 1 .. Len(v) /\ v[k] = w[k]
      /\ Len(v) \in 1 .. Len(v) /\ Is(v[Len(v)], "close", i)
      /\ \A k \in 1 .. Len(v) : k \in 1 .. Len(w) \/ (k = Len(v) /\ k = Len(w) + 1)
      /\ Len(w) \in Nat /\ Len(v) = Len(w) + 1
  BY DEF IsAppend, Is
<1>3. InOrder(v, i, s, t2)
  <2>1. InOrder(w, i, s, t)
    BY DEF Link
  <2>2. /\ \A k \in 1 .. Len(v) : Is(v[k], "data", i) => v[k].n \in 1 .. t2.sent
        /\ Taken(s) <= t2.sent
    BY <1>1, <2>1 DEF InOrder
  <2>3. \A j, k \in 1 .. Len(v) :
          j < k /\ Is(v[j], "data", i) /\ Is(v[k], "data", i) => v[j].n < v[k].n
    BY <1>1, <2>1 DEF InOrder
  <2>4. ASSUME ~s.err, NEW k \in 1 .. Len(v), Is(v[k], "data", i)
        PROVE  \/ v[k].n = Taken(s) + 1
               \/ \E j \in 1 .. k - 1 : Is(v[j], "data", i) /\ v[k].n = v[j].n + 1
    <3>1. k \in 1 .. Len(w) /\ v[k] = w[k] /\ Is(w[k], "data", i)
      BY <1>1, <2>4
    <3>2. \/ w[k].n = Taken(s) + 1
          \/ \E j \in 1 .. k - 1 : Is(w[j], "data", i) /\ w[k].n = w[j].n + 1
      BY <2>1, <2>4, <3>1 DEF InOrder
    <3>3. \A j \in 1 .. k - 1 : v[j] = w[j]
      BY <1>2, <3>1
    <3> QED
      BY <3>1, <3>2, <3>3
  <2> QED
    BY <2>2, <2>3, <2>4 DEF InOrder
<1>4. FindStream(v, i, s, here)
  BY <1>1, <1>2 DEF Link, FindStream
<1>5. CloseInOrder(v, i, s, t2)
  <2>1. ASSUME NEW k \in 1 .. Len(v), Is(v[k], "close", i) PROVE k - 1 = Len(w)
    <3>1. ~ k \in 1 .. Len(w)
      BY <1>2, <2>1 DEF Link, CloseInOrder
    <3> QED
      BY <1>2, <3>1
  <2>2. \A j \in 1 .. Len(w) : Is(v[j], "data", i) => v[j].n <= t.sent
    BY <1>2 DEF Link, InOrder
  <2>3. \/ s.err \/ Taken(s) = t.sent
        \/ \E j \in 1 .. Len(w) : Is(v[j], "data", i) /\ v[j].n = t.sent
    BY <1>2 DEF Link, AllSent
  <2> QED
    BY <2>1, <2>2, <2>3 DEF CloseInOrder
<1>6. EndKnown(s, t2, ended)
  BY DEF Link, EndKnown
<1>7. AllSent(v, i, s, t2) /\ CloseComes(v, i, t2, here)
  BY <1>2 DEF Link, AllSent, CloseComes, HasClose
<1> QED
  BY <1>3, <1>4, <1>5, <1>6, <1>7 DEF Link

(* What is sent on a transport that has failed is lost. *)
LEMMA LinkSentInVain ==
  ASSUME NEW w, NEW i, NEW s \in StreamType, NEW t \in StreamType,
         NEW here, NEW ended, NEW works, ~works,
         Link(w, i, s, t, here, ended, works),
         NEW t2 \in StreamType, t2.sent >= t.sent, t2.closed = t.closed,
         \/ t2.closing = t.closing /\ t2.closeAt = t.closeAt
         \/ t.closing
  PROVE  Link(w, i, s, t2, here, ended, works)
<1>1. InOrder(w, i, s, t2)
  <2>1. t.sent \in Nat /\ t2.sent \in Nat
    BY MuxAssumption DEF StreamType
  <2>2. Taken(s) \in Nat
    BY ConsumedNat
  <2> QED
    BY <2>1, <2>2 DEF Link, InOrder
<1>2. CloseInOrder(w, i, s, t2)
  BY DEF Link, CloseInOrder
<1>3. EndKnown(s, t2, ended)
  BY DEF Link, EndKnown
<1> QED
  BY <1>1, <1>2, <1>3 DEF Link

(* The end of what is on the way is lost. *)
LEMMA LinkPrefix ==
  ASSUME NEW w, NEW i, NEW s, NEW t, NEW here, NEW ended, NEW works,
         Link(w, i, s, t, here, ended, works), Len(w) \in Nat,
         NEW v, Len(v) \in 0 .. Len(w), \A k \in 1 .. Len(v) : v[k] = w[k]
  PROVE  Link(v, i, s, t, here, ended, FALSE)
<1>1. \A k \in 1 .. Len(v) : k \in 1 .. Len(w) /\ v[k] = w[k]
  OBVIOUS
<1>2. \A k \in 1 .. Len(v) : \A j \in 1 .. k - 1 : v[j] = w[j]
  BY <1>1
<1>3. InOrder(v, i, s, t)
  BY <1>1, <1>2 DEF Link, InOrder
<1>4. FindStream(v, i, s, here)
  BY <1>1, <1>2 DEF Link, FindStream
<1>5. CloseInOrder(v, i, s, t)
  BY <1>1, <1>2 DEF Link, CloseInOrder
<1> QED
  BY <1>3, <1>4, <1>5 DEF Link

IsTail(w, v) ==
    /\ Len(w) \in Nat \ {0} /\ Len(v) = Len(w) - 1
    /\ \A k \in 1 .. Len(v) : v[k] = w[k + 1]

(* The first frame of the wire w has been taken. *)
LEMMA TailIndex ==
  ASSUME NEW w, NEW v, IsTail(w, v)
  PROVE  /\ \A k \in 1 .. Len(v) : k + 1 \in 2 .. Len(w) /\ v[k] = w[k + 1]
         /\ \A k \in 2 .. Len(w) : k - 1 \in 1 .. Len(v) /\ v[k - 1] = w[k]
         /\ \A k \in 1 .. Len(v) : \A j \in 1 .. k - 1 : j + 1 \in 1 .. (k + 1) - 1
         /\ \A k \in 1 .. Len(v) : \A j \in 2 .. (k + 1) - 1 : j - 1 \in 1 .. k - 1
         /\ 1 \in 1 .. Len(w) /\ \A k \in 1 .. Len(w) : k = 1 \/ k \in 2 .. Len(w)
  BY DEF IsTail

(* Its first frame is of another stream, or STREAM_OPEN. *)
LEMMA LinkTailOther ==
  ASSUME NEW w, NEW i, NEW s, NEW t, NEW here \in BOOLEAN, NEW ended, NEW works,
         Link(w, i, s, t, here, ended, works),
         NEW v, IsTail(w, v), ~Is(w[1], "data", i), ~Is(w[1], "close", i),
         NEW here2 \in BOOLEAN, here2 <=> here \/ Is(w[1], "open", i)
  PROVE  Link(v, i, s, t, here2, ended, works)
<1>1. \A k \in 1 .. Len(v) : k + 1 \in 1 .. Len(w) /\ k + 1 # 1 /\ v[k] = w[k + 1]
  BY DEF IsTail
<1>2. \A k \in 1 .. Len(w) : k = 1 \/ (k - 1 \in 1 .. Len(v) /\ v[k - 1] = w[k])
  BY DEF IsTail
<1>3. \A k \in 1 .. Len(v) : \A j \in 1 .. (k + 1) - 1 : j = 1 \/ j - 1 \in 1 .. k - 1
  OBVIOUS
<1>4. InOrder(v, i, s, t)
  <2>1. \A k \in 1 .. Len(v) : Is(v[k], "data", i) => v[k].n \in 1 .. t.sent
    BY <1>1 DEF Link, InOrder
  <2>2. \A j, k \in 1 .. Len(v) :
          j < k /\ Is(v[j], "data", i) /\ Is(v[k], "data", i) => v[j].n < v[k].n
    <3>1. \A j, k \in 1 .. Len(v) : j < k => j + 1 < k + 1
      OBVIOUS
    <3> QED
      BY <1>1, <3>1 DEF Link, InOrder
  <2>3. ASSUME ~s.err, NEW k \in 1 .. Len(v), Is(v[k], "data", i)
        PROVE  \/ v[k].n = Taken(s) + 1
               \/ \E j \in 1 .. k - 1 : Is(v[j], "data", i) /\ v[k].n = v[j].n + 1
    <3>1. \/ w[k + 1].n = Taken(s) + 1
          \/ \E j \in 1 .. (k + 1) - 1 : Is(w[j], "data", i) /\ w[k + 1].n = w[j].n + 1
      BY <1>1, <2>3 DEF Link, InOrder
    <3>2. \A j \in 1 .. (k + 1) - 1 : Is(w[j], "data", i) =>
            j - 1 \in 1 .. k - 1 /\ v[j - 1] = w[j]
      <4> TAKE j \in 1 .. (k + 1) - 1
      <4>1. j = 1 \/ j - 1 \in 1 .. k - 1
        BY <1>3
      <4>2. j \in 1 .. Len(w)
        BY <1>1
      <4> QED
        BY <1>2, <4>1, <4>2
    <3> QED
      BY <1>1, <3>1, <3>2
  <2>4. Taken(s) <= t.sent
    BY DEF Link, InOrder
  <2> QED
    BY <2>1, <2>2, <2>3, <2>4 DEF InOrder
<1>5. FindStream(v, i, s, here2)
  <2> SUFFICES ASSUME NEW k \in 1 .. Len(v), Is(v[k], "data", i), ~s.err, ~here2
               PROVE  \E j \in 1 .. k - 1 : Is(v[j], "open", i)
    BY DEF FindStream
  <2>1. PICK j \in 1 .. (k + 1) - 1 : Is(w[j], "open", i)
    BY <1>1 DEF Link, FindStream
  <2>2. j # 1 /\ j \in 1 .. Len(w)
    BY <1>1, <2>1
  <2>3. j - 1 \in 1 .. k - 1 /\ Is(v[j - 1], "open", i)
    BY <1>2, <1>3, <2>1, <2>2
  <2> QED
    BY <2>3
<1>6. CloseInOrder(v, i, s, t)
  <2> SUFFICES ASSUME NEW k \in 1 .. Len(v), Is(v[k], "close", i)
               PROVE  /\ t.closed /\ ~t.closing
                      /\ \A j \in 1 .. k - 1 : Is(v[j], "data", i) => v[j].n <= t.closeAt
                      /\ \/ s.err \/ Taken(s) = t.closeAt
                         \/ \E j \in 1 .. k - 1 : Is(v[j], "data", i) /\ v[j].n = t.closeAt
    BY DEF CloseInOrder
  <2>1. /\ t.closed /\ ~t.closing
        /\ \A j \in 1 .. (k + 1) - 1 : Is(w[j], "data", i) => w[j].n <= t.closeAt
        /\ \/ s.err \/ Taken(s) = t.closeAt
           \/ \E j \in 1 .. (k + 1) - 1 : Is(w[j], "data", i) /\ w[j].n = t.closeAt
    BY <1>1 DEF Link, CloseInOrder
  <2>2. \A j \in 1 .. k - 1 : j + 1 \in 1 .. (k + 1) - 1 /\ v[j] = w[j + 1]
    BY <1>1
  <2>3. \A j \in 1 .. (k + 1) - 1 : Is(w[j], "data", i) =>
          j - 1 \in 1 .. k - 1 /\ v[j - 1] = w[j]
    <3> TAKE j \in 1 .. (k + 1) - 1
    <3>1. j = 1 \/ j - 1 \in 1 .. k - 1
      BY <1>3
    <3>2. j \in 1 .. Len(w)
      BY <1>1
    <3> QED
      BY <1>2, <3>1, <3>2
  <2>4. \A j \in 1 .. k - 1 : Is(v[j], "data", i) => v[j].n <= t.closeAt
    BY <2>1, <2>2
  <2>5. CASE \E j \in 1 .. (k + 1) - 1 : Is(w[j], "data", i) /\ w[j].n = t.closeAt
    <3>1. PICK j \in 1 .. (k + 1) - 1 : Is(w[j], "data", i) /\ w[j].n = t.closeAt
      BY <2>5
    <3>2. j - 1 \in 1 .. k - 1 /\ v[j - 1] = w[j]
      BY <2>3, <3>1
    <3> QED
      BY <2>1, <2>4, <3>1, <3>2
  <2> QED
    BY <2>1, <2>4, <2>5
<1>7. works => AllSent(v, i, s, t)
  <2>1. \A k \in 1 .. Len(w) : Is(w[k], "data", i) => k - 1 \in 1 .. Len(v) /\ v[k - 1] = w[k]
    BY <1>2
  <2> QED
    BY <2>1 DEF Link, AllSent
<1>8. works => CloseComes(v, i, t, here2)
  <2>1. here2 \/ HasOpen(v, i) => here \/ HasOpen(w, i)
    <3>1. 1 \in 1 .. Len(w)
      BY DEF IsTail
    <3> QED
      BY <1>1, <3>1 DEF HasOpen
  <2>2. HasClose(w, i) => HasClose(v, i)
    BY <1>2 DEF HasClose
  <2> QED
    BY <2>1, <2>2 DEF Link, CloseComes
<1> QED
  BY <1>4, <1>5, <1>6, <1>7, <1>8 DEF Link

(* A DATA frame comes to a stream whose read side has ended. *)
LEMMA LinkTailDropped ==
  ASSUME NEW w, NEW i, NEW s, NEW t, NEW here \in BOOLEAN, NEW ended, NEW works,
         Link(w, i, s, t, here, ended, works), s.err,
         NEW v, IsTail(w, v), Is(w[1], "data", i)
  PROVE  Link(v, i, s, t, here, ended, works)
<1>1. \A k \in 1 .. Len(v) : k + 1 \in 1 .. Len(w) /\ v[k] = w[k + 1]
  BY DEF IsTail
<1>2. InOrder(v, i, s, t)
  <2>1. \A j, k \in 1 .. Len(v) : j < k => j + 1 < k + 1
    OBVIOUS
  <2> QED
    BY <1>1, <2>1 DEF Link, InOrder
<1>3. FindStream(v, i, s, here)
  BY DEF FindStream
<1>4. CloseInOrder(v, i, s, t)
  <2>1. \A k \in 1 .. Len(v) : \A j \in 1 .. k - 1 : j + 1 \in 1 .. (k + 1) - 1 /\ v[j] = w[j + 1]
    BY <1>1
  <2> QED
    BY <1>1, <2>1 DEF Link, CloseInOrder
<1>5. works => CloseComes(v, i, t, here)
  <2>1. HasOpen(v, i) => HasOpen(w, i)
    BY <1>1 DEF HasOpen
  <2>2. HasClose(w, i) => HasClose(v, i)
    <3>1. \A k \in 1 .. Len(w) : Is(w[k], "close", i) => k - 1 \in 1 .. Len(v) /\ v[k - 1] = w[k]
      <4> TAKE k \in 1 .. Len(w)
      <4>1. CASE k = 1
        BY <4>1 DEF Is
      <4>2. CASE k # 1
        BY <4>2 DEF IsTail
      <4> QED
        BY <4>1, <4>2
    <3> QED
      BY <3>1 DEF HasClose
  <2> QED
    BY <2>1, <2>2 DEF Link, CloseComes
<1> QED
  BY <1>2, <1>3, <1>4, <1>5 DEF Link, AllSent

(* A DATA frame comes to a stream that takes it. *)
LEMMA LinkTailData ==
  ASSUME NEW w, NEW i, NEW s \in StreamType, NEW t \in StreamType,
         NEW here \in BOOLEAN, NEW ended, NEW works,
         Link(w, i, s, t, here, ended, works), ~s.err,
         NEW v, IsTail(w, v), Is(w[1], "data", i), w[1].n \in 1 .. MaxData
  PROVE  /\ here /\ DeliverData(s, w[1].n) \in StreamType
         /\ Link(v, i, DeliverData(s, w[1].n), t, here, ended, works)
<1> DEFINE n == w[1].n
           r == DeliverData(s, n)
<1>1. \A k \in 1 .. Len(v) : k + 1 \in 1 .. Len(w) /\ k + 1 # 1 /\ v[k] = w[k + 1]
  BY DEF IsTail
<1>2. \A k \in 1 .. Len(w) : k = 1 \/ (k - 1 \in 1 .. Len(v) /\ v[k - 1] = w[k])
  BY DEF IsTail
<1>3. \A k \in 1 .. Len(v) : \A j \in 1 .. (k + 1) - 1 : j = 1 \/ j - 1 \in 1 .. k - 1
  OBVIOUS
<1>4. 1 \in 1 .. Len(w) /\ \A j \in 1 .. 1 - 1 : FALSE
  BY DEF IsTail
<1>5. here
  BY <1>4 DEF Link, FindStream
<1>6. n = Taken(s) + 1 /\ n \in 1 .. t.sent
  BY <1>4 DEF Link, InOrder
<1>7. r \in StreamType /\ Reads(r) /\ Taken(r) = n /\ r.err = s.err /\ r.closed = s.closed
  <2>1. r \in StreamType /\ Reads(r) /\ Taken(r) = n
    BY <1>6, DeliverStep DEF Link
  <2> QED
    BY <2>1 DEF DeliverData, StreamType
<1>8. n \in Nat /\ t.sent \in Nat /\ n <= t.sent
  BY <1>6, MuxAssumption DEF StreamType
<1>a. \A k \in 2 .. Len(w) : Is(w[k], "data", i) => w[k].n > n
  <2> TAKE k \in 2 .. Len(w)
  <2>1. k \in 1 .. Len(w) /\ 1 < k
    BY DEF IsTail
  <2>2. \A a, b \in 1 .. Len(w) :
          a < b /\ Is(w[a], "data", i) /\ Is(w[b], "data", i) => w[a].n < w[b].n
    BY DEF Link, InOrder
  <2>3. Is(w[k], "data", i) => w[1].n < w[k].n /\ w[k].n \in 1 .. t.sent
    BY <1>4, <2>1, <2>2 DEF Link, InOrder
  <2> QED
    BY <1>8, <2>3
<1> HIDE DEF r, n
<1>9. InOrder(v, i, r, t)
  <2>1. \A k \in 1 .. Len(v) : Is(v[k], "data", i) => v[k].n \in 1 .. t.sent
    BY <1>1 DEF Link, InOrder
  <2>2. \A j, k \in 1 .. Len(v) :
          j < k /\ Is(v[j], "data", i) /\ Is(v[k], "data", i) => v[j].n < v[k].n
    <3>1. \A j, k \in 1 .. Len(v) : j < k => j + 1 < k + 1
      OBVIOUS
    <3> QED
      BY <1>1, <3>1 DEF Link, InOrder
  <2>3. ASSUME NEW k \in 1 .. Len(v), Is(v[k], "data", i)
        PROVE  \/ v[k].n = n + 1
               \/ \E j \in 1 .. k - 1 : Is(v[j], "data", i) /\ v[k].n = v[j].n + 1
    <3>1. \/ w[k + 1].n = n
          \/ \E j \in 1 .. (k + 1) - 1 : Is(w[j], "data", i) /\ w[k + 1].n = w[j].n + 1
      BY <1>1, <1>6, <2>3 DEF Link, InOrder
    <3>2. w[k + 1].n > n
      <4>1. k + 1 \in 2 .. Len(w)
        BY <1>1
      <4> QED
        BY <1>1, <1>a, <2>3, <4>1
    <3>3. w[k + 1].n # n
      BY <1>8, <3>2
    <3>4. PICK j \in 1 .. (k + 1) - 1 : Is(w[j], "data", i) /\ w[k + 1].n = w[j].n + 1
      BY <3>1, <3>3
    <3>5. CASE j = 1
      BY <1>1, <3>4, <3>5 DEF n
    <3>6. CASE j # 1
      <4>1. j - 1 \in 1 .. k - 1 /\ j \in 1 .. Len(w)
        BY <1>1, <1>3, <3>6
      <4>2. v[j - 1] = w[j]
        BY <1>2, <3>6, <4>1
      <4> QED
        BY <1>1, <3>4, <4>1, <4>2
    <3> QED
      BY <3>5, <3>6
  <2> QED
    BY <1>7, <1>8, <2>1, <2>2, <2>3 DEF InOrder
<1>10. FindStream(v, i, r, here)
  BY <1>5 DEF FindStream
<1>11. CloseInOrder(v, i, r, t)
  <2> SUFFICES ASSUME NEW k \in 1 .. Len(v), Is(v[k], "close", i)
               PROVE  /\ t.closed /\ ~t.closing
                      /\ \A j \in 1 .. k - 1 : Is(v[j], "data", i) => v[j].n <= t.closeAt
                      /\ \/ r.err \/ Taken(r) = t.closeAt
                         \/ \E j \in 1 .. k - 1 : Is(v[j], "data", i) /\ v[j].n = t.closeAt
    BY DEF CloseInOrder
  <2>1. /\ t.closed /\ ~t.closing
        /\ \A j \in 1 .. (k + 1) - 1 : Is(w[j], "data", i) => w[j].n <= t.closeAt
        /\ \/ Taken(s) = t.closeAt
           \/ \E j \in 1 .. (k + 1) - 1 : Is(w[j], "data", i) /\ w[j].n = t.closeAt
    BY <1>1 DEF Link, CloseInOrder
  <2>2. \A j \in 1 .. k - 1 : j + 1 \in 1 .. (k + 1) - 1 /\ v[j] = w[j + 1]
    <3> TAKE j \in 1 .. k - 1
    <3>1. j + 1 \in 1 .. (k + 1) - 1 /\ j \in 1 .. Len(v)
      BY <1>1
    <3> QED
      BY <1>1, <3>1
  <2>3. Taken(s) # t.closeAt
    <3>1. 1 \in 1 .. (k + 1) - 1
      OBVIOUS
    <3>2. n <= t.closeAt
      BY <2>1, <3>1 DEF n
    <3>3. Taken(s) \in Nat
      BY ConsumedNat
    <3> QED
      BY <1>6, <3>2, <3>3
  <2>4. PICK j \in 1 .. (k + 1) - 1 : Is(w[j], "data", i) /\ w[j].n = t.closeAt
    BY <2>1, <2>3
  <2>5. CASE j = 1
    BY <1>7, <2>1, <2>2, <2>4, <2>5 DEF n
  <2>6. CASE j # 1
    <3>1. j - 1 \in 1 .. k - 1 /\ j \in 1 .. Len(w)
      BY <1>1, <1>3, <2>6
    <3>2. v[j - 1] = w[j]
      BY <1>2, <2>6, <3>1
    <3> QED
      BY <2>1, <2>2, <2>4, <3>1, <3>2
  <2> QED
    BY <2>5, <2>6
<1>12. EndKnown(r, t, ended)
  BY <1>7 DEF EndKnown
<1>13. works => AllSent(v, i, r, t)
  <2> SUFFICES ASSUME works PROVE AllSent(v, i, r, t)
    OBVIOUS
  <2>1. Taken(s) # t.sent
    <3>1. Taken(s) \in Nat
      BY ConsumedNat
    <3> QED
      BY <1>6, <1>8, <3>1
  <2>2. PICK k \in 1 .. Len(w) : Is(w[k], "data", i) /\ w[k].n = t.sent
    BY <2>1 DEF Link, AllSent
  <2>3. CASE k = 1
    BY <1>7, <2>2, <2>3 DEF AllSent, n
  <2>4. CASE k # 1
    BY <1>2, <2>2, <2>4 DEF AllSent
  <2> QED
    BY <2>3, <2>4
<1>14. works => CloseComes(v, i, t, here)
  <2>1. HasClose(w, i) => HasClose(v, i)
    <3>1. \A k \in 1 .. Len(w) : Is(w[k], "close", i) => k # 1
      BY DEF Is
    <3> QED
      BY <1>2, <3>1 DEF HasClose
  <2> QED
    BY <1>5, <2>1 DEF Link, CloseComes
<1> QED
  BY <1>5, <1>7, <1>9, <1>10, <1>11, <1>12, <1>13, <1>14 DEF Link, r, n

(* STREAM_CLOSE comes. *)
LEMMA LinkTailClose ==
  ASSUME NEW w, NEW i, NEW s, NEW t, NEW here \in BOOLEAN, NEW ended, NEW works,
         Link(w, i, s, t, here, ended, works),
         NEW v, IsTail(w, v), Is(w[1], "close", i), ~HasOpen(v, i),
         NEW r, SameFields(s, r),
         IF here THEN r.err ELSE r = s
  PROVE  /\ t.closed
         /\ Link(v, i, r, t, FALSE, ended, works)
<1>1. \A k \in 1 .. Len(v) : k + 1 \in 1 .. Len(w) /\ k + 1 # 1 /\ v[k] = w[k + 1]
  BY DEF IsTail
<1>2. Reads(r) /\ Taken(r) = Taken(s) /\ r.closed = s.closed /\ (s.err => r.err)
  BY SameReader DEF Link, SameFields
<1>3. 1 \in 1 .. Len(w) /\ \A j \in 1 .. 1 - 1 : FALSE
  BY DEF IsTail
<1>4. t.closed /\ ~t.closing /\ (s.err \/ Taken(s) = t.closeAt)
  BY <1>3 DEF Link, CloseInOrder
<1>5. ~here => s.err \/ \A k \in 1 .. Len(v) : ~Is(v[k], "data", i)
  <2> SUFFICES ASSUME ~here, ~s.err, NEW k \in 1 .. Len(v), Is(v[k], "data", i) PROVE FALSE
    OBVIOUS
  <2>1. PICK j \in 1 .. (k + 1) - 1 : Is(w[j], "open", i)
    BY <1>1 DEF Link, FindStream
  <2>2. CASE j = 1
    BY <2>1, <2>2 DEF Is
  <2>3. CASE j # 1
    <3>1. j - 1 \in 1 .. Len(v) /\ v[j - 1] = w[j]
      <4>1. j \in 1 .. Len(w) /\ j - 1 \in 1 .. Len(v)
        BY <1>1, <2>3
      <4>2. (j - 1) + 1 = j
        OBVIOUS
      <4> QED
        BY <1>1, <4>1, <4>2
    <3> QED
      BY <2>1, <3>1 DEF HasOpen
  <2> QED
    BY <2>2, <2>3
<1>6. InOrder(v, i, r, t)
  <2>1. \A k \in 1 .. Len(v) : Is(v[k], "data", i) => v[k].n \in 1 .. t.sent
    BY <1>1 DEF Link, InOrder
  <2>2. \A j, k \in 1 .. Len(v) :
          j < k /\ Is(v[j], "data", i) /\ Is(v[k], "data", i) => v[j].n < v[k].n
    <3>1. \A j, k \in 1 .. Len(v) : j < k => j + 1 < k + 1
      OBVIOUS
    <3> QED
      BY <1>1, <3>1 DEF Link, InOrder
  <2>3. Taken(r) <= t.sent
    BY <1>2 DEF Link, InOrder
  <2> QED
    BY <1>2, <1>5, <2>1, <2>2, <2>3 DEF InOrder
<1>7. FindStream(v, i, r, FALSE)
  BY <1>2, <1>5 DEF FindStream
<1>8. CloseInOrder(v, i, r, t)
  <2>1. \A k \in 1 .. Len(v) : \A j \in 1 .. k - 1 : j + 1 \in 1 .. (k + 1) - 1 /\ v[j] = w[j + 1]
    BY <1>1
  <2>2. \A k \in 1 .. Len(v) : Is(v[k], "close", i) =>
          \A j \in 1 .. k - 1 : Is(v[j], "data", i) => v[j].n <= t.closeAt
    BY <1>1, <2>1 DEF Link, CloseInOrder
  <2> QED
    BY <1>2, <1>4, <2>2 DEF CloseInOrder
<1>9. EndKnown(r, t, ended)
  BY <1>2, <1>4 DEF Link, EndKnown
<1>10. AllSent(v, i, r, t) \/ ~works
  <2>1. CASE r.err
    BY <2>1 DEF AllSent
  <2>2. CASE ~r.err
    <3>1. ~here /\ r = s
      BY <2>2
    <3>2. ASSUME NEW k \in 1 .. Len(w), Is(w[k], "data", i) PROVE k - 1 \in 1 .. Len(v) /\ v[k - 1] = w[k]
      <4>1. k # 1
        BY <3>2 DEF Is
      <4> QED
        BY <4>1 DEF IsTail
    <3> QED
      BY <3>1, <3>2 DEF Link, AllSent
  <2> QED
    BY <2>1, <2>2
<1>11. CloseComes(v, i, t, FALSE)
  BY DEF CloseComes
<1> QED
  BY <1>2, <1>4, <1>6, <1>7, <1>8, <1>9, <1>10, <1>11 DEF Link

-----------------------------------------------------------------------------
(* The steps.                                                              *)

LEMMA Sides ==
  /\ \A e \in Side : Peer(e) \in Side /\ Peer(e) # e /\ Peer(Peer(e)) = e
  /\ \A e, x \in Side : x = e \/ x = Peer(e)
  /\ \A i \in Id : OfSide(i) \in Side
  BY DEF Side, Peer, OfSide

(* A frame that is sent, and one that is taken. *)
LEMMA SendIsAppend ==
  ASSUME NEW w \in Seq(Frames), NEW f \in Frames
  PROVE  IsAppend(w, f, Append(w, f)) /\ Append(w, f) \in Seq(Frames)
  BY AppendSeq DEF IsAppend

LEMMA TakeIsTail ==
  ASSUME NEW w \in Seq(Frames), w # <<>>
  PROVE  IsTail(w, Tail(w)) /\ Tail(w) \in Seq(Frames) /\ Head(w) = w[1] /\ Head(w) \in Frames
  BY TailSeq DEF IsTail

(* A step changes one Stream object. *)
OneStream(e, i, r) == stream' = [stream EXCEPT ![e][i] = r]

LEMMA StreamAt ==
  ASSUME TypeOK, NEW e \in Side, NEW i \in Id, NEW r \in StreamType, OneStream(e, i, r)
  PROVE  /\ stream' \in [Side -> [Id -> StreamType]]
         /\ \A x \in Side, y \in Id :
              stream'[x][y] = IF x = e /\ y = i THEN r ELSE stream[x][y]
  BY DEF TypeOK, OneStream

(* The holder of a stream writes, reads or closes: the streams of others    *)
(* and the table are as before, and no STREAM_OPEN is sent.                *)
Holds(e, i, r) ==
    /\ i \in handle[e] /\ r \in StreamType /\ OneStream(e, i, r)
    /\ stream[e][i].err => r.err
    /\ stream[e][i].closed => r.closed
    /\ r.sent + r.left <= MaxData /\ (r.closing => r.closed)
    /\ UNCHANGED <<conn, loop, nextID, table, opening, handle, up>>
    /\ \/ UNCHANGED wire
       \/ \E f \in Frames : /\ f.id = i /\ f.type # "open"
                            /\ wire' = [wire EXCEPT ![Peer(e)] = Append(@, f)]

(* What is on each wire after such a step. *)
LEMMA HolderWire ==
  ASSUME IInv, NEW e \in Side, NEW i \in Id, NEW r, Holds(e, i, r)
  PROVE  /\ wire' \in [Side -> Seq(Frames)]
         /\ \A x \in Side : \A k \in 1 .. Len(wire'[x]) :
              \/ k \in 1 .. Len(wire[x]) /\ wire'[x][k] = wire[x][k]
              \/ wire'[x][k].id = i /\ wire'[x][k].type # "open"
         /\ \A x \in Side : \A k \in 1 .. Len(wire[x]) :
              k \in 1 .. Len(wire'[x]) /\ wire'[x][k] = wire[x][k]
<1>1. wire \in [Side -> Seq(Frames)] /\ Peer(e) \in Side
  BY Sides DEF IInv, TypeOK
<1>2. CASE UNCHANGED wire
  BY <1>1, <1>2
<1>3. ASSUME NEW f \in Frames, f.id = i, f.type # "open",
             wire' = [wire EXCEPT ![Peer(e)] = Append(@, f)]
      PROVE  /\ wire' \in [Side -> Seq(Frames)]
             /\ \A x \in Side : wire'[x] = wire[x] \/ IsAppend(wire[x], f, wire'[x])
  BY <1>1, <1>3, SendIsAppend
<1>4. ASSUME NEW f \in Frames, f.id = i, f.type # "open", NEW x \in Side,
             wire'[x] = wire[x] \/ IsAppend(wire[x], f, wire'[x])
      PROVE  /\ \A k \in 1 .. Len(wire'[x]) :
                  \/ k \in 1 .. Len(wire[x]) /\ wire'[x][k] = wire[x][k]
                  \/ wire'[x][k].id = i /\ wire'[x][k].type # "open"
             /\ \A k \in 1 .. Len(wire[x]) :
                  k \in 1 .. Len(wire'[x]) /\ wire'[x][k] = wire[x][k]
  BY <1>4 DEF IsAppend
<1> QED
  BY <1>2, <1>3, <1>4 DEF Holds

LEMMA HolderStruct ==
  ASSUME IInv, NEW e \in Side, NEW i \in Id, NEW r, Holds(e, i, r)
  PROVE  TypeOK' /\ Unknown' /\ OpenFirst' /\ Opened' /\ Parity' /\ Held'
<1>1. /\ wire' \in [Side -> Seq(Frames)]
      /\ \A x \in Side : \A k \in 1 .. Len(wire'[x]) :
           \/ k \in 1 .. Len(wire[x]) /\ wire'[x][k] = wire[x][k]
           \/ wire'[x][k].id = i /\ wire'[x][k].type # "open"
      /\ \A x \in Side : \A k \in 1 .. Len(wire[x]) :
           k \in 1 .. Len(wire'[x]) /\ wire'[x][k] = wire[x][k]
  BY HolderWire
<1>2. /\ i \in handle[e] /\ UNCHANGED <<conn, loop, nextID, table, opening, handle, up>>
      /\ stream[e][i].err => r.err
      /\ stream[e][i].closed => r.closed
      /\ r.sent + r.left <= MaxData /\ (r.closing => r.closed)
      /\ r \in StreamType /\ OneStream(e, i, r)
  BY DEF Holds
<1>3. /\ stream' \in [Side -> [Id -> StreamType]]
      /\ \A x \in Side, y \in Id :
           stream'[x][y] = IF x = e /\ y = i THEN r ELSE stream[x][y]
  BY <1>2, StreamAt DEF IInv
<1>4. i \in handle[OfSide(i)]
  <2>1. OfSide(i) \in Side /\ (e = OfSide(i) \/ e = Peer(OfSide(i)))
    BY Sides
  <2> QED
    BY <1>2, <2>1 DEF IInv, Unknown
<1>5. TypeOK'
  BY <1>1, <1>2, <1>3 DEF IInv, TypeOK
<1>6. Unknown'
  <2> SUFFICES ASSUME NEW y \in Id, y \notin handle[OfSide(y)]
               PROVE  LET a == Peer(OfSide(y)) IN
                      /\ y \notin handle[a] \cup table[a] /\ stream'[a][y] = NewStream
                      /\ \A x \in Side : \A k \in 1 .. Len(wire'[x]) : wire'[x][k].id # y
    BY <1>2 DEF Unknown
  <2>1. y # i /\ Peer(OfSide(y)) \in Side
    BY <1>4, Sides
  <2> QED
    <3>1. stream'[Peer(OfSide(y))][y] = stream[Peer(OfSide(y))][y]
      BY <1>3, <2>1
    <3>2. /\ y \notin handle[Peer(OfSide(y))] \cup table[Peer(OfSide(y))]
          /\ stream[Peer(OfSide(y))][y] = NewStream
          /\ \A x \in Side : \A k \in 1 .. Len(wire[x]) : wire[x][k].id # y
      BY DEF IInv, Unknown
    <3>3. \A x \in Side : \A k \in 1 .. Len(wire'[x]) : wire'[x][k].id # y
      BY <1>1, <2>1, <3>2
    <3> QED
      BY <3>1, <3>2, <3>3
<1>7. OpenFirst'
  <2> SUFFICES ASSUME NEW x \in Side, NEW k \in 1 .. Len(wire'[x]), wire'[x][k].type = "open"
               PROVE  LET y == wire'[x][k].id IN
                      /\ x = Peer(OfSide(y)) /\ y \notin handle[x] \cup table[x]
                      /\ stream'[x][y] = NewStream
                      /\ \A j \in 1 .. k - 1 : wire'[x][j].id # y
    BY <1>2 DEF OpenFirst
  <2> DEFINE y == wire'[x][k].id
  <2>1. k \in 1 .. Len(wire[x]) /\ wire'[x][k] = wire[x][k]
    BY <1>1
  <2>2. /\ x = Peer(OfSide(y)) /\ y \notin handle[x] \cup table[x] /\ stream[x][y] = NewStream
        /\ \A j \in 1 .. k - 1 : wire[x][j].id # y
    BY <2>1 DEF IInv, OpenFirst
  <2>3. y \in Id
    <3>1. wire[x][k] \in Frames
      BY <2>1 DEF IInv, TypeOK
    <3> QED
      BY <2>1, <3>1 DEF Frames
  <2>4. stream'[x][y] = NewStream
    BY <1>2, <1>3, <2>2, <2>3
  <2>5. \A j \in 1 .. k - 1 : wire'[x][j] = wire[x][j]
    <3>1. \A j \in 1 .. k - 1 : j \in 1 .. Len(wire[x])
      <4>1. Len(wire[x]) \in Nat
        BY DEF IInv, TypeOK
      <4> QED
        BY <2>1, <4>1
    <3> QED
      BY <1>1, <3>1
  <2> QED
    BY <2>2, <2>4, <2>5
<1>8. Opened'
  <2>1. \A x \in Side, y \in Id : HasOpen(wire[x], y) => HasOpen(wire'[x], y)
    BY <1>1 DEF HasOpen
  <2>2. \A x \in Side, y \in Id : stream[x][y].err => stream'[x][y].err
    BY <1>2, <1>3
  <2>3. \A y \in Id : Peer(OfSide(y)) \in Side
    BY Sides
  <2> QED
    BY <1>2, <2>1, <2>2, <2>3 DEF IInv, Opened
<1>9. Parity'
  BY <1>2 DEF IInv, Parity
<1>10. Held'
  <2>1. \A x \in Side, y \in Id : /\ stream[x][y].err => stream'[x][y].err
                                  /\ stream[x][y].closed => stream'[x][y].closed
    BY <1>2, <1>3
  <2>2. ASSUME NEW x \in Side, NEW y \in Id, ~(x = e /\ y = i)
        PROVE  stream'[x][y] = stream[x][y]
    BY <1>3, <2>2
  <2>3. stream'[e][i] = r
    BY <1>3
  <2>4. \A x \in Side : Peer(x) \in Side
    BY Sides
  <2>5. ASSUME NEW x \in Side, NEW y \in Id
        PROVE  /\ y \notin handle[x] => /\ stream'[x][y].left = 0 /\ ~stream'[x][y].closing
                                        /\ ~stream'[x][y].closed /\ stream'[x][y].sent = 0
               /\ stream'[x][y].sent + stream'[x][y].left <= MaxData
               /\ stream'[x][y].closing => stream'[x][y].closed
    <3>1. CASE x = e /\ y = i
      BY <1>2, <2>3, <3>1
    <3>2. CASE ~(x = e /\ y = i)
      BY <2>2, <3>2 DEF IInv, Held
    <3> QED
      BY <3>1, <3>2
  <2> QED
    BY <1>2, <2>1, <2>4, <2>5 DEF IInv, Held
<1> QED
  BY <1>5, <1>6, <1>7, <1>8, <1>9, <1>10

(* The frames of other streams are not concerned. *)
LEMMA HolderLinks ==
  ASSUME IInv, NEW e \in Side, NEW i \in Id, NEW r, Holds(e, i, r),
         Link(wire[e], i, r, stream[Peer(e)][i], i \in table[e], conn[e] = "closed", up),
         Link(wire'[Peer(e)], i, stream[Peer(e)][i], r, i \in table[Peer(e)],
              conn[Peer(e)] = "closed", up)
  PROVE  Links'
<1>1. /\ UNCHANGED <<conn, table, up>> /\ r \in StreamType /\ OneStream(e, i, r)
  BY DEF Holds
<1>2. \A x \in Side, y \in Id :
        stream'[x][y] = IF x = e /\ y = i THEN r ELSE stream[x][y]
  BY <1>1, StreamAt DEF IInv
<1>3. Peer(e) \in Side /\ Peer(e) # e /\ Peer(Peer(e)) = e
  BY Sides
<1>4. wire'[e] = wire[e]
  BY <1>3 DEF Holds, IInv, TypeOK
<1> SUFFICES ASSUME NEW x \in Side, NEW y \in Id
             PROVE  Link(wire'[x], y, stream'[x][y], stream'[Peer(x)][y], y \in table[x],
                         conn[x] = "closed", up)
  BY <1>1 DEF Links
<1>5. Peer(x) \in Side /\ (x = e \/ x = Peer(e))
  BY Sides
<1>6. CASE y = i /\ x = e
  BY <1>2, <1>3, <1>4, <1>6
<1>7. CASE y = i /\ x = Peer(e)
  BY <1>2, <1>3, <1>7
<1>8. CASE y # i
  <2>1. stream'[x][y] = stream[x][y] /\ stream'[Peer(x)][y] = stream[Peer(x)][y]
    BY <1>2, <1>5, <1>8
  <2>2. Link(wire[x], y, stream[x][y], stream[Peer(x)][y], y \in table[x], conn[x] = "closed", up)
    BY DEF IInv, Links
  <2>3. CASE wire'[x] = wire[x]
    BY <2>1, <2>2, <2>3
  <2>4. CASE wire'[x] # wire[x]
    <3>1. PICK f \in Frames : f.id = i /\ wire' = [wire EXCEPT ![Peer(e)] = Append(@, f)]
      BY <2>4 DEF Holds
    <3>2. wire'[x] = Append(wire[x], f) /\ wire[x] \in Seq(Frames)
      BY <1>5, <1>4, <2>4, <3>1 DEF IInv, TypeOK
    <3>3. IsAppend(wire[x], f, wire'[x])
      BY <3>2, SendIsAppend
    <3> QED
      BY <1>8, <2>1, <2>2, <3>1, <3>3, LinkAppendOther
  <2> QED
    BY <2>3, <2>4
<1> QED
  BY <1>5, <1>6, <1>7, <1>8

(* What the links say of the two ends of stream i. *)
LEMMA Ends ==
  ASSUME IInv, NEW e \in Side, NEW i \in Id
  PROVE  /\ Peer(e) \in Side /\ Peer(Peer(e)) = e
         /\ stream[e][i] \in StreamType /\ stream[Peer(e)][i] \in StreamType
         /\ Link(wire[e], i, stream[e][i], stream[Peer(e)][i], i \in table[e],
                 conn[e] = "closed", up)
         /\ Link(wire[Peer(e)], i, stream[Peer(e)][i], stream[e][i], i \in table[Peer(e)],
                 conn[Peer(e)] = "closed", up)
<1>1. Peer(e) \in Side /\ Peer(Peer(e)) = e
  BY Sides
<1> QED
  BY <1>1 DEF IInv, TypeOK, Links

(* Write takes note of what is left to send. *)
LEMMA WriteKeeps ==
  ASSUME IInv, NEW e \in Side, NEW i \in Id, NEW k \in 1 .. MaxChunks, Write(e, i, k)
  PROVE  IInv'
<1> DEFINE s == stream[e][i]
           r == [s EXCEPT !.left = k]
<1>1. /\ Peer(e) \in Side /\ s \in StreamType /\ stream[Peer(e)][i] \in StreamType
      /\ Link(wire[e], i, s, stream[Peer(e)][i], i \in table[e], conn[e] = "closed", up)
      /\ Link(wire[Peer(e)], i, stream[Peer(e)][i], s, i \in table[Peer(e)],
              conn[Peer(e)] = "closed", up)
  BY Ends
<1>2. /\ r \in StreamType /\ r.msgs = s.msgs /\ r.off = s.off /\ r.got = s.got
      /\ r.err = s.err /\ r.closed = s.closed /\ r.closing = s.closing
      /\ r.sent = s.sent /\ r.closeAt = s.closeAt /\ r.left = k
  <2>1. k \in 0 .. MaxChunks
    BY MuxAssumption
  <2> QED
    BY <1>1, <2>1 DEF StreamType
<1>3. stream' = [stream EXCEPT ![e][i].left = k]
  BY DEF Write
<1>4. OneStream(e, i, r)
  BY <1>3 DEF OneStream
<1> HIDE DEF r
<1>5. Holds(e, i, r)
  BY <1>2, <1>4 DEF Holds, Write, IInv, Held
<1>6. Reads(r) /\ Taken(r) = Taken(s) /\ EndKnown(r, stream[Peer(e)][i], conn[e] = "closed")
  BY <1>1, <1>2, SameReader DEF Link, EndKnown
<1>7. Link(wire[e], i, r, stream[Peer(e)][i], i \in table[e], conn[e] = "closed", up)
  BY <1>1, <1>2, <1>6, LinkReader
<1>8. Link(wire[Peer(e)], i, stream[Peer(e)][i], r, i \in table[Peer(e)],
           conn[Peer(e)] = "closed", up)
  BY <1>1, <1>2, LinkWriter
<1>9. wire' = wire
  BY DEF Write
<1> QED
  BY <1>5, <1>7, <1>8, <1>9, HolderStruct, HolderLinks DEF IInv

(* The peer of a holder can find the stream, now or after its STREAM_OPEN. *)
LEMMA PeerFinds ==
  ASSUME IInv, up, NEW e \in Side, NEW i \in Id, i \in handle[e]
  PROVE  \/ stream[Peer(e)][i].err \/ i \in table[Peer(e)] \/ HasOpen(wire[Peer(e)], i)
<1>1. OfSide(i) \in Side /\ (e = OfSide(i) \/ e = Peer(OfSide(i)))
      /\ Peer(Peer(OfSide(i))) = OfSide(i)
  BY Sides
<1>2. i \in handle[OfSide(i)]
  BY <1>1 DEF IInv, Unknown
<1>3. CASE e = OfSide(i)
  BY <1>2, <1>3 DEF IInv, Opened
<1>4. CASE e = Peer(OfSide(i))
  BY <1>1, <1>2, <1>4 DEF IInv, Held
<1> QED
  BY <1>1, <1>3, <1>4

LEMMA SendDataKeeps ==
  ASSUME IInv, NEW e \in Side, NEW i \in Id, SendData(e, i)
  PROVE  IInv'
<1> DEFINE s == stream[e][i]
           p == Peer(e)
           t == stream[p][i]
           f == Frame("data", i, s.sent + 1)
<1>1. /\ p \in Side /\ s \in StreamType /\ t \in StreamType
      /\ Link(wire[e], i, s, t, i \in table[e], conn[e] = "closed", up)
      /\ Link(wire[p], i, t, s, i \in table[p], conn[p] = "closed", up)
  BY Ends
<1>2. /\ i \in handle[e] /\ s.left > 0 /\ s.sent + s.left <= MaxData
      /\ s.closing => s.closed
      /\ UNCHANGED <<conn, loop, nextID, table, opening, handle, up>>
  BY DEF SendData, IInv, Held
<1>3. s.sent \in Nat /\ s.left \in 0 .. MaxChunks /\ MaxData \in Nat /\ MaxChunks \in Nat
  <2>1. MaxData \in Nat /\ MaxChunks \in Nat
    BY MuxAssumption
  <2>2. s.sent \in 0 .. MaxData /\ s.left \in 0 .. MaxChunks
    BY <1>1 DEF StreamType
  <2> QED
    BY <2>1, <2>2
<1>4. CASE Sends(e, f) /\ stream' = [stream EXCEPT ![e][i].left = @ - 1, ![e][i].sent = @ + 1]
  <2> DEFINE r == [s EXCEPT !.left = @ - 1, !.sent = @ + 1]
  <2>1. /\ s.sent + 1 \in 0 .. MaxData /\ s.left - 1 \in 0 .. MaxChunks
        /\ (s.sent + 1) + (s.left - 1) <= MaxData
    BY <1>2, <1>3
  <2>2. /\ r \in StreamType /\ r.msgs = s.msgs /\ r.off = s.off /\ r.got = s.got
        /\ r.err = s.err /\ r.closed = s.closed /\ r.closing = s.closing
        /\ r.sent = s.sent + 1 /\ r.closeAt = s.closeAt /\ r.left = s.left - 1
    BY <1>1, <2>1 DEF StreamType
  <2>3. f \in Frames /\ f.id = i /\ f.type = "data" /\ f.n = s.sent + 1
    BY <2>1 DEF Frames, Frame
  <2>4. OneStream(e, i, r)
    BY <1>1, <1>4 DEF OneStream, IInv, TypeOK
  <2> HIDE DEF r, f
  <2>5. \/ ~up /\ wire' = wire
        \/ up /\ wire' = [wire EXCEPT ![p] = Append(@, f)]
    BY <1>4 DEF Sends
  <2>6. Holds(e, i, r)
    BY <1>2, <2>1, <2>2, <2>3, <2>4, <2>5 DEF Holds
  <2>7. Reads(r) /\ Taken(r) = Taken(s) /\ EndKnown(r, t, conn[e] = "closed")
    BY <1>1, <2>2, SameReader DEF Link, EndKnown
  <2>8. Link(wire[e], i, r, t, i \in table[e], conn[e] = "closed", up)
    BY <1>1, <2>2, <2>7, LinkReader
  <2>9. Link(wire'[p], i, t, r, i \in table[p], conn[p] = "closed", up)
    <3>1. CASE ~up /\ wire' = wire
      <4>1. r.sent >= s.sent /\ r.closed = s.closed /\ r.closing = s.closing
            /\ r.closeAt = s.closeAt /\ r \in StreamType /\ ~up
        BY <1>3, <2>2, <3>1
      <4>2. Link(wire[p], i, t, r, i \in table[p], conn[p] = "closed", up)
        BY <1>1, <4>1, LinkSentInVain
      <4>3. wire' = wire
        BY <3>1
      <4> QED
        BY <4>2, <4>3
    <3>2. CASE up /\ wire' = [wire EXCEPT ![p] = Append(@, f)]
      <4>1. wire[p] \in Seq(Frames) /\ wire'[p] = Append(wire[p], f)
        BY <1>1, <3>2 DEF IInv, TypeOK
      <4>2. IsAppend(wire[p], f, wire'[p])
        BY <2>3, <4>1, SendIsAppend
      <4>3. t.err \/ i \in table[p] \/ HasOpen(wire[p], i)
        BY <1>2, <3>2, PeerFinds
      <4> QED
        <5>1. /\ up /\ f.id = i /\ f.type = "data" /\ f.n = s.sent + 1 /\ r.sent = s.sent + 1
              /\ r.closed = s.closed /\ r.closing = s.closing /\ r.closeAt = s.closeAt
          BY <2>2, <2>3, <3>2
        <5>2. PICK v : v = wire'[p]
          OBVIOUS
        <5>3. IsAppend(wire[p], f, v)
          BY <4>2, <5>2
        <5>4. up = TRUE
          BY <5>1 DEF IInv, TypeOK
        <5>5. Link(wire[p], i, t, s, i \in table[p], conn[p] = "closed", TRUE)
          BY <1>1, <5>4
        <5>6. \A h, c : Link(wire[p], i, t, s, h, c, TRUE)
                         /\ (t.err \/ h \/ HasOpen(wire[p], i)) => Link(v, i, t, r, h, c, TRUE)
          <6> HIDE DEF s, t, p
          <6> QED
            BY <1>1, <5>1, <5>3, LinkAppendData
        <5>7. Link(v, i, t, r, i \in table[p], conn[p] = "closed", TRUE)
          BY <4>3, <5>5, <5>6
        <5> QED
          BY <5>2, <5>4, <5>7
    <3> QED
      BY <2>5, <3>1, <3>2
  <2> QED
    BY <2>6, <2>8, <2>9, HolderStruct, HolderLinks DEF IInv
<1>5. CASE MayBeRefused /\ stream' = [stream EXCEPT ![e][i].left = 0] /\ UNCHANGED wire
  <2> DEFINE r == [s EXCEPT !.left = 0]
  <2>1. 0 \in 0 .. MaxChunks /\ s.sent + 0 <= MaxData
    BY <1>2, <1>3
  <2>2. /\ r \in StreamType /\ r.msgs = s.msgs /\ r.off = s.off /\ r.got = s.got
        /\ r.err = s.err /\ r.closed = s.closed /\ r.closing = s.closing
        /\ r.sent = s.sent /\ r.closeAt = s.closeAt /\ r.left = 0
    BY <1>1, <2>1 DEF StreamType
  <2>3. OneStream(e, i, r)
    BY <1>5 DEF OneStream
  <2> HIDE DEF r
  <2>4. Holds(e, i, r)
    BY <1>2, <1>5, <2>1, <2>2, <2>3 DEF Holds
  <2>5. Reads(r) /\ Taken(r) = Taken(s) /\ EndKnown(r, t, conn[e] = "closed")
    BY <1>1, <2>2, SameReader DEF Link, EndKnown
  <2>6. Link(wire[e], i, r, t, i \in table[e], conn[e] = "closed", up)
    BY <1>1, <2>2, <2>5, LinkReader
  <2>7. Link(wire'[p], i, t, r, i \in table[p], conn[p] = "closed", up)
    BY <1>1, <1>5, <2>2, LinkWriter
  <2> QED
    BY <2>4, <2>6, <2>7, HolderStruct, HolderLinks DEF IInv
<1> QED
  BY <1>4, <1>5 DEF SendData

LEMMA CloseStreamKeeps ==
  ASSUME IInv, NEW e \in Side, NEW i \in Id, CloseStream(e, i)
  PROVE  IInv'
<1> DEFINE s == stream[e][i]
           p == Peer(e)
           t == stream[p][i]
           r == [s EXCEPT !.closed = TRUE, !.err = TRUE, !.closing = TRUE]
<1>1. /\ p \in Side /\ s \in StreamType /\ t \in StreamType
      /\ Link(wire[e], i, s, t, i \in table[e], conn[e] = "closed", up)
      /\ Link(wire[p], i, t, s, i \in table[p], conn[p] = "closed", up)
  BY Ends
<1>2. /\ r \in StreamType /\ r.msgs = s.msgs /\ r.off = s.off /\ r.got = s.got
      /\ r.err = TRUE /\ r.closed = TRUE /\ r.closing = TRUE
      /\ r.sent = s.sent /\ r.closeAt = s.closeAt /\ r.left = s.left
  BY <1>1 DEF StreamType
<1>3. OneStream(e, i, r)
  BY <1>1 DEF OneStream, CloseStream, IInv, TypeOK
<1> HIDE DEF r
<1>4. Holds(e, i, r) /\ ~s.closed /\ wire' = wire
  BY <1>2, <1>3 DEF Holds, CloseStream, IInv, Held
<1>5. Reads(r) /\ Taken(r) = Taken(s) /\ EndKnown(r, t, conn[e] = "closed")
  BY <1>1, <1>2, SameReader DEF Link, EndKnown
<1>6. Link(wire[e], i, r, t, i \in table[e], conn[e] = "closed", up)
  BY <1>1, <1>2, <1>5, LinkReader
<1>7. Link(wire'[p], i, t, r, i \in table[p], conn[p] = "closed", up)
  BY <1>1, <1>2, <1>4, LinkCloses
<1> QED
  BY <1>4, <1>6, <1>7, HolderStruct, HolderLinks DEF IInv

LEMMA SendCloseKeeps ==
  ASSUME IInv, NEW e \in Side, NEW i \in Id, SendClose(e, i)
  PROVE  IInv'
<1> DEFINE s == stream[e][i]
           p == Peer(e)
           t == stream[p][i]
           f == Frame("close", i, 0)
           r == [s EXCEPT !.closing = FALSE, !.closeAt = s.sent]
<1>1. /\ p \in Side /\ s \in StreamType /\ t \in StreamType
      /\ Link(wire[e], i, s, t, i \in table[e], conn[e] = "closed", up)
      /\ Link(wire[p], i, t, s, i \in table[p], conn[p] = "closed", up)
  BY Ends
<1>2. /\ i \in handle[e] /\ s.closing /\ s.closed /\ s.sent + s.left <= MaxData
      /\ UNCHANGED <<conn, loop, nextID, table, opening, handle, up>>
  BY DEF SendClose, IInv, Held
<1>3. /\ r \in StreamType /\ r.msgs = s.msgs /\ r.off = s.off /\ r.got = s.got
      /\ r.err = s.err /\ r.closed = s.closed /\ r.closing = FALSE
      /\ r.sent = s.sent /\ r.closeAt = s.sent /\ r.left = s.left
  BY <1>1 DEF StreamType
<1>4. f \in Frames /\ f.id = i /\ f.type = "close"
  BY MuxAssumption DEF Frames, Frame
<1>5. OneStream(e, i, r)
  BY <1>1 DEF OneStream, SendClose, IInv, TypeOK
<1>6. \/ ~up /\ wire' = wire
      \/ up /\ wire' = [wire EXCEPT ![p] = Append(@, f)]
  BY DEF Sends, SendClose, MayBeRefused
<1> HIDE DEF r, f
<1>7. Holds(e, i, r)
  BY <1>2, <1>3, <1>4, <1>5, <1>6 DEF Holds
<1>8. Reads(r) /\ Taken(r) = Taken(s) /\ EndKnown(r, t, conn[e] = "closed")
  BY <1>1, <1>3, SameReader DEF Link, EndKnown
<1>9. Link(wire[e], i, r, t, i \in table[e], conn[e] = "closed", up)
  BY <1>1, <1>3, <1>8, LinkReader
<1>10. Link(wire'[p], i, t, r, i \in table[p], conn[p] = "closed", up)
  <2>1. CASE ~up /\ wire' = wire
    <3>1. s.sent \in Nat
      BY <1>1, ConsumedNat DEF StreamType
    <3>2. r.sent >= s.sent /\ r.closed = s.closed /\ s.closing /\ r \in StreamType /\ ~up
      BY <1>2, <1>3, <2>1, <3>1
    <3>3. Link(wire[p], i, t, r, i \in table[p], conn[p] = "closed", up)
      BY <1>1, <3>2, LinkSentInVain
    <3>4. wire' = wire
      BY <2>1
    <3> QED
      BY <3>3, <3>4
  <2>2. CASE up /\ wire' = [wire EXCEPT ![p] = Append(@, f)]
    <3>1. wire[p] \in Seq(Frames) /\ wire'[p] = Append(wire[p], f)
      BY <1>1, <2>2 DEF IInv, TypeOK
    <3>2. IsAppend(wire[p], f, wire'[p])
      BY <1>4, <3>1, SendIsAppend
    <3> QED
      <4>1. /\ up /\ f.id = i /\ f.type = "close" /\ s.closed /\ s.closing
            /\ r.sent = s.sent /\ r.closed /\ ~r.closing /\ r.closeAt = s.sent
        BY <1>2, <1>3, <1>4, <2>2
      <4>2. PICK v : v = wire'[p]
        OBVIOUS
      <4>3. IsAppend(wire[p], f, v)
        BY <3>2, <4>2
      <4>4. up = TRUE
        BY <4>1 DEF IInv, TypeOK
      <4>5. Link(wire[p], i, t, s, i \in table[p], conn[p] = "closed", TRUE)
        BY <1>1, <4>4
      <4>6. \A h, c : Link(wire[p], i, t, s, h, c, TRUE) => Link(v, i, t, r, h, c, TRUE)
        <5> HIDE DEF s, t, p
        <5> QED
          BY <1>1, <4>1, <4>3, LinkAppendClose
      <4> QED
        BY <4>2, <4>4, <4>5, <4>6
  <2> QED
    BY <1>6, <2>1, <2>2
<1> QED
  BY <1>7, <1>9, <1>10, HolderStruct, HolderLinks DEF IInv

(* What a Read makes of the stream. *)
AfterRead(s, n) ==
    [s EXCEPT !.got = @ \o Taking(s, n),
              !.off = IF s.off + n = Unit THEN 0 ELSE s.off + n,
              !.msgs = IF s.off + n = Unit THEN Tail(@) ELSE @]

LEMMA ReadStep ==
  ASSUME TypeOK, NEW e \in Side, NEW i \in Id, NEW k \in 1 .. Unit, Read(e, i, k)
  PROVE  LET s == stream[e][i]
             n == IF k < Unit - s.off THEN k ELSE Unit - s.off
         IN  OneStream(e, i, AfterRead(s, n))
<1>1. stream \in [Side -> [Id -> StreamType]] /\ stream[e][i] \in StreamType
  BY DEF TypeOK
<1>2. PICK n : n = IF k < Unit - stream[e][i].off THEN k ELSE Unit - stream[e][i].off
  OBVIOUS
<1>3. stream' = [stream EXCEPT
         ![e][i].got = @ \o Taking(stream[e][i], n),
         ![e][i].off = IF stream[e][i].off + n = Unit THEN 0 ELSE stream[e][i].off + n,
         ![e][i].msgs = IF stream[e][i].off + n = Unit THEN Tail(@) ELSE @]
  BY <1>2 DEF Read, Taking
<1>4. stream' = [stream EXCEPT ![e][i] = AfterRead(stream[e][i], n)]
  BY <1>1, <1>3 DEF AfterRead
<1> QED
  BY <1>2, <1>4 DEF OneStream

LEMMA ReadKeeps ==
  ASSUME IInv, NEW e \in Side, NEW i \in Id, NEW k \in 1 .. Unit, Read(e, i, k)
  PROVE  IInv'
<1> DEFINE s == stream[e][i]
           p == Peer(e)
           t == stream[p][i]
           n == IF k < Unit - s.off THEN k ELSE Unit - s.off
           r == AfterRead(s, n)
<1>1. /\ p \in Side /\ s \in StreamType /\ t \in StreamType
      /\ Link(wire[e], i, s, t, i \in table[e], conn[e] = "closed", up)
      /\ Link(wire[p], i, t, s, i \in table[p], conn[p] = "closed", up)
  BY Ends
<1>2. /\ i \in handle[e] /\ s.msgs # <<>> /\ wire' = wire
      /\ UNCHANGED <<conn, loop, nextID, table, opening, handle, up>>
  BY DEF Read
<1>3. n \in 1 .. Unit - s.off
  <2>1. s.off \in 0 .. Unit - 1 /\ Unit \in Nat
    BY <1>1, ConsumedNat
  <2> QED
    BY <2>1
<1>4. OneStream(e, i, r)
  BY ReadStep DEF IInv
<1>5. /\ r.err = s.err /\ r.closed = s.closed /\ r.closing = s.closing
      /\ r.sent = s.sent /\ r.closeAt = s.closeAt /\ r.left = s.left
  BY <1>1 DEF StreamType, AfterRead
<1>6. r \in StreamType /\ Reads(r) /\ Taken(r) = Taken(s)
  <2> HIDE DEF n
  <2>1. Reads(s)
    BY <1>1 DEF Link
  <2>2. CASE s.off + n = Unit
    <3>1. r = [s EXCEPT !.got = s.got \o Taking(s, n), !.off = 0, !.msgs = Tail(s.msgs)]
      BY <2>2 DEF AfterRead
    <3>2. s \in StreamType /\ s.msgs # <<>>
      BY <1>1, <1>2
    <3> HIDE DEF r, s
    <3> QED
      BY <1>3, <2>1, <2>2, <3>1, <3>2, ReadsRest
  <2>3. CASE s.off + n # Unit
    <3>1. r = [s EXCEPT !.got = s.got \o Taking(s, n), !.off = s.off + n]
      BY <1>1, <2>3 DEF StreamType, AfterRead
    <3>2. s \in StreamType /\ s.msgs # <<>>
      BY <1>1, <1>2
    <3> HIDE DEF r, s
    <3> QED
      BY <1>3, <2>1, <2>3, <3>1, <3>2, ReadsPart
  <2> QED
    BY <2>2, <2>3
<1> HIDE DEF r
<1>7. Holds(e, i, r)
  BY <1>2, <1>4, <1>5, <1>6 DEF Holds, IInv, Held
<1>8. EndKnown(r, t, conn[e] = "closed")
  BY <1>1, <1>5, <1>6 DEF Link, EndKnown
<1>9. Link(wire[e], i, r, t, i \in table[e], conn[e] = "closed", up)
  BY <1>1, <1>5, <1>6, <1>8, LinkReader
<1>10. Link(wire'[p], i, t, r, i \in table[p], conn[p] = "closed", up)
  BY <1>1, <1>2, <1>5, LinkWriter
<1> QED
  BY <1>7, <1>9, <1>10, HolderStruct, HolderLinks DEF IInv

(* The reader's table may change while it has no part in what is on the way. *)
LEMMA LinkHere ==
  ASSUME NEW w, NEW i, NEW s, NEW t, NEW here, NEW ended, NEW works,
         Link(w, i, s, t, here, ended, works),
         NEW here2, FindStream(w, i, s, here2), works => CloseComes(w, i, t, here2)
  PROVE  Link(w, i, s, t, here2, ended, works)
  BY DEF Link

(* Before its opener has it a stream leaves no trace. *)
LEMMA NoTrace ==
  ASSUME IInv, NEW e \in Side, NEW i \in Id, OfSide(i) = e, i \notin handle[e]
  PROVE  /\ i \notin handle[Peer(e)] \cup table[Peer(e)] /\ stream[Peer(e)][i] = NewStream
         /\ \A x \in Side : \A k \in 1 .. Len(wire[x]) : wire[x][k].id # i
         /\ ~stream[e][i].closed /\ ~stream[Peer(e)][i].closed
<1>1. /\ i \notin handle[Peer(e)] \cup table[Peer(e)] /\ stream[Peer(e)][i] = NewStream
      /\ \A x \in Side : \A k \in 1 .. Len(wire[x]) : wire[x][k].id # i
  BY DEF IInv, Unknown
<1> QED
  BY <1>1 DEF IInv, Held, NewStream

LEMMA OpenStreamKeeps ==
  ASSUME IInv, NEW e \in Side, OpenStream(e)
  PROVE  IInv'
<1> DEFINE n == nextID[e]
<1>1. /\ n \in Id /\ n \in Nat /\ OfSide(n) = e
      /\ nextID' = [nextID EXCEPT ![e] = n + 2]
      /\ table' = [table EXCEPT ![e] = @ \cup {n}]
      /\ opening' = [opening EXCEPT ![e] = @ \cup {n}]
      /\ UNCHANGED <<conn, loop, handle, stream, wire, up>>
  BY DEF OpenStream, IInv, TypeOK, Parity
<1>2. n \notin handle[e]
  BY <1>1 DEF IInv, Opened
<1>3. /\ n \notin handle[Peer(e)] \cup table[Peer(e)] /\ stream[Peer(e)][n] = NewStream
      /\ \A x \in Side : \A k \in 1 .. Len(wire[x]) : wire[x][k].id # n
      /\ ~stream[Peer(e)][n].closed
  BY <1>1, <1>2, NoTrace
<1>4. /\ \A x \in Side, y \in Id : y \in table'[x] <=> y \in table[x] \/ (x = e /\ y = n)
      /\ \A x \in Side, y \in Id : y \in opening'[x] <=> y \in opening[x] \/ (x = e /\ y = n)
      /\ \A x \in Side : nextID[x] \in Nat /\ nextID'[x] \in Nat /\ nextID[x] <= nextID'[x]
      /\ nextID'[e] = n + 2
      /\ \A x \in Side \ {e} : nextID'[x] = nextID[x]
  BY <1>1 DEF IInv, TypeOK
<1>5. \A y \in Id : /\ OfSide(y) \in Side /\ Peer(OfSide(y)) \in Side
                    /\ Peer(OfSide(y)) # OfSide(y)
  BY Sides
<1>6. TypeOK'
  BY <1>1 DEF IInv, TypeOK
<1> HIDE DEF n
<1>7. Links'
  <2> SUFFICES ASSUME NEW x \in Side, NEW y \in Id
               PROVE  Link(wire[x], y, stream[x][y], stream[Peer(x)][y], y \in table'[x],
                           conn[x] = "closed", up)
    BY <1>1 DEF Links
  <2>1. Link(wire[x], y, stream[x][y], stream[Peer(x)][y], y \in table[x], conn[x] = "closed", up)
    BY DEF IInv, Links
  <2>2. CASE x = e /\ y = n
    <3>1. /\ FindStream(wire[x], y, stream[x][y], y \in table'[x])
          /\ CloseComes(wire[x], y, stream[Peer(x)][y], y \in table'[x])
      BY <1>3, <2>2 DEF FindStream, CloseComes, Is
    <3> QED
      BY <2>1, <3>1, LinkHere
  <2>3. CASE ~(x = e /\ y = n)
    <3>1. (y \in table'[x]) = (y \in table[x])
      BY <1>4, <2>3
    <3> QED
      BY <2>1, <3>1
  <2> QED
    BY <2>2, <2>3
<1>8. Unknown'
  BY <1>1, <1>4, <1>5 DEF IInv, Unknown
<1>9. OpenFirst'
  <2> SUFFICES ASSUME NEW x \in Side, NEW k \in 1 .. Len(wire[x]), wire[x][k].type = "open"
               PROVE  wire[x][k].id \notin table'[x]
    BY <1>1 DEF IInv, OpenFirst
  <2>1. wire[x][k].id # n /\ wire[x][k].id \notin table[x]
    BY <1>3 DEF IInv, OpenFirst
  <2> QED
    BY <1>1, <2>1 DEF IInv, TypeOK
<1>10. Opened'
  <2> SUFFICES ASSUME NEW y \in Id
               PROVE  LET o == OfSide(y)
                          a == Peer(o)
                      IN  /\ y \in opening'[o] => y \in table'[o] \ handle[o] /\ y < nextID'[o]
                          /\ y \notin opening'[a]
                          /\ y \in handle[o] => y < nextID'[o]
                          /\ y \in handle[o] /\ up =>
                                stream[a][y].err \/ y \in table'[a] \/ HasOpen(wire[a], y)
    BY <1>1 DEF Opened
  <2>1. LET o == OfSide(y)
            a == Peer(o)
        IN  /\ y \in opening[o] => y \in table[o] \ handle[o] /\ y < nextID[o]
            /\ y \notin opening[a]
            /\ y \in handle[o] => y < nextID[o]
            /\ y \in handle[o] /\ up =>
                  stream[a][y].err \/ y \in table[a] \/ HasOpen(wire[a], y)
    BY DEF IInv, Opened
  <2>2. y \in Nat
    BY DEF Id
  <2>3. \A x \in Side : y < nextID[x] => y < nextID'[x]
    BY <1>4, <2>2
  <2>4. n < nextID'[e]
    BY <1>1, <1>4
  <2> QED
    BY <1>1, <1>2, <1>4, <1>5, <2>1, <2>3, <2>4
<1>11. Parity'
  <2>1. OfSide(n + 2) = OfSide(n)
    BY <1>1 DEF OfSide
  <2> QED
    BY <1>1, <1>4, <2>1 DEF IInv, Parity
<1>12. Held'
  BY <1>1, <1>4 DEF IInv, Held
<1> QED
  BY <1>6, <1>7, <1>8, <1>9, <1>10, <1>11, <1>12 DEF IInv

LEMMA SendsFrame ==
  ASSUME IInv, NEW e \in Side, NEW f \in Frames, Sends(e, f)
  PROVE  /\ wire' \in [Side -> Seq(Frames)] /\ wire'[e] = wire[e]
         /\ \/ ~up /\ wire' = wire
            \/ up /\ IsAppend(wire[Peer(e)], f, wire'[Peer(e)])
<1>1. wire \in [Side -> Seq(Frames)] /\ Peer(e) \in Side /\ Peer(e) # e
  BY Sides DEF IInv, TypeOK
<1>2. CASE ~up
  BY <1>1, <1>2 DEF Sends
<1>3. CASE up
  <2>1. wire' = [wire EXCEPT ![Peer(e)] = Append(@, f)]
    BY <1>3 DEF Sends
  <2>2. IsAppend(wire[Peer(e)], f, Append(wire[Peer(e)], f))
        /\ Append(wire[Peer(e)], f) \in Seq(Frames)
    BY <1>1, SendIsAppend
  <2> QED
    BY <1>1, <1>3, <2>1, <2>2
<1> QED
  BY <1>2, <1>3

(* Who opens a stream is on its side, and has yet to get it. *)
LEMMA Opener ==
  ASSUME IInv, NEW e \in Side, NEW i \in Id, i \in opening[e]
  PROVE  OfSide(i) = e /\ i \in table[e] \ handle[e] /\ i < nextID[e]
<1>1. OfSide(i) \in Side /\ (e = OfSide(i) \/ e = Peer(OfSide(i)))
  BY Sides
<1> QED
  BY <1>1 DEF IInv, Opened

LEMMA SendOpenSent ==
  ASSUME IInv, NEW e \in Side, NEW i \in Id, i \in opening[e],
         opening' = [opening EXCEPT ![e] = @ \ {i}],
         Sends(e, Frame("open", i, 0)), handle' = [handle EXCEPT ![e] = @ \cup {i}],
         UNCHANGED <<table, conn, loop, nextID, stream, up>>
  PROVE  IInv'
<1> DEFINE p == Peer(e)
           f == Frame("open", i, 0)
<1>1. OfSide(i) = e /\ i \in table[e] \ handle[e] /\ i < nextID[e]
  BY Opener
<1>2. /\ i \notin handle[p] \cup table[p] /\ stream[p][i] = NewStream
      /\ \A x \in Side : \A k \in 1 .. Len(wire[x]) : wire[x][k].id # i
      /\ ~stream[e][i].closed
  BY <1>1, NoTrace
<1>3. f \in Frames /\ f.id = i /\ f.type = "open"
  BY MuxAssumption DEF Frames, Frame
<1>4. /\ wire' \in [Side -> Seq(Frames)] /\ wire'[e] = wire[e]
      /\ \/ ~up /\ wire' = wire
         \/ up /\ IsAppend(wire[p], f, wire'[p])
  BY <1>3, SendsFrame
<1>5. /\ p \in Side /\ p # e /\ Peer(p) = e /\ \A x \in Side : x = e \/ x = p
      /\ \A y \in Id : /\ OfSide(y) \in Side /\ Peer(OfSide(y)) \in Side
                       /\ Peer(OfSide(y)) # OfSide(y)
  BY Sides
<1>6. /\ \A x \in Side, y \in Id : y \in handle'[x] <=> y \in handle[x] \/ (x = e /\ y = i)
      /\ \A x \in Side, y \in Id : y \in opening'[x] => y \in opening[x]
      /\ i \notin opening'[e]
  BY DEF IInv, TypeOK
<1> HIDE DEF p, f
<1>7. ASSUME NEW x \in Side
      PROVE  /\ \A k \in 1 .. Len(wire'[x]) :
                  \/ k \in 1 .. Len(wire[x]) /\ wire'[x][k] = wire[x][k]
                  \/ x = p /\ wire'[x][k] = f /\ k = Len(wire[x]) + 1
             /\ \A k \in 1 .. Len(wire[x]) :
                  k \in 1 .. Len(wire'[x]) /\ wire'[x][k] = wire[x][k]
  <2>1. CASE wire'[x] = wire[x]
    BY <2>1
  <2>2. CASE wire'[x] # wire[x]
    <3>1. x = p /\ IsAppend(wire[x], f, wire'[x])
      BY <1>4, <1>5, <2>2
    <3> QED
      BY <3>1 DEF IsAppend
  <2> QED
    BY <2>1, <2>2
<1>8. TypeOK'
  BY <1>4 DEF IInv, TypeOK
<1>9. Links'
  <2> SUFFICES ASSUME NEW x \in Side, NEW y \in Id
               PROVE  Link(wire'[x], y, stream[x][y], stream[Peer(x)][y], y \in table[x],
                           conn[x] = "closed", up)
    BY DEF Links
  <2>1. Link(wire[x], y, stream[x][y], stream[Peer(x)][y], y \in table[x], conn[x] = "closed", up)
    BY DEF IInv, Links
  <2>2. CASE wire'[x] = wire[x]
    BY <2>1, <2>2
  <2>3. CASE wire'[x] # wire[x]
    <3>1. x = p /\ IsAppend(wire[x], f, wire'[x])
      BY <1>4, <1>5, <2>3
    <3>2. CASE y = i
      <4>1. ~stream[Peer(x)][y].closed
        BY <1>2, <1>5, <3>1, <3>2
      <4> QED
        BY <1>3, <2>1, <3>1, <4>1, LinkAppendOpen
    <3>3. CASE y # i
      BY <1>3, <2>1, <3>1, <3>3, LinkAppendOther
    <3> QED
      BY <3>2, <3>3
  <2> QED
    BY <2>2, <2>3
<1>10. Unknown'
  <2> SUFFICES ASSUME NEW y \in Id, y \notin handle'[OfSide(y)]
               PROVE  LET a == Peer(OfSide(y)) IN
                      /\ y \notin handle'[a] \cup table[a] /\ stream[a][y] = NewStream
                      /\ \A x \in Side : \A k \in 1 .. Len(wire'[x]) : wire'[x][k].id # y
    BY DEF Unknown
  <2>1. y # i /\ y \notin handle[OfSide(y)]
    BY <1>1, <1>5, <1>6
  <2>2. LET a == Peer(OfSide(y)) IN
        /\ y \notin handle[a] \cup table[a] /\ stream[a][y] = NewStream
        /\ \A x \in Side : \A k \in 1 .. Len(wire[x]) : wire[x][k].id # y
    BY <2>1 DEF IInv, Unknown
  <2>3. \A x \in Side : \A k \in 1 .. Len(wire'[x]) : wire'[x][k].id # y
    BY <1>3, <1>7, <2>1, <2>2
  <2> QED
    BY <1>5, <1>6, <2>1, <2>2, <2>3
<1>11. OpenFirst'
  <2> SUFFICES ASSUME NEW x \in Side, NEW k \in 1 .. Len(wire'[x]), wire'[x][k].type = "open"
               PROVE  LET y == wire'[x][k].id IN
                      /\ x = Peer(OfSide(y)) /\ y \notin handle'[x] \cup table[x]
                      /\ stream[x][y] = NewStream
                      /\ \A j \in 1 .. k - 1 : wire'[x][j].id # y
    BY DEF OpenFirst
  <2>0. Len(wire[x]) \in Nat
    BY DEF IInv, TypeOK
  <2>1. CASE k \in 1 .. Len(wire[x]) /\ wire'[x][k] = wire[x][k]
    <3> DEFINE y == wire[x][k].id
    <3>1. /\ x = Peer(OfSide(y)) /\ y \notin handle[x] \cup table[x]
          /\ stream[x][y] = NewStream /\ y # i
          /\ \A j \in 1 .. k - 1 : wire[x][j].id # y
      BY <1>2, <2>1 DEF IInv, OpenFirst
    <3>2. y \in Id
      <4>1. wire[x][k] \in Frames
        BY <2>1 DEF IInv, TypeOK
      <4> QED
        BY <4>1 DEF Frames
    <3>3. y \notin handle'[x]
      BY <1>6, <3>1, <3>2
    <3>4. \A j \in 1 .. k - 1 : wire'[x][j] = wire[x][j]
      <4>1. \A j \in 1 .. k - 1 : j \in 1 .. Len(wire[x])
        BY <2>0, <2>1
      <4> QED
        BY <1>7, <4>1
    <3> QED
      BY <2>1, <3>1, <3>3, <3>4
  <2>2. CASE x = p /\ wire'[x][k] = f /\ k = Len(wire[x]) + 1
    <3>1. x = Peer(OfSide(i)) /\ i \notin handle'[x] \cup table[x] /\ stream[x][i] = NewStream
      BY <1>1, <1>2, <1>5, <1>6, <2>2 DEF p
    <3>2. \A j \in 1 .. k - 1 : wire'[x][j].id # i
      <4>1. k - 1 = Len(wire[x])
        BY <2>0, <2>2
      <4> QED
        BY <1>2, <1>7, <4>1
    <3> QED
      BY <1>3, <2>2, <3>1, <3>2
  <2> QED
    BY <1>7, <2>1, <2>2
<1>12. Opened'
  <2>1. \A x \in Side, y \in Id : HasOpen(wire[x], y) => HasOpen(wire'[x], y)
    BY <1>7 DEF HasOpen
  <2>2. up => HasOpen(wire'[p], i)
    <3>1. ASSUME up PROVE HasOpen(wire'[p], i)
      <4>1. IsAppend(wire[p], f, wire'[p])
        BY <1>4, <3>1
      <4>2. Len(wire[p]) + 1 \in 1 .. Len(wire'[p]) /\ wire'[p][Len(wire[p]) + 1] = f
        BY <4>1 DEF IsAppend
      <4> QED
        BY <1>3, <4>2 DEF HasOpen, Is
    <3> QED
      BY <3>1
  <2> SUFFICES ASSUME NEW y \in Id
               PROVE  LET o == OfSide(y)
                          a == Peer(o)
                      IN  /\ y \in opening'[o] => y \in table[o] \ handle'[o] /\ y < nextID[o]
                          /\ y \notin opening'[a]
                          /\ y \in handle'[o] => y < nextID[o]
                          /\ y \in handle'[o] /\ up =>
                                stream[a][y].err \/ y \in table[a] \/ HasOpen(wire'[a], y)
    BY DEF Opened
  <2>3. LET o == OfSide(y)
            a == Peer(o)
        IN  /\ y \in opening[o] => y \in table[o] \ handle[o] /\ y < nextID[o]
            /\ y \notin opening[a]
            /\ y \in handle[o] => y < nextID[o]
            /\ y \in handle[o] /\ up =>
                  stream[a][y].err \/ y \in table[a] \/ HasOpen(wire[a], y)
    BY DEF IInv, Opened
  <2>4. CASE y = i
    BY <1>1, <1>5, <1>6, <2>2, <2>3, <2>4 DEF p
  <2>5. CASE y # i
    BY <1>5, <1>6, <2>1, <2>3, <2>5
  <2> QED
    BY <2>4, <2>5
<1>13. Parity' /\ Held'
  <2>1. Held'
    BY <1>1, <1>6 DEF IInv, Held
  <2> QED
    BY <2>1 DEF IInv, Parity
<1> QED
  BY <1>8, <1>9, <1>10, <1>11, <1>12, <1>13 DEF IInv

LEMMA SendOpenRefused ==
  ASSUME IInv, NEW e \in Side, NEW i \in Id, i \in opening[e],
         opening' = [opening EXCEPT ![e] = @ \ {i}],
         ~up, table' = [table EXCEPT ![e] = @ \ {i}],
         UNCHANGED <<handle, wire, conn, loop, nextID, stream, up>>
  PROVE  IInv'
<1>1. OfSide(i) = e /\ i \in table[e] \ handle[e] /\ i < nextID[e]
  BY Opener
<1>2. \A x \in Side : \A k \in 1 .. Len(wire[x]) : wire[x][k].id # i
  BY <1>1, NoTrace
<1>3. /\ \A x \in Side, y \in Id : y \in table'[x] <=> y \in table[x] /\ ~(x = e /\ y = i)
      /\ \A x \in Side, y \in Id : y \in opening'[x] <=> y \in opening[x] /\ ~(x = e /\ y = i)
      /\ \A x \in Side : table'[x] \subseteq table[x]
  BY DEF IInv, TypeOK
<1>4. \A y \in Id : /\ OfSide(y) \in Side /\ Peer(OfSide(y)) \in Side
                    /\ Peer(OfSide(y)) # OfSide(y)
  BY Sides
<1>5. TypeOK'
  BY DEF IInv, TypeOK
<1>6. Links'
  <2> SUFFICES ASSUME NEW x \in Side, NEW y \in Id
               PROVE  Link(wire[x], y, stream[x][y], stream[Peer(x)][y], y \in table'[x],
                           conn[x] = "closed", up)
    BY DEF Links
  <2>1. Link(wire[x], y, stream[x][y], stream[Peer(x)][y], y \in table[x], conn[x] = "closed", up)
    BY DEF IInv, Links
  <2>2. CASE x = e /\ y = i
    <3>1. FindStream(wire[x], y, stream[x][y], y \in table'[x])
      BY <1>2, <2>2 DEF FindStream, Is
    <3>2. up => CloseComes(wire[x], y, stream[Peer(x)][y], y \in table'[x])
      OBVIOUS
    <3> QED
      BY <2>1, <3>1, <3>2, LinkHere
  <2>3. CASE ~(x = e /\ y = i)
    <3>1. (y \in table'[x]) = (y \in table[x])
      BY <1>3, <2>3
    <3> QED
      BY <2>1, <3>1
  <2> QED
    BY <2>2, <2>3
<1>7. Unknown'
  BY <1>3, <1>4 DEF IInv, Unknown
<1>8. OpenFirst'
  BY <1>3 DEF IInv, OpenFirst
<1>9. Opened'
  BY <1>3, <1>4 DEF IInv, Opened
<1>10. Held'
  BY <1>1, <1>3 DEF IInv, Held
<1> QED
  BY <1>5, <1>6, <1>7, <1>8, <1>9, <1>10 DEF IInv, Parity

LEMMA SendOpenKeeps ==
  ASSUME IInv, NEW e \in Side, NEW i \in Id, SendOpen(e, i)
  PROVE  IInv'
<1>1. CASE /\ Sends(e, Frame("open", i, 0))
           /\ handle' = [handle EXCEPT ![e] = @ \cup {i}]
           /\ UNCHANGED table
  BY <1>1, SendOpenSent DEF SendOpen
<1>2. CASE /\ MayBeRefused /\ table' = [table EXCEPT ![e] = @ \ {i}]
           /\ UNCHANGED <<handle, wire>>
  BY <1>2, SendOpenRefused DEF SendOpen, MayBeRefused
<1> QED
  BY <1>1, <1>2 DEF SendOpen

(* A Conn that begins to end changes nothing a stream depends on. *)
LEMMA ConnKeeps ==
  ASSUME IInv, NEW e \in Side, ReadFrameFails(e) \/ CloseConn(e)
  PROVE  IInv'
<1>1. UNCHANGED <<nextID, table, opening, handle, stream, wire, up>>
  BY DEF ReadFrameFails, CloseConn
<1>2. /\ conn' \in [Side -> {"open", "closing", "closed"}] /\ loop' \in [Side -> BOOLEAN]
      /\ \A x \in Side : (conn'[x] = "closed") = (conn[x] = "closed")
  BY DEF ReadFrameFails, CloseConn, IInv, TypeOK
<1>3. TypeOK'
  BY <1>1, <1>2 DEF IInv, TypeOK
<1>4. Links'
  BY <1>1, <1>2 DEF IInv, Links
<1> QED
  BY <1>1, <1>3, <1>4 DEF IInv, Unknown, OpenFirst, Opened, Parity, Held

(* The read side of a stream ends. *)
LEMMA EndOfRead ==
  ASSUME NEW s \in StreamType
  PROVE  LET r == [s EXCEPT !.err = TRUE] IN
         r \in StreamType /\ SameFields(s, r) /\ r.err
  BY DEF StreamType, SameFields

LEMMA EndStreamsKeeps ==
  ASSUME IInv, NEW e \in Side, EndStreams(e)
  PROVE  IInv'
<1> DEFINE r(y) == IF y \in table[e] THEN [stream[e][y] EXCEPT !.err = TRUE] ELSE stream[e][y]
<1>1. /\ UNCHANGED <<loop, nextID, table, opening, handle, wire, up>>
      /\ conn' = [conn EXCEPT ![e] = "closed"]
      /\ stream' = [stream EXCEPT ![e] = [y \in Id |-> r(y)]]
  BY DEF EndStreams
<1>2. ASSUME NEW y \in Id
      PROVE  /\ r(y) \in StreamType /\ SameFields(stream[e][y], r(y))
             /\ stream[e][y].err => r(y).err
             /\ y \notin table[e] => r(y) = stream[e][y]
  <2>1. stream[e][y] \in StreamType
    BY DEF IInv, TypeOK
  <2>2. CASE y \in table[e]
    BY <2>1, <2>2, EndOfRead
  <2>3. CASE y \notin table[e]
    BY <2>1, <2>3 DEF SameFields
  <2> QED
    BY <2>2, <2>3
<1> HIDE DEF r
<1>3. /\ stream' \in [Side -> [Id -> StreamType]]
      /\ conn' \in [Side -> {"open", "closing", "closed"}]
      /\ conn'[e] = "closed"
      /\ \A x \in Side : x # e => conn'[x] = conn[x] /\ stream'[x] = stream[x]
      /\ \A y \in Id : stream'[e][y] = r(y)
  BY <1>1, <1>2 DEF IInv, TypeOK
<1>4. ASSUME NEW x \in Side, NEW y \in Id
      PROVE  /\ stream'[x][y] \in StreamType /\ SameFields(stream[x][y], stream'[x][y])
             /\ stream[x][y].err => stream'[x][y].err
             /\ y \notin table[x] => stream'[x][y] = stream[x][y]
  BY <1>2, <1>3 DEF SameFields
<1>5. \A x \in Side : Peer(x) \in Side /\ Peer(x) # x
  BY Sides
<1>6. TypeOK'
  BY <1>1, <1>3 DEF IInv, TypeOK
<1>7. Links'
  <2> SUFFICES ASSUME NEW x \in Side, NEW y \in Id
               PROVE  Link(wire[x], y, stream'[x][y], stream'[Peer(x)][y], y \in table[x],
                           conn'[x] = "closed", up)
    BY <1>1 DEF Links
  <2>1. PICK s, t, s2, t2 : /\ s = stream[x][y] /\ t = stream[Peer(x)][y]
                            /\ s2 = stream'[x][y] /\ t2 = stream'[Peer(x)][y]
    OBVIOUS
  <2>2. Link(wire[x], y, s, t, y \in table[x], conn[x] = "closed", up)
    BY <2>1 DEF IInv, Links
  <2>3. SameFields(s, s2) /\ SameFields(t, t2) /\ (s.err => s2.err)
    BY <1>4, <1>5, <2>1
  <2>4. Reads(s2) /\ Taken(s2) = Taken(s)
    BY <2>2, <2>3, SameReader DEF SameFields, Link
  <2>5. EndKnown(s2, t, conn'[x] = "closed")
    <3>1. CASE x = e
      BY <1>3, <3>1 DEF EndKnown
    <3>2. CASE x # e
      <4>1. s2 = s /\ conn'[x] = conn[x]
        BY <1>3, <2>1, <3>2
      <4> QED
        BY <2>2, <4>1 DEF Link
    <3> QED
      BY <3>1, <3>2
  <2>6. Link(wire[x], y, s2, t, y \in table[x], conn'[x] = "closed", up)
    BY <2>2, <2>3, <2>4, <2>5, LinkReader
  <2>7. Link(wire[x], y, s2, t2, y \in table[x], conn'[x] = "closed", up)
    BY <2>3, <2>6, LinkWriter DEF SameFields
  <2> QED
    BY <2>1, <2>7
<1>8. Unknown'
  <2> SUFFICES ASSUME NEW y \in Id, y \notin handle[OfSide(y)]
               PROVE  LET a == Peer(OfSide(y)) IN
                      /\ y \notin handle[a] \cup table[a] /\ stream'[a][y] = NewStream
                      /\ \A x \in Side : \A k \in 1 .. Len(wire[x]) : wire[x][k].id # y
    BY <1>1 DEF Unknown
  <2>1. Peer(OfSide(y)) \in Side
    BY Sides
  <2> QED
    BY <1>4, <2>1 DEF IInv, Unknown
<1>9. OpenFirst'
  <2> SUFFICES ASSUME NEW x \in Side, NEW k \in 1 .. Len(wire[x]), wire[x][k].type = "open"
               PROVE  stream'[x][wire[x][k].id] = NewStream
    BY <1>1 DEF IInv, OpenFirst
  <2>1. wire[x][k].id \in Id
    <3>1. wire[x][k] \in Frames
      BY DEF IInv, TypeOK
    <3> QED
      BY <3>1 DEF Frames
  <2> QED
    BY <1>4, <2>1 DEF IInv, OpenFirst
<1>10. Opened'
  <2>1. \A y \in Id : Peer(OfSide(y)) \in Side
    BY Sides
  <2> QED
    BY <1>1, <1>4, <2>1 DEF IInv, Opened
<1>11. Held'
  BY <1>1, <1>4, <1>5 DEF IInv, Held, SameFields
<1> QED
  BY <1>1, <1>6, <1>7, <1>8, <1>9, <1>10, <1>11 DEF IInv, Parity

LEMMA TransportFailsKeeps ==
  ASSUME IInv, TransportFails
  PROVE  IInv'
<1>1. /\ UNCHANGED <<conn, loop, nextID, table, opening, handle, stream>> /\ up' = FALSE
  BY DEF TransportFails
<1>2. ASSUME NEW x \in Side
      PROVE  /\ wire'[x] \in Seq(Frames) /\ Len(wire'[x]) \in 0 .. Len(wire[x])
             /\ \A k \in 1 .. Len(wire'[x]) : k \in 1 .. Len(wire[x]) /\ wire'[x][k] = wire[x][k]
             /\ wire[x] \in Seq(Frames) /\ Len(wire[x]) \in Nat
  <2>1. wire[x] \in Seq(Frames)
    BY DEF IInv, TypeOK
  <2>2. PICK n \in 0 .. Len(wire[x]) : wire'[x] = SubSeq(wire[x], 1, n)
    BY DEF TransportFails, Side
  <2>3. wire'[x] \in Seq(Frames) /\ Len(wire'[x]) = n
        /\ \A k \in 1 .. n : wire'[x][k] = wire[x][k]
    BY <2>1, <2>2, PrefixSeq
  <2> QED
    BY <2>1, <2>3
<1>3. wire' \in [Side -> Seq(Frames)]
  <2>1. wire' = [e \in Side |-> wire'[e]]
    BY DEF TransportFails
  <2> QED
    BY <1>2, <2>1
<1>4. TypeOK'
  BY <1>1, <1>3 DEF IInv, TypeOK
<1>5. Links'
  <2> SUFFICES ASSUME NEW x \in Side, NEW y \in Id
               PROVE  Link(wire'[x], y, stream[x][y], stream[Peer(x)][y], y \in table[x],
                           conn[x] = "closed", FALSE)
    BY <1>1 DEF Links
  <2>1. Link(wire[x], y, stream[x][y], stream[Peer(x)][y], y \in table[x], conn[x] = "closed", up)
    BY DEF IInv, Links
  <2> QED
    BY <1>2, <2>1, LinkPrefix
<1>6. Unknown'
  BY <1>1, <1>2 DEF IInv, Unknown
<1>7. OpenFirst'
  <2> SUFFICES ASSUME NEW x \in Side, NEW k \in 1 .. Len(wire'[x]), wire'[x][k].type = "open"
               PROVE  LET y == wire'[x][k].id IN
                      /\ x = Peer(OfSide(y)) /\ y \notin handle[x] \cup table[x]
                      /\ stream[x][y] = NewStream
                      /\ \A j \in 1 .. k - 1 : wire'[x][j].id # y
    BY <1>1 DEF OpenFirst
  <2>1. k \in 1 .. Len(wire[x]) /\ wire'[x][k] = wire[x][k]
    BY <1>2
  <2>2. \A j \in 1 .. k - 1 : wire'[x][j] = wire[x][j]
    BY <1>2
  <2> QED
    BY <2>1, <2>2 DEF IInv, OpenFirst
<1>8. Opened'
  BY <1>1 DEF IInv, Opened
<1>9. Held'
  BY <1>1 DEF IInv, Held
<1> QED
  BY <1>1, <1>4, <1>5, <1>6, <1>7, <1>8, <1>9 DEF IInv, Parity

(* A frame is taken from the wire of e. *)
Takes1(e, f) ==
    /\ wire[e] # <<>> /\ wire' = [wire EXCEPT ![e] = Tail(@)] /\ f = Head(wire[e])
    /\ UNCHANGED <<conn, loop, nextID, opening, up>>

LEMMA TakenFrame ==
  ASSUME IInv, NEW e \in Side, NEW f, Takes1(e, f)
  PROVE  /\ wire' \in [Side -> Seq(Frames)] /\ wire'[Peer(e)] = wire[Peer(e)]
         /\ IsTail(wire[e], wire'[e]) /\ f = wire[e][1] /\ f \in Frames /\ f.id \in Id
         /\ f.id \in handle[OfSide(f.id)]
         /\ \A x \in Side : \A k \in 1 .. Len(wire'[x]) :
              \E j \in 1 .. Len(wire[x]) : wire'[x][k] = wire[x][j]
<1>1. wire \in [Side -> Seq(Frames)] /\ Peer(e) # e /\ Peer(e) \in Side
  BY Sides DEF IInv, TypeOK
<1>2. /\ IsTail(wire[e], Tail(wire[e])) /\ Tail(wire[e]) \in Seq(Frames)
      /\ f = wire[e][1] /\ f \in Frames
  BY <1>1, TakeIsTail DEF Takes1
<1>3. /\ wire' \in [Side -> Seq(Frames)] /\ wire'[Peer(e)] = wire[Peer(e)]
      /\ wire'[e] = Tail(wire[e]) /\ \A x \in Side : x # e => wire'[x] = wire[x]
  BY <1>1, <1>2 DEF Takes1
<1>4. f.id \in Id
  BY <1>2 DEF Frames
<1>5. f.id \in handle[OfSide(f.id)]
  <2>1. 1 \in 1 .. Len(wire[e])
    BY <1>2 DEF IsTail
  <2> QED
    BY <1>2, <1>4, <2>1 DEF IInv, Unknown
<1>6. ASSUME NEW x \in Side, NEW k \in 1 .. Len(wire'[x])
      PROVE  \E j \in 1 .. Len(wire[x]) : wire'[x][k] = wire[x][j]
  <2>1. CASE x = e
    <3>1. k + 1 \in 1 .. Len(wire[e]) /\ wire'[e][k] = wire[e][k + 1]
      BY <1>2, <1>3, <2>1 DEF IsTail
    <3> QED
      BY <2>1, <3>1
  <2>2. CASE x # e
    BY <1>3, <2>2
  <2> QED
    BY <2>1, <2>2
<1> QED
  BY <1>2, <1>3, <1>4, <1>5, <1>6

(* The frames that are still on the way, and STREAM_OPEN among them. *)
LEMMA TakenOpens ==
  ASSUME IInv, NEW e \in Side, NEW f, Takes1(e, f),
         NEW x \in Side, NEW k \in 1 .. Len(wire'[x]), wire'[x][k].type = "open"
  PROVE  LET y == wire'[x][k].id IN
         /\ y \in Id /\ x = Peer(OfSide(y)) /\ y \notin handle[x] \cup table[x]
         /\ stream[x][y] = NewStream
         /\ x = e => y # f.id
         /\ \A j \in 1 .. k - 1 : wire'[x][j].id # y
<1>1. /\ wire'[Peer(e)] = wire[Peer(e)]
      /\ IsTail(wire[e], wire'[e]) /\ f = wire[e][1]
      /\ x = e \/ x = Peer(e)
  BY TakenFrame, Sides
<1>2. ASSUME NEW m \in 1 .. Len(wire[x]), wire[x][m].type = "open"
      PROVE  LET y == wire[x][m].id IN
             /\ y \in Id /\ x = Peer(OfSide(y)) /\ y \notin handle[x] \cup table[x]
             /\ stream[x][y] = NewStream
             /\ \A j \in 1 .. m - 1 : wire[x][j].id # y
  <2>1. wire[x][m].id \in Id
    <3>1. wire[x][m] \in Frames
      BY DEF IInv, TypeOK
    <3> QED
      BY <3>1 DEF Frames
  <2> QED
    BY <1>2, <2>1 DEF IInv, OpenFirst
<1>3. CASE x = e
  <2>1. /\ k + 1 \in 1 .. Len(wire[e]) /\ wire'[e][k] = wire[e][k + 1]
        /\ 1 \in 1 .. (k + 1) - 1
        /\ \A j \in 1 .. k - 1 : j + 1 \in 1 .. (k + 1) - 1 /\ j \in 1 .. Len(wire'[e])
    BY <1>1, <1>3 DEF IsTail
  <2>2. \A j \in 1 .. k - 1 : wire'[e][j] = wire[e][j + 1]
    BY <1>1, <2>1 DEF IsTail
  <2>3. wire[x][k + 1].type = "open" /\ wire'[x][k].id = wire[x][k + 1].id
    BY <1>3, <2>1
  <2>4. LET y == wire[x][k + 1].id IN
        /\ y \in Id /\ x = Peer(OfSide(y)) /\ y \notin handle[x] \cup table[x]
        /\ stream[x][y] = NewStream
        /\ \A j \in 1 .. (k + 1) - 1 : wire[x][j].id # y
    BY <1>2, <1>3, <2>1, <2>3
  <2> QED
    BY <1>1, <1>3, <2>1, <2>2, <2>3, <2>4
<1>4. CASE x = Peer(e)
  <2>1. wire'[x] = wire[x] /\ x # e
    BY <1>1, <1>4, Sides
  <2> QED
    BY <1>2, <2>1
<1> QED
  BY <1>1, <1>3, <1>4

(* A STREAM_OPEN stays on the way while another frame is taken. *)
LEMMA TakenLater ==
  ASSUME IInv, NEW e \in Side, NEW f, Takes1(e, f), NEW x \in Side, NEW y,
         HasOpen(wire[x], y), ~(x = e /\ Is(f, "open", y))
  PROVE  HasOpen(wire'[x], y)
<1>1. /\ wire'[Peer(e)] = wire[Peer(e)]
      /\ IsTail(wire[e], wire'[e]) /\ f = wire[e][1]
      /\ x = e \/ x = Peer(e)
  BY TakenFrame, Sides
<1>2. CASE x = e
  <2>1. PICK k \in 1 .. Len(wire[e]) : Is(wire[e][k], "open", y)
    BY <1>2 DEF HasOpen
  <2>2. k # 1
    BY <1>1, <1>2, <2>1
  <2>3. k - 1 \in 1 .. Len(wire'[e]) /\ wire'[e][k - 1] = wire[e][k]
    BY <1>1, <2>2 DEF IsTail
  <2> QED
    BY <1>2, <2>1, <2>3 DEF HasOpen
<1>3. CASE x = Peer(e)
  BY <1>1, <1>3
<1> QED
  BY <1>1, <1>2, <1>3

(* What it means for the streams: r is what becomes of the stream of f,     *)
(* which is in the table afterwards or not (`there`).                       *)
LEMMA TakenLinks ==
  ASSUME IInv, NEW e \in Side, NEW f, Takes1(e, f),
         NEW r \in StreamType, OneStream(e, f.id, r),
         r.sent = stream[e][f.id].sent, r.closed = stream[e][f.id].closed,
         r.closing = stream[e][f.id].closing, r.closeAt = stream[e][f.id].closeAt,
         NEW there \in BOOLEAN,
         \A x \in Side, y \in Id : ~(x = e /\ y = f.id) => (y \in table'[x] <=> y \in table[x]),
         f.id \in table'[e] <=> there,
         Link(wire'[e], f.id, r, stream[Peer(e)][f.id], there, conn[e] = "closed", up)
  PROVE  Links'
<1>1. /\ wire'[Peer(e)] = wire[Peer(e)] /\ f.id \in Id
      /\ IsTail(wire[e], wire'[e]) /\ f = wire[e][1]
      /\ UNCHANGED <<conn, up>>
  BY TakenFrame DEF Takes1
<1>2. \A x \in Side, y \in Id :
        stream'[x][y] = IF x = e /\ y = f.id THEN r ELSE stream[x][y]
  BY <1>1, StreamAt DEF IInv
<1>3. Peer(e) \in Side /\ Peer(e) # e /\ Peer(Peer(e)) = e
  BY Sides
<1> SUFFICES ASSUME NEW x \in Side, NEW y \in Id
             PROVE  Link(wire'[x], y, stream'[x][y], stream'[Peer(x)][y], y \in table'[x],
                         conn[x] = "closed", up)
  BY <1>1 DEF Links
<1>4. Link(wire[x], y, stream[x][y], stream[Peer(x)][y], y \in table[x], conn[x] = "closed", up)
  BY DEF IInv, Links
<1>5. x = e \/ x = Peer(e)
  BY Sides
<1>6. CASE x = e /\ y = f.id
  <2>1. stream'[x][y] = r /\ stream'[Peer(x)][y] = stream[Peer(x)][y]
        /\ (y \in table'[x]) = there
    BY <1>2, <1>3, <1>6
  <2> QED
    BY <1>6, <2>1
<1>7. CASE x = e /\ y # f.id
  <2>1. stream'[x][y] = stream[x][y] /\ stream'[Peer(x)][y] = stream[Peer(x)][y]
        /\ (y \in table'[x]) = (y \in table[x])
    BY <1>2, <1>3, <1>7
  <2> DEFINE h == y \in table[x]
  <2>2. h \in BOOLEAN /\ (h <=> h \/ Is(wire[x][1], "open", y))
    BY <1>1, <1>7 DEF Is
  <2>3. IsTail(wire[x], wire'[x]) /\ ~Is(wire[x][1], "data", y) /\ ~Is(wire[x][1], "close", y)
    BY <1>1, <1>7 DEF Is
  <2>4. Link(wire[x], y, stream[x][y], stream[Peer(x)][y], h, conn[x] = "closed", up)
    BY <1>4
  <2> HIDE DEF h
  <2>5. Link(wire'[x], y, stream[x][y], stream[Peer(x)][y], h, conn[x] = "closed", up)
    BY <2>2, <2>3, <2>4, LinkTailOther
  <2>6. (y \in table'[x]) = h
    BY <2>1 DEF h
  <2> QED
    BY <2>1, <2>5, <2>6
<1>8. CASE x = Peer(e) /\ y = f.id
  <2>1. /\ stream'[x][y] = stream[x][y] /\ stream'[Peer(x)][y] = r /\ wire'[x] = wire[x]
        /\ (y \in table'[x]) = (y \in table[x])
        /\ stream[Peer(x)][y] = stream[e][f.id]
    BY <1>1, <1>2, <1>3, <1>8
  <2>2. PICK t : t = stream[Peer(x)][y] /\ r.sent = t.sent /\ r.closed = t.closed
                 /\ r.closing = t.closing /\ r.closeAt = t.closeAt
    BY <2>1
  <2>3. Link(wire[x], y, stream[x][y], t, y \in table[x], conn[x] = "closed", up)
    BY <1>4, <2>2
  <2>4. Link(wire[x], y, stream[x][y], r, y \in table[x], conn[x] = "closed", up)
    BY <2>2, <2>3, LinkWriter
  <2> QED
    BY <2>1, <2>4
<1>9. CASE x = Peer(e) /\ y # f.id
  <2>1. /\ stream'[x][y] = stream[x][y] /\ stream'[Peer(x)][y] = stream[Peer(x)][y]
        /\ wire'[x] = wire[x] /\ (y \in table'[x]) = (y \in table[x])
    BY <1>1, <1>2, <1>3, <1>9
  <2> QED
    BY <1>4, <2>1
<1> QED
  BY <1>5, <1>6, <1>7, <1>8, <1>9

LEMMA TakenKeeps ==
  ASSUME IInv, NEW e \in Side, NEW f, Takes1(e, f),
         NEW r \in StreamType, OneStream(e, f.id, r),
         r.sent = stream[e][f.id].sent, r.closed = stream[e][f.id].closed,
         r.closing = stream[e][f.id].closing, r.closeAt = stream[e][f.id].closeAt,
         r.left = stream[e][f.id].left,
         table' \in [Side -> SUBSET Id], NEW there \in BOOLEAN,
         \A x \in Side, y \in Id : ~(x = e /\ y = f.id) => (y \in table'[x] <=> y \in table[x]),
         f.id \in table'[e] <=> there,
         handle' \in [Side -> SUBSET Id],
         \A x \in Side, y \in Id : /\ y \in handle[x] => y \in handle'[x]
                                   /\ y \in handle'[x] => y \in handle[x] \/ (x = e /\ y = f.id),
         Link(wire'[e], f.id, r, stream[Peer(e)][f.id], there, conn[e] = "closed", up),
         stream[e][f.id].err \/ f.id \in table[e] \/ HasOpen(wire[e], f.id)
           => r.err \/ there \/ HasOpen(wire'[e], f.id),
         f.id \in handle'[e] => there \/ (r.err /\ stream[Peer(e)][f.id].closed)
  PROVE  IInv'
<1> DEFINE i == f.id
<1>1. /\ wire' \in [Side -> Seq(Frames)] /\ i \in Id /\ i \in handle[OfSide(i)]
      /\ \A x \in Side : \A k \in 1 .. Len(wire'[x]) :
           \E j \in 1 .. Len(wire[x]) : wire'[x][k] = wire[x][j]
      /\ UNCHANGED <<conn, loop, nextID, opening, up>>
  BY TakenFrame DEF Takes1
<1>2. /\ stream' \in [Side -> [Id -> StreamType]]
      /\ \A x \in Side, y \in Id :
           stream'[x][y] = IF x = e /\ y = i THEN r ELSE stream[x][y]
  BY <1>1, StreamAt DEF IInv
<1>3. \A x \in Side, y \in Id : ~(x = e /\ y = i) =>
        /\ stream'[x][y] = stream[x][y]
        /\ y \in table'[x] <=> y \in table[x]
        /\ y \in handle'[x] <=> y \in handle[x]
  BY <1>2
<1>4. /\ stream'[e][i] = r /\ (i \in table'[e] <=> there) /\ (i \in handle[e] => i \in handle'[e])
  BY <1>1, <1>2
<1>5. /\ \A y \in Id : /\ OfSide(y) \in Side /\ Peer(OfSide(y)) \in Side
                       /\ Peer(OfSide(y)) # OfSide(y)
      /\ \A x \in Side : Peer(x) \in Side /\ Peer(x) # x /\ Peer(Peer(x)) = x
      /\ \A x \in Side : x = e \/ x = Peer(e)
  BY Sides
<1>6. TypeOK'
  BY <1>1, <1>2 DEF IInv, TypeOK
<1>7. Links'
  BY TakenLinks
<1>8. Unknown'
  <2> SUFFICES ASSUME NEW y \in Id, y \notin handle'[OfSide(y)]
               PROVE  LET a == Peer(OfSide(y)) IN
                      /\ y \notin handle'[a] \cup table'[a] /\ stream'[a][y] = NewStream
                      /\ \A x \in Side : \A k \in 1 .. Len(wire'[x]) : wire'[x][k].id # y
    BY DEF Unknown
  <2>1. y \notin handle[OfSide(y)] /\ y # i
    BY <1>1, <1>5
  <2>2. LET a == Peer(OfSide(y)) IN
        /\ y \notin handle[a] \cup table[a] /\ stream[a][y] = NewStream
        /\ \A x \in Side : \A k \in 1 .. Len(wire[x]) : wire[x][k].id # y
    BY <2>1 DEF IInv, Unknown
  <2>3. LET a == Peer(OfSide(y)) IN
        y \notin handle'[a] \cup table'[a] /\ stream'[a][y] = NewStream
    BY <1>3, <1>5, <2>1, <2>2
  <2>4. ASSUME NEW x \in Side, NEW k \in 1 .. Len(wire'[x]) PROVE wire'[x][k].id # y
    <3>1. PICK j \in 1 .. Len(wire[x]) : wire'[x][k] = wire[x][j]
      BY <1>1
    <3> QED
      BY <2>2, <3>1
  <2> QED
    BY <2>3, <2>4
<1>9. OpenFirst'
  <2> SUFFICES ASSUME NEW x \in Side, NEW k \in 1 .. Len(wire'[x]), wire'[x][k].type = "open"
               PROVE  LET y == wire'[x][k].id IN
                      /\ x = Peer(OfSide(y)) /\ y \notin handle'[x] \cup table'[x]
                      /\ stream'[x][y] = NewStream
                      /\ \A j \in 1 .. k - 1 : wire'[x][j].id # y
    BY DEF OpenFirst
  <2>1. LET y == wire'[x][k].id IN
        /\ y \in Id /\ x = Peer(OfSide(y)) /\ y \notin handle[x] \cup table[x]
        /\ stream[x][y] = NewStream
        /\ x = e => y # f.id
        /\ \A j \in 1 .. k - 1 : wire'[x][j].id # y
    BY TakenOpens
  <2> QED
    BY <1>3, <2>1
<1>10. Opened'
  <2> SUFFICES ASSUME NEW y \in Id
               PROVE  LET o == OfSide(y)
                          a == Peer(o)
                      IN  /\ y \in opening[o] => y \in table'[o] \ handle'[o] /\ y < nextID[o]
                          /\ y \notin opening[a]
                          /\ y \in handle'[o] => y < nextID[o]
                          /\ y \in handle'[o] /\ up =>
                                stream'[a][y].err \/ y \in table'[a] \/ HasOpen(wire'[a], y)
    BY <1>1 DEF Opened
  <2>1. LET o == OfSide(y)
            a == Peer(o)
        IN  /\ y \in opening[o] => y \in table[o] \ handle[o] /\ y < nextID[o]
            /\ y \notin opening[a]
            /\ y \in handle[o] => y < nextID[o]
            /\ y \in handle[o] /\ up =>
                  stream[a][y].err \/ y \in table[a] \/ HasOpen(wire[a], y)
    BY DEF IInv, Opened
  <2>2. y \in handle'[OfSide(y)] <=> y \in handle[OfSide(y)]
    BY <1>1, <1>3, <1>5
  <2>3. y \in opening[OfSide(y)] => y # i
    BY <1>1, <2>1
  <2>4. CASE y = i /\ Peer(OfSide(y)) = e
    BY <1>1, <1>4, <2>1, <2>2, <2>3, <2>4
  <2>5. CASE ~(y = i /\ Peer(OfSide(y)) = e)
    <3>1. HasOpen(wire[Peer(OfSide(y))], y) => HasOpen(wire'[Peer(OfSide(y))], y)
      BY <1>5, <2>5, TakenLater DEF Is
    <3> QED
      BY <1>3, <1>5, <2>1, <2>2, <2>3, <2>5, <3>1
  <2> QED
    BY <2>4, <2>5
<1>11. Held'
  <2> SUFFICES ASSUME NEW x \in Side, NEW y \in Id
               PROVE  LET s == stream'[x][y] IN
                      /\ y \notin handle'[x] => s.left = 0 /\ ~s.closing /\ ~s.closed /\ s.sent = 0
                      /\ s.sent + s.left <= MaxData
                      /\ s.closing => s.closed
                      /\ y \in handle'[x] => y \in table'[x] \/ (s.err /\ stream'[Peer(x)][y].closed)
    BY DEF Held
  <2>1. LET s == stream[x][y] IN
        /\ y \notin handle[x] => s.left = 0 /\ ~s.closing /\ ~s.closed /\ s.sent = 0
        /\ s.sent + s.left <= MaxData
        /\ s.closing => s.closed
        /\ y \in handle[x] => y \in table[x] \/ (s.err /\ stream[Peer(x)][y].closed)
    BY DEF IInv, Held
  <2>2. stream'[Peer(x)][y].closed = stream[Peer(x)][y].closed
    BY <1>3, <1>4, <1>5
  <2>3. CASE x = e /\ y = i
    BY <1>4, <2>1, <2>2, <2>3
  <2>4. CASE ~(x = e /\ y = i)
    BY <1>3, <2>1, <2>2, <2>4
  <2> QED
    BY <2>3, <2>4
<1> QED
  BY <1>1, <1>6, <1>7, <1>8, <1>9, <1>10, <1>11 DEF IInv, Parity

(* A stream that is left as it is. *)
LEMMA SameStream ==
  ASSUME TypeOK, NEW e \in Side, NEW i \in Id, stream' = stream
  PROVE  OneStream(e, i, stream[e][i])
  BY DEF TypeOK, OneStream

LEMMA DispatchDataKeeps ==
  ASSUME IInv, NEW e \in Side, NEW f, Takes1(e, f), f.type = "data", DispatchData(e, f)
  PROVE  IInv'
<1> DEFINE i == f.id
           s == stream[e][i]
           t == stream[Peer(e)][i]
           h == i \in table[e]
<1>1. /\ IsTail(wire[e], wire'[e]) /\ f = wire[e][1] /\ f \in Frames /\ i \in Id
  BY TakenFrame
<1>2. /\ s \in StreamType /\ t \in StreamType
      /\ Link(wire[e], i, s, t, h, conn[e] = "closed", up)
  BY <1>1, Ends
<1>3. Is(wire[e][1], "data", i) /\ h \in BOOLEAN /\ wire[e][1].n = f.n
  BY <1>1 DEF Is
<1>4. table' = table /\ handle' = handle
  BY DEF DispatchData
<1>5. table \in [Side -> SUBSET Id] /\ handle \in [Side -> SUBSET Id]
  BY DEF IInv, TypeOK
<1>6. /\ \A x \in Side, y \in Id : ~(x = e /\ y = i) => (y \in table'[x] <=> y \in table[x])
      /\ i \in table'[e] <=> h
  BY <1>4
<1>7. HasOpen(wire[e], i) => HasOpen(wire'[e], i)
  <2>1. ~Is(f, "open", i)
    BY DEF Is
  <2> QED
    BY <2>1, TakenLater
<1>8. i \in handle'[e] => h \/ (s.err /\ t.closed)
  BY <1>1, <1>4 DEF IInv, Held
<1>9. CASE s.err
  <2>1. stream' = stream
    BY <1>1, <1>9 DEF DispatchData, DeliverData, IInv, TypeOK
  <2>2. OneStream(e, i, s)
    BY <1>1, <2>1, SameStream DEF IInv
  <2> HIDE DEF h
  <2>3. Link(wire'[e], i, s, t, h, conn[e] = "closed", up)
    BY <1>1, <1>2, <1>3, <1>9, LinkTailDropped
  <2> QED
    BY <1>2, <1>3, <1>4, <1>5, <1>6, <1>8, <1>9, <2>2, <2>3, TakenKeeps
<1>10. CASE ~s.err
  <2> DEFINE r == DeliverData(s, f.n)
  <2>1. f.n \in 1 .. MaxData
    <3>1. 1 \in 1 .. Len(wire[e])
      BY <1>1 DEF IsTail
    <3>2. f.n \in 1 .. t.sent
      BY <1>1, <1>2, <1>3, <3>1 DEF Link, InOrder
    <3>3. t.sent \in 0 .. MaxData /\ MaxData \in Nat
      BY <1>2, MuxAssumption DEF StreamType
    <3> QED
      BY <3>2, <3>3
  <2> HIDE DEF h, s, t
  <2>2. h /\ r \in StreamType /\ Link(wire'[e], i, r, t, h, conn[e] = "closed", up)
    BY <1>1, <1>2, <1>3, <1>10, <2>1, LinkTailData
  <2>3. OneStream(e, i, r)
    BY <2>2 DEF DispatchData, OneStream, h, s
  <2>4. /\ r.sent = s.sent /\ r.closed = s.closed /\ r.closing = s.closing
        /\ r.closeAt = s.closeAt /\ r.left = s.left
    BY <1>2, <1>10 DEF DeliverData, StreamType
  <2> HIDE DEF r
  <2>5. r \in StreamType /\ Link(wire'[e], i, r, t, h, conn[e] = "closed", up)
    BY <2>2
  <2>6. /\ s.err \/ i \in table[e] \/ HasOpen(wire[e], i) => r.err \/ h \/ HasOpen(wire'[e], i)
        /\ i \in handle'[e] => h \/ (r.err /\ t.closed)
    BY <2>2
  <2> USE DEF s, t
  <2> QED
    BY <1>3, <1>4, <1>5, <1>6, <2>3, <2>4, <2>5, <2>6, TakenKeeps
<1> QED
  BY <1>9, <1>10

LEMMA DispatchOpenKeeps ==
  ASSUME IInv, NEW e \in Side, NEW f, Takes1(e, f), f.type = "open", DispatchOpen(e, f)
  PROVE  IInv'
<1> DEFINE i == f.id
           s == stream[e][i]
           t == stream[Peer(e)][i]
           h == i \in table[e]
           there == TRUE
<1>1. /\ IsTail(wire[e], wire'[e]) /\ f = wire[e][1] /\ f \in Frames /\ i \in Id
  BY TakenFrame
<1>2. /\ s \in StreamType /\ t \in StreamType
      /\ Link(wire[e], i, s, t, h, conn[e] = "closed", up)
  BY <1>1, Ends
<1>3. ~Is(wire[e][1], "data", i) /\ ~Is(wire[e][1], "close", i) /\ Is(wire[e][1], "open", i)
      /\ h \in BOOLEAN
  BY <1>1 DEF Is
<1>4. s = NewStream
  <2>1. 1 \in 1 .. Len(wire[e])
    BY <1>1 DEF IsTail
  <2> QED
    BY <1>1, <2>1 DEF IInv, OpenFirst
<1>5. OneStream(e, i, s)
  BY <1>4 DEF OneStream, DispatchOpen
<1>6. /\ table' \in [Side -> SUBSET Id] /\ handle' \in [Side -> SUBSET Id]
      /\ \A x \in Side, y \in Id : y \in table'[x] <=> y \in table[x] \/ (x = e /\ y = i)
      /\ \A x \in Side, y \in Id : y \in handle[x] => y \in handle'[x]
      /\ \A x \in Side, y \in Id : y \in handle'[x] => y \in handle[x] \/ (x = e /\ y = i)
  <2>1. /\ table' = [table EXCEPT ![e] = @ \cup {i}]
        /\ handle' = handle \/ handle' = [handle EXCEPT ![e] = @ \cup {i}]
    BY DEF DispatchOpen
  <2>2. table \in [Side -> SUBSET Id] /\ handle \in [Side -> SUBSET Id]
    BY DEF IInv, TypeOK
  <2> HIDE DEF i
  <2> QED
    BY <1>1, <2>1, <2>2
<1>b. /\ \A x \in Side, y \in Id : ~(x = e /\ y = i) => (y \in table'[x] <=> y \in table[x])
      /\ i \in table'[e] <=> there
      /\ there \in BOOLEAN
  BY <1>1, <1>6
<1>c. /\ s.err \/ i \in table[e] \/ HasOpen(wire[e], i) => s.err \/ there \/ HasOpen(wire'[e], i)
      /\ i \in handle'[e] => there \/ (s.err /\ t.closed)
  OBVIOUS
<1>d. there <=> h \/ Is(wire[e][1], "open", i)
  BY <1>3
<1> HIDE DEF h, there
<1>7. Link(wire'[e], i, s, t, there, conn[e] = "closed", up)
  BY <1>1, <1>2, <1>3, <1>b, <1>d, LinkTailOther
<1>8. PICK r : r = s
  OBVIOUS
<1>9. /\ r \in StreamType /\ OneStream(e, i, r)
      /\ r.sent = s.sent /\ r.closed = s.closed /\ r.closing = s.closing
      /\ r.closeAt = s.closeAt /\ r.left = s.left
      /\ Link(wire'[e], i, r, t, there, conn[e] = "closed", up)
      /\ s.err \/ i \in table[e] \/ HasOpen(wire[e], i) => r.err \/ there \/ HasOpen(wire'[e], i)
      /\ i \in handle'[e] => there \/ (r.err /\ t.closed)
  BY <1>2, <1>5, <1>7, <1>8, <1>c
<1>10. \A x \in Side, y \in Id : /\ y \in handle[x] => y \in handle'[x]
                                 /\ y \in handle'[x] => y \in handle[x] \/ (x = e /\ y = i)
  BY <1>6
<1>11. table' \in [Side -> SUBSET Id] /\ handle' \in [Side -> SUBSET Id]
  BY <1>6
<1> QED
  BY <1>9, <1>10, <1>11, <1>b, TakenKeeps

LEMMA DispatchCloseKeeps ==
  ASSUME IInv, NEW e \in Side, NEW f, Takes1(e, f), f.type = "close", DispatchClose(e, f)
  PROVE  IInv'
<1> DEFINE i == f.id
           s == stream[e][i]
           t == stream[Peer(e)][i]
           h == i \in table[e]
           there == FALSE
           r == IF h THEN [s EXCEPT !.err = TRUE] ELSE s
<1>1. /\ IsTail(wire[e], wire'[e]) /\ f = wire[e][1] /\ f \in Frames /\ i \in Id
  BY TakenFrame
<1>2. /\ s \in StreamType /\ t \in StreamType
      /\ Link(wire[e], i, s, t, h, conn[e] = "closed", up)
  BY <1>1, Ends
<1>3. /\ Is(wire[e][1], "close", i) /\ h \in BOOLEAN
  BY <1>1 DEF Is
<1>4. ~HasOpen(wire'[e], i)
  <2> SUFFICES ASSUME NEW k \in 1 .. Len(wire'[e]), Is(wire'[e][k], "open", i) PROVE FALSE
    BY DEF HasOpen
  <2> QED
    BY TakenOpens DEF Is
<1>5. /\ r \in StreamType /\ SameFields(s, r) /\ (h => r.err) /\ (~h => r = s)
  <2>1. CASE h
    BY <1>2, <2>1, EndOfRead
  <2>2. CASE ~h
    BY <1>2, <2>2 DEF SameFields
  <2> QED
    BY <2>1, <2>2
<1>6. OneStream(e, i, r)
  <2>1. CASE h
    BY <1>1, <2>1 DEF OneStream, DispatchClose, IInv, TypeOK
  <2>2. CASE ~h
    <3>1. stream' = stream /\ r = s
      BY <2>2 DEF DispatchClose
    <3> QED
      BY <1>1, <3>1, SameStream DEF IInv
  <2> QED
    BY <2>1, <2>2
<1>7. /\ table' \in [Side -> SUBSET Id] /\ handle' \in [Side -> SUBSET Id] /\ handle' = handle
      /\ \A x \in Side, y \in Id : ~(x = e /\ y = i) => (y \in table'[x] <=> y \in table[x])
      /\ i \in table'[e] <=> FALSE
  <2>1. table' = [table EXCEPT ![e] = @ \ {i}] /\ handle' = handle
    BY DEF DispatchClose
  <2>2. table \in [Side -> SUBSET Id] /\ handle \in [Side -> SUBSET Id]
    BY DEF IInv, TypeOK
  <2> HIDE DEF i
  <2>3. \A x \in Side, y \in Id : y \in table'[x] <=> y \in table[x] /\ ~(x = e /\ y = i)
    BY <1>1, <2>1, <2>2
  <2>4. table' \in [Side -> SUBSET Id]
    BY <2>1, <2>2
  <2> QED
    BY <1>1, <2>1, <2>2, <2>3, <2>4
<1>8. i \in handle[e] => h \/ (s.err /\ t.closed)
  BY <1>1 DEF IInv, Held
<1>9. HasOpen(wire[e], i) => h \/ s.err
  <2>1. HasOpen(wire[e], i) => HasOpen(wire'[e], i)
    <3>1. ~Is(f, "open", i)
      BY DEF Is
    <3> QED
      BY <3>1, TakenLater
  <2> QED
    BY <1>4, <2>1
<1>a. /\ r.sent = s.sent /\ r.closed = s.closed /\ r.closing = s.closing
      /\ r.closeAt = s.closeAt /\ r.left = s.left
  BY <1>5 DEF SameFields
<1>b. s.err \/ h \/ HasOpen(wire[e], i) => r.err
  BY <1>5, <1>9
<1> HIDE DEF r
<1>10. t.closed /\ Link(wire'[e], i, r, t, FALSE, conn[e] = "closed", up)
  <2> HIDE DEF h, s, t
  <2> QED
    BY <1>1, <1>2, <1>3, <1>4, <1>5, LinkTailClose
<1>11. /\ i \in handle'[e] => there \/ (r.err /\ t.closed)
       /\ s.err \/ i \in table[e] \/ HasOpen(wire[e], i) => r.err \/ there \/ HasOpen(wire'[e], i)
       /\ Link(wire'[e], i, r, t, there, conn[e] = "closed", up)
       /\ i \in table'[e] <=> there
       /\ there \in BOOLEAN
  BY <1>7, <1>8, <1>10, <1>b
<1>12. \A x \in Side, y \in Id : /\ y \in handle[x] => y \in handle'[x]
                                 /\ y \in handle'[x] => y \in handle[x] \/ (x = e /\ y = i)
  BY <1>7
<1>13. /\ table' \in [Side -> SUBSET Id] /\ handle' \in [Side -> SUBSET Id]
       /\ \A x \in Side, y \in Id : ~(x = e /\ y = i) => (y \in table'[x] <=> y \in table[x])
  BY <1>7
<1> HIDE DEF h, there
<1> QED
  BY <1>5, <1>6, <1>11, <1>12, <1>13, <1>a, TakenKeeps

LEMMA DispatchKeeps ==
  ASSUME IInv, NEW e \in Side, Dispatch(e)
  PROVE  IInv'
<1> DEFINE f == Head(wire[e])
<1>1. Takes1(e, f)
  BY DEF Dispatch, Takes1
<1>2. \/ f.type = "open" /\ DispatchOpen(e, f)
      \/ f.type = "data" /\ DispatchData(e, f)
      \/ f.type = "close" /\ DispatchClose(e, f)
  BY DEF Dispatch
<1> HIDE DEF f
<1> QED
  BY <1>1, <1>2, DispatchOpenKeeps, DispatchDataKeeps, DispatchCloseKeeps

LEMMA StepInv == IInv /\ [Next]_vars => IInv'
<1> SUFFICES ASSUME IInv, [Next]_vars PROVE IInv'
  OBVIOUS
<1>1. CASE UNCHANGED vars
  BY <1>1 DEF vars, IInv, TypeOK, Links, Unknown, OpenFirst, Opened, Parity, Held
<1>2. CASE TransportFails
  BY <1>2, TransportFailsKeeps
<1>3. ASSUME NEW e \in Side, OpenStream(e) PROVE IInv'
  BY <1>3, OpenStreamKeeps
<1>4. ASSUME NEW e \in Side, Dispatch(e) PROVE IInv'
  BY <1>4, DispatchKeeps
<1>5. ASSUME NEW e \in Side, ReadFrameFails(e) \/ CloseConn(e) PROVE IInv'
  BY <1>5, ConnKeeps
<1>6. ASSUME NEW e \in Side, EndStreams(e) PROVE IInv'
  BY <1>6, EndStreamsKeeps
<1>7. ASSUME NEW e \in Side, NEW i \in Id, SendOpen(e, i) PROVE IInv'
  BY <1>7, SendOpenKeeps
<1>8. ASSUME NEW e \in Side, NEW i \in Id, SendData(e, i) PROVE IInv'
  BY <1>8, SendDataKeeps
<1>9. ASSUME NEW e \in Side, NEW i \in Id, CloseStream(e, i) PROVE IInv'
  BY <1>9, CloseStreamKeeps
<1>10. ASSUME NEW e \in Side, NEW i \in Id, SendClose(e, i) PROVE IInv'
  BY <1>10, SendCloseKeeps
<1>11. ASSUME NEW e \in Side, NEW i \in Id, NEW k \in 1 .. MaxChunks, Write(e, i, k) PROVE IInv'
  BY <1>11, WriteKeeps
<1>12. ASSUME NEW e \in Side, NEW i \in Id, NEW k \in 1 .. Unit, Read(e, i, k) PROVE IInv'
  BY <1>12, ReadKeeps
<1> QED
  BY <1>1, <1>2, <1>3, <1>4, <1>5, <1>6, <1>7, <1>8, <1>9, <1>10, <1>11, <1>12 DEF Next

(* Nothing has happened to a stream nobody has opened. *)
LEMMA NewStreamType ==
  /\ NewStream \in StreamType /\ Reads(NewStream) /\ Taken(NewStream) = 0
  /\ ~NewStream.err /\ ~NewStream.closed /\ ~NewStream.closing /\ NewStream.sent = 0
  /\ NewStream.left = 0
<1>1. /\ MaxData \in Nat /\ MaxChunks \in Nat /\ Unit \in Nat \ {0}
  BY MuxAssumption
<1>2. /\ 0 \in 0 .. Unit - 1 /\ 0 \in 0 .. MaxChunks /\ 0 \in 0 .. MaxData
  BY <1>1
<1>3. /\ NewStream.msgs = <<>> /\ NewStream.got = <<>> /\ NewStream.off = 0
      /\ ~NewStream.err /\ ~NewStream.closed /\ ~NewStream.closing
      /\ NewStream.sent = 0 /\ NewStream.left = 0
  BY DEF NewStream
<1>4. <<>> \in Seq(1 .. MaxData) /\ <<>> \in Seq((1 .. MaxData) \X (1 .. Unit))
  OBVIOUS
<1>5. NewStream \in StreamType
  BY <1>2, <1>4 DEF NewStream, StreamType
<1>6. Len(<<>>) = 0 /\ 0 \div Unit = 0
  <2>1. 0 = Unit * 0 + 0
    BY <1>1
  <2>2. (Unit * 0 + 0) \div Unit = 0
    BY <1>2, DivMod
  <2> QED
    BY <2>1, <2>2
<1>7. Consumed(NewStream) = 0
  BY <1>3, <1>6 DEF Consumed
<1>8. Reads(NewStream)
  <2>1. Unit * 0 + 0 = 0
    BY <1>1
  <2> QED
    BY <1>3, <1>6, <1>7, <2>1 DEF Reads
<1> QED
  BY <1>3, <1>5, <1>6, <1>7, <1>8 DEF Taken

LEMMA InitInv == Init => IInv
<1> SUFFICES ASSUME Init PROVE IInv
  OBVIOUS
<1>1. /\ \A x \in Side : /\ conn[x] = "open" /\ table[x] = {} /\ opening[x] = {}
                       /\ handle[x] = {} /\ wire[x] = <<>> /\ Len(wire[x]) = 0
      /\ \A x \in Side, y \in Id : stream[x][y] = NewStream
      /\ nextID["client"] = 1 /\ nextID["server"] = 2
      /\ up = TRUE
  BY DEF Init, Side
<1>2. TypeOK
  <2>1. NewStream \in StreamType
    BY NewStreamType
  <2>2. stream \in [Side -> [Id -> StreamType]]
    BY <2>1 DEF Init
  <2> QED
    BY <2>2 DEF Init, TypeOK
<1>3. \A x \in Side : Peer(x) \in Side
  BY Sides
<1>4. Links
  <2> SUFFICES ASSUME NEW x \in Side, NEW y \in Id
               PROVE  Link(wire[x], y, stream[x][y], stream[Peer(x)][y], y \in table[x],
                           conn[x] = "closed", up)
    BY DEF Links
  <2>1. PICK w, s : w = wire[x] /\ s = NewStream
    OBVIOUS
  <2>2. /\ Len(w) = 0 /\ stream[x][y] = s /\ stream[Peer(x)][y] = s
    BY <1>1, <1>3, <2>1
  <2>3. Reads(s) /\ Taken(s) = 0 /\ ~s.err /\ ~s.closed /\ s.sent = 0
    BY <2>1, NewStreamType
  <2>4. /\ InOrder(w, y, s, s) /\ FindStream(w, y, s, y \in table[x]) /\ CloseInOrder(w, y, s, s)
        /\ EndKnown(s, s, conn[x] = "closed") /\ AllSent(w, y, s, s)
        /\ CloseComes(w, y, s, y \in table[x])
    BY <2>2, <2>3 DEF InOrder, FindStream, CloseInOrder, EndKnown, AllSent, CloseComes
  <2> QED
    BY <2>1, <2>2, <2>3, <2>4 DEF Link
<1>5. Unknown
  <2>1. \A y \in Id : Peer(OfSide(y)) \in Side
    BY Sides
  <2> QED
    BY <1>1, <2>1 DEF Unknown
<1>6. OpenFirst
  BY <1>1 DEF OpenFirst
<1>7. Opened
  <2>1. \A y \in Id : Peer(OfSide(y)) \in Side /\ OfSide(y) \in Side
    BY Sides
  <2> QED
    BY <1>1, <2>1 DEF Opened
<1>8. Parity
  BY <1>1 DEF Parity, Side, OfSide
<1>9. Held
  <2>1. NewStream.left = 0 /\ NewStream.sent = 0 /\ ~NewStream.closing /\ ~NewStream.closed
    BY NewStreamType
  <2>2. 0 + 0 <= MaxData
    BY MuxAssumption
  <2> QED
    BY <1>1, <2>1, <2>2 DEF Held
<1> QED
  BY <1>2, <1>4, <1>5, <1>6, <1>7, <1>8, <1>9 DEF IInv

(* The inductive invariant holds of every behaviour. *)
THEOREM Inductive == Spec => []IInv
  BY InitInv, StepInv, PTL DEF Spec

-----------------------------------------------------------------------------
(* Type correctness, with two ends, for every value of the constants. *)
THEOREM TypeCorrect == Spec => []TypeOK
<1>1. IInv => TypeOK
  BY DEF IInv
<1> QED
  BY <1>1, Inductive, PTL

(* A place in message d + 1 at most is within d + 1 messages. *)
LEMMA Within ==
  ASSUME NEW d \in Nat, NEW off \in 0 .. Unit - 1, off = 0 \/ d # 0
  PROVE  off <= Unit * d
<1>1. Unit \in Nat \ {0}
  BY MuxAssumption
<1>2. CASE d = 0
  BY <1>1, <1>2
<1>3. CASE d # 0
  <2>1. d - 1 \in Nat /\ 1 + (d - 1) = d
    BY <1>3
  <2>2. Unit * d = Unit * 1 + Unit * (d - 1) /\ Unit * (d - 1) \in Nat
    BY <2>1, Distributes
  <2>3. Unit * 1 = Unit
    BY <1>1
  <2> QED
    BY <1>1, <2>2, <2>3
<1> QED
  BY <1>2, <1>3

(* A reader gets the bytes the peer wrote to that stream, in order, none    *)
(* twice and none left out.                                                 *)
THEOREM ReadsInOrder == Spec => []BytesInOrder
<1>1. IInv => BytesInOrder
  <2> SUFFICES ASSUME IInv, NEW e \in Side, NEW i \in Id
               PROVE  LET s == stream[e][i] IN
                      /\ Len(s.got) <= Unit * stream[Peer(e)][i].sent
                      /\ \A k \in 1 .. Len(s.got) :
                            s.got[k] = <<1 + ((k - 1) \div Unit), 1 + ((k - 1) % Unit)>>
    BY DEF BytesInOrder
  <2>1. PICK s, t : s = stream[e][i] /\ t = stream[Peer(e)][i]
    OBVIOUS
  <2>2. /\ s \in StreamType /\ t \in StreamType /\ Reads(s) /\ Taken(s) <= t.sent
    BY <2>1, Ends DEF Link, InOrder
  <2>3. PICK q, m, d : q = Consumed(s) /\ m = Len(s.msgs) /\ d = t.sent - q
    OBVIOUS
  <2>4. /\ q \in Nat /\ m \in Nat /\ s.off \in 0 .. Unit - 1 /\ t.sent \in Nat
        /\ s.msgs \in Seq(1 .. MaxData) /\ Unit \in Nat
    <3>1. t.sent \in Nat
      BY <2>2, MuxAssumption DEF StreamType
    <3> QED
      BY <2>2, <2>3, <3>1, ConsumedNat
  <2>5. q + m <= t.sent
    BY <2>2, <2>3 DEF Taken
  <2>6. d \in Nat /\ q + d = t.sent /\ (s.off = 0 \/ d # 0)
    <3>1. s.off = 0 \/ m # 0
      BY <2>2, <2>3, <2>4 DEF Reads
    <3> QED
      BY <2>3, <2>4, <2>5, <3>1
  <2>7. s.off <= Unit * d
    BY <2>4, <2>6, Within
  <2>8. Unit * t.sent = Unit * q + Unit * d /\ Unit * q \in Nat /\ Unit * d \in Nat
    BY <2>4, <2>6, Distributes
  <2>9. Len(s.got) = Unit * q + s.off
    BY <2>2, <2>3 DEF Reads
  <2>10. Len(s.got) <= Unit * t.sent
    BY <2>4, <2>7, <2>8, <2>9
  <2> QED
    BY <2>1, <2>2, <2>10 DEF Reads
<1> QED
  BY <1>1, Inductive, PTL

(* A reader that did not close the stream itself, on a live Conn, has read  *)
(* or has in its queue all the peer sent before its STREAM_CLOSE.           *)
THEOREM EOFLast == Spec => []EOFAfterData
<1>1. IInv => EOFAfterData
  <2> SUFFICES ASSUME IInv, NEW e \in Side, NEW i \in Id,
                      stream[e][i].err, ~stream[e][i].closed, conn[e] # "closed"
               PROVE  LET s == stream[e][i] IN
                      Len(s.got) - s.off + Unit * Len(s.msgs)
                        = Unit * stream[Peer(e)][i].closeAt
    BY DEF EOFAfterData
  <2>1. PICK s, t : s = stream[e][i] /\ t = stream[Peer(e)][i]
    OBVIOUS
  <2>2. /\ s \in StreamType /\ Reads(s) /\ Taken(s) = t.closeAt
    BY <2>1, Ends DEF Link, EndKnown
  <2>3. PICK q, m : q = Consumed(s) /\ m = Len(s.msgs)
    OBVIOUS
  <2>4. q \in Nat /\ m \in Nat /\ s.off \in Nat /\ Unit \in Nat
    BY <2>2, <2>3, ConsumedNat
  <2>5. Unit * t.closeAt = Unit * q + Unit * m /\ Unit * q \in Nat /\ Unit * m \in Nat
    BY <2>2, <2>3, <2>4, Distributes DEF Taken
  <2>6. Len(s.got) = Unit * q + s.off
    BY <2>2, <2>3 DEF Reads
  <2>7. Len(s.got) - s.off + Unit * m = Unit * t.closeAt
    BY <2>4, <2>5, <2>6
  <2> QED
    BY <2>1, <2>3, <2>7
<1> QED
  BY <1>1, Inductive, PTL

(* When nothing is on the way, a side has exactly the streams the peer has  *)
(* not closed: a stream that was closed leaves no entry behind.             *)
THEOREM TableExact == Spec => []TableMatches
<1>1. IInv => TableMatches
  <2> SUFFICES ASSUME IInv, Quiet, NEW e \in Side, NEW i \in handle[e]
               PROVE  i \in table[e] <=> ~stream[Peer(e)][i].closed
    BY DEF TableMatches
  <2>1. i \in Id /\ Peer(e) \in Side
    BY Sides DEF IInv, TypeOK
  <2>2. i \in table[e] \/ stream[Peer(e)][i].closed
    BY <2>1 DEF IInv, Held
  <2>3. CloseComes(wire[e], i, stream[Peer(e)][i], i \in table[e])
    BY <2>1, Ends DEF Link, Quiet
  <2>4. ~HasClose(wire[e], i)
    BY DEF Quiet, HasClose
  <2>5. ~stream[Peer(e)][i].closing
    BY <2>1 DEF Quiet
  <2> QED
    BY <2>2, <2>3, <2>4, <2>5 DEF CloseComes
<1> QED
  BY <1>1, Inductive, PTL

-----------------------------------------------------------------------------
(* After the end of a read side its queue only gets shorter. *)
NoMore(s, r) == s.err => Len(r.msgs) <= Len(s.msgs)

LEMMA NoMoreSame ==
  ASSUME NEW s \in StreamType, NEW r, r.msgs = s.msgs
  PROVE  NoMore(s, r)
<1>1. Len(s.msgs) \in Nat
  BY ConsumedNat
<1> QED
  BY <1>1 DEF NoMore

(* A step that changes one stream at most. *)
LEMMA NoMoreOne ==
  ASSUME TypeOK, NEW e \in Side, NEW i \in Id, NEW r, NoMore(stream[e][i], r),
         OneStream(e, i, r), NEW x \in Side, NEW y \in Id
  PROVE  NoMore(stream[x][y], stream'[x][y])
<1>1. stream'[x][y] = IF x = e /\ y = i THEN r ELSE stream[x][y]
  BY DEF TypeOK, OneStream
<1>2. stream[x][y] \in StreamType
  BY DEF TypeOK
<1>3. NoMore(stream[x][y], stream[x][y])
  BY <1>2, NoMoreSame
<1> QED
  BY <1>1, <1>3

LEMMA NoMoreDispatch ==
  ASSUME IInv, NEW e \in Side, Dispatch(e), NEW x \in Side, NEW y \in Id
  PROVE  NoMore(stream[x][y], stream'[x][y])
<1> DEFINE f == Head(wire[e])
           s == stream[e][f.id]
<1>1. f.id \in Id /\ TypeOK
  <2>1. Takes1(e, f)
    BY DEF Dispatch, Takes1
  <2> QED
    BY <2>1, TakenFrame DEF IInv
<1>2. s \in StreamType
  BY <1>1 DEF TypeOK
<1>3. NoMore(s, s)
  BY <1>2, NoMoreSame
<1>4. CASE stream' = stream
  <2>1. OneStream(e, f.id, s)
    BY <1>1, <1>4, SameStream
  <2> QED
    BY <1>1, <1>3, <2>1, NoMoreOne
<1>5. CASE stream' = [stream EXCEPT ![e][f.id] = DeliverData(s, f.n)]
  <2>1. NoMore(s, DeliverData(s, f.n))
    BY <1>3 DEF NoMore, DeliverData
  <2>2. OneStream(e, f.id, DeliverData(s, f.n))
    BY <1>5 DEF OneStream
  <2> QED
    BY <1>1, <2>1, <2>2, NoMoreOne
<1>6. CASE stream' = [stream EXCEPT ![e][f.id] = NewStream]
  <2>1. NoMore(s, NewStream)
    <3>1. Len(NewStream.msgs) = 0 /\ Len(s.msgs) \in Nat
      BY <1>2, ConsumedNat DEF NewStream
    <3> QED
      BY <3>1 DEF NoMore
  <2>2. OneStream(e, f.id, NewStream)
    BY <1>6 DEF OneStream
  <2> QED
    BY <1>1, <2>1, <2>2, NoMoreOne
<1>7. CASE stream' = [stream EXCEPT ![e][f.id].err = TRUE]
  <2> DEFINE r == [s EXCEPT !.err = TRUE]
  <2>1. r.msgs = s.msgs
    BY <1>2 DEF StreamType
  <2>2. OneStream(e, f.id, r)
    BY <1>1, <1>7 DEF OneStream, TypeOK
  <2> HIDE DEF r
  <2>3. NoMore(s, r)
    BY <1>2, <2>1, NoMoreSame
  <2> QED
    BY <1>1, <2>2, <2>3, NoMoreOne
<1> QED
  BY <1>4, <1>5, <1>6, <1>7 DEF Dispatch, DispatchData, DispatchOpen, DispatchClose

LEMMA NoMoreRead ==
  ASSUME IInv, NEW e \in Side, NEW i \in Id, NEW k \in 1 .. Unit, Read(e, i, k),
         NEW x \in Side, NEW y \in Id
  PROVE  NoMore(stream[x][y], stream'[x][y])
<1> DEFINE s == stream[e][i]
           n == IF k < Unit - s.off THEN k ELSE Unit - s.off
           m == IF s.off + n = Unit THEN Tail(s.msgs) ELSE s.msgs
           r == AfterRead(s, n)
<1>0. s \in StreamType
  BY DEF IInv, TypeOK
<1>1. TypeOK /\ s \in StreamType /\ s.msgs # <<>>
  BY <1>0 DEF IInv, Read
<1>2. s.msgs \in Seq(1 .. MaxData)
  BY <1>1, ConsumedNat
<1>3. OneStream(e, i, r)
  BY <1>1, ReadStep
<1>4. m = s.msgs \/ m = Tail(s.msgs)
  OBVIOUS
<1> HIDE DEF n
<1>5. r.msgs = m
  BY <1>1 DEF StreamType, AfterRead
<1> HIDE DEF m
<1>6. Len(m) <= Len(s.msgs)
  <2>1. Len(Tail(s.msgs)) = Len(s.msgs) - 1 /\ Len(s.msgs) \in Nat \ {0}
    BY <1>1, <1>2, TailSeq
  <2> QED
    BY <1>4, <2>1
<1> HIDE DEF r
<1>7. NoMore(s, r)
  BY <1>5, <1>6 DEF NoMore
<1> QED
  BY <1>1, <1>3, <1>7, NoMoreOne

(* The steps of a writer leave what is queued to it alone. *)
LEMMA NoMoreWriter ==
  ASSUME IInv, NEW e \in Side, NEW i \in Id,
         \/ SendData(e, i) \/ CloseStream(e, i) \/ SendClose(e, i)
         \/ \E k \in 1 .. MaxChunks : Write(e, i, k),
         NEW x \in Side, NEW y \in Id
  PROVE  NoMore(stream[x][y], stream'[x][y])
<1>1. stream \in [Side -> [Id -> StreamType]] /\ stream[x][y] \in StreamType
  BY DEF IInv, TypeOK
<1>2. stream'[x][y].msgs = stream[x][y].msgs
  <2>1. CASE ~(x = e /\ y = i)
    <3>1. stream'[x][y] = stream[x][y]
      BY <1>1, <2>1 DEF SendData, CloseStream, SendClose, Write
    <3> QED
      BY <3>1
  <2>2. CASE x = e /\ y = i
    <3>1. CASE SendData(e, i)
      <4>1. CASE stream' = [stream EXCEPT ![e][i].left = @ - 1, ![e][i].sent = @ + 1]
        BY <1>1, <2>2, <4>1 DEF StreamType
      <4>2. CASE stream' = [stream EXCEPT ![e][i].left = 0]
        BY <1>1, <2>2, <4>2 DEF StreamType
      <4> QED
        BY <3>1, <4>1, <4>2 DEF SendData
    <3>2. CASE CloseStream(e, i)
      BY <1>1, <2>2, <3>2 DEF CloseStream, StreamType
    <3>3. CASE SendClose(e, i)
      BY <1>1, <2>2, <3>3 DEF SendClose, StreamType
    <3>4. ASSUME NEW k \in 1 .. MaxChunks, Write(e, i, k)
          PROVE  stream'[x][y].msgs = stream[x][y].msgs
      BY <1>1, <2>2, <3>4 DEF Write, StreamType
    <3> QED
      BY <3>1, <3>2, <3>3, <3>4
  <2> QED
    BY <2>1, <2>2
<1> QED
  BY <1>1, <1>2, NoMoreSame

LEMMA NoMoreEnd ==
  ASSUME IInv, NEW e \in Side, EndStreams(e), NEW x \in Side, NEW y \in Id
  PROVE  NoMore(stream[x][y], stream'[x][y])
<1>1. stream \in [Side -> [Id -> StreamType]] /\ stream[x][y] \in StreamType
  BY DEF IInv, TypeOK
<1>2. \/ stream'[x][y] = stream[x][y]
      \/ stream'[x][y] = [stream[x][y] EXCEPT !.err = TRUE]
  BY <1>1 DEF EndStreams
<1>3. stream'[x][y].msgs = stream[x][y].msgs
  BY <1>1, <1>2 DEF StreamType
<1> QED
  BY <1>1, <1>3, NoMoreSame

(* After the end of a read side nothing is queued for it any more: the EOF  *)
(* a reader has seen is final.                                              *)
THEOREM EOFFinal == Spec => EOFIsFinal
<1>1. ASSUME IInv, [Next]_vars, NEW x \in Side, NEW y \in Id
      PROVE  NoMore(stream[x][y], stream'[x][y])
  <2>1. stream[x][y] \in StreamType
    BY <1>1 DEF IInv, TypeOK
  <2>2. CASE UNCHANGED stream
    BY <2>1, <2>2, NoMoreSame
  <2>3. ASSUME NEW e \in Side, Dispatch(e) PROVE NoMore(stream[x][y], stream'[x][y])
    BY <1>1, <2>3, NoMoreDispatch
  <2>4. ASSUME NEW e \in Side, EndStreams(e) PROVE NoMore(stream[x][y], stream'[x][y])
    BY <1>1, <2>4, NoMoreEnd
  <2>5. ASSUME NEW e \in Side, NEW i \in Id,
               \/ SendData(e, i) \/ CloseStream(e, i) \/ SendClose(e, i)
               \/ \E k \in 1 .. MaxChunks : Write(e, i, k)
        PROVE  NoMore(stream[x][y], stream'[x][y])
    BY <1>1, <2>5, NoMoreWriter
  <2>6. ASSUME NEW e \in Side, NEW i \in Id, NEW k \in 1 .. Unit, Read(e, i, k)
        PROVE  NoMore(stream[x][y], stream'[x][y])
    BY <1>1, <2>6, NoMoreRead
  <2>7. ASSUME NEW e \in Side,
               \/ OpenStream(e) \/ ReadFrameFails(e) \/ CloseConn(e)
               \/ \E i \in Id : SendOpen(e, i)
        PROVE  UNCHANGED stream
    BY <2>7 DEF OpenStream, ReadFrameFails, CloseConn, SendOpen
  <2>8. CASE TransportFails
    BY <2>2, <2>8 DEF TransportFails
  <2>9. CASE UNCHANGED vars
    BY <2>2, <2>9 DEF vars
  <2> QED
    BY <1>1, <2>2, <2>3, <2>4, <2>5, <2>6, <2>7, <2>8, <2>9 DEF Next
<1>2. IInv /\ [Next]_vars => [\A e \in Side, i \in Id : stream[e][i].err =>
        Len(stream'[e][i].msgs) <= Len(stream[e][i].msgs)]_vars
  BY <1>1 DEF NoMore
<1> QED
  BY <1>2, Inductive, PTL DEF Spec, EOFIsFinal

-----------------------------------------------------------------------------
(* The channels that the streams make up.                                  *)

(* A step that changes one stream and ends no Conn, as the channels see it. *)
SameConns == \A x \in Side : (conn'[x] = "closed") <=> (conn[x] = "closed")

LEMMA ChannelOf ==
  ASSUME NEW e \in Side, NEW i \in Id
  PROVE  /\ <<e, i>> \in Channel /\ <<Peer(e), i>> \in Channel
         /\ \A c \in Channel : /\ c[1] \in Side /\ c[2] \in Id /\ Peer(c[1]) \in Side
                               /\ c[1] = e /\ c[2] = i <=> c = <<e, i>>
                               /\ Peer(c[1]) = e /\ c[2] = i <=> c = <<Peer(e), i>>
<1>1. \A c \in Channel : c[1] \in Side /\ c[2] \in Id /\ c = <<c[1], c[2]>>
  BY DEF Channel
<1> QED
  BY <1>1, Sides DEF Channel

(* The writer's side of the channels. *)
LEMMA WriterView ==
  ASSUME TypeOK, NEW e \in Side, NEW i \in Id, NEW r \in StreamType, OneStream(e, i, r)
  PROVE  LET s == stream[e][i]
             d == <<Peer(e), i>>
         IN  /\ Sent' = [Sent EXCEPT ![d] = r.sent] /\ Sent[d] = s.sent
             /\ ClosedAt' = [ClosedAt EXCEPT ![d] = r.closeAt] /\ ClosedAt[d] = s.closeAt
             /\ d \in Closed <=> Shut(s)
             /\ Closed' = IF Shut(r) THEN Closed \cup {d} ELSE Closed \ {d}
<1> DEFINE s == stream[e][i]
           d == <<Peer(e), i>>
<1>1. /\ d \in Channel
      /\ \A c \in Channel : /\ Peer(c[1]) \in Side /\ c[2] \in Id
                            /\ Peer(c[1]) = e /\ c[2] = i <=> c = d
  BY ChannelOf
<1>2. \A c \in Channel : /\ Writer(c)' = IF c = d THEN r ELSE Writer(c)
                         /\ c = d => Writer(c) = s
  BY <1>1, StreamAt DEF Writer
<1>3. Sent' = [Sent EXCEPT ![d] = r.sent] /\ Sent[d] = s.sent
  BY <1>1, <1>2 DEF Sent
<1>4. ClosedAt' = [ClosedAt EXCEPT ![d] = r.closeAt] /\ ClosedAt[d] = s.closeAt
  BY <1>1, <1>2 DEF ClosedAt
<1>5. /\ d \in Closed <=> Shut(s)
      /\ Closed' = IF Shut(r) THEN Closed \cup {d} ELSE Closed \ {d}
  <2>1. d \in Closed <=> Shut(s)
    BY <1>1, <1>2 DEF Closed
  <2>2. \A c : c \in Closed' <=> c \in Channel /\ Shut(Writer(c)')
    BY DEF Closed, Shut
  <2>3. \A c : c \in Closed <=> c \in Channel /\ Shut(Writer(c))
    BY DEF Closed
  <2>4. \A c \in Channel : Shut(Writer(c)') <=> IF c = d THEN Shut(r) ELSE Shut(Writer(c))
    BY <1>2
  <2> QED
    BY <1>1, <2>1, <2>2, <2>3, <2>4
<1> QED
  BY <1>3, <1>4, <1>5

LEMMA WriterSame ==
  ASSUME TypeOK, NEW e \in Side, NEW i \in Id, NEW r \in StreamType, OneStream(e, i, r)
  PROVE  /\ r.sent = stream[e][i].sent => Sent' = Sent
         /\ r.closeAt = stream[e][i].closeAt => ClosedAt' = ClosedAt
         /\ (Shut(r) <=> Shut(stream[e][i])) => Closed' = Closed
<1>0. \A c \in Channel : Peer(c[1]) \in Side /\ c[2] \in Id
  BY ChannelOf
<1>1. \A c \in Channel : \/ Writer(c)' = Writer(c)
                         \/ Writer(c)' = r /\ Writer(c) = stream[e][i]
  BY <1>0, StreamAt DEF Writer
<1>2. r.sent = stream[e][i].sent => Sent' = Sent
  BY <1>1 DEF Sent
<1>3. r.closeAt = stream[e][i].closeAt => ClosedAt' = ClosedAt
  BY <1>1 DEF ClosedAt
<1>4. (Shut(r) <=> Shut(stream[e][i])) => Closed' = Closed
  BY <1>1 DEF Closed, Shut
<1> QED
  BY <1>2, <1>3, <1>4

(* The reader's side. *)
LEMMA ReaderView ==
  ASSUME TypeOK, NEW e \in Side, NEW i \in Id, NEW r \in StreamType, OneStream(e, i, r),
         SameConns
  PROVE  LET s == stream[e][i]
             c == <<e, i>>
         IN  /\ c \in Channel
             /\ Arrived' = [Arrived EXCEPT ![c] = Taken(r)] /\ Arrived[c] = Taken(s)
             /\ Got' = [Got EXCEPT ![c] = r.got] /\ Got[c] = s.got
             /\ c \in AtEnd <=> s.err
             /\ AtEnd' = IF r.err THEN AtEnd \cup {c} ELSE AtEnd \ {c}
             /\ r.closed => Abandoned' = Abandoned \cup {c}
<1> DEFINE s == stream[e][i]
           c == <<e, i>>
<1>1. /\ c \in Channel
      /\ \A x \in Channel : x[1] \in Side /\ x[2] \in Id /\ (x[1] = e /\ x[2] = i <=> x = c)
  BY ChannelOf
<1>2. \A x \in Channel : /\ Reader(x)' = IF x = c THEN r ELSE Reader(x)
                         /\ x = c => Reader(x) = s
  BY <1>1, StreamAt DEF Reader
<1>3. Arrived' = [Arrived EXCEPT ![c] = Taken(r)] /\ Arrived[c] = Taken(s)
  <2>1. Arrived' = [x \in Channel |-> Taken(Reader(x)')]
    BY DEF Arrived, Taken, Consumed
  <2> HIDE DEF c, s
  <2> QED
    BY <1>1, <1>2, <2>1 DEF Arrived
<1>4. Got' = [Got EXCEPT ![c] = r.got] /\ Got[c] = s.got
  BY <1>1, <1>2 DEF Got
<1>5. /\ c \in AtEnd <=> s.err
      /\ AtEnd' = IF r.err THEN AtEnd \cup {c} ELSE AtEnd \ {c}
  BY <1>1, <1>2 DEF AtEnd
<1>6. \A x \in Channel : x \in Abandoned' <=> IF x = c THEN r.closed \/ conn[e] = "closed"
                                              ELSE x \in Abandoned
  BY <1>1, <1>2 DEF Abandoned, SameConns
<1>7. c \in Abandoned <=> s.closed \/ conn[e] = "closed"
  BY <1>1, <1>2 DEF Abandoned
<1>8. Abandoned \subseteq Channel /\ Abandoned' \subseteq Channel
  BY DEF Abandoned
<1> HIDE DEF c, s
<1>9. r.closed => Abandoned' = Abandoned \cup {c}
  BY <1>1, <1>6, <1>8
<1> QED
  BY <1>1, <1>3, <1>4, <1>5, <1>9 DEF c, s

LEMMA ReaderSame ==
  ASSUME TypeOK, NEW e \in Side, NEW i \in Id, NEW r \in StreamType, OneStream(e, i, r),
         SameConns
  PROVE  /\ Taken(r) = Taken(stream[e][i]) => Arrived' = Arrived
         /\ r.got = stream[e][i].got => Got' = Got
         /\ r.err = stream[e][i].err => AtEnd' = AtEnd
         /\ r.closed = stream[e][i].closed => Abandoned' = Abandoned
<1>0. \A c \in Channel : c[1] \in Side /\ c[2] \in Id
  BY ChannelOf
<1>1. \A c \in Channel : \/ Reader(c)' = Reader(c)
                         \/ Reader(c)' = r /\ Reader(c) = stream[e][i]
  BY <1>0, StreamAt DEF Reader
<1>2. Taken(r) = Taken(stream[e][i]) => Arrived' = Arrived
  <2>1. Arrived' = [c \in Channel |-> Taken(Reader(c)')]
    BY DEF Arrived, Taken, Consumed
  <2> QED
    BY <1>1, <2>1 DEF Arrived
<1>3. r.got = stream[e][i].got => Got' = Got
  BY <1>1 DEF Got
<1>4. r.err = stream[e][i].err => AtEnd' = AtEnd
  BY <1>1 DEF AtEnd
<1>5. r.closed = stream[e][i].closed => Abandoned' = Abandoned
  <2>1. \A c \in Channel : c[1] \in Side
    BY DEF Channel
  <2> QED
    BY <1>1, <2>1 DEF Abandoned, SameConns
<1> QED
  BY <1>2, <1>3, <1>4, <1>5

(* A step that the channels do not see. *)
LEMMA NoView ==
  ASSUME stream' = stream, SameConns
  PROVE  UNCHANGED Abstract!vars
<1>1. \A c \in Channel : Writer(c)' = Writer(c) /\ Reader(c)' = Reader(c)
  BY DEF Writer, Reader
<1>2. Sent' = Sent /\ Closed' = Closed /\ ClosedAt' = ClosedAt
  BY <1>1 DEF Sent, Closed, ClosedAt, Shut
<1>3. Arrived' = Arrived /\ Got' = Got /\ AtEnd' = AtEnd
  BY <1>1 DEF Arrived, Got, AtEnd, Taken, Consumed
<1>4. Abandoned' = Abandoned
  <2>1. \A c \in Channel : c[1] \in Side
    BY DEF Channel
  <2> QED
    BY <1>1, <2>1 DEF Abandoned, SameConns
<1> QED
  BY <1>2, <1>3, <1>4 DEF Abstract!vars

(* A stream changes in what the channels do not see. *)
LEMMA SameView ==
  ASSUME TypeOK, NEW e \in Side, NEW i \in Id, NEW r \in StreamType, OneStream(e, i, r),
         SameConns, r.sent = stream[e][i].sent, Shut(r) <=> Shut(stream[e][i]),
         r.closeAt = stream[e][i].closeAt, Taken(r) = Taken(stream[e][i]),
         r.got = stream[e][i].got, r.err = stream[e][i].err,
         r.closed = stream[e][i].closed
  PROVE  UNCHANGED Abstract!vars
<1>1. Sent' = Sent /\ Closed' = Closed /\ ClosedAt' = ClosedAt
  BY WriterSame
<1>2. Arrived' = Arrived /\ Got' = Got /\ AtEnd' = AtEnd /\ Abandoned' = Abandoned
  BY ReaderSame
<1> QED
  BY <1>1, <1>2 DEF Abstract!vars

-----------------------------------------------------------------------------
(* A frame that was sent after STREAM_CLOSE comes after it.                *)

(* Read sides only end, and no STREAM_CLOSE is sent. *)
Calm == \A x \in Side, y \in Id :
    /\ stream[x][y].err => stream'[x][y].err
    /\ Shut(stream'[x][y]) =>
          Shut(stream[x][y]) /\ stream'[x][y].closeAt = stream[x][y].closeAt

LEMMA CalmOne ==
  ASSUME TypeOK, NEW e \in Side, NEW i \in Id, NEW r \in StreamType, OneStream(e, i, r),
         stream[e][i].err => r.err,
         Shut(r) => Shut(stream[e][i]) /\ r.closeAt = stream[e][i].closeAt
  PROVE  Calm
<1> SUFFICES ASSUME NEW x \in Side, NEW y \in Id
             PROVE  /\ stream[x][y].err => stream'[x][y].err
                    /\ Shut(stream'[x][y]) => /\ Shut(stream[x][y])
                                              /\ stream'[x][y].closeAt = stream[x][y].closeAt
  BY DEF Calm
<1>1. CASE stream'[x][y] = stream[x][y]
  BY <1>1
<1>2. CASE x = e /\ y = i /\ stream'[x][y] = r
  BY <1>2
<1> QED
  BY <1>1, <1>2, StreamAt

(* The DATA frames of stream i on v are those on w, and where they were. *)
Agree(w, v, i) ==
    /\ Len(v) \in Nat
    /\ \A k \in 1 .. Len(v) : (k \in 1 .. Len(w) /\ v[k] = w[k]) \/ ~Is(v[k], "data", i)
    /\ \A k \in 1 .. Len(v) : k \in 1 .. Len(w) => v[k] = w[k]

LEMMA LateKept ==
  ASSUME NEW w, NEW v, NEW i, NEW s, NEW t, Late(w, i, s, t), Agree(w, v, i), Len(w) \in Nat,
         NEW s2, s.err => s2.err,
         NEW t2, Shut(t2) => Shut(t) /\ t2.closeAt = t.closeAt
  PROVE  Late(v, i, s2, t2)
<1> SUFFICES ASSUME Shut(t2), NEW k \in 1 .. Len(v), Is(v[k], "data", i), v[k].n > t2.closeAt,
                    ~s2.err
             PROVE  \E j \in 1 .. k - 1 : Is(v[j], "close", i)
  BY DEF Late
<1>1. k \in 1 .. Len(w) /\ v[k] = w[k]
  BY DEF Agree
<1>2. PICK j \in 1 .. k - 1 : Is(w[j], "close", i)
  BY <1>1 DEF Late
<1>3. j \in 1 .. Len(v) /\ j \in 1 .. Len(w)
  BY <1>1 DEF Agree
<1>4. v[j] = w[j]
  BY <1>3 DEF Agree
<1> QED
  BY <1>2, <1>4

LEMMA LateAgree ==
  ASSUME TypeOK, LateFrames, Calm, NEW x \in Side, NEW y \in Id, Agree(wire[x], wire'[x], y)
  PROVE  Late(wire'[x], y, stream'[x][y], stream'[Peer(x)][y])
<1>1. Peer(x) \in Side /\ Len(wire[x]) \in Nat
  BY Sides DEF TypeOK
<1>2. Late(wire[x], y, stream[x][y], stream[Peer(x)][y])
  BY DEF LateFrames
<1>3. /\ stream[x][y].err => stream'[x][y].err
      /\ Shut(stream'[Peer(x)][y]) =>
           Shut(stream[Peer(x)][y]) /\ stream'[Peer(x)][y].closeAt = stream[Peer(x)][y].closeAt
  BY <1>1 DEF Calm
<1> QED
  BY <1>1, <1>2, <1>3, LateKept

LEMMA SameWire ==
  ASSUME TypeOK, NEW x \in Side, NEW y, wire'[x] = wire[x]
  PROVE  Agree(wire[x], wire'[x], y)
<1>1. Len(wire[x]) \in Nat
  BY DEF TypeOK
<1> QED
  BY <1>1 DEF Agree

LEMMA AppendAgrees ==
  ASSUME NEW w, NEW f, NEW v, IsAppend(w, f, v), NEW y, ~Is(f, "data", y)
  PROVE  Agree(w, v, y)
<1>1. \A k \in 1 .. Len(v) : k \in 1 .. Len(w) \/ k = Len(w) + 1
  BY DEF IsAppend
<1> QED
  BY <1>1 DEF Agree, IsAppend

LEMMA LateSameWires ==
  ASSUME TypeOK, LateFrames, Calm, wire' = wire
  PROVE  LateFrames'
<1> SUFFICES ASSUME NEW x \in Side, NEW y \in Id
             PROVE  Late(wire'[x], y, stream'[x][y], stream'[Peer(x)][y])
  BY DEF LateFrames
<1> QED
  BY SameWire, LateAgree

(* A frame of stream i is sent: DATA only where a STREAM_CLOSE that was sent *)
(* is on the way, or the reader has ended.                                 *)
LEMMA LateSent ==
  ASSUME TypeOK, LateFrames, Calm, NEW e \in Side, NEW i \in Id, NEW f, f.id = i,
         wire'[e] = wire[e], IsAppend(wire[Peer(e)], f, wire'[Peer(e)]),
         f.type = "data" /\ Shut(stream[e][i]) =>
             stream[Peer(e)][i].err \/ HasClose(wire[Peer(e)], i)
  PROVE  LateFrames'
<1> DEFINE p == Peer(e)
           w == wire[p]
           v == wire'[p]
<1> SUFFICES ASSUME NEW x \in Side, NEW y \in Id
             PROVE  Late(wire'[x], y, stream'[x][y], stream'[Peer(x)][y])
  BY DEF LateFrames
<1>0. p \in Side /\ Peer(p) = e /\ (x = e \/ x = p)
  BY Sides
<1>1. CASE x = e
  BY <1>1, SameWire, LateAgree
<1>2. CASE x = p /\ ~Is(f, "data", y)
  BY <1>0, <1>2, AppendAgrees, LateAgree
<1>3. CASE x = p /\ Is(f, "data", y)
  <2>1. y = i /\ f.type = "data"
    BY <1>3 DEF Is
  <2>2. /\ stream[p][i].err => stream'[p][i].err
        /\ Shut(stream'[e][i]) => Shut(stream[e][i]) /\ stream'[e][i].closeAt = stream[e][i].closeAt
    BY <1>0 DEF Calm
  <2>3. Late(w, i, stream[p][i], stream[e][i])
    BY <1>0 DEF LateFrames
  <2> SUFFICES ASSUME Shut(stream'[e][i]), NEW k \in 1 .. Len(v), Is(v[k], "data", i),
                      v[k].n > stream'[e][i].closeAt, ~stream'[p][i].err
               PROVE  \E j \in 1 .. k - 1 : Is(v[j], "close", i)
    BY <1>0, <1>3, <2>1 DEF Late
  <2>4. Shut(stream[e][i]) /\ ~stream[p][i].err /\ stream'[e][i].closeAt = stream[e][i].closeAt
    BY <2>2
  <2>5. \A j \in 1 .. Len(w) : v[j] = w[j]
    BY DEF IsAppend
  <2>6. CASE k \in 1 .. Len(w)
    <3>1. PICK j \in 1 .. k - 1 : Is(w[j], "close", i)
      BY <2>3, <2>4, <2>5, <2>6 DEF Late
    <3>2. j \in 1 .. Len(w)
      BY <2>6 DEF IsAppend
    <3> QED
      BY <2>5, <3>1, <3>2
  <2>7. CASE k = Len(w) + 1
    <3>1. PICK j \in 1 .. Len(w) : Is(w[j], "close", i)
      BY <2>1, <2>4 DEF HasClose
    <3>2. j \in 1 .. k - 1
      BY <2>7 DEF IsAppend
    <3> QED
      BY <2>5, <3>1, <3>2
  <2> QED
    BY <2>6, <2>7 DEF IsAppend
<1> QED
  BY <1>0, <1>1, <1>2, <1>3

-----------------------------------------------------------------------------
(* Each step is one of the channels', or they do not see it.               *)

(* Calls of the application that have not begun or not ended, and failures: *)
(* the streams are as before.                                              *)
LEMMA QuietImplements ==
  ASSUME IInv, LateFrames, stream' = stream, SameConns,
         \A x \in Side, y \in Id : Agree(wire[x], wire'[x], y)
  PROVE  LateFrames' /\ UNCHANGED Abstract!vars
<1>1. TypeOK /\ Calm
  BY DEF IInv, Calm
<1>2. LateFrames'
  <2> SUFFICES ASSUME NEW x \in Side, NEW y \in Id
               PROVE  Late(wire'[x], y, stream'[x][y], stream'[Peer(x)][y])
    BY DEF LateFrames
  <2> QED
    BY <1>1, LateAgree
<1> QED
  BY <1>2, NoView

LEMMA OthersImplement ==
  ASSUME IInv, LateFrames,
         \/ \E e \in Side : OpenStream(e) \/ ReadFrameFails(e) \/ CloseConn(e)
         \/ \E e \in Side, i \in Id : SendOpen(e, i)
         \/ TransportFails
         \/ UNCHANGED vars
  PROVE  LateFrames' /\ UNCHANGED Abstract!vars
<1> DEFINE Agrees == \A x \in Side, y \in Id : Agree(wire[x], wire'[x], y)
<1>1. TypeOK
  BY DEF IInv
<1>2. stream' = stream
  BY DEF OpenStream, ReadFrameFails, CloseConn, SendOpen, TransportFails, vars
<1>3. SameConns
  <2>1. ASSUME NEW e \in Side, ReadFrameFails(e) \/ CloseConn(e) PROVE SameConns
    BY <1>1, <2>1 DEF ReadFrameFails, CloseConn, SameConns, TypeOK
  <2>2. CASE conn' = conn
    BY <2>2 DEF SameConns
  <2>3. conn' = conn \/ \E e \in Side : ReadFrameFails(e) \/ CloseConn(e)
    BY DEF OpenStream, SendOpen, TransportFails, vars
  <2> QED
    BY <2>1, <2>2, <2>3
<1>4. wire' = wire => Agrees
  BY <1>1, SameWire
<1>5. ASSUME NEW e \in Side, NEW i \in Id, SendOpen(e, i) PROVE Agrees
  <2> DEFINE f == Frame("open", i, 0)
  <2>1. CASE wire' = wire
    BY <1>4, <2>1
  <2>2. CASE Sends(e, f)
    <3>1. f \in Frames /\ \A y : ~Is(f, "data", y)
      BY MuxAssumption DEF Frames, Frame, Is
    <3>2. wire'[e] = wire[e] /\ (wire' = wire \/ IsAppend(wire[Peer(e)], f, wire'[Peer(e)]))
      BY <2>2, <3>1, SendsFrame
    <3>3. CASE IsAppend(wire[Peer(e)], f, wire'[Peer(e)])
      <4> SUFFICES ASSUME NEW x \in Side, NEW y \in Id PROVE Agree(wire[x], wire'[x], y)
        OBVIOUS
      <4>1. x = e \/ x = Peer(e)
        BY Sides
      <4> QED
        BY <1>1, <3>1, <3>2, <3>3, <4>1, SameWire, AppendAgrees
    <3> QED
      BY <2>1, <3>2, <3>3
  <2> QED
    BY <1>5, <2>1, <2>2 DEF SendOpen
<1>6. ASSUME TransportFails PROVE Agrees
  <2>1. PICK n \in 0 .. Len(wire["client"]), m \in 0 .. Len(wire["server"]) :
          wire' = [e \in Side |-> SubSeq(wire[e], 1, IF e = "client" THEN n ELSE m)]
    BY <1>6 DEF TransportFails
  <2> SUFFICES ASSUME NEW x \in Side, NEW y \in Id PROVE Agree(wire[x], wire'[x], y)
    OBVIOUS
  <2>2. PICK l : l = IF x = "client" THEN n ELSE m
    OBVIOUS
  <2>3. wire[x] \in Seq(Frames) /\ l \in 0 .. Len(wire[x]) /\ wire'[x] = SubSeq(wire[x], 1, l)
    BY <1>1, <2>1, <2>2 DEF TypeOK, Side
  <2>4. /\ Len(wire'[x]) = l /\ Len(wire[x]) \in Nat
        /\ \A k \in 1 .. l : wire'[x][k] = wire[x][k]
    BY <2>3, PrefixSeq
  <2> QED
    BY <2>3, <2>4 DEF Agree
<1>7. Agrees
  <2>1. \/ wire' = wire \/ TransportFails
        \/ \E e \in Side, i \in Id : SendOpen(e, i)
    BY DEF OpenStream, ReadFrameFails, CloseConn, vars
  <2> HIDE DEF Agrees
  <2> QED
    BY <1>4, <1>5, <1>6, <2>1
<1> QED
  BY <1>2, <1>3, <1>7, QuietImplements

(* A Write begins, or is refused: what it has still to send is not seen. *)
LEMMA LeftImplements ==
  ASSUME IInv, LateFrames, NEW e \in Side, NEW i \in Id, NEW l \in 0 .. MaxChunks,
         stream' = [stream EXCEPT ![e][i].left = l], UNCHANGED <<conn, wire>>
  PROVE  LateFrames' /\ UNCHANGED Abstract!vars
<1> DEFINE s == stream[e][i]
           r == [s EXCEPT !.left = l]
<1>1. TypeOK /\ s \in StreamType /\ SameConns
  BY DEF IInv, TypeOK, SameConns
<1>2. OneStream(e, i, r)
  BY DEF OneStream
<1>3. /\ r \in StreamType /\ r.msgs = s.msgs /\ r.off = s.off /\ r.got = s.got
      /\ r.err = s.err /\ r.closed = s.closed /\ r.closing = s.closing
      /\ r.sent = s.sent /\ r.closeAt = s.closeAt
  BY <1>1 DEF StreamType
<1> HIDE DEF r
<1>4. Taken(r) = Taken(s) /\ (Shut(r) <=> Shut(s))
  BY <1>3, SameReader DEF Shut
<1>5. UNCHANGED Abstract!vars
  BY <1>1, <1>2, <1>3, <1>4, SameView
<1>6. Calm
  BY <1>1, <1>2, <1>3, <1>4, CalmOne
<1> QED
  BY <1>1, <1>5, <1>6, LateSameWires

LEMMA SendDataImplements ==
  ASSUME IInv, LateFrames, NEW e \in Side, NEW i \in Id, SendData(e, i)
  PROVE  LateFrames' /\ [Abstract!Next]_(Abstract!vars)
<1> DEFINE s == stream[e][i]
           p == Peer(e)
           f == Frame("data", i, s.sent + 1)
           r == [s EXCEPT !.left = @ - 1, !.sent = @ + 1]
           d == <<p, i>>
<1>1. TypeOK /\ s \in StreamType /\ SameConns /\ p \in Side /\ d \in Channel
  <2>1. conn' = conn
    BY DEF SendData
  <2>2. TypeOK /\ s \in StreamType
    BY DEF IInv, TypeOK
  <2>3. p \in Side /\ d \in Channel
    BY Sides, ChannelOf
  <2> QED
    BY <2>1, <2>2, <2>3 DEF SameConns
<1>2. CASE stream' = [stream EXCEPT ![e][i].left = 0] /\ UNCHANGED wire
  <2>1. 0 \in 0 .. MaxChunks /\ UNCHANGED <<conn, wire>>
    BY <1>2, MuxAssumption DEF SendData
  <2> QED
    BY <1>2, <2>1, LeftImplements
<1>3. CASE Sends(e, f) /\ stream' = [stream EXCEPT ![e][i].left = @ - 1, ![e][i].sent = @ + 1]
  <2>1. /\ s.sent + 1 \in 0 .. MaxData /\ s.left - 1 \in 0 .. MaxChunks
        /\ i \in handle[e]
    <3>1. s.left > 0 /\ s.sent + s.left <= MaxData /\ i \in handle[e]
      BY DEF SendData, IInv, Held
    <3>2. s.sent \in 0 .. MaxData /\ s.left \in 0 .. MaxChunks /\ MaxData \in Nat /\ MaxChunks \in Nat
      BY <1>1, MuxAssumption DEF StreamType
    <3> QED
      BY <3>1, <3>2
  <2>2. /\ r \in StreamType /\ r.msgs = s.msgs /\ r.off = s.off /\ r.got = s.got
        /\ r.err = s.err /\ r.closed = s.closed /\ r.closing = s.closing
        /\ r.sent = s.sent + 1 /\ r.closeAt = s.closeAt
    BY <1>1, <2>1 DEF StreamType
  <2>3. OneStream(e, i, r)
    BY <1>1, <1>3 DEF OneStream, TypeOK
  <2>4. f \in Frames /\ f.id = i /\ f.type = "data"
    BY <2>1 DEF Frames, Frame
  <2> HIDE DEF r, f
  <2>5. Taken(r) = Taken(s) /\ (Shut(r) <=> Shut(s))
    BY <2>2, SameReader DEF Shut
  <2>6. Calm
    BY <1>1, <2>2, <2>3, <2>5, CalmOne
  <2>7. LateFrames'
    <3>1. CASE wire' = wire
      BY <1>1, <2>6, <3>1, LateSameWires
    <3>2. CASE up /\ wire'[e] = wire[e] /\ IsAppend(wire[p], f, wire'[p])
      <4>1. Shut(s) => stream[p][i].err \/ HasClose(wire[p], i)
        <5>1. stream[p][i].err \/ i \in table[p] \/ HasOpen(wire[p], i)
          BY <2>1, <3>2, PeerFinds
        <5>2. CloseComes(wire[p], i, s, i \in table[p])
          BY <3>2, Ends DEF Link
        <5> QED
          BY <5>1, <5>2 DEF CloseComes, Shut
      <4> QED
        BY <1>1, <2>4, <2>6, <3>2, <4>1, LateSent
    <3> QED
      BY <1>3, <2>4, <3>1, <3>2, SendsFrame
  <2>8. Abstract!Send(d)
    <3>1. Sent' = [Sent EXCEPT ![d] = r.sent] /\ Sent[d] = s.sent
      BY <1>1, <2>2, <2>3, WriterView
    <3>2. Closed' = Closed /\ ClosedAt' = ClosedAt
      BY <1>1, <2>2, <2>3, <2>5, WriterSame
    <3>3. Arrived' = Arrived /\ Got' = Got /\ AtEnd' = AtEnd /\ Abandoned' = Abandoned
      BY <1>1, <2>2, <2>3, <2>5, ReaderSame
    <3> HIDE DEF d, s
    <3> QED
      BY <2>2, <3>1, <3>2, <3>3 DEF Abstract!Send
  <2> QED
    BY <1>1, <2>7, <2>8 DEF Abstract!Next
<1> QED
  BY <1>2, <1>3 DEF SendData

LEMMA CloseStreamImplements ==
  ASSUME IInv, LateFrames, NEW e \in Side, NEW i \in Id, CloseStream(e, i)
  PROVE  LateFrames' /\ [Abstract!Next]_(Abstract!vars)
<1> DEFINE s == stream[e][i]
           r == [s EXCEPT !.closed = TRUE, !.err = TRUE, !.closing = TRUE]
           c == <<e, i>>
<1>1. TypeOK /\ s \in StreamType /\ ~s.closed /\ c \in Channel /\ wire' = wire
  <2>1. TypeOK /\ s \in StreamType
    BY DEF IInv, TypeOK
  <2>2. c \in Channel
    BY ChannelOf
  <2> QED
    BY <2>1, <2>2 DEF CloseStream
<1>2. SameConns
  BY DEF SameConns, CloseStream
<1>3. /\ r \in StreamType /\ r.msgs = s.msgs /\ r.off = s.off /\ r.got = s.got
      /\ r.err /\ r.closed /\ r.closing
      /\ r.sent = s.sent /\ r.closeAt = s.closeAt
  BY <1>1 DEF StreamType
<1>4. OneStream(e, i, r)
  BY <1>1 DEF OneStream, TypeOK, CloseStream
<1> HIDE DEF r
<1>5. Taken(r) = Taken(s) /\ ~Shut(r) /\ ~Shut(s)
  BY <1>1, <1>3, SameReader DEF Shut
<1>6. LateFrames'
  <2>1. Calm
    BY <1>1, <1>3, <1>4, <1>5, CalmOne
  <2> QED
    BY <1>1, <2>1, LateSameWires
<1>7. Sent' = Sent /\ Closed' = Closed /\ ClosedAt' = ClosedAt
  BY <1>1, <1>3, <1>4, <1>5, WriterSame
<1>8. Arrived' = Arrived /\ Got' = Got
  BY <1>1, <1>2, <1>3, <1>4, <1>5, ReaderSame
<1>9. AtEnd' = AtEnd \cup {c} /\ Abandoned' = Abandoned \cup {c}
  BY <1>1, <1>2, <1>3, <1>4, ReaderView
<1>10. Abstract!Abandon({c})
  BY <1>7, <1>8, <1>9 DEF Abstract!Abandon
<1>11. Abstract!Next
  BY <1>1, <1>10 DEF Abstract!Next
<1> QED
  BY <1>6, <1>11

LEMMA SendCloseImplements ==
  ASSUME IInv, LateFrames, NEW e \in Side, NEW i \in Id, SendClose(e, i)
  PROVE  LateFrames' /\ [Abstract!Next]_(Abstract!vars)
<1> DEFINE s == stream[e][i]
           p == Peer(e)
           f == Frame("close", i, 0)
           r == [s EXCEPT !.closing = FALSE, !.closeAt = s.sent]
           d == <<p, i>>
<1>1. TypeOK /\ s \in StreamType /\ s.closing /\ s.closed /\ p \in Side /\ d \in Channel
  <2>1. TypeOK /\ s \in StreamType
    BY DEF IInv, TypeOK
  <2>2. p \in Side /\ d \in Channel
    BY Sides, ChannelOf
  <2>3. s.closing /\ s.closed
    BY DEF IInv, SendClose, Held
  <2> QED
    BY <2>1, <2>2, <2>3
<1>2. SameConns
  BY DEF SameConns, SendClose
<1>3. /\ r \in StreamType /\ r.msgs = s.msgs /\ r.off = s.off /\ r.got = s.got
      /\ r.err = s.err /\ r.closed = s.closed /\ ~r.closing
      /\ r.sent = s.sent /\ r.closeAt = s.sent
  BY <1>1 DEF StreamType
<1>4. OneStream(e, i, r)
  BY <1>1 DEF OneStream, TypeOK, SendClose
<1>5. wire' = wire \/ (wire'[e] = wire[e] /\ IsAppend(wire[p], f, wire'[p]))
  <2>1. f \in Frames
    BY MuxAssumption DEF Frames, Frame
  <2>2. Sends(e, f) \/ wire' = wire
    BY DEF SendClose
  <2> QED
    BY <2>1, <2>2, SendsFrame
<1>6. f.id = i /\ f.type = "close"
  BY DEF Frame
<1> HIDE DEF r, f
<1>7. Taken(r) = Taken(s) /\ Shut(r) /\ ~Shut(s)
  BY <1>1, <1>3, SameReader DEF Shut
<1>8. LateFrames'
  <2> SUFFICES ASSUME NEW x \in Side, NEW y \in Id
               PROVE  Late(wire'[x], y, stream'[x][y], stream'[Peer(x)][y])
    BY DEF LateFrames
  <2>0. /\ Peer(x) \in Side /\ Peer(p) = e /\ (x = e \/ x = p) /\ e # p
        /\ Len(wire[x]) \in Nat
    BY <1>1, Sides DEF TypeOK
  <2>1. Agree(wire[x], wire'[x], y)
    <3>1. CASE wire'[x] = wire[x]
      BY <1>1, <3>1, SameWire
    <3>2. CASE x = p /\ IsAppend(wire[p], f, wire'[p])
      <4>1. ~Is(f, "data", y)
        BY <1>6 DEF Is
      <4> QED
        BY <3>2, <4>1, AppendAgrees
    <3> QED
      BY <1>5, <2>0, <3>1, <3>2
  <2>2. stream[x][y].err => stream'[x][y].err
    BY <1>1, <1>3, <1>4, StreamAt
  <2>3. CASE ~(x = p /\ y = i)
    <3>1. stream'[Peer(x)][y] = stream[Peer(x)][y]
      <4>1. ~(Peer(x) = e /\ y = i)
        BY <2>0, <2>3, Sides
      <4> QED
        BY <1>1, <1>3, <1>4, <2>0, <4>1, StreamAt
    <3>2. Late(wire[x], y, stream[x][y], stream[Peer(x)][y])
      BY DEF LateFrames
    <3> QED
      BY <2>0, <2>1, <2>2, <3>1, <3>2, LateKept
  <2>4. CASE x = p /\ y = i
    <3>1. stream'[Peer(x)][y] = r
      BY <1>1, <1>3, <1>4, <2>0, <2>4, StreamAt
    <3>2. InOrder(wire[p], i, stream[p][i], s)
      BY Ends DEF Link
    <3>3. s.sent \in Nat
      BY <1>1, MuxAssumption DEF StreamType
    <3>4. \A k \in 1 .. Len(wire'[p]) : Is(wire'[p][k], "data", i) => ~(wire'[p][k].n > s.sent)
      BY <2>1, <2>4, <3>2, <3>3 DEF Agree, InOrder
    <3> QED
      BY <1>3, <2>4, <3>1, <3>4 DEF Late
  <2> QED
    BY <2>3, <2>4
<1>9. Abstract!Close(d)
  <2>1. /\ d \notin Closed /\ Closed' = Closed \cup {d}
        /\ ClosedAt' = [ClosedAt EXCEPT ![d] = r.closeAt] /\ Sent[d] = s.sent
    BY <1>1, <1>3, <1>4, <1>7, WriterView
  <2>2. Sent' = Sent
    BY <1>1, <1>3, <1>4, WriterSame
  <2>3. Arrived' = Arrived /\ Got' = Got /\ AtEnd' = AtEnd /\ Abandoned' = Abandoned
    BY <1>1, <1>2, <1>3, <1>4, <1>7, ReaderSame
  <2> HIDE DEF d, s
  <2> QED
    BY <1>3, <2>1, <2>2, <2>3 DEF Abstract!Close
<1>10. Abstract!Next
  BY <1>1, <1>9 DEF Abstract!Next
<1> QED
  BY <1>8, <1>10

LEMMA EndStreamsImplements ==
  ASSUME IInv, LateFrames, NEW e \in Side, EndStreams(e)
  PROVE  LateFrames' /\ [Abstract!Next]_(Abstract!vars)
<1> DEFINE C == {e} \X Id
<1>1. TypeOK /\ wire' = wire /\ conn' = [conn EXCEPT ![e] = "closed"]
  BY DEF IInv, EndStreams
<1>2. ASSUME NEW x \in Side, NEW y \in Id
      PROVE  /\ SameFields(stream[x][y], stream'[x][y])
             /\ stream[x][y].err => stream'[x][y].err
             /\ x # e => stream'[x][y].err = stream[x][y].err
  <2> DEFINE r(z) == IF z \in table[e] THEN [stream[e][z] EXCEPT !.err = TRUE] ELSE stream[e][z]
             g == [z \in Id |-> r(z)]
  <2>1. stream[x][y] \in StreamType /\ stream \in [Side -> [Id -> StreamType]]
    BY <1>1 DEF TypeOK
  <2>2. x = e => SameFields(stream[x][y], r(y)) /\ (stream[x][y].err => r(y).err)
    BY <2>1, EndOfRead DEF SameFields
  <2>3. stream' = [stream EXCEPT ![e] = g] /\ g[y] = r(y)
    BY DEF EndStreams
  <2> HIDE DEF r, g
  <2>4. stream'[x] = IF x = e THEN g ELSE stream[x]
    BY <2>1, <2>3
  <2>5. CASE x = e
    <3>1. stream'[x][y] = r(y)
      BY <2>3, <2>4, <2>5
    <3> QED
      BY <2>2, <2>5, <3>1
  <2>6. CASE x # e
    <3>1. stream'[x][y] = stream[x][y]
      BY <2>4, <2>6
    <3> QED
      BY <3>1 DEF SameFields
  <2> QED
    BY <2>5, <2>6
<1>3. Calm
  BY <1>2 DEF Calm, SameFields, Shut
<1>4. LateFrames'
  BY <1>1, <1>3, LateSameWires
<1>5. \A c \in Channel : /\ c[1] \in Side /\ c[2] \in Id
                         /\ SameFields(Writer(c), Writer(c)') /\ SameFields(Reader(c), Reader(c)')
                         /\ Reader(c).err => Reader(c)'.err
                         /\ c \notin C => Reader(c)'.err = Reader(c).err
  <2> SUFFICES ASSUME NEW c \in Channel
               PROVE  /\ c[1] \in Side /\ c[2] \in Id
                      /\ SameFields(Writer(c), Writer(c)') /\ SameFields(Reader(c), Reader(c)')
                      /\ Reader(c).err => Reader(c)'.err
                      /\ c \notin C => Reader(c)'.err = Reader(c).err
    OBVIOUS
  <2>1. c[1] \in Side /\ c[2] \in Id /\ Peer(c[1]) \in Side /\ (c \notin C => c[1] # e)
    BY Sides DEF Channel
  <2> QED
    BY <1>2, <2>1 DEF Writer, Reader
<1>6. Sent' = Sent /\ Closed' = Closed /\ ClosedAt' = ClosedAt
  BY <1>5 DEF Sent, Closed, ClosedAt, SameFields, Shut
<1>7. Arrived' = Arrived /\ Got' = Got
  BY <1>5 DEF Arrived, Got, SameFields, Taken, Consumed
<1>8. AtEnd \subseteq AtEnd' /\ AtEnd' \subseteq AtEnd \cup C
  BY <1>5 DEF AtEnd
<1>9. Abandoned' = Abandoned \cup C
  <2>1. \A c \in Channel : c \in Abandoned' <=> c \in Abandoned \/ c[1] = e
    BY <1>1, <1>5 DEF Abandoned, SameFields, TypeOK
  <2>2. \A c : c \in C <=> c \in Channel /\ c[1] = e
    BY DEF Channel
  <2>3. Abandoned \subseteq Channel /\ Abandoned' \subseteq Channel
    BY DEF Abandoned
  <2> HIDE DEF C
  <2> QED
    BY <2>1, <2>2, <2>3
<1>10. C \in SUBSET Channel
  BY DEF Channel
<1> HIDE DEF C
<1>11. Abstract!Abandon(C)
  BY <1>6, <1>7, <1>8, <1>9 DEF Abstract!Abandon
<1>12. Abstract!Next
  BY <1>10, <1>11 DEF Abstract!Next
<1> QED
  BY <1>4, <1>12

(* A Read takes the next bytes of a message that has arrived. *)
LEMMA ReadImplements ==
  ASSUME IInv, LateFrames, NEW e \in Side, NEW i \in Id, NEW k \in 1 .. Unit, Read(e, i, k)
  PROVE  LateFrames' /\ [Abstract!Next]_(Abstract!vars)
<1> DEFINE s == stream[e][i]
           n == IF k < Unit - s.off THEN k ELSE Unit - s.off
           r == AfterRead(s, n)
           c == <<e, i>>
<1>1. TypeOK /\ s \in StreamType /\ Reads(s) /\ s.msgs # <<>> /\ wire' = wire
  <2>1. s \in StreamType /\ Reads(s)
    BY Ends DEF Link
  <2> QED
    BY <2>1 DEF IInv, Read
<1>2. SameConns
  BY DEF SameConns, Read
<1>3. OneStream(e, i, r)
  BY <1>1, ReadStep
<1>4. PICK q : q = Consumed(s)
  OBVIOUS
<1>5. /\ Unit \in Nat \ {0} /\ s.off \in 0 .. Unit - 1 /\ q \in Nat /\ Len(s.msgs) \in Nat
      /\ s.msgs \in Seq(1 .. MaxData)
  BY <1>1, <1>4, ConsumedNat
<1>6. n \in 1 .. Unit - s.off /\ n \in 1 .. Unit
  BY <1>5
<1> HIDE DEF n
<1>7. /\ r \in StreamType /\ Taken(r) = Taken(s) /\ r.got = s.got \o Taking(s, n)
      /\ r.err = s.err /\ r.closed = s.closed /\ r.closing = s.closing
      /\ r.sent = s.sent /\ r.closeAt = s.closeAt
  <2>1. s.off + n = Unit => r \in StreamType /\ Taken(r) = Taken(s)
    <3> SUFFICES ASSUME s.off + n = Unit PROVE r \in StreamType /\ Taken(r) = Taken(s)
      OBVIOUS
    <3>1. r = [s EXCEPT !.got = s.got \o Taking(s, n), !.off = 0, !.msgs = Tail(s.msgs)]
      BY DEF AfterRead
    <3> HIDE DEF r, s
    <3> QED
      BY <1>1, <1>6, <3>1, ReadsRest
  <2>2. s.off + n # Unit => r \in StreamType /\ Taken(r) = Taken(s)
    <3> SUFFICES ASSUME s.off + n # Unit PROVE r \in StreamType /\ Taken(r) = Taken(s)
      OBVIOUS
    <3>1. r = [s EXCEPT !.got = s.got \o Taking(s, n), !.off = s.off + n]
      BY <1>1 DEF AfterRead, StreamType
    <3> HIDE DEF r, s
    <3> QED
      BY <1>1, <1>6, <3>1, ReadsPart
  <2>3. /\ r.got = s.got \o Taking(s, n)
        /\ r.err = s.err /\ r.closed = s.closed /\ r.closing = s.closing
        /\ r.sent = s.sent /\ r.closeAt = s.closeAt
    BY <1>1 DEF AfterRead, StreamType
  <2> HIDE DEF r
  <2> QED
    BY <2>1, <2>2, <2>3
<1> HIDE DEF r
<1>8. Shut(r) <=> Shut(s)
  BY <1>7 DEF Shut
<1>9. LateFrames'
  <2>1. Calm
    BY <1>1, <1>3, <1>7, <1>8, CalmOne
  <2> QED
    BY <1>1, <2>1, LateSameWires
<1>10. /\ Len(s.got) = Unit * q + s.off /\ Head(s.msgs) = q + 1 /\ Len(s.msgs) >= 1
  <2>1. Len(s.msgs) \in Nat \ {0} /\ Head(s.msgs) = s.msgs[1]
    BY <1>1, <1>5, TailSeq
  <2>2. Len(s.got) = Unit * q + s.off /\ \A m \in 1 .. Len(s.msgs) : s.msgs[m] = q + m
    BY <1>1, <1>4 DEF Reads
  <2>3. 1 \in 1 .. Len(s.msgs) /\ Len(s.msgs) >= 1
    BY <2>1
  <2>4. s.msgs[1] = q + 1
    BY <2>2, <2>3
  <2> QED
    BY <2>1, <2>2, <2>3, <2>4
<1>11. Taking(s, n) = [j \in 1 .. n |-> Abstract!ByteAt(Len(s.got) + j)]
  <2>1. \A j \in 1 .. n : At(Unit * q + s.off + j) = <<q + 1, s.off + j>>
    BY <1>5, <1>6, NextBytes
  <2>2. \A j \in 1 .. n : Abstract!ByteAt(Len(s.got) + j) = <<q + 1, s.off + j>>
    BY <1>10, <2>1 DEF At, Abstract!ByteAt
  <2> HIDE DEF s
  <2> QED
    BY <1>10, <2>2 DEF Taking
<1>12. Len(s.got) < Unit * Taken(s) /\ (Len(s.got) % Unit) + n <= Unit
  <2>1. (Unit * q + s.off) % Unit = s.off
    BY <1>5, DivMod
  <2>2. PICK m \in Nat : Len(s.msgs) = m + 1
    <3>1. Len(s.msgs) - 1 \in Nat /\ Len(s.msgs) = (Len(s.msgs) - 1) + 1
      BY <1>5, <1>10
    <3> QED
      BY <3>1
  <2>3. Taken(s) = (q + m) + 1
    BY <1>4, <1>5, <2>2 DEF Taken
  <2>4. /\ Unit * ((q + m) + 1) = Unit * (q + m) + Unit * 1
        /\ Unit * (q + m) = Unit * q + Unit * m
        /\ Unit * q \in Nat /\ Unit * m \in Nat /\ Unit * 1 = Unit
    BY <1>5, <2>2, Distributes
  <2>5. Unit * Taken(s) = Unit * q + Unit * m + Unit
    BY <2>3, <2>4
  <2>6. Len(s.got) < Unit * Taken(s)
    BY <1>5, <1>10, <2>4, <2>5
  <2> QED
    <3>1. s.off + n <= Unit
      BY <1>5, <1>6
    <3>2. Len(s.got) % Unit = s.off
      BY <1>10, <2>1
    <3> QED
      BY <2>6, <3>1, <3>2
<1>13. Sent' = Sent /\ Closed' = Closed /\ ClosedAt' = ClosedAt
  BY <1>1, <1>3, <1>7, <1>8, WriterSame
<1>14. Arrived' = Arrived /\ AtEnd' = AtEnd /\ Abandoned' = Abandoned
  BY <1>1, <1>2, <1>3, <1>7, ReaderSame
<1>15. c \in Channel /\ Got' = [Got EXCEPT ![c] = r.got] /\ Got[c] = s.got /\ Arrived[c] = Taken(s)
  <2>1. c \in Channel /\ Got[c] = s.got
    BY <1>1, <1>2, <1>3, <1>7, ReaderView
  <2>2. Got' = [Got EXCEPT ![c] = r.got]
    <3>1. TypeOK /\ OneStream(e, i, r) /\ r \in StreamType /\ SameConns
      BY <1>1, <1>2, <1>3, <1>7
    <3> QED
      BY ONLY <3>1, e \in Side, i \in Id, ReaderView
  <2>3. Arrived[c] = Taken(s)
    BY <1>1, <1>2, <1>3, <1>7, ReaderView
  <2> QED
    BY <2>1, <2>2, <2>3
<1>16. Abstract!Read(c, n)
  <2>1. PICK g : g = [j \in 1 .. n |-> Abstract!ByteAt(Len(s.got) + j)]
    OBVIOUS
  <2>2. r.got = s.got \o g
    BY <1>7, <1>11, <2>1
  <2>3. Got' = [Got EXCEPT ![c] = Got[c] \o [j \in 1 .. n |-> Abstract!ByteAt(Len(Got[c]) + j)]]
    <3> HIDE DEF c, s
    <3> QED
      BY <1>15, <2>1, <2>2
  <2>4. Len(Got[c]) < Unit * Arrived[c] /\ (Len(Got[c]) % Unit) + n <= Unit
    BY <1>12, <1>15
  <2> HIDE DEF c, s
  <2> QED
    BY <1>13, <1>14, <2>3, <2>4 DEF Abstract!Read
<1>17. Abstract!Next
  BY <1>6, <1>15, <1>16 DEF Abstract!Next
<1> QED
  BY <1>9, <1>17

(* A frame is taken: STREAM_CLOSE ends the reader, or nothing follows it. *)
LEMMA LateTail ==
  ASSUME NEW w, NEW v, IsTail(w, v), NEW i, NEW s, NEW t, Late(w, i, s, t),
         NEW s2, s.err => s2.err,
         NEW t2, Shut(t2) => Shut(t) /\ t2.closeAt = t.closeAt,
         Is(w[1], "close", i) => s2.err \/ \A k \in 1 .. Len(w) : ~Is(w[k], "data", i)
  PROVE  Late(v, i, s2, t2)
<1> SUFFICES ASSUME Shut(t2), NEW k \in 1 .. Len(v), Is(v[k], "data", i), v[k].n > t2.closeAt,
                    ~s2.err
             PROVE  \E j \in 1 .. k - 1 : Is(v[j], "close", i)
  BY DEF Late
<1>1. k + 1 \in 1 .. Len(w) /\ v[k] = w[k + 1] /\ k \in Nat
  BY DEF IsTail
<1>2. PICK j \in 1 .. (k + 1) - 1 : Is(w[j], "close", i)
  BY <1>1 DEF Late
<1>3. j # 1
  BY <1>1, <1>2
<1>4. j - 1 \in 1 .. k - 1 /\ v[j - 1] = w[j]
  BY <1>1, <1>3 DEF IsTail
<1> QED
  BY <1>2, <1>4

LEMMA LateTaken ==
  ASSUME IInv, LateFrames, Calm, NEW e \in Side, NEW f, Takes1(e, f),
         f.type = "close" => \/ stream'[e][f.id].err
                             \/ \A k \in 1 .. Len(wire[e]) : ~Is(wire[e][k], "data", f.id)
  PROVE  LateFrames'
<1> SUFFICES ASSUME NEW x \in Side, NEW y \in Id
             PROVE  Late(wire'[x], y, stream'[x][y], stream'[Peer(x)][y])
  BY DEF LateFrames
<1>1. TypeOK /\ Peer(x) \in Side /\ (x = e \/ x = Peer(e))
  BY Sides DEF IInv
<1>2. IsTail(wire[e], wire'[e]) /\ wire'[Peer(e)] = wire[Peer(e)] /\ f = wire[e][1]
  BY TakenFrame
<1>3. CASE x = Peer(e)
  BY <1>1, <1>2, <1>3, SameWire, LateAgree
<1>4. CASE x = e
  <2>1. PICK w, v : w = wire[e] /\ v = wire'[e]
    OBVIOUS
  <2>2. PICK s, s2 : s = stream[e][y] /\ s2 = stream'[e][y]
    OBVIOUS
  <2>3. PICK t, t2 : t = stream[Peer(e)][y] /\ t2 = stream'[Peer(e)][y]
    OBVIOUS
  <2>4. Late(w, y, s, t) /\ IsTail(w, v) /\ f = w[1]
    BY <1>2, <2>1, <2>2, <2>3 DEF LateFrames
  <2>5. (s.err => s2.err) /\ (Shut(t2) => Shut(t) /\ t2.closeAt = t.closeAt)
    BY <1>1, <1>4, <2>2, <2>3 DEF Calm
  <2>6. Is(w[1], "close", y) => s2.err \/ \A k \in 1 .. Len(w) : ~Is(w[k], "data", y)
    BY <2>1, <2>2, <2>4 DEF Is
  <2>7. Late(v, y, s2, t2)
    BY ONLY <2>4, <2>5, <2>6, LateTail
  <2> QED
    BY <1>4, <2>1, <2>2, <2>3, <2>7
<1> QED
  BY <1>1, <1>3, <1>4

(* Nothing follows the STREAM_CLOSE of a stream that is not there. *)
LEMMA CloseEnds ==
  ASSUME IInv, NEW e \in Side, NEW f, Takes1(e, f), f.type = "close",
         f.id \notin table[e], ~stream[e][f.id].err,
         NEW k \in 1 .. Len(wire[e])
  PROVE  ~Is(wire[e][k], "data", f.id)
<1> SUFFICES ASSUME Is(wire[e][k], "data", f.id) PROVE FALSE
  OBVIOUS
<1>1. f = wire[e][1] /\ f.id \in Id /\ Len(wire[e]) \in Nat
  BY TakenFrame DEF IsTail
<1>2. FindStream(wire[e], f.id, stream[e][f.id], f.id \in table[e])
  BY <1>1, Ends DEF Link
<1>3. PICK j \in 1 .. k - 1 : Is(wire[e][j], "open", f.id)
  BY <1>2 DEF FindStream
<1>4. j \in 1 .. Len(wire[e]) /\ j # 1 /\ 1 \in 1 .. j - 1
  BY <1>1, <1>3 DEF Is
<1>5. wire[e][1].id # f.id
  BY <1>3, <1>4 DEF IInv, OpenFirst, Is
<1> QED
  BY <1>1, <1>5

(* A frame that changes no stream. *)
LEMMA TakenUnseen ==
  ASSUME IInv, LateFrames, NEW e \in Side, NEW f, Takes1(e, f), stream' = stream,
         f.type = "close" => f.id \notin table[e]
  PROVE  LateFrames' /\ UNCHANGED Abstract!vars
<1>1. Calm /\ SameConns
  BY DEF Calm, SameConns, Takes1
<1>2. f.type = "close" => \/ stream'[e][f.id].err
                          \/ \A k \in 1 .. Len(wire[e]) : ~Is(wire[e][k], "data", f.id)
  BY CloseEnds
<1> QED
  BY <1>1, <1>2, LateTaken, NoView

(* The channel of a reader. *)
LEMMA ChannelState ==
  ASSUME NEW e \in Side, NEW i \in Id
  PROVE  LET c == <<e, i>>
             s == stream[e][i]
             t == stream[Peer(e)][i]
         IN  /\ Sent[c] = t.sent /\ ClosedAt[c] = t.closeAt /\ Arrived[c] = Taken(s)
             /\ c \in Closed <=> Shut(t)
             /\ c \in AtEnd <=> s.err
<1>1. <<e, i>> \in Channel
  BY ChannelOf
<1>2. Reader(<<e, i>>) = stream[e][i] /\ Writer(<<e, i>>) = stream[Peer(e)][i]
  BY DEF Reader, Writer
<1> QED
  BY <1>1, <1>2 DEF Sent, ClosedAt, Arrived, Closed, AtEnd

LEMMA DispatchDataImplements ==
  ASSUME IInv, LateFrames, NEW e \in Side, NEW f, Takes1(e, f), f.type = "data",
         DispatchData(e, f)
  PROVE  LateFrames' /\ [Abstract!Next]_(Abstract!vars)
<1> DEFINE i == f.id
           s == stream[e][i]
           t == stream[Peer(e)][i]
           r == DeliverData(s, f.n)
           c == <<e, i>>
<1>1. /\ f = wire[e][1] /\ i \in Id /\ 1 \in 1 .. Len(wire[e]) /\ Is(wire[e][1], "data", i)
  BY TakenFrame DEF IsTail, Is
<1>2. /\ s \in StreamType /\ t \in StreamType
      /\ Reads(s) /\ InOrder(wire[e], i, s, t) /\ Late(wire[e], i, s, t)
  BY <1>1, Ends DEF Link, LateFrames
<1>3. CASE stream' = stream
  BY <1>3, TakenUnseen
<1>4. CASE ~s.err /\ stream' = [stream EXCEPT ![e][i] = r]
  <2>1. t.sent \in 0 .. MaxData /\ MaxData \in Nat /\ Taken(s) \in Nat
        /\ t.closeAt \in Nat
    <3>1. t.sent \in 0 .. MaxData /\ MaxData \in Nat /\ t.closeAt \in 0 .. MaxData
      BY <1>2, MuxAssumption DEF StreamType
    <3>2. Taken(s) \in Nat
      BY <1>2, ConsumedNat
    <3> QED
      BY <3>1, <3>2
  <2>2. f.n \in 1 .. t.sent /\ f.n = Taken(s) + 1 /\ (Shut(t) => ~(f.n > t.closeAt))
    <3>1. \A j : j \notin 1 .. 1 - 1
      OBVIOUS
    <3> HIDE DEF i, s, t
    <3> QED
      BY <1>1, <1>2, <1>4, <3>1 DEF InOrder, Late
  <2>3. f.n \in 1 .. MaxData /\ ~s.err
    BY <1>4, <2>1, <2>2
  <2>4. r \in StreamType /\ Taken(r) = Taken(s) + 1
    <3> HIDE DEF i, s, t
    <3> QED
      BY <1>2, <2>2, <2>3, DeliverStep
  <2>5. /\ r.got = s.got /\ r.err = s.err /\ r.closed = s.closed /\ r.closing = s.closing
        /\ r.sent = s.sent /\ r.closeAt = s.closeAt
    BY <1>2, <1>4 DEF DeliverData, StreamType
  <2>6. OneStream(e, i, r)
    BY <1>4 DEF OneStream
  <2> HIDE DEF r
  <2>7. TypeOK /\ SameConns /\ (Shut(r) <=> Shut(s))
    BY <2>5 DEF IInv, SameConns, Takes1, Shut
  <2>8. LateFrames'
    <3>1. Calm
      BY <1>1, <2>4, <2>5, <2>6, <2>7, CalmOne
    <3> QED
      BY <3>1, LateTaken
  <2>9. Sent' = Sent /\ Closed' = Closed /\ ClosedAt' = ClosedAt
    BY <1>1, <2>4, <2>5, <2>6, <2>7, WriterSame
  <2>10. Got' = Got /\ AtEnd' = AtEnd /\ Abandoned' = Abandoned
    BY <1>1, <2>4, <2>5, <2>6, <2>7, ReaderSame
  <2>11. c \in Channel /\ Arrived' = [Arrived EXCEPT ![c] = Taken(r)]
    BY <1>1, <2>4, <2>6, <2>7, ReaderView
  <2>12. /\ Sent[c] = t.sent /\ ClosedAt[c] = t.closeAt /\ Arrived[c] = Taken(s)
         /\ c \in Closed <=> Shut(t)
         /\ c \notin AtEnd
    BY <1>1, <1>4, ChannelState
  <2>13. Taken(s) < IF c \in Closed THEN ClosedAt[c] ELSE Sent[c]
    <3> HIDE DEF c, s, t
    <3> QED
      BY <2>1, <2>2, <2>12
  <2>14. Abstract!Arrive(c)
    <3> HIDE DEF c, s, t
    <3> QED
      BY <2>4, <2>9, <2>10, <2>11, <2>12, <2>13 DEF Abstract!Arrive
  <2>15. Abstract!Next
    BY <2>11, <2>14 DEF Abstract!Next
  <2> QED
    BY <2>8, <2>15
<1>5. stream' = stream \/ (~s.err /\ stream' = [stream EXCEPT ![e][i] = r])
  <2>1. CASE s.err /\ i \in table[e]
    <3>1. r = s
      BY <2>1 DEF DeliverData
    <3>2. stream' = [stream EXCEPT ![e][i] = s]
      BY <2>1, <3>1 DEF DispatchData
    <3>3. stream' = stream
      BY <1>1, <3>2 DEF IInv, TypeOK
    <3> QED
      BY ONLY <3>3
  <2>2. CASE i \notin table[e]
    <3>1. stream' = stream
      BY <2>2 DEF DispatchData
    <3> QED
      BY ONLY <3>1
  <2>3. CASE ~s.err /\ i \in table[e]
    BY <2>3 DEF DispatchData
  <2> QED
    BY <2>1, <2>2, <2>3
<1> QED
  BY <1>3, <1>4, <1>5

(* STREAM_OPEN finds a stream that has not been used: its reader is at the  *)
(* beginning of the channel, as before.                                    *)
LEMMA DispatchOpenImplements ==
  ASSUME IInv, LateFrames, NEW e \in Side, NEW f, Takes1(e, f), f.type = "open",
         DispatchOpen(e, f)
  PROVE  LateFrames' /\ UNCHANGED Abstract!vars
<1>1. f = wire[e][1] /\ f.id \in Id /\ 1 \in 1 .. Len(wire[e])
  BY TakenFrame DEF IsTail
<1>2. stream[e][f.id] = NewStream
  BY <1>1 DEF IInv, OpenFirst
<1>3. stream' = [stream EXCEPT ![e][f.id] = stream[e][f.id]]
  BY <1>2 DEF DispatchOpen
<1>4. stream' = stream
  BY <1>1, <1>3 DEF IInv, TypeOK
<1> QED
  BY <1>4, TakenUnseen

LEMMA DispatchCloseImplements ==
  ASSUME IInv, LateFrames, NEW e \in Side, NEW f, Takes1(e, f), f.type = "close",
         DispatchClose(e, f)
  PROVE  LateFrames' /\ [Abstract!Next]_(Abstract!vars)
<1> DEFINE i == f.id
           s == stream[e][i]
           t == stream[Peer(e)][i]
           r == [s EXCEPT !.err = TRUE]
           c == <<e, i>>
<1>1. f = wire[e][1] /\ i \in Id /\ 1 \in 1 .. Len(wire[e]) /\ Is(wire[e][1], "close", i)
  BY TakenFrame DEF IsTail, Is
<1>2. s \in StreamType /\ CloseInOrder(wire[e], i, s, t)
  BY <1>1, Ends DEF Link
<1>3. CASE i \notin table[e]
  <2>1. stream' = stream
    BY <1>3 DEF DispatchClose
  <2> QED
    BY <1>3, <2>1, TakenUnseen
<1>4. CASE i \in table[e]
  <2>1. OneStream(e, i, r)
    BY <1>1, <1>4 DEF DispatchClose, OneStream, IInv, TypeOK
  <2>2. r \in StreamType /\ SameFields(s, r) /\ r.err
    BY <1>2, EndOfRead
  <2> HIDE DEF r
  <2>3. /\ r.got = s.got /\ r.closed = s.closed /\ r.sent = s.sent /\ r.closeAt = s.closeAt
        /\ Taken(r) = Taken(s) /\ (Shut(r) <=> Shut(s))
    BY <2>2, SameReader DEF SameFields, Shut
  <2>4. TypeOK /\ SameConns
    BY DEF IInv, SameConns, Takes1
  <2>5. LateFrames'
    <3>1. Calm
      BY <1>1, <2>1, <2>2, <2>3, <2>4, CalmOne
    <3>2. stream'[e][i].err
      BY <1>1, <2>1, <2>2, <2>4, StreamAt
    <3> QED
      BY <3>1, <3>2, LateTaken
  <2>6. Sent' = Sent /\ Closed' = Closed /\ ClosedAt' = ClosedAt
    BY <1>1, <2>1, <2>2, <2>3, <2>4, WriterSame
  <2>7. Arrived' = Arrived /\ Got' = Got /\ Abandoned' = Abandoned
    BY <1>1, <2>1, <2>2, <2>3, <2>4, ReaderSame
  <2>8. c \in Channel /\ AtEnd' = AtEnd \cup {c}
    BY <1>1, <2>1, <2>2, <2>4, ReaderView
  <2>9. /\ ClosedAt[c] = t.closeAt /\ Arrived[c] = Taken(s)
        /\ (c \in Closed <=> Shut(t)) /\ (c \in AtEnd <=> s.err)
    BY <1>1, ChannelState
  <2>10. CASE s.err
    <3>1. AtEnd' = AtEnd
      BY <2>8, <2>9, <2>10
    <3> QED
      BY <2>5, <2>6, <2>7, <3>1 DEF Abstract!vars
  <2>11. CASE ~s.err
    <3>1. Shut(t) /\ Taken(s) = t.closeAt
      <4>1. \A j : j \notin 1 .. 1 - 1
        OBVIOUS
      <4> HIDE DEF i, s, t
      <4> QED
        BY <1>1, <1>2, <2>11, <4>1 DEF CloseInOrder, Shut
    <3>2. Abstract!End(c)
      <4> HIDE DEF c, s, t
      <4> QED
        BY <2>6, <2>7, <2>8, <2>9, <3>1 DEF Abstract!End
    <3>3. Abstract!Next
      BY <2>8, <3>2 DEF Abstract!Next
    <3> QED
      BY <2>5, <3>3
  <2> QED
    BY <2>10, <2>11
<1> QED
  BY <1>3, <1>4

LEMMA DispatchImplements ==
  ASSUME IInv, LateFrames, NEW e \in Side, Dispatch(e)
  PROVE  LateFrames' /\ [Abstract!Next]_(Abstract!vars)
<1>1. PICK f : f = Head(wire[e])
  OBVIOUS
<1>2. Takes1(e, f)
  BY <1>1 DEF Dispatch, Takes1
<1>3. \/ f.type = "open" /\ DispatchOpen(e, f)
      \/ f.type = "data" /\ DispatchData(e, f)
      \/ f.type = "close" /\ DispatchClose(e, f)
  BY <1>1 DEF Dispatch
<1> QED
  BY <1>2, <1>3, DispatchOpenImplements, DispatchDataImplements, DispatchCloseImplements

(* The invariant that frames sent after STREAM_CLOSE come after it, and the *)
(* refinement, step by step.                                               *)
LEMMA StepImplements ==
  ASSUME IInv, LateFrames, [Next]_vars
  PROVE  LateFrames' /\ [Abstract!Next]_(Abstract!vars)
<1> DEFINE Goal == LateFrames' /\ [Abstract!Next]_(Abstract!vars)
<1>1. ASSUME \/ \E e \in Side : OpenStream(e) \/ ReadFrameFails(e) \/ CloseConn(e)
             \/ \E e \in Side, i \in Id : SendOpen(e, i)
             \/ TransportFails
             \/ UNCHANGED vars
      PROVE  Goal
  BY <1>1, OthersImplement
<1>2. ASSUME NEW e \in Side, Dispatch(e) PROVE Goal
  BY <1>2, DispatchImplements
<1>3. ASSUME NEW e \in Side, EndStreams(e) PROVE Goal
  BY <1>3, EndStreamsImplements
<1>4. ASSUME NEW e \in Side, NEW i \in Id, SendData(e, i) PROVE Goal
  BY <1>4, SendDataImplements
<1>5. ASSUME NEW e \in Side, NEW i \in Id, CloseStream(e, i) PROVE Goal
  BY <1>5, CloseStreamImplements
<1>6. ASSUME NEW e \in Side, NEW i \in Id, SendClose(e, i) PROVE Goal
  BY <1>6, SendCloseImplements
<1>7. ASSUME NEW e \in Side, NEW i \in Id, NEW k \in 1 .. MaxChunks, Write(e, i, k) PROVE Goal
  <2>1. /\ stream' = [stream EXCEPT ![e][i].left = k] /\ UNCHANGED <<conn, wire>>
        /\ k \in 0 .. MaxChunks
    BY <1>7, MuxAssumption DEF Write
  <2> QED
    BY <2>1, LeftImplements
<1>8. ASSUME NEW e \in Side, NEW i \in Id, NEW k \in 1 .. Unit, Read(e, i, k) PROVE Goal
  BY <1>8, ReadImplements
<1> HIDE DEF Goal
<1>9. Goal
  BY <1>1, <1>2, <1>3, <1>4, <1>5, <1>6, <1>7, <1>8 DEF Next
<1> QED
  BY <1>9 DEF Goal

(* Before the first step nothing has been sent. *)
LEMMA InitImplements == Init => LateFrames /\ Abstract!Init
<1> SUFFICES ASSUME Init PROVE LateFrames /\ Abstract!Init
  OBVIOUS
<1>1. \A c \in Channel : Writer(c) = NewStream /\ Reader(c) = NewStream /\ c[1] \in Side
  BY Sides DEF Init, Channel, Writer, Reader
<1>2. /\ ~NewStream.closed /\ ~NewStream.err /\ NewStream.sent = 0 /\ NewStream.closeAt = 0
      /\ NewStream.got = <<>> /\ ~Shut(NewStream)
  BY DEF NewStream, Shut
<1>3. Taken(NewStream) = 0
  <2>1. Len(NewStream.got) = 0 /\ Len(NewStream.msgs) = 0
    BY DEF NewStream
  <2>2. 0 \div Unit = 0
    BY MuxAssumption
  <2> QED
    BY <2>1, <2>2 DEF Taken, Consumed
<1>4. Sent = [c \in Channel |-> 0] /\ ClosedAt = [c \in Channel |-> 0] /\ Closed = {}
  BY <1>1, <1>2 DEF Sent, ClosedAt, Closed
<1>5. Arrived = [c \in Channel |-> 0] /\ Got = [c \in Channel |-> <<>>] /\ AtEnd = {}
  BY <1>1, <1>2, <1>3 DEF Arrived, Got, AtEnd
<1>6. Abandoned = {}
  BY <1>1, <1>2 DEF Abandoned, Init
<1>7. LateFrames
  <2>1. \A e \in Side, i \in Id : stream[Peer(e)][i] = NewStream
    BY Sides DEF Init
  <2> QED
    BY <1>2, <2>1 DEF LateFrames, Late
<1> QED
  BY <1>4, <1>5, <1>6, <1>7 DEF Abstract!Init

(* The multiplexer is what it promises: each direction of a stream carries  *)
(* the writer's bytes in order, and the end of it comes where the writer    *)
(* closed the stream, or where the reader's side gave it up.               *)
THEOREM MuxImplementsChannels == Spec => ImplementsChannels
<1>1. IInv /\ LateFrames /\ [Next]_vars => LateFrames' /\ [Abstract!Next]_(Abstract!vars)
  BY StepImplements
<1> QED
  BY <1>1, InitImplements, Inductive, PTL DEF Spec, ImplementsChannels, Abstract!Spec
=============================================================================
