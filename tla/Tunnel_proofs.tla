----------------------------- MODULE Tunnel_proofs -----------------------------
(***************************************************************************)
(* For messages, frames and bounds of any size: the fallback sees the      *)
(* whole request, what one side seals the other opens, and what it decodes *)
(* is what was sent.                                                       *)
(***************************************************************************)
EXTENDS Tunnel, Integers, TLAPS

-----------------------------------------------------------------------------
(* Sequences.                                                              *)

LEMMA SeqEq ==
  ASSUME NEW S, NEW s \in Seq(S), NEW t \in Seq(S), Len(s) = Len(t),
         \A i \in 1 .. Len(s) : s[i] = t[i]
  PROVE  s = t
  OBVIOUS

LEMMA FirstSeq ==
  ASSUME NEW S, NEW s \in Seq(S), NEW n \in 0 .. Len(s)
  PROVE  /\ First(s, n) \in Seq(S) /\ Len(First(s, n)) = n
         /\ \A i \in 1 .. n : First(s, n)[i] = s[i]
  BY DEF First

LEMMA AfterSeq ==
  ASSUME NEW S, NEW s \in Seq(S), NEW n \in 0 .. Len(s)
  PROVE  /\ After(s, n) \in Seq(S) /\ Len(After(s, n)) = Len(s) - n
         /\ \A i \in 1 .. Len(s) - n : After(s, n)[i] = s[n + i]
  BY DEF After

LEMMA Concat ==
  ASSUME NEW S, NEW s \in Seq(S), NEW t \in Seq(S)
  PROVE  /\ s \o t \in Seq(S) /\ Len(s \o t) = Len(s) + Len(t)
         /\ \A i \in 1 .. Len(s) : (s \o t)[i] = s[i]
         /\ \A i \in 1 .. Len(t) : (s \o t)[Len(s) + i] = t[i]
  OBVIOUS

LEMMA Halves ==
  ASSUME NEW S, NEW t \in Seq(S), NEW n \in 0 .. Len(t)
  PROVE  First(t, n) \o After(t, n) = t
<1> DEFINE f == First(t, n)
          a == After(t, n)
<1>1. /\ f \in Seq(S) /\ Len(f) = n /\ a \in Seq(S) /\ Len(a) = Len(t) - n
      /\ \A i \in 1 .. n : f[i] = t[i]
      /\ \A i \in 1 .. Len(t) - n : a[i] = t[n + i]
  BY FirstSeq, AfterSeq
<1> HIDE DEF f, a
<1>2. /\ f \o a \in Seq(S) /\ Len(f \o a) = Len(t)
      /\ \A i \in 1 .. n : (f \o a)[i] = f[i]
      /\ \A i \in 1 .. Len(t) - n : (f \o a)[n + i] = a[i]
  BY <1>1, Concat
<1>3. ASSUME NEW i \in 1 .. Len(t), i > n PROVE (f \o a)[i] = t[i]
  <2>1. i - n \in 1 .. Len(t) - n /\ n + (i - n) = i
    BY <1>3
  <2>2. (f \o a)[n + (i - n)] = a[i - n] /\ a[i - n] = t[n + (i - n)]
    BY <1>1, <1>2, <2>1
  <2> QED
    BY <2>1, <2>2
<1>4. \A i \in 1 .. Len(t) : (f \o a)[i] = t[i]
  BY <1>1, <1>2, <1>3
<1>5. f \o a = t
  BY <1>2, <1>4, SeqEq
<1> QED
  BY <1>5 DEF f, a

LEMMA Associates ==
  ASSUME NEW S, NEW s \in Seq(S), NEW t \in Seq(S), NEW u \in Seq(S)
  PROVE  (s \o t) \o u = s \o (t \o u)
  OBVIOUS

(* Taking n elements off t and putting them behind s leaves s \o t alone. *)
LEMMA Moves ==
  ASSUME NEW S, NEW s \in Seq(S), NEW t \in Seq(S), NEW n \in 0 .. Len(t)
  PROVE  (s \o First(t, n)) \o After(t, n) = s \o t
<1>1. First(t, n) \in Seq(S) /\ After(t, n) \in Seq(S)
  BY FirstSeq, AfterSeq
<1>2. (s \o First(t, n)) \o After(t, n) = s \o (First(t, n) \o After(t, n))
  BY SMTT(20), <1>1, Associates
<1>3. First(t, n) \o After(t, n) = t
  BY Halves
<1> QED
  BY <1>2, <1>3

LEMMA Empties ==
  ASSUME NEW S, NEW s \in Seq(S)
  PROVE  s \o <<>> = s /\ <<>> \o s = s /\ <<>> \in Seq(S) /\ (Len(s) = 0 => s = <<>>)
  OBVIOUS

(* A prefix of a prefix is a prefix. *)
LEMMA Shorter ==
  ASSUME NEW S, NEW s \in Seq(S), NEW n \in 0 .. Len(s), NEW m \in 0 .. n
  PROVE  First(First(s, n), m) = First(s, m)
<1>1. First(s, n) \in Seq(S) /\ Len(First(s, n)) = n /\ \A i \in 1 .. n : First(s, n)[i] = s[i]
  BY FirstSeq
<1>2. /\ First(First(s, n), m) \in Seq(S) /\ Len(First(First(s, n), m)) = m
      /\ \A i \in 1 .. m : First(First(s, n), m)[i] = First(s, n)[i]
  BY <1>1, FirstSeq
<1>3. First(s, m) \in Seq(S) /\ Len(First(s, m)) = m /\ \A i \in 1 .. m : First(s, m)[i] = s[i]
  BY FirstSeq
<1>4. \A i \in 1 .. m : i \in 1 .. n
  OBVIOUS
<1> QED
  BY <1>1, <1>2, <1>3, <1>4, SeqEq

(* A prefix of s \o t that keeps all of s is s and a prefix of t. *)
LEMMA CutSecond ==
  ASSUME NEW S, NEW s \in Seq(S), NEW t \in Seq(S), NEW n \in 0 .. Len(t)
  PROVE  s \o First(t, n) = First(s \o t, Len(s) + n)
<1> DEFINE f == First(t, n)
          l == s \o f
          u == s \o t
          p == First(u, Len(s) + n)
<1>1. f \in Seq(S) /\ Len(f) = n /\ \A i \in 1 .. n : f[i] = t[i]
  BY FirstSeq
<1> HIDE DEF f
<1>2. /\ u \in Seq(S) /\ Len(u) = Len(s) + Len(t)
      /\ \A i \in 1 .. Len(s) : u[i] = s[i]
      /\ \A i \in 1 .. Len(t) : u[Len(s) + i] = t[i]
  BY Concat
<1>3. /\ l \in Seq(S) /\ Len(l) = Len(s) + n
      /\ \A i \in 1 .. Len(s) : l[i] = s[i]
      /\ \A i \in 1 .. n : l[Len(s) + i] = f[i]
  <2>1. f \in Seq(S)
    BY <1>1
  <2>2. /\ l \in Seq(S) /\ Len(l) = Len(s) + Len(f)
        /\ \A i \in 1 .. Len(s) : l[i] = s[i]
        /\ \A i \in 1 .. Len(f) : l[Len(s) + i] = f[i]
    BY <2>1, Concat
  <2> QED
    BY <1>1, <2>2
<1> HIDE DEF u, l
<1>4. Len(s) + n \in 0 .. Len(u)
  BY <1>2
<1>5. /\ p \in Seq(S) /\ Len(p) = Len(s) + n
      /\ \A i \in 1 .. Len(s) + n : p[i] = u[i]
  BY <1>2, <1>4, FirstSeq
<1> HIDE DEF p
<1>6. ASSUME NEW i \in 1 .. Len(s) + n PROVE l[i] = p[i]
  <2>1. CASE i <= Len(s)
    BY <1>2, <1>3, <1>5, <2>1
  <2>2. CASE i > Len(s)
    <3>1. i - Len(s) \in 1 .. n /\ i - Len(s) \in 1 .. Len(t) /\ Len(s) + (i - Len(s)) = i
      BY <2>2
    <3> QED
      BY SMT, ZenonT(30), <1>1, <1>2, <1>3, <1>5, <3>1
  <2> QED
    BY <2>1, <2>2
<1>7. l = p
  BY <1>3, <1>5, <1>6, SeqEq
<1> QED
  BY <1>7 DEF l, p, u, f

(* What follows the same prefix in equal sequences is equal. *)
LEMMA Cancels ==
  ASSUME NEW S, NEW f \in Seq(S), NEW a \in Seq(S), NEW g \in Seq(S), f \o a = f \o g
  PROVE  a = g
<1>1. Len(f \o a) = Len(f) + Len(a) /\ Len(f \o g) = Len(f) + Len(g)
  BY Concat
<1>2. Len(a) = Len(g)
  BY <1>1
<1>3. ASSUME NEW i \in 1 .. Len(a) PROVE a[i] = g[i]
  <2>1. (f \o a)[Len(f) + i] = a[i]
    BY Concat
  <2>2. (f \o g)[Len(f) + i] = g[i]
    BY <1>2, Concat
  <2> QED
    BY <2>1, <2>2
<1> QED
  BY <1>2, <1>3, SeqEq

(* What is added to s changes none of its prefixes. *)
LEMMA FirstGrows ==
  ASSUME NEW S, NEW s \in Seq(S), NEW t \in Seq(S), NEW n \in 0 .. Len(s)
  PROVE  First(s, n) = First(s \o t, n) /\ n \in 0 .. Len(s \o t)
<1> DEFINE u == s \o t
<1>1. u \in Seq(S) /\ Len(u) = Len(s) + Len(t) /\ \A i \in 1 .. Len(s) : u[i] = s[i]
  BY Concat
<1> HIDE DEF u
<1>2. n \in 0 .. Len(u)
  BY <1>1
<1>3. /\ First(s, n) \in Seq(S) /\ Len(First(s, n)) = n
      /\ \A i \in 1 .. n : First(s, n)[i] = s[i]
  BY FirstSeq
<1>4. /\ First(u, n) \in Seq(S) /\ Len(First(u, n)) = n
      /\ \A i \in 1 .. n : First(u, n)[i] = u[i]
  BY <1>1, <1>2, FirstSeq
<1>5. \A i \in 1 .. n : First(s, n)[i] = First(u, n)[i]
  <2>1. \A i \in 1 .. n : i \in 1 .. Len(s)
    OBVIOUS
  <2> QED
    BY <1>1, <1>3, <1>4, <2>1
<1>6. First(s, n) = First(u, n)
  BY <1>3, <1>4, <1>5, SeqEq
<1> QED
  BY <1>2, <1>6 DEF u

LEMMA Appended ==
  ASSUME NEW S, NEW s \in Seq(S), NEW e \in S
  PROVE  /\ Append(s, e) \in Seq(S) /\ Len(Append(s, e)) = Len(s) + 1
         /\ \A i \in 1 .. Len(s) : Append(s, e)[i] = s[i]
         /\ Append(s, e)[Len(s) + 1] = e
  OBVIOUS

-----------------------------------------------------------------------------
(* The units.                                                              *)

LEMMA Peers == \A x \in Side : Peer(x) \in Side /\ Peer(Peer(x)) = x /\ Peer(x) # x
  BY DEF Side, Peer

LEMMA PlainUnits == \A s \in Seq(Plain) : s \in Seq(Unit)
  BY DEF Unit

LEMMA PrefixIs ==
  ASSUME NEW n \in Nat
  PROVE  Prefix(n) \in Seq(Plain) /\ Len(Prefix(n)) = 2
         /\ Prefix(n)[1].len = n /\ Prefix(n)[2].len = n
  BY DEF Prefix, Plain

LEMMA TextIs ==
  ASSUME NEW w \in {"msg1", "msg2", "web"}, NEW n \in Nat
  PROVE  /\ Text(w, n) \in Seq(Plain) /\ Len(Text(w, n)) = n
         /\ \A i \in 1 .. n : Text(w, n)[i].text = w
<1>1. \A i \in 1 .. n : [text |-> w, at |-> i] \in Plain
  BY DEF Plain
<1> QED
  BY <1>1 DEF Text

LEMMA MsgIs ==
  ASSUME NEW m \in {"msg1", "msg2"}
  PROVE  /\ Msg(m) \in Seq(Plain) /\ Len(Msg(m)) = 2 + MsgLen /\ Msg(m)[1].len = MsgLen
         /\ \A i \in 1 .. MsgLen : Msg(m)[2 + i] = Text(m, MsgLen)[i]
<1>1. MsgLen \in Nat
  BY TunnelAssumption
<1>2. /\ Prefix(MsgLen) \in Seq(Plain) /\ Len(Prefix(MsgLen)) = 2
      /\ Prefix(MsgLen)[1].len = MsgLen
  BY <1>1, PrefixIs
<1>3. Text(m, MsgLen) \in Seq(Plain) /\ Len(Text(m, MsgLen)) = MsgLen
  BY <1>1, TextIs
<1>4. /\ Msg(m) \in Seq(Plain) /\ Len(Msg(m)) = Len(Prefix(MsgLen)) + Len(Text(m, MsgLen))
      /\ \A i \in 1 .. Len(Prefix(MsgLen)) : Msg(m)[i] = Prefix(MsgLen)[i]
      /\ \A i \in 1 .. Len(Text(m, MsgLen)) :
            Msg(m)[Len(Prefix(MsgLen)) + i] = Text(m, MsgLen)[i]
  <2>1. Prefix(MsgLen) \in Seq(Plain) /\ Text(m, MsgLen) \in Seq(Plain)
    BY <1>2, <1>3
  <2>2. Msg(m) = Prefix(MsgLen) \o Text(m, MsgLen)
    BY DEF Msg
  <2>3. /\ Prefix(MsgLen) \o Text(m, MsgLen) \in Seq(Plain)
        /\ Len(Prefix(MsgLen) \o Text(m, MsgLen)) = Len(Prefix(MsgLen)) + Len(Text(m, MsgLen))
        /\ \A i \in 1 .. Len(Prefix(MsgLen)) :
              (Prefix(MsgLen) \o Text(m, MsgLen))[i] = Prefix(MsgLen)[i]
        /\ \A i \in 1 .. Len(Text(m, MsgLen)) :
              (Prefix(MsgLen) \o Text(m, MsgLen))[Len(Prefix(MsgLen)) + i] = Text(m, MsgLen)[i]
    BY <2>1, Concat
  <2> QED
    BY <2>2, <2>3
<1> QED
  BY <1>1, <1>2, <1>3, <1>4

LEMMA WebIs ==
  ASSUME NEW d \in Nat, NEW n \in 0 .. MaxWeb
  PROVE  /\ Web(d, n) \in Seq(Plain) /\ Len(Web(d, n)) = n
         /\ \A i \in 1 .. n : IF i < 3 THEN Web(d, n)[i].len = d ELSE Web(d, n)[i].text = "web"
<1>1. MaxWeb \in Nat
  BY TunnelAssumption
<1> DEFINE p == Prefix(d)
           t == Text("web", MaxWeb)
           w == p \o t
<1>2. p \in Seq(Plain) /\ Len(p) = 2 /\ p[1].len = d /\ p[2].len = d
  BY PrefixIs
<1>3. /\ t \in Seq(Plain) /\ Len(t) = MaxWeb
      /\ \A i \in 1 .. MaxWeb : t[i].text = "web"
  BY <1>1, TextIs
<1> HIDE DEF p, t
<1>4. /\ w \in Seq(Plain) /\ Len(w) = 2 + MaxWeb
      /\ \A i \in 1 .. 2 : w[i] = p[i]
      /\ \A i \in 1 .. MaxWeb : w[2 + i] = t[i]
  <2>1. p \in Seq(Plain) /\ t \in Seq(Plain)
    BY <1>2, <1>3
  <2>2. /\ w \in Seq(Plain) /\ Len(w) = Len(p) + Len(t)
        /\ \A i \in 1 .. Len(p) : w[i] = p[i]
        /\ \A i \in 1 .. Len(t) : w[Len(p) + i] = t[i]
    BY <2>1, Concat
  <2> QED
    BY <1>2, <1>3, <2>2
<1> HIDE DEF w
<1>5. /\ First(w, n) \in Seq(Plain) /\ Len(First(w, n)) = n
      /\ \A i \in 1 .. n : First(w, n)[i] = w[i]
  <2>1. n \in 0 .. Len(w)
    BY <1>1, <1>4
  <2> QED
    BY <1>4, <2>1, FirstSeq
<1>6. ASSUME NEW i \in 1 .. n, i < 3 PROVE w[i].len = d
  BY <1>2, <1>4, <1>6
<1>7. ASSUME NEW i \in 1 .. n, ~(i < 3) PROVE w[i].text = "web"
  <2>1. i - 2 \in 1 .. MaxWeb /\ 2 + (i - 2) = i
    BY <1>1, <1>7
  <2>2. w[2 + (i - 2)] = t[i - 2] /\ t[i - 2].text = "web"
    BY <1>3, <1>4, <2>1
  <2> QED
    BY <2>1, <2>2
<1>8. Web(d, n) = First(w, n)
  BY DEF Web, w, p, t
<1> QED
  BY <1>5, <1>6, <1>7, <1>8

LEMMA FrameIs ==
  ASSUME NEW x \in Side, NEW id \in Nat, NEW n \in Nat
  PROVE  /\ Frame(x, id, n) \in Seq(Plain) /\ Len(Frame(x, id, n)) = 2 + n
         /\ Frame(x, id, n)[1].len = n
<1> DEFINE p == [i \in 1 .. n |-> [text |-> x, frame |-> id, at |-> i]]
<1>1. p \in Seq(Plain) /\ Len(p) = n
  <2>1. \A i \in 1 .. n : [text |-> x, frame |-> id, at |-> i] \in Plain
    BY DEF Plain
  <2> QED
    BY <2>1
<1> HIDE DEF p
<1>2. Prefix(n) \in Seq(Plain) /\ Len(Prefix(n)) = 2 /\ Prefix(n)[1].len = n
  BY PrefixIs
<1>3. Frame(x, id, n) = Prefix(n) \o p
  BY DEF Frame, p
<1>4. /\ Prefix(n) \o p \in Seq(Plain) /\ Len(Prefix(n) \o p) = Len(Prefix(n)) + Len(p)
      /\ \A i \in 1 .. Len(Prefix(n)) : (Prefix(n) \o p)[i] = Prefix(n)[i]
  <2>1. Prefix(n) \in Seq(Plain) /\ p \in Seq(Plain)
    BY <1>1, <1>2
  <2> QED
    BY <2>1, Concat
<1> QED
  BY <1>1, <1>2, <1>3, <1>4

-----------------------------------------------------------------------------
(* The links.                                                              *)

(* Nothing is sealed for x, and x opens and decodes nothing. *)
Calm(x) ==
    /\ nonce'[x].recv = nonce[x].recv /\ nonce'[Peer(x)].send = nonce[Peer(x)].send
    /\ written'[Peer(x)] = written[Peer(x)] /\ decoded'[x] = decoded[x]
    /\ partial'[x] = partial[x] /\ readBuf'[x] = readBuf[x]

LEMMA AllCalm ==
  ASSUME UNCHANGED <<nonce, written, reading>>, NEW x
  PROVE  Calm(x)
  BY DEF Calm, reading

(* A calm link stays if the wire is still what its reader finds. *)
LEMMA LinkKeeps ==
  ASSUME NEW x \in Side, Link(x), Calm(x),
         Reading(x)' => \A b : Batches(Peer(x), b) /\ (Reading(x) => OnWire(x, b))
                               => OnWire(x, b)'
  PROVE  Link(x)'
<1>1. PICK b \in [0 .. nonce[Peer(x)].send -> 0 .. Len(written[Peer(x)])] :
         Batches(Peer(x), b) /\ InHand(x, b) /\ (Reading(x) => OnWire(x, b))
  BY DEF Link
<1>2. Batches(Peer(x), b)' /\ InHand(x, b)'
  BY <1>1 DEF Batches, InHand, Calm
<1>3. Reading(x)' => OnWire(x, b)'
  BY <1>1
<1> QED
  BY <1>1, <1>2, <1>3 DEF Link, Calm

(* A cut may shorten what is on the wire. *)
LEMMA LinkStays ==
  ASSUME TypeOK, NEW x \in Side, Link(x),
         NEW n \in 0 .. Len(wire[Peer(x)]),
         Calm(x), over \subseteq over',
         Reading(x)' => /\ Reading(x) /\ Header(x)' = Header(x)
                        /\ wire'[Peer(x)] = First(wire[Peer(x)], n)
                        /\ n = Len(wire[Peer(x)]) \/ Peer(x) \in over'
  PROVE  Link(x)'
<1> DEFINE y == Peer(x)
           h == Header(x)
           m == nonce[y].send - nonce[x].recv
<1>1. y \in Side
  BY Peers
<1>2. ASSUME Reading(x)', NEW b, OnWire(x, b) PROVE OnWire(x, b)'
  <2>1. /\ Reading(x) /\ h' = h /\ wire'[y] = First(wire[y], n)
        /\ n = Len(wire[y]) \/ y \in over'
    BY <1>2
  <2>2. OnWire(x, b)
    BY <1>2
  <2>3. /\ Len(wire'[y]) = n /\ n <= Len(wire[y])
        /\ \A i \in 1 .. n : wire'[y][i] = wire[y][i]
    BY SMTT(20), <1>1, <2>1, FirstSeq DEF TypeOK
  <2>4. h \in Nat /\ m \in Int /\ Len(wire[y]) \in Nat
    <3>1. nonce[y].send \in Nat /\ nonce[x].recv \in Nat /\ wire[y] \in Seq(Unit)
      BY <1>1 DEF TypeOK
    <3>2. 2 + MsgLen \in Nat
      BY TunnelAssumption
    <3> QED
      BY <3>1, <3>2 DEF Header
  <2>5. Len(wire'[y]) <= h + 2 * m /\ (y \in over' \/ Len(wire'[y]) = h + 2 * m)
    BY <2>1, <2>2, <2>3, <2>4 DEF OnWire
  <2>6. \A i \in 1 .. h : i <= Len(wire'[y]) => wire'[y][i] = Msg("msg2")[i]
    <3> SUFFICES ASSUME NEW i \in 1 .. h, i <= n PROVE wire'[y][i] = Msg("msg2")[i]
      BY <2>3
    <3>1. i \in 1 .. n /\ i <= Len(wire[y])
      BY <2>3, <2>4
    <3>2. wire[y][i] = Msg("msg2")[i]
      BY <2>2, <3>1 DEF OnWire
    <3> QED
      BY <2>3, <3>1, <3>2
  <2>7. ASSUME NEW j \in 1 .. m, h + 2 * j <= Len(wire'[y])
        PROVE  wire'[y][h + 2 * j] = wire[y][h + 2 * j] /\ h + 2 * j <= Len(wire[y])
    BY <2>3, <2>4, <2>7
  <2> QED
    BY <2>1, <2>2, <2>5, <2>6, <2>7 DEF OnWire, Calm
<1>3. Reading(x)' => Reading(x)
  OBVIOUS
<1> QED
  BY <1>2, <1>3, LinkKeeps

(* So it does when the whole wire to its reader stays. *)
LEMMA LinkUntouched ==
  ASSUME TypeOK, NEW x \in Side, Link(x),
         Calm(x), over \subseteq over',
         Reading(x)' => /\ Reading(x) /\ Header(x)' = Header(x)
                        /\ wire'[Peer(x)] = wire[Peer(x)]
  PROVE  Link(x)'
<1> DEFINE w == wire[Peer(x)]
<1>1. w \in Seq(Unit)
  BY Peers DEF TypeOK
<1>2. Len(w) \in 0 .. Len(w) /\ First(w, Len(w)) = w
  BY <1>1 DEF First
<1> QED
  BY <1>2, LinkStays

(* Before anything is sealed, the wire to a reader holds an msg2 at most.  *)
LEMMA LinkFresh ==
  ASSUME NEW x \in Side, Link(x), Calm(x),
         nonce[Peer(x)].send = 0, nonce[x].recv = 0,
         Reading(x)' => /\ Len(wire'[Peer(x)]) = Header(x)'
                        /\ Header(x)' \in Nat
                        /\ \A i \in 1 .. Header(x)' : wire'[Peer(x)][i] = Msg("msg2")[i]
  PROVE  Link(x)'
<1>1. ASSUME Reading(x)', NEW b PROVE OnWire(x, b)'
  BY <1>1 DEF OnWire, Calm
<1> QED
  BY <1>1, LinkKeeps

-----------------------------------------------------------------------------
(* The steps.                                                              *)

LEMMA InitInv == Init => IInv
<1> SUFFICES ASSUME Init PROVE IInv
  OBVIOUS
<1>1. TypeOK
  <2>1. <<>> \in Seq(Unit) /\ <<>> \in Seq(Plain) /\ <<>> \in Seq(Seq(Plain))
    OBVIOUS
  <2> QED
    BY <2>1 DEF Init, TypeOK
<1>2. Body /\ Phases /\ DecodedPrefix
  <2>1. \A s : First(s, 0) = <<>>
    BY DEF First
  <2> QED
    BY <2>1, Peers DEF Init, Body, Phases, DecodedPrefix, Side
<1>3. ASSUME NEW x \in Side PROVE Link(x)
  <2> DEFINE b == [k \in 0 .. 0 |-> 0]
  <2>1. Peer(x) \in Side
    BY Peers
  <2>2. b \in [0 .. nonce[Peer(x)].send -> 0 .. Len(written[Peer(x)])]
    BY <2>1 DEF Init
  <2>3. Batches(Peer(x), b) /\ InHand(x, b) /\ ~Reading(x)
    BY <2>1 DEF Init, Batches, InHand, Reading
  <2>4. nonce[x].recv <= nonce[Peer(x)].send /\ 1 .. Len(written[Peer(x)]) = {}
    BY <2>1 DEF Init
  <2> QED
    BY <2>2, <2>3, <2>4 DEF Link
<1> QED
  BY <1>1, <1>2, <1>3 DEF IInv

LEMMA RequestKeeps ==
  ASSUME IInv, Request
  PROVE  IInv'
<1> USE DEF IInv, Request
<1>1. Msg("msg1") \in Seq(Unit)
  BY MsgIs, PlainUnits
<1>2. TypeOK'
  BY <1>1 DEF TypeOK, setup, reading, Side
<1>3. Body'
  <2>1. seen' = <<>> /\ taken' = <<>> /\ wire'["client"] = Msg("msg1")
    BY DEF Phases, setup, TypeOK, Side
  <2>2. First(Msg("msg1"), Len(Msg("msg1"))) = Msg("msg1")
    BY <1>1 DEF First
  <2> QED
    BY <1>1, <2>1, <2>2, Empties DEF Body
<1>4. Phases'
  BY DEF Phases, setup, TypeOK, Side
<1>5. DecodedPrefix'
  BY DEF DecodedPrefix, reading
<1>6. ASSUME NEW x \in Side PROVE Link(x)'
  <2>1. ~Reading(x)'
    BY DEF Phases, Reading, setup
  <2> QED
    BY <2>1, AllCalm, LinkUntouched
<1> QED
  BY <1>2, <1>3, <1>4, <1>5, <1>6

LEMMA VisitKeeps ==
  ASSUME IInv, NEW d \in Lens, NEW n \in 0 .. MaxWeb, NEW t \in BOOLEAN, Visit(d, n, t)
  PROVE  IInv'
<1> USE DEF IInv, Visit
<1>1. /\ Web(d, n) \in Seq(Unit)
      /\ \A i \in 3 .. Len(Web(d, n)) : Web(d, n)[i].text = "web"
  <2>1. d \in Nat
    BY TunnelAssumption DEF Lens
  <2> QED
    BY <2>1, WebIs, PlainUnits
<1>2. TypeOK'
  BY <1>1 DEF TypeOK, setup, reading, Side
<1>3. Body'
  <2>1. seen' = <<>> /\ taken' = <<>> /\ wire'["client"] = Web(d, n)
    BY DEF Phases, setup, TypeOK, Side
  <2>2. First(Web(d, n), Len(Web(d, n))) = Web(d, n)
    BY <1>1 DEF First
  <2> QED
    BY <1>1, <2>1, <2>2, Empties DEF Body
<1>4. Phases'
  BY DEF Phases, setup, TypeOK, Side
<1>5. DecodedPrefix'
  BY DEF DecodedPrefix, reading
<1>6. ASSUME NEW x \in Side PROVE Link(x)'
  <2>1. ~Reading(x)'
    BY DEF Phases, Reading, setup
  <2> QED
    BY <2>1, AllCalm, LinkUntouched
<1> QED
  BY <1>2, <1>3, <1>4, <1>5, <1>6

(* What the handler reads it holds. *)
LEMMA ConsumeKeeps ==
  ASSUME TypeOK, NEW n \in 0 .. Available, Consume(n)
  PROVE  /\ taken' \in Seq(Unit) /\ wire' \in [Side -> Seq(Unit)]
         /\ Len(taken') = Len(taken) + n /\ Len(wire'["client"]) = Available - n
         /\ wire'["server"] = wire["server"]
         /\ seen \o taken' \o wire'["client"] = seen \o taken \o wire["client"]
<1> DEFINE w == wire["client"]
           f == First(w, n)
           a == After(w, n)
<1>1. w \in Seq(Unit) /\ n \in 0 .. Len(w) /\ seen \in Seq(Unit) /\ taken \in Seq(Unit)
  BY DEF TypeOK, Side, Available
<1>2. f \in Seq(Unit) /\ Len(f) = n /\ a \in Seq(Unit) /\ Len(a) = Len(w) - n
  BY <1>1, FirstSeq, AfterSeq
<1>3. taken' = taken \o f /\ wire'["client"] = a /\ wire'["server"] = wire["server"]
  BY DEF Consume, TypeOK, Side
<1>4. wire' \in [Side -> Seq(Unit)]
  BY <1>2 DEF Consume, TypeOK
<1>5. taken \o f \in Seq(Unit) /\ Len(taken \o f) = Len(taken) + n
  BY <1>1, <1>2, Concat
<1>6. seen \o (taken \o f) \o a = seen \o taken \o w
  <2>1. seen \o (taken \o f) = (seen \o taken) \o f
    <3>1. seen \in Seq(Unit) /\ taken \in Seq(Unit) /\ f \in Seq(Unit)
      BY <1>1, <1>2
    <3> QED
      BY SMTT(20), <3>1, Associates
  <2>2. seen \o taken \in Seq(Unit)
    BY <1>1, Concat
  <2>3. ((seen \o taken) \o f) \o a = (seen \o taken) \o w
    BY <1>1, <2>2, Moves
  <2> QED
    BY <2>1, <2>3
<1> QED
  BY <1>2, <1>3, <1>4, <1>5, <1>6 DEF Available

LEMMA ReadsPrefixKeeps ==
  ASSUME IInv, ReadsPrefix
  PROVE  IInv'
<1> USE DEF IInv
<1>1. PICK n \in 0 .. Available :
         /\ Consume(n)
         /\ \/ n = 2 /\ server' = IF wire["client"][1].len \in 1 .. MaxHandshake
                                  THEN "msg" ELSE "fallback"
            \/ server' = "fallback"
  <2>1. Available \in Nat
    BY DEF TypeOK, Side, Available
  <2> QED
    BY <2>1 DEF ReadsPrefix, Fills, Short
<1>2. /\ server = "prefix" /\ server' \in {"msg", "fallback"}
      /\ UNCHANGED <<client, over, status, allowed, sent, seen, keys, nonce, reading,
                     written, undone>>
  BY <1>1 DEF ReadsPrefix
<1>3. /\ taken' \in Seq(Unit) /\ wire' \in [Side -> Seq(Unit)]
      /\ Len(taken') = Len(taken) + n
      /\ wire'["server"] = wire["server"]
      /\ seen \o taken' \o wire'["client"] = seen \o taken \o wire["client"]
  BY <1>1, ConsumeKeeps
<1>4. TypeOK'
  BY <1>2, <1>3 DEF TypeOK, reading
<1>5. Body'
  <2>1. server' = "msg" => Len(taken') = 2 /\ Announced' \in 1 .. MaxHandshake
    <3> SUFFICES ASSUME server' = "msg"
                 PROVE  Len(taken') = 2 /\ Announced' \in 1 .. MaxHandshake
      OBVIOUS
    <3>1. n = 2 /\ wire["client"][1].len \in 1 .. MaxHandshake
      BY <1>1
    <3>2. taken' = First(wire["client"], 2) /\ wire["client"] \in Seq(Unit)
      BY SMTT(20), <1>1, <1>2, <3>1, FirstSeq, Empties DEF Consume, Body, TypeOK, Side, Available
    <3>3. Len(taken') = 2 /\ taken'[1] = wire["client"][1]
      <4>1. 2 \in 0 .. Len(wire["client"])
        BY <1>1, <3>1 DEF Available
      <4>2. wire["client"] \in Seq(Unit)
        BY <3>2
      <4>3. /\ Len(First(wire["client"], 2)) = 2
            /\ \A i \in 1 .. 2 : First(wire["client"], 2)[i] = wire["client"][i]
        BY <4>1, <4>2, FirstSeq
      <4> QED
        BY <3>2, <4>3
    <3> QED
      BY <3>1, <3>3 DEF Announced
  <2>2. seen' = seen /\ sent' = sent /\ client' = client /\ undone' = undone
    BY <1>2
  <2> QED
    BY <1>2, <1>3, <2>1, <2>2 DEF Body
<1>6. Phases'
  BY <1>2, <1>3 DEF Phases
<1>7. DecodedPrefix'
  BY <1>2 DEF DecodedPrefix, reading
<1>8. ASSUME NEW x \in Side PROVE Link(x)'
  <2>1. ~Reading(x)'
    BY <1>2 DEF Phases, Reading
  <2> QED
    BY <1>2, <2>1, AllCalm, LinkUntouched
<1> QED
  BY <1>4, <1>5, <1>6, <1>7, <1>8

(* Only an msg1 opens, and it is the whole request. *)
LEMMA Msg1IsAll ==
  ASSUME TypeOK, Body, Phases, server = "msg", Fills(Announced),
         Authentic(First(wire["client"], Announced))
  PROVE  Announced = Available
<1> DEFINE w == wire["client"]
           s == seen \o taken \o w
<1>1. /\ Len(taken) = 2 /\ seen = <<>> /\ taken \in Seq(Unit) /\ w \in Seq(Unit)
      /\ Announced \in 1 .. MaxHandshake /\ sent \in Seq(Unit)
  BY DEF Body, TypeOK, Side
<1>2. s = taken \o w
  BY <1>1, Empties
<1>3. /\ s \in Seq(Unit) /\ Len(s) = 2 + Len(w)
      /\ \A i \in 1 .. 2 : s[i] = taken[i]
      /\ \A i \in 1 .. Len(w) : s[2 + i] = w[i]
  <2>1. /\ taken \o w \in Seq(Unit) /\ Len(taken \o w) = Len(taken) + Len(w)
        /\ \A i \in 1 .. Len(taken) : (taken \o w)[i] = taken[i]
        /\ \A i \in 1 .. Len(w) : (taken \o w)[Len(taken) + i] = w[i]
    <3>1. taken \in Seq(Unit) /\ w \in Seq(Unit)
      BY <1>1
    <3> QED
      BY <3>1, Concat
  <2> QED
    BY <1>1, <1>2, <2>1
<1>4. Len(s) <= Len(sent) /\ s = First(sent, Len(s))
  BY DEF Body
<1> HIDE DEF s
<1>5. \A i \in 1 .. Len(s) : s[i] = sent[i]
  <2>1. Len(s) \in 0 .. Len(sent)
    BY <1>1, <1>3, <1>4
  <2> QED
    BY <1>1, <1>4, <2>1, FirstSeq
<1>6. Announced \in 0 .. Len(w) /\ Len(w) \in Nat
  BY <1>1 DEF Fills, Available
<1>7. w[1] = Text("msg1", MsgLen)[1] /\ Announced = MsgLen
  <2>1. First(w, Announced) = Text("msg1", MsgLen)
    BY DEF Authentic, OpensMsg1
  <2>2. Len(First(w, Announced)) = Announced /\ First(w, Announced)[1] = w[1]
    BY <1>1, <1>6, FirstSeq
  <2>3. Len(Text("msg1", MsgLen)) = MsgLen
    BY TextIs, TunnelAssumption
  <2> QED
    BY <2>1, <2>2, <2>3
<1>8. sent[3].text = "msg1"
  <2>1. sent[3] = w[1]
    <3>1. 1 \in 1 .. Len(w) /\ 3 \in 1 .. Len(s) /\ 2 + 1 = 3
      BY <1>1, <1>3, <1>6
    <3>2. s[2 + 1] = w[1] /\ s[3] = sent[3]
      BY <1>3, <1>5, <3>1
    <3> QED
      BY <3>1, <3>2
  <2>2. Text("msg1", MsgLen)[1].text = "msg1"
    <3>1. MsgLen \in Nat /\ 1 \in 1 .. MsgLen
      BY TunnelAssumption
    <3> QED
      BY <3>1, TextIs
  <2> QED
    BY <1>7, <2>1, <2>2
<1>9. sent = Msg("msg1")
  <2>1. 3 \in 3 .. Len(sent)
    BY <1>1, <1>3, <1>4, <1>6
  <2>2. client # "idle"
    BY DEF Phases
  <2> QED
    BY <1>8, <2>1, <2>2 DEF Body
<1>10. Len(sent) = 2 + MsgLen
  BY <1>9, MsgIs
<1> QED
  BY <1>3, <1>4, <1>6, <1>7, <1>10, TunnelAssumption DEF Available, Fills

LEMMA ReadsMsg1Keeps ==
  ASSUME IInv, ReadsMsg1
  PROVE  IInv'
<1> USE DEF IInv
<1>1. PICK n \in 0 .. Available :
         /\ Consume(n)
         /\ \/ /\ server' = "respond" /\ keys' = [keys EXCEPT !["server"] = ResponderKeys]
               /\ n = Announced /\ Fills(n) /\ Authentic(First(wire["client"], n))
            \/ server' = "fallback" /\ UNCHANGED keys
  <2>1. Available \in Nat /\ Announced \in Nat
    BY SMTT(20) DEF ReadsMsg1, TypeOK, Side, Available, Body
  <2>2. Fills(Announced) => Announced \in 0 .. Available
    BY <2>1 DEF Fills
  <2> QED
    BY <2>1, <2>2 DEF ReadsMsg1, Short
<1>2. /\ server = "msg" /\ server' \in {"respond", "fallback"}
      /\ UNCHANGED <<client, over, status, allowed, sent, seen, nonce, reading, written,
                     undone>>
  BY <1>1 DEF ReadsMsg1
<1>3. /\ taken' \in Seq(Unit) /\ wire' \in [Side -> Seq(Unit)]
      /\ Len(wire'["client"]) = Available - n
      /\ wire'["server"] = wire["server"]
      /\ seen \o taken' \o wire'["client"] = seen \o taken \o wire["client"]
  BY <1>1, ConsumeKeeps
<1>4. TypeOK'
  BY <1>1, <1>2, <1>3 DEF TypeOK, reading
<1>5. Body'
  BY <1>2, <1>3 DEF Body
<1>6. server' = "respond" => wire'["client"] = <<>>
  <2>1. ASSUME server' = "respond" PROVE Len(wire'["client"]) = 0
    BY <1>1, <1>2, <1>3, <2>1, Msg1IsAll DEF Available, TypeOK, Side
  <2>2. wire'["client"] \in Seq(Unit)
    BY <1>3 DEF Side
  <2> QED
    BY <2>1, <2>2, Empties
<1>7. Phases'
  <2>1. server' = "respond" => keys'["server"] = ResponderKeys /\ ResponderKeys # None
    <3>1. ResponderKeys # None
      BY TunnelAssumption DEF ResponderKeys
    <3> QED
      BY <1>1, <3>1 DEF TypeOK, Side
  <2>2. server' = "fallback" => keys'["server"] = None
    BY <1>1, <1>2 DEF Phases
  <2> QED
    BY <1>2, <1>3, <1>6, <2>1, <2>2 DEF Phases
<1>8. DecodedPrefix'
  BY <1>2 DEF DecodedPrefix, reading
<1>9. ASSUME NEW x \in Side PROVE Link(x)'
  <2>1. nonce[x].recv = 0 /\ nonce[Peer(x)].send = 0
    BY <1>2, Peers DEF Phases
  <2>2. Reading(x)' => x = "server" /\ server' = "respond"
    BY <1>2 DEF Phases, Reading, Side
  <2>3. Reading(x)' => Header(x)' = 0 /\ Len(wire'[Peer(x)]) = 0
    BY <1>6, <2>2 DEF Header, Peer
  <2> QED
    BY <1>2, <2>1, <2>3, AllCalm, LinkFresh
<1> QED
  BY <1>4, <1>5, <1>7, <1>8, <1>9

LEMMA RespondsKeeps ==
  ASSUME IInv, Responds
  PROVE  IInv'
<1> USE DEF IInv, Responds
<1>1. Msg("msg2") \in Seq(Unit) /\ Len(Msg("msg2")) = 2 + MsgLen
  BY MsgIs, PlainUnits
<1>2. wire'["server"] = Msg("msg2") /\ wire'["client"] = <<>>
  <2>1. wire["server"] = <<>> /\ wire["client"] = <<>>
    BY DEF Phases
  <2> QED
    BY <1>1, <2>1, Empties DEF TypeOK, Side
<1>3. TypeOK'
  <2>1. wire' \in [Side -> Seq(Unit)]
    BY <1>1, <1>2 DEF TypeOK, Side
  <2> QED
    BY SMTT(20), <2>1, TunnelAssumption DEF TypeOK, reading
<1>4. Body'
  BY DEF Body
<1>5. Phases'
  <2>1. keys["server"] # None /\ client # "open"
    BY DEF Phases
  <2>2. "ok" # None
    BY TunnelAssumption
  <2> QED
    BY <1>2, <2>1, <2>2 DEF Phases
<1>6. DecodedPrefix'
  BY DEF DecodedPrefix, reading
<1>7. ASSUME NEW x \in Side PROVE Link(x)'
  <2>1. nonce[x].recv = 0 /\ nonce[Peer(x)].send = 0
    BY Peers DEF Phases
  <2>2. CASE x = "server"
    BY <1>2, <2>1, <2>2, AllCalm, LinkFresh DEF Header, Peer
  <2>3. CASE x = "client"
    <3>1. client # "open"
      BY DEF Phases
    <3>2. Reading(x)' => Header(x)' = 2 + MsgLen
      BY <2>3, <3>1 DEF Reading, Header
    <3>3. 2 + MsgLen \in Nat
      BY TunnelAssumption
    <3> QED
      BY <1>1, <1>2, <2>1, <2>3, <3>2, <3>3, AllCalm, LinkFresh DEF Peer
  <2> QED
    BY <2>2, <2>3 DEF Side
<1> QED
  BY <1>3, <1>4, <1>5, <1>6, <1>7

LEMMA RespondFailsKeeps ==
  ASSUME IInv, RespondFails
  PROVE  IInv'
<1> USE DEF IInv, RespondFails
<1>1. TypeOK'
  BY DEF TypeOK, reading
<1>2. Body'
  BY DEF Body
<1>3. Phases'
  BY DEF Phases
<1>4. DecodedPrefix'
  BY DEF DecodedPrefix, reading
<1>5. ASSUME NEW x \in Side PROVE Link(x)'
  <2>1. Reading(x)' => Reading(x)
    BY DEF Reading
  <2> QED
    BY <2>1, AllCalm, LinkUntouched DEF Header
<1> QED
  BY <1>1, <1>2, <1>3, <1>4, <1>5

LEMMA FallbackReadsKeeps ==
  ASSUME IInv, FallbackReads
  PROVE  IInv'
<1> USE DEF IInv, FallbackReads
<1>1. /\ wire'["client"] = <<>> /\ wire'["server"] = wire["server"] /\ taken' = <<>>
      /\ seen' = seen \o taken \o wire["client"] /\ seen' \in Seq(Unit)
  BY DEF TypeOK, Side, Restored
<1>2. TypeOK'
  <2>1. wire' \in [Side -> Seq(Unit)]
    BY Empties DEF TypeOK
  <2> QED
    BY <1>1, <2>1, Empties DEF TypeOK, reading
<1>3. Body'
  <2>1. seen' \o taken' \o wire'["client"] = seen \o taken \o wire["client"]
    BY SMT, ZenonT(30), <1>1, Empties
  <2> QED
    BY <2>1 DEF Body
<1>4. Phases'
  BY <1>1 DEF Phases
<1>5. DecodedPrefix'
  BY DEF DecodedPrefix, reading
<1>6. ASSUME NEW x \in Side PROVE Link(x)'
  <2>1. ~Reading(x)'
    BY DEF Phases, Reading
  <2> QED
    BY <2>1, AllCalm, LinkUntouched
<1> QED
  BY <1>2, <1>3, <1>4, <1>5, <1>6

LEMMA FallbackAnswersKeeps ==
  ASSUME IInv, NEW s \in {"ok", "other"}, NEW d \in Lens, NEW n \in 0 .. MaxWeb,
         FallbackAnswers(s, d, n)
  PROVE  IInv'
<1> USE DEF IInv, FallbackAnswers
<1>1. /\ Web(d, n) \in Seq(Unit) /\ Len(Web(d, n)) = n
      /\ \A i \in 1 .. n : IF i < 3 THEN Web(d, n)[i].len \in Nat
                           ELSE Web(d, n)[i].text = "web"
  <2>1. d \in Nat
    BY TunnelAssumption DEF Lens
  <2> QED
    BY <2>1, WebIs, PlainUnits
<1>2. TypeOK'
  BY SMT, ZenonT(30), <1>1 DEF TypeOK, reading, Side
<1>3. wire'["client"] = wire["client"] /\ keys["server"] = None /\ client # "open"
  BY DEF Phases, TypeOK, Side
<1>4. Body'
  BY DEF Body
<1>5. Phases'
  <2>1. \/ status' = None /\ wire'["server"] = wire["server"]
        \/ wire'["server"] = Web(d, n) /\ status' # None
    BY TunnelAssumption DEF Phases, TypeOK, Side
  <2> QED
    BY <1>1, <1>3, <2>1 DEF Phases
<1>6. DecodedPrefix'
  BY DEF DecodedPrefix, reading
<1>7. ASSUME NEW x \in Side PROVE Link(x)'
  <2>1. ~Reading(x)'
    BY <1>3 DEF Reading
  <2> QED
    BY <2>1, AllCalm, LinkUntouched
<1> QED
  BY <1>2, <1>4, <1>5, <1>6, <1>7

(* Body does not care for the end of a client or of a handler. *)
LEMMA BodyStays ==
  ASSUME Body, client' = client \/ (client \in {"waiting", "open"} /\ client' = "failed"),
         server' = server \/ server' = "ended", UNCHANGED <<wire, taken, seen, sent>>,
         undone' \in {undone, TRUE}
  PROVE  Body'
<1> DEFINE s == seen \o taken \o wire["client"]
<1>1. s' = s /\ Announced' = Announced
  BY DEF Announced
<1>2. client' # "idle" => sent' = Msg("msg1") \/ \A i \in 3 .. Len(sent') : sent'[i].text = "web"
  BY DEF Body
<1>3. client' \in {"waiting", "open", "failed"} => sent' = Msg("msg1")
  BY DEF Body
<1>4. server' \in {"prefix", "msg", "fallback"} =>
         server' = server /\ Len(s) <= Len(sent) /\ s = First(sent, Len(s))
         /\ (undone' \/ s = sent)
  BY DEF Body
<1>5. /\ server' \in {"prefix", "msg"} => seen' = <<>>
      /\ server' = "prefix" => taken' = <<>>
      /\ server' = "msg" => Len(taken') = 2 /\ Announced \in 1 .. MaxHandshake
  BY DEF Body
<1> HIDE DEF s
<1>6. server' \in {"prefix", "msg", "fallback"} =>
         Len(s') <= Len(sent') /\ s' = First(sent', Len(s')) /\ (undone' \/ s' = sent')
  BY <1>1, <1>4
<1> QED
  BY <1>1, <1>2, <1>3, <1>5, <1>6 DEF Body, s

(* A client that finds no tunnel in the answer. *)
LEMMA GivesUpKeeps ==
  ASSUME IInv, client = "waiting", EstablishFails,
         UNCHANGED <<server, setup, nonce, reading, written, undone>>
  PROVE  IInv'
<1> USE DEF IInv
<1>1. /\ client = "waiting" /\ client' = "failed" /\ over' = over \cup {"client"}
      /\ UNCHANGED <<wire, keys, server, setup, nonce, reading, written, undone>>
  BY DEF EstablishFails
<1>2. TypeOK'
  BY <1>1 DEF TypeOK, setup, reading, Side
<1>3. Body'
  BY <1>1, BodyStays DEF setup
<1>4. Phases'
  BY <1>1 DEF Phases, setup
<1>5. DecodedPrefix'
  BY <1>1 DEF DecodedPrefix, reading
<1>6. ASSUME NEW x \in Side PROVE Link(x)'
  <2>1. Reading(x)' => Reading(x) /\ x = "server"
    BY <1>1 DEF Reading, Side
  <2> QED
    BY <1>1, <2>1, AllCalm, LinkUntouched DEF Header
<1> QED
  BY <1>2, <1>3, <1>4, <1>5, <1>6

(* An msg2 the client accepts is the server's, and what follows is sealed. *)
LEMMA Msg2Keeps ==
  ASSUME IInv, client = "waiting", status = "ok", Len(wire["server"]) >= 2,
         wire["server"][1].len > 0, Len(wire["server"]) >= 2 + wire["server"][1].len,
         SubSeq(wire["server"], 3, 2 + wire["server"][1].len) = Text("msg2", MsgLen),
         client' = "open", keys' = [keys EXCEPT !["client"] = InitiatorKeys],
         wire' = [wire EXCEPT !["server"] = After(@, 2 + @[1].len)],
         UNCHANGED <<over, server, setup, nonce, reading, written, undone>>
  PROVE  IInv'
<1> USE DEF IInv
<1> DEFINE w == wire["server"]
           h == 2 + MsgLen
           m == nonce["server"].send - nonce["client"].recv
<1>1. w \in Seq(Unit) /\ Len(w) \in Nat /\ h \in Nat /\ status # None
  <2>1. h \in Nat /\ "ok" # None
    BY TunnelAssumption
  <2>2. w \in Seq(Unit)
    BY DEF TypeOK, Side
  <2> QED
    BY <2>1, <2>2
<1>2. keys["server"] = ResponderKeys
  <2>1. ASSUME keys["server"] = None PROVE FALSE
    <3>1. w[1].len \in Nat /\ (Len(w) >= 3 => w[3].text = "web")
      <4>1. \A i \in 1 .. Len(w) : IF i < 3 THEN w[i].len \in Nat ELSE w[i].text = "web"
        BY <1>1, <2>1 DEF Phases
      <4>2. Len(w) \in Nat /\ Len(w) >= 2
        BY <1>1
      <4> QED
        BY <4>1, <4>2
    <3>2. 3 <= Len(w) /\ SubSeq(w, 3, 2 + w[1].len)[1] = w[3]
      BY <1>1, <3>1
    <3>3. Text("msg2", MsgLen)[1].text = "msg2"
      <4>1. MsgLen \in Nat /\ 1 \in 1 .. MsgLen
        BY TunnelAssumption
      <4> QED
        BY <4>1, TextIs
    <3> QED
      BY <3>1, <3>2, <3>3
  <2> QED
    BY <2>1 DEF Phases
<1>3. Reading("client") /\ Header("client") = h /\ keys["server"] # None
  <2>1. ResponderKeys # None
    BY TunnelAssumption DEF ResponderKeys
  <2> QED
    BY <1>1, <1>2, <2>1 DEF Reading, Header
<1>4. Peer("client") = "server" /\ Peer("server") = "client"
  BY DEF Peer
<1>5. PICK b \in [0 .. nonce["server"].send -> 0 .. Len(written["server"])] :
         Batches("server", b) /\ InHand("client", b) /\ OnWire("client", b)
  <2>1. Link("client")
    BY DEF Side
  <2> QED
    BY <1>3, <1>4, <2>1 DEF Link
<1>6. w[1].len = MsgLen
  <2>1. 1 \in 1 .. h /\ 1 <= Len(w)
    BY <1>1, TunnelAssumption
  <2>2. w[1] = Msg("msg2")[1]
    BY <1>3, <1>4, <1>5, <2>1 DEF OnWire
  <2> QED
    BY <2>2, MsgIs
<1>7. h \in 0 .. Len(w)
  BY <1>1, <1>6
<1>8. /\ wire'["server"] = After(w, h) /\ wire'["client"] = wire["client"]
      /\ After(w, h) \in Seq(Unit) /\ Len(After(w, h)) = Len(w) - h
      /\ \A i \in 1 .. Len(w) - h : After(w, h)[i] = w[h + i]
  <2>1. wire'["server"] = After(w, h) /\ wire'["client"] = wire["client"]
    BY <1>6 DEF TypeOK, Side
  <2> QED
    BY SMT, ZenonT(30), <1>1, <1>7, <2>1, AfterSeq
<1>9. TypeOK'
  <2>1. wire' \in [Side -> Seq(Unit)]
    BY <1>6, <1>8 DEF TypeOK
  <2> QED
    BY <2>1 DEF TypeOK, setup, reading, Side
<1>10. Body'
  BY <1>8 DEF Body, setup, Announced
<1>11. Phases'
  <2>1. server \in {"open", "ended"}
    BY <1>1 DEF Phases, TypeOK
  <2> QED
    BY <1>1, <1>2, <1>8, <2>1 DEF Phases, setup, TypeOK, Side
<1>12. DecodedPrefix'
  BY DEF DecodedPrefix, reading
<1>13. Link("server")'
  <2>1. Link("server") /\ "server" \in Side
    BY DEF Side
  <2> QED
    BY <1>4, <1>8, <2>1, AllCalm, LinkUntouched DEF Reading, Header
<1>14. Link("client")'
  <2>1. OnWire("client", b)'
    <3>1. Header("client")' = 0
      BY DEF Header
    <3>2. m \in Int /\ Len(w) \in Nat /\ UNCHANGED <<nonce, over>>
      <4>1. nonce["server"].send \in Nat /\ nonce["client"].recv \in Nat
        BY DEF TypeOK, Side
      <4> QED
        BY <1>1, <4>1
    <3>3. Len(w) <= h + 2 * m /\ ("server" \in over \/ Len(w) = h + 2 * m)
      BY <1>3, <1>4, <1>5 DEF OnWire
    <3>4. /\ Len(wire'["server"]) <= 2 * m
          /\ "server" \in over' \/ Len(wire'["server"]) = 2 * m
      BY <1>1, <1>8, <3>2, <3>3
    <3>5. ASSUME NEW j \in 1 .. m, 2 * j <= Len(wire'["server"])
          PROVE  wire'["server"][2 * j] = w[h + 2 * j] /\ h + 2 * j <= Len(w)
      BY <1>1, <1>8, <3>2, <3>5
    <3>7. \A j \in 1 .. m : h + 2 * j <= Len(w) =>
             w[h + 2 * j] = [key |-> KeyOf("server"), nonce |-> nonce["client"].recv + j - 1,
                             plain |-> Batch(written["server"], b[nonce["client"].recv + j - 1],
                                             b[nonce["client"].recv + j])]
      BY <1>3, <1>4, <1>5 DEF OnWire
    <3>8. nonce'["server"].send - nonce'["client"].recv = m
      BY <3>2
    <3>9. \A j \in 1 .. m : 0 + 2 * j = 2 * j
      OBVIOUS
    <3>10. \A i \in 1 .. 0 : FALSE
      OBVIOUS
    <3>11. ASSUME NEW j \in 1 .. m, 2 * j <= Len(wire'["server"])
           PROVE  wire'["server"][2 * j] =
                    [key |-> KeyOf("server"), nonce |-> nonce'["client"].recv + j - 1,
                     plain |-> Batch(written["server"], b[nonce["client"].recv + j - 1],
                                     b[nonce["client"].recv + j])']
      <4>1. h + 2 * j <= Len(w) /\ wire'["server"][2 * j] = w[h + 2 * j]
        BY <3>5, <3>11
      <4>2. w[h + 2 * j] =
              [key |-> KeyOf("server"), nonce |-> nonce["client"].recv + j - 1,
               plain |-> Batch(written["server"], b[nonce["client"].recv + j - 1],
                               b[nonce["client"].recv + j])]
        BY <3>7, <4>1
      <4>3. Batch(written["server"], b[nonce["client"].recv + j - 1], b[nonce["client"].recv + j])'
            = Batch(written["server"], b[nonce["client"].recv + j - 1], b[nonce["client"].recv + j])
        BY <3>2 DEF Batch
      <4> QED
        BY <3>2, <4>1, <4>2, <4>3
    <3> HIDE DEF m
    <3> QED
      BY <1>4, <3>1, <3>2, <3>4, <3>8, <3>9, <3>10, <3>11 DEF OnWire
  <2>2. Batches("server", b)' /\ InHand("client", b)'
    BY <1>5 DEF Batches, InHand, Batch, reading
  <2>3. Link("client")
    BY DEF Side
  <2> QED
    BY <1>4, <1>5, <2>1, <2>2, <2>3 DEF Link, reading
<1> QED
  BY <1>9, <1>10, <1>11, <1>12, <1>13, <1>14 DEF Side

LEMMA AnswerIsShortKeeps ==
  ASSUME IInv, AnswerIsShort
  PROVE  IInv'
  BY GivesUpKeeps DEF AnswerIsShort

LEMMA ReadsMsg2Keeps ==
  ASSUME IInv, ReadsMsg2
  PROVE  IInv'
  BY GivesUpKeeps, Msg2Keeps DEF ReadsMsg2

(* An end of a session, wherever it comes from. *)
LEMMA MuxEndsKeeps ==
  ASSUME IInv, NEW x \in Side, State(x) = "open", MuxEnds(x), over' \in {over, over \cup {x}},
         undone' \in {undone, TRUE},
         UNCHANGED <<wire, setup, keys, nonce, reading, written>>
  PROVE  IInv'
<1> USE DEF IInv
<1>1. /\ client' = client \/ (client = "open" /\ client' = "failed")
      /\ server' = server \/ (server = "open" /\ server' = "ended")
      /\ over' \in {over, over \cup {x}}
  BY DEF MuxEnds, State, Side
<1>2. TypeOK'
  BY <1>1 DEF TypeOK, setup, reading
<1>3. Body'
  BY <1>1 DEF Body, setup, Announced, TypeOK
<1>4. Phases'
  BY <1>1 DEF Phases, setup
<1>5. DecodedPrefix'
  BY DEF DecodedPrefix, reading
<1>6. ASSUME NEW z \in Side PROVE Link(z)'
  <2>1. Reading(z)' => Reading(z) /\ Header(z)' = Header(z)
    BY <1>1 DEF Reading, Header, setup
  <2> QED
    BY <1>1, <2>1, AllCalm, LinkUntouched
<1> QED
  BY <1>2, <1>3, <1>4, <1>5, <1>6

LEMMA CutKeeps ==
  ASSUME IInv, NEW i \in 0 .. Len(wire["client"]), NEW j \in 0 .. Len(wire["server"]),
         Cut(i, j)
  PROVE  IInv'
<1> USE DEF IInv
<1>1. /\ wire["client"] \in Seq(Unit) /\ wire["server"] \in Seq(Unit)
      /\ taken \in Seq(Unit) /\ seen \in Seq(Unit) /\ sent \in Seq(Unit)
  BY DEF TypeOK, Side
<1>2. /\ wire'["client"] = First(wire["client"], i) /\ wire'["server"] = First(wire["server"], j)
      /\ over' = Side /\ undone' = TRUE
      /\ UNCHANGED <<client, server, setup, keys, nonce, reading, written>>
  BY DEF Cut, TypeOK, Side
<1>3. /\ First(wire["client"], i) \in Seq(Unit) /\ First(wire["server"], j) \in Seq(Unit)
      /\ Len(First(wire["server"], j)) = j /\ Len(First(wire["client"], i)) = i
      /\ \A k \in 1 .. j : First(wire["server"], j)[k] = wire["server"][k]
  BY <1>1, FirstSeq
<1>4. TypeOK'
  <2>1. wire' \in [Side -> Seq(Unit)]
    BY <1>3 DEF TypeOK, Side, Cut
  <2> QED
    BY <1>2, <2>1 DEF TypeOK, setup, reading
<1>5. Body'
  <2> DEFINE u == seen \o taken
             w == wire["client"]
             s == u \o w
  <2>1. ASSUME server \in {"prefix", "msg", "fallback"}
        PROVE  /\ Len(u \o First(w, i)) <= Len(sent)
               /\ u \o First(w, i) = First(sent, Len(u \o First(w, i)))
    <3>1. u \in Seq(Unit)
      BY <1>1, Concat
    <3> HIDE DEF u
    <3>2. s \in Seq(Unit) /\ Len(s) = Len(u) + Len(w)
      BY <1>1, <3>1, Concat
    <3>3. u \o First(w, i) = First(s, Len(u) + i)
      BY <1>1, <3>1, CutSecond
    <3>4. Len(s) <= Len(sent) /\ s = First(sent, Len(s))
      BY <2>1 DEF Body, u
    <3>5. Len(u) + i \in 0 .. Len(s) /\ Len(s) \in 0 .. Len(sent)
      BY <1>1, <3>1, <3>2, <3>4
    <3>6. First(First(sent, Len(s)), Len(u) + i) = First(sent, Len(u) + i)
      BY <1>1, <3>5, Shorter
    <3> HIDE DEF s
    <3>7. Len(First(s, Len(u) + i)) = Len(u) + i
      BY <3>2, <3>5, FirstSeq
    <3>8. Len(u) + i <= Len(sent)
      BY <1>1, <3>2, <3>5
    <3> QED
      BY <3>3, <3>4, <3>6, <3>7, <3>8
  <2>2. /\ (seen \o taken \o wire["client"])' = u \o First(w, i)
        /\ UNCHANGED <<client, server, sent, seen, taken>> /\ Announced' = Announced
    BY <1>2 DEF setup, Announced
  <2> QED
    BY <1>2, <2>1, <2>2 DEF Body
<1>6. Phases'
  <2>1. /\ wire["client"] = <<>> => wire'["client"] = <<>>
        /\ wire["server"] = <<>> => wire'["server"] = <<>>
    BY <1>2, <1>3, Empties
  <2>2. \A k \in 1 .. Len(wire'["server"]) :
           k \in 1 .. Len(wire["server"]) /\ wire'["server"][k] = wire["server"][k]
    BY <1>1, <1>2, <1>3
  <2> QED
    BY <1>2, <2>1, <2>2 DEF Phases, setup
<1>7. DecodedPrefix'
  BY <1>2 DEF DecodedPrefix, reading
<1>8. ASSUME NEW x \in Side PROVE Link(x)'
  <2>1. PICK n \in 0 .. Len(wire[Peer(x)]) : wire'[Peer(x)] = First(wire[Peer(x)], n)
    BY <1>2 DEF Side, Peer
  <2>2. Reading(x)' => Reading(x) /\ Header(x)' = Header(x)
    BY <1>2 DEF Reading, Header, setup
  <2>3. Calm(x) /\ over \subseteq over' /\ Peer(x) \in over'
    BY <1>2, AllCalm, Peers DEF TypeOK
  <2> QED
    BY <2>1, <2>2, <2>3, LinkStays
<1> QED
  BY <1>4, <1>5, <1>6, <1>7, <1>8

-----------------------------------------------------------------------------
(* Sealing and opening.                                                    *)

(* The batch of one frame or two. *)
LEMMA BatchIs ==
  ASSUME NEW w \in Seq(Seq(Plain)), NEW d \in Nat, NEW n \in {d + 1, d + 2}, n <= Len(w)
  PROVE  /\ d + 1 \in 1 .. Len(w) /\ w[d + 1] \in Seq(Plain)
         /\ n = d + 1 => Batch(w, d, n) = w[d + 1]
         /\ n = d + 2 => /\ Batch(w, d, n) = w[d + 1] \o w[d + 2]
                         /\ d + 2 \in 1 .. Len(w) /\ w[d + 2] \in Seq(Plain)
         /\ Batch(w, d, n) \in Seq(Plain)
<1>1. d + 1 \in 1 .. Len(w) /\ w[d + 1] \in Seq(Plain)
  <2>1. Len(w) \in Nat /\ \A i \in 1 .. Len(w) : w[i] \in Seq(Plain)
    OBVIOUS
  <2>2. d + 1 \in 1 .. Len(w)
    BY <2>1
  <2> QED
    BY <2>1, <2>2
<1>2. CASE n = d + 1
  <2>1. n # d + 2 /\ Batch(w, d, n) = w[d + 1]
    BY <1>2 DEF Batch
  <2> QED
    BY <1>1, <2>1
<1>3. CASE n = d + 2
  <2>0. n # d + 1
    BY <1>3
  <2>1. d + 2 \in 1 .. Len(w) /\ w[d + 2] \in Seq(Plain)
    <3>1. Len(w) \in Nat /\ \A i \in 1 .. Len(w) : w[i] \in Seq(Plain)
      OBVIOUS
    <3>2. d + 2 \in 1 .. Len(w)
      BY <1>3, <3>1
    <3> QED
      BY <3>1, <3>2
  <2>2. Batch(w, d, n) = w[d + 1] \o w[d + 2]
    BY <2>0 DEF Batch
  <2>3. w[d + 1] \o w[d + 2] \in Seq(Plain)
    BY <1>1, <2>1, Concat
  <2> QED
    BY <1>1, <2>0, <2>1, <2>2, <2>3
<1> QED
  BY <1>2, <1>3

(* Frames that are added change no batch of those before. *)
LEMMA BatchStays ==
  ASSUME NEW w \in Seq(Seq(Plain)), NEW fs \in Seq(Seq(Plain)),
         NEW d \in Nat, NEW n \in {d + 1, d + 2}, n <= Len(w)
  PROVE  Batch(w \o fs, d, n) = Batch(w, d, n)
<1>1. d + 1 \in 1 .. Len(w) /\ (n = d + 2 => d + 2 \in 1 .. Len(w))
  OBVIOUS
<1>2. \A i \in 1 .. Len(w) : (w \o fs)[i] = w[i]
  BY Concat
<1>3. (w \o fs)[d + 1] = w[d + 1] /\ (n = d + 2 => (w \o fs)[d + 2] = w[d + 2])
  BY <1>1, <1>2
<1> HIDE <1>2
<1> QED
  BY <1>3 DEF Batch

(* b counts the n sealed frames of w: b[k] mux frames come before nonce k.  *)
Counts(w, n, b) ==
    /\ b \in [0 .. n -> 0 .. Len(w)]
    /\ b[0] = 0 /\ b[n] = Len(w)
    /\ \A k \in 1 .. n : b[k] \in {b[k - 1] + 1, b[k - 1] + 2}

(* c is b with one more sealed frame, that of plain. *)
CountsOn(v, n, b, c, plain) ==
    /\ Counts(v, n + 1, c) /\ \A k \in 0 .. n : c[k] = b[k]
    /\ Batch(v, c[n], c[n + 1]) = plain

(* One more sealed frame, with one mux frame or two. *)
LEMMA Grows ==
  ASSUME NEW w \in Seq(Seq(Plain)), NEW fs \in Seq(Seq(Plain)), NEW plain,
         \/ Len(fs) = 1 /\ plain = fs[1]
         \/ Len(fs) = 2 /\ plain = fs[1] \o fs[2],
         NEW n \in Nat, NEW b, Counts(w, n, b)
  PROVE  \E c : CountsOn(w \o fs, n, b, c, plain)
<1> DEFINE v == w \o fs
           c == [k \in 0 .. n + 1 |-> IF k = n + 1 THEN Len(v) ELSE b[k]]
<1>1. /\ Len(v) = Len(w) + Len(fs) /\ Len(w) \in Nat /\ Len(fs) \in {1, 2}
      /\ \A i \in 1 .. Len(fs) : v[Len(w) + i] = fs[i]
  <2>1. Len(v) = Len(w) + Len(fs) /\ \A i \in 1 .. Len(fs) : v[Len(w) + i] = fs[i]
    BY Concat
  <2>2. Len(w) \in Nat
    OBVIOUS
  <2>3. Len(fs) = 1 \/ Len(fs) = 2
    OBVIOUS
  <2> HIDE DEF v
  <2> QED
    BY <2>1, <2>2, <2>3
<1> HIDE DEF v
<1>2. /\ b \in [0 .. n -> 0 .. Len(w)] /\ b[0] = 0 /\ b[n] = Len(w)
      /\ \A k \in 1 .. n : b[k] \in {b[k - 1] + 1, b[k - 1] + 2}
  BY DEF Counts
<1>3. c \in [0 .. n + 1 -> 0 .. Len(v)]
  BY <1>1, <1>2
<1>4. /\ \A k \in 0 .. n : c[k] = b[k]
      /\ c[n + 1] = Len(v) /\ c[n] = Len(w) /\ c[0] = 0
  <2>1. \A k \in 0 .. n : k \in 0 .. n + 1 /\ k # n + 1
    OBVIOUS
  <2> QED
    BY <1>2, <2>1
<1> HIDE DEF c
<1>5. ASSUME NEW k \in 1 .. n + 1 PROVE c[k] \in {c[k - 1] + 1, c[k - 1] + 2}
  <2>1. CASE k = n + 1
    <3>1. k - 1 = n
      BY <2>1
    <3>2. c[k] = Len(v) /\ c[k - 1] = Len(w)
      BY <1>4, <2>1, <3>1
    <3> QED
      BY <1>1, <3>2
  <2>2. CASE k # n + 1
    <3>1. k \in 1 .. n /\ k \in 0 .. n /\ k - 1 \in 0 .. n
      BY <2>2
    <3> QED
      BY <1>2, <1>4, <3>1
  <2> QED
    BY <2>1, <2>2
<1>6. Batch(v, Len(w), Len(v)) = plain
  <2>1. CASE Len(fs) = 1 /\ plain = fs[1]
    <3>1. Len(v) = Len(w) + 1 /\ v[Len(w) + 1] = fs[1]
      BY <1>1, <2>1
    <3> QED
      BY <2>1, <3>1 DEF Batch
  <2>2. CASE Len(fs) = 2 /\ plain = fs[1] \o fs[2]
    <3>1. Len(v) # Len(w) + 1 /\ v[Len(w) + 1] = fs[1] /\ v[Len(w) + 2] = fs[2]
      BY <1>1, <2>2
    <3> QED
      BY <2>2, <3>1 DEF Batch
  <2> QED
    BY <2>1, <2>2
<1>7. Counts(v, n + 1, c)
  BY <1>3, <1>4, <1>5 DEF Counts
<1> QED
  BY <1>4, <1>6, <1>7 DEF v, CountsOn

(* The units on the wire u to a reader that has opened r of n sealed frames *)
(* of mux frames w, behind a header of h units.                            *)
Carries(u, w, h, r, n, b, key) ==
    /\ Len(u) <= h + 2 * (n - r)
    /\ \A j \in 1 .. n - r : h + 2 * j <= Len(u) =>
          u[h + 2 * j] = [key |-> key, nonce |-> r + j - 1,
                          plain |-> Batch(w, b[r + j - 1], b[r + j])]

LEMMA Pushed ==
  ASSUME NEW S, NEW u \in Seq(S), NEW s \in Seq(S), Len(s) = 2
  PROVE  /\ u \o s \in Seq(S) /\ Len(u \o s) = Len(u) + 2
         /\ (u \o s)[Len(u) + 2] = s[2]
         /\ \A i \in 1 .. Len(u) : (u \o s)[i] = u[i]
<1> DEFINE t == u \o s
<1>1. /\ t \in Seq(S) /\ Len(t) = Len(u) + Len(s)
      /\ \A i \in 1 .. Len(u) : t[i] = u[i]
      /\ \A i \in 1 .. Len(s) : t[Len(u) + i] = s[i]
  BY Concat
<1> HIDE DEF t
<1>2. 2 \in 1 .. Len(s)
  OBVIOUS
<1> QED
  BY <1>1, <1>2 DEF t

LEMMA Queues ==
  ASSUME NEW w \in Seq(Seq(Plain)), NEW fs \in Seq(Seq(Plain)), NEW plain,
         NEW n \in Nat, NEW r \in 0 .. n, NEW b, Counts(w, n, b),
         NEW c, Counts(w \o fs, n + 1, c), \A k \in 0 .. n : c[k] = b[k],
         Batch(w \o fs, c[n], c[n + 1]) = plain,
         NEW u \in Seq(Unit), NEW h \in Nat, NEW key, Carries(u, w, h, r, n, b, key),
         Len(u) = h + 2 * (n - r),
         NEW s \in Seq(Unit), Len(s) = 2, s[2] = [key |-> key, nonce |-> n, plain |-> plain]
  PROVE  Carries(u \o s, w \o fs, h, r, n + 1, c, key)
<1> DEFINE v == w \o fs
           t == u \o s
<1>1. /\ Len(t) = Len(u) + 2 /\ t[Len(u) + 2] = s[2]
      /\ \A i \in 1 .. Len(u) : t[i] = u[i]
  BY SMTT(20), Pushed
<1> HIDE DEF t
<1>2. \A p \in Nat, q \in Nat :
         q \in {p + 1, p + 2} /\ q <= Len(w) => Batch(v, p, q) = Batch(w, p, q)
  BY BatchStays
<1>3. Batch(v, c[n], c[n + 1]) = plain
  OBVIOUS
<1> HIDE DEF v
<1>4. Len(t) = h + 2 * (n + 1 - r)
  BY <1>1
<1>5. ASSUME NEW j \in 1 .. n + 1 - r
      PROVE  t[h + 2 * j] = [key |-> key, nonce |-> r + j - 1,
                             plain |-> Batch(v, c[r + j - 1], c[r + j])]
  <2>1. CASE j = n + 1 - r
    <3>1. h + 2 * j = Len(u) + 2 /\ r + j - 1 = n /\ r + j = n + 1
      BY <2>1
    <3> QED
      BY <1>1, <1>3, <3>1
  <2>2. CASE j # n + 1 - r
    <3>1. /\ j \in 1 .. n - r /\ h + 2 * j \in 1 .. Len(u) /\ h + 2 * j <= Len(u)
          /\ r + j - 1 \in 0 .. n /\ r + j \in 1 .. n /\ r + j \in 0 .. n
          /\ (r + j) - 1 = r + j - 1
      <4>1. j \in 1 .. n - r
        BY <2>2
      <4>2. h + 2 * j \in 1 .. Len(u) /\ h + 2 * j <= Len(u)
        BY <4>1
      <4>3. r + j - 1 \in 0 .. n /\ r + j \in 1 .. n /\ r + j \in 0 .. n
        BY <4>1
      <4>4. (r + j) - 1 = r + j - 1
        OBVIOUS
      <4> QED
        BY <4>1, <4>2, <4>3, <4>4
    <3>2. u[h + 2 * j] = [key |-> key, nonce |-> r + j - 1,
                          plain |-> Batch(w, b[r + j - 1], b[r + j])]
      BY <3>1 DEF Carries
    <3>3. c[r + j - 1] = b[r + j - 1] /\ c[r + j] = b[r + j]
      BY <3>1
    <3>4. /\ b[r + j - 1] \in 0 .. Len(w) /\ b[r + j] \in 0 .. Len(w)
          /\ b[r + j] \in {b[r + j - 1] + 1, b[r + j - 1] + 2}
      BY <3>1 DEF Counts
    <3>5. Batch(v, b[r + j - 1], b[r + j]) = Batch(w, b[r + j - 1], b[r + j])
      <4>1. b[r + j - 1] \in Nat /\ b[r + j] \in Nat /\ b[r + j] <= Len(w)
        BY SMTT(20), <3>4
      <4> QED
        BY <1>2, <3>4, <4>1
    <3>6. t[h + 2 * j] = u[h + 2 * j]
      BY <1>1, <3>1
    <3> QED
      BY <3>2, <3>3, <3>5, <3>6
  <2> QED
    BY <2>1, <2>2
<1> QED
  BY SMTT(20), <1>4, <1>5 DEF Carries, v, t

(* A side seals one frame or two. *)
LEMMA SendsKeeps ==
  ASSUME IInv, NEW y \in Side,
         NEW frames \in Seq(Seq(Plain)), NEW plain \in Seq(Plain),
         \/ Len(frames) = 1 /\ plain = frames[1]
         \/ Len(frames) = 2 /\ plain = frames[1] \o frames[2],
         \A i \in 1 .. Len(frames) :
            Len(frames[i]) >= 2 /\ frames[i][1].len = Len(frames[i]) - 2,
         Sends(y, frames, plain)
  PROVE  IInv'
<1> USE DEF IInv
<1>1. PICK x \in Side : x = Peer(y) /\ Peer(x) = y /\ x # y
  BY Peers
<1>2. PICK w \in Seq(Seq(Plain)), u \in Seq(Unit), k \in Nat, r \in Nat :
         w = written[y] /\ u = wire[y] /\ k = nonce[y].send /\ r = nonce[x].recv
  BY DEF TypeOK
<1>3. PICK s : s = Sealed(y, plain)
  OBVIOUS
<1>4. /\ State(y) = "open" /\ y \notin over
      /\ written' = [written EXCEPT ![y] = w \o frames]
      /\ wire' = [wire EXCEPT ![y] = u \o s]
      /\ nonce' = [nonce EXCEPT ![y].send = k + 1]
      /\ UNCHANGED <<client, server, over, setup, keys, reading, undone>>
  BY <1>2, <1>3 DEF Sends
<1>5. keys[y].send = KeyOf(y)
  BY <1>4 DEF State, KeyOf, Phases, Side, InitiatorKeys, ResponderKeys
<1>6. /\ s \in Seq(Unit) /\ Len(s) = 2
      /\ s[2] = [key |-> KeyOf(y), nonce |-> k, plain |-> plain]
  <2>1. s = <<[len |-> Len(plain)], [key |-> KeyOf(y), nonce |-> k, plain |-> plain]>>
    BY <1>2, <1>3, <1>5 DEF Sealed
  <2>2. [len |-> Len(plain)] \in Unit
    BY DEF Unit, Plain
  <2>3. [key |-> KeyOf(y), nonce |-> k, plain |-> plain] \in Unit
    BY DEF Unit, SealedUnit, KeyOf
  <2> QED
    BY <2>1, <2>2, <2>3
<1>7. PICK v \in Seq(Seq(Plain)) : v = w \o frames
  BY Concat
<1>8. PICK t \in Seq(Unit) : t = u \o s
  BY <1>6, Concat
<1>9. /\ Len(v) = Len(w) + Len(frames) /\ \A i \in 1 .. Len(w) : v[i] = w[i]
      /\ \A i \in 1 .. Len(frames) : v[Len(w) + i] = frames[i]
  BY <1>7, Concat
<1>10. Len(t) = Len(u) + 2 /\ \A i \in 1 .. Len(u) : t[i] = u[i]
  BY <1>6, <1>8, Pushed
<1>11. /\ written'[y] = v /\ written'[x] = written[x]
       /\ wire'[y] = t /\ wire'[x] = wire[x]
       /\ nonce'[y].send = k + 1 /\ nonce'[y].recv = nonce[y].recv /\ nonce'[x] = nonce[x]
  BY <1>1, <1>4, <1>7, <1>8 DEF TypeOK
<1>12. TypeOK'
  <2>1. written' \in [Side -> Seq(Seq(Plain))]
    BY <1>4, <1>7 DEF TypeOK
  <2>2. wire' \in [Side -> Seq(Unit)]
    BY <1>4, <1>8 DEF TypeOK
  <2>3. nonce' \in [Side -> [send : Nat, recv : Nat]]
    <3>1. nonce \in [Side -> [send : Nat, recv : Nat]]
      BY DEF TypeOK
    <3>2. k + 1 \in Nat
      OBVIOUS
    <3> QED
      BY <1>4, <3>1, <3>2
  <2> QED
    BY <1>4, <2>1, <2>2, <2>3 DEF TypeOK, setup, reading
<1>13. server \in {"open", "ended"}
  BY <1>4 DEF State, Phases, TypeOK
<1>14. Body'
  <2>1. server \notin {"prefix", "msg", "fallback"} /\ server' = server /\ client' = client
    BY <1>4, <1>13
  <2> QED
    BY <1>4, <2>1 DEF Body, setup
<1>15. Phases'
  <2>1. status = None => y = "client"
    BY <1>4 DEF State, Phases, Side
  <2>2. client = "waiting" /\ keys["server"] = None => y = "client"
    BY <1>4 DEF State, Phases, Side
  <2>3. y = "client" => wire'["server"] = wire["server"]
    BY <1>1, <1>11 DEF Peer
  <2>4. server = "ended" \/ server = "open"
    BY <1>13
  <2>5. client # "idle" /\ server # "idle" /\ server # "respond"
    BY <1>13 DEF Phases
  <2> QED
    BY <1>4, <2>1, <2>2, <2>3, <2>4, <2>5 DEF Phases, setup, State
<1>16. DecodedPrefix'
  <2> SUFFICES ASSUME NEW z \in Side
               PROVE  /\ Len(decoded[z]) <= Len(written'[Peer(z)])
                      /\ decoded[z] = First(written'[Peer(z)], Len(decoded[z]))
    BY <1>4 DEF DecodedPrefix, reading
  <2>1. PICK e \in Seq(Seq(Plain)) : e = decoded[z]
    BY DEF TypeOK
  <2>2. Len(e) <= Len(written[Peer(z)]) /\ e = First(written[Peer(z)], Len(e))
    BY <2>1 DEF DecodedPrefix
  <2>3. CASE Peer(z) = x
    BY <1>11, <2>1, <2>2, <2>3
  <2>4. CASE Peer(z) = y
    <3>1. PICK n \in Nat : n = Len(e)
      OBVIOUS
    <3>2. n \in 0 .. Len(w) /\ e = First(w, n)
      BY <1>2, <2>2, <2>4, <3>1
    <3>3. First(w, n) = First(v, n) /\ n \in 0 .. Len(v)
      BY <1>7, <3>2, FirstGrows
    <3> QED
      BY <1>11, <2>1, <2>4, <3>1, <3>2, <3>3
  <2> QED
    BY <1>1, <2>3, <2>4, Peers DEF Side
<1>17. Link(y)'
  <2>1. Calm(y) /\ Link(y) /\ over \subseteq over' /\ TypeOK
    BY <1>1, <1>4, <1>11 DEF Calm, reading
  <2>2. Reading(y)' => Reading(y) /\ Header(y)' = Header(y) /\ wire'[Peer(y)] = wire[Peer(y)]
    BY <1>1, <1>4, <1>11 DEF Reading, Header, setup
  <2> QED
    BY <2>1, <2>2, LinkUntouched
<1>18. Link(x)'
  <2>1. r <= k /\ r \in 0 .. k
    BY <1>1, <1>2 DEF Link
  <2>2. PICK b : /\ b \in [0 .. k -> 0 .. Len(w)]
                 /\ Batches(y, b) /\ InHand(x, b) /\ (Reading(x) => OnWire(x, b))
    BY <1>1, <1>2 DEF Link
  <2>3. Counts(w, k, b)
    BY <1>2, <2>2 DEF Counts, Batches
  <2>4. PICK c : /\ Counts(v, k + 1, c) /\ \A i \in 0 .. k : c[i] = b[i]
                 /\ Batch(v, c[k], c[k + 1]) = plain
    <3>1. \E c : CountsOn(w \o frames, k, b, c, plain)
      BY <2>3, Grows
    <3>2. PICK c : CountsOn(v, k, b, c, plain)
      BY <1>7, <3>1
    <3> QED
      BY <3>2 DEF CountsOn
  <2>5. c \in [0 .. nonce'[y].send -> 0 .. Len(written'[y])] /\ Batches(y, c)'
    BY <1>11, <2>4 DEF Batches, Counts
  <2>6. InHand(x, c)'
    <3>1. PICK d \in Nat : d = Len(decoded[x])
      BY DEF TypeOK
    <3>2. c[r] = b[r] /\ b[r] \in 0 .. Len(w)
      BY <2>1, <2>2, <2>4
    <3>3. \/ b[r] = d /\ partial[x] = <<>> /\ readBuf[x] = <<>>
          \/ /\ b[r] \in {d + 1, d + 2}
             /\ partial[x] \o readBuf[x] = Batch(w, d, b[r])
             /\ Len(partial[x]) < Len(w[d + 1])
      BY <1>1, <1>2, <2>2, <3>1 DEF InHand
    <3>4. b[r] \in {d + 1, d + 2} => Batch(v, d, b[r]) = Batch(w, d, b[r]) /\ v[d + 1] = w[d + 1]
      <4> SUFFICES ASSUME b[r] \in {d + 1, d + 2}
                   PROVE  Batch(v, d, b[r]) = Batch(w, d, b[r]) /\ v[d + 1] = w[d + 1]
        OBVIOUS
      <4>1. b[r] <= Len(w) /\ d + 1 \in 1 .. Len(w)
        BY SMTT(20), <3>2
      <4> QED
        BY <1>7, <1>9, <4>1, BatchStays
    <3>5. /\ Len(decoded'[x]) = d /\ partial'[x] = partial[x] /\ readBuf'[x] = readBuf[x]
          /\ nonce'[x].recv = r /\ written'[Peer(x)] = v
      BY <1>1, <1>2, <1>4, <1>11, <3>1 DEF reading
    <3>6. \/ c[r] = d /\ partial'[x] = <<>> /\ readBuf'[x] = <<>>
          \/ /\ c[r] \in {d + 1, d + 2}
             /\ partial'[x] \o readBuf'[x] = Batch(v, d, c[r])
             /\ Len(partial'[x]) < Len(v[d + 1])
      BY <3>2, <3>3, <3>4, <3>5
    <3> QED
      BY <3>5, <3>6 DEF InHand
  <2>7. ASSUME Reading(x)' PROVE OnWire(x, c)'
    <3>1. PICK h \in Nat : h = Header(x)
      <4>1. 2 + MsgLen \in Nat
        BY TunnelAssumption
      <4> QED
        BY <4>1 DEF Header
    <3>2. Reading(x) /\ Header(x)' = h
      BY <1>4, <2>7, <3>1 DEF Reading, Header, setup
    <3>3. /\ Len(u) = h + 2 * (k - r)
          /\ \A i \in 1 .. h : i <= Len(u) => u[i] = Msg("msg2")[i]
      BY <1>1, <1>2, <1>4, <2>2, <3>1, <3>2 DEF OnWire
    <3>4. Carries(u, w, h, r, k, b, KeyOf(y))
      <4>1. /\ Peer(x) = y /\ wire[y] = u /\ written[y] = w /\ nonce[x].recv = r
            /\ nonce[y].send = k /\ OnWire(x, b)
        BY <1>1, <1>2, <2>2, <3>2
      <4>2. /\ Len(u) <= h + 2 * (k - r)
            /\ \A j \in 1 .. k - r : h + 2 * j <= Len(u) =>
                  u[h + 2 * j] = [key |-> KeyOf(y), nonce |-> r + j - 1,
                                  plain |-> Batch(w, b[r + j - 1], b[r + j])]
        BY ONLY <3>1, <4>1 DEF OnWire
      <4> QED
        BY ONLY <4>2 DEF Carries
    <3>5. Carries(t, v, h, r, k + 1, c, KeyOf(y))
      BY SMT, ZenonT(30), <1>6, <1>7, <1>8, <2>1, <2>3, <2>4, <3>3, <3>4, Queues
    <3>6. Len(t) = h + 2 * (k + 1 - r)
      BY <1>10, <2>1, <3>3
    <3>7. ASSUME NEW i \in 1 .. h PROVE t[i] = Msg("msg2")[i]
      <4>1. i \in 1 .. Len(u) /\ i <= Len(u)
        BY <2>1, <3>3
      <4> QED
        BY <1>10, <3>3, <4>1
    <3>8. /\ wire'[Peer(x)] = t /\ written'[Peer(x)] = v /\ Peer(x) = y /\ over' = over
          /\ nonce'[Peer(x)].send = k + 1 /\ nonce'[x].recv = r
      BY <1>1, <1>2, <1>4, <1>11
    <3>9. \A j \in 1 .. k + 1 - r : h + 2 * j <= Len(t) =>
             t[h + 2 * j] = [key |-> KeyOf(y), nonce |-> r + j - 1,
                             plain |-> Batch(v, c[r + j - 1], c[r + j])]
      BY SMTT(20), <3>5 DEF Carries
    <3>10. Len(t) \in Nat /\ Len(t) <= h + 2 * (k + 1 - r)
      BY <3>6
    <3>11. nonce'[Peer(x)].send - nonce'[x].recv = k + 1 - r
      BY <3>8
    <3>12. /\ Len(wire'[Peer(x)]) <= h + 2 * (k + 1 - r)
           /\ Len(wire'[Peer(x)]) = h + 2 * (k + 1 - r)
           /\ \A i \in 1 .. h : wire'[Peer(x)][i] = Msg("msg2")[i]
           /\ \A j \in 1 .. k + 1 - r : h + 2 * j <= Len(wire'[Peer(x)]) =>
                 wire'[Peer(x)][h + 2 * j] =
                    [key |-> KeyOf(Peer(x)), nonce |-> nonce'[x].recv + j - 1,
                     plain |-> Batch(written'[Peer(x)], c[nonce'[x].recv + j - 1],
                                     c[nonce'[x].recv + j])]
      BY <3>6, <3>7, <3>8, <3>9, <3>10
    <3> HIDE DEF IInv
    <3> QED
      BY <3>2, <3>11, <3>12 DEF OnWire
  <2>8. \A i \in 1 .. Len(v) : Len(v[i]) >= 2 /\ v[i][1].len = Len(v[i]) - 2
    <3>1. \A i \in 1 .. Len(w) : Len(w[i]) >= 2 /\ w[i][1].len = Len(w[i]) - 2
      BY <1>1, <1>2 DEF Link
    <3>2. ASSUME NEW i \in 1 .. Len(v)
          PROVE  Len(v[i]) >= 2 /\ v[i][1].len = Len(v[i]) - 2
      <4>1. CASE i > Len(w)
        <5>1. i - Len(w) \in 1 .. Len(frames) /\ Len(w) + (i - Len(w)) = i
          BY <1>9, <4>1
        <5>2. v[i] = frames[i - Len(w)]
          BY <1>9, <5>1
        <5> QED
          BY <5>1, <5>2
      <4>2. CASE ~(i > Len(w))
        <5>1. i \in 1 .. Len(w)
          BY <4>2
        <5> QED
          BY <1>9, <3>1, <5>1
      <4> QED
        BY <4>1, <4>2
    <3> QED
      BY <3>2
  <2>9. nonce'[x].recv <= nonce'[y].send
    BY <1>2, <1>11, <2>1
  <2> QED
    BY <1>1, <1>11, <2>5, <2>6, <2>7, <2>8, <2>9 DEF Link
<1>19. \A z \in Side : Link(z)'
  BY <1>1, <1>17, <1>18 DEF Side
<1> QED
  BY <1>12, <1>14, <1>15, <1>16, <1>19

LEMMA SendsOneKeeps ==
  ASSUME IInv, NEW y \in Side, NEW n \in PayloadLens, SendsOne(y, n)
  PROVE  IInv'
<1>1. PICK f : f = Frame(y, Len(written[y]) + 1, n)
  OBVIOUS
<1>2. n \in Nat /\ Len(written[y]) + 1 \in Nat
  BY TunnelAssumption DEF IInv, TypeOK
<1>3. f \in Seq(Plain) /\ Len(f) = 2 + n /\ f[1].len = n
  BY <1>1, <1>2, FrameIs
<1>4. Sends(y, <<f>>, f)
  BY <1>1 DEF SendsOne
<1>5. PICK fs \in Seq(Seq(Plain)) : fs = <<f>> /\ Len(fs) = 1 /\ fs[1] = f
  <2>1. <<f>> \in Seq(Seq(Plain)) /\ Len(<<f>>) = 1 /\ <<f>>[1] = f
    BY <1>3
  <2> QED
    BY <2>1
<1>6. \A i \in 1 .. Len(fs) : Len(fs[i]) >= 2 /\ fs[i][1].len = Len(fs[i]) - 2
  <2>1. \A i \in 1 .. Len(fs) : i = 1
    BY <1>5
  <2>2. \A i \in 1 .. Len(fs) : fs[i] = f
    BY <1>5, <2>1
  <2>3. Len(f) >= 2 /\ f[1].len = Len(f) - 2
    BY <1>2, <1>3
  <2> QED
    BY <2>2, <2>3
<1>7. Sends(y, fs, f)
  BY <1>4, <1>5
<1> QED
  BY <1>3, <1>5, <1>6, <1>7, SendsKeeps

LEMMA SendsTwoKeeps ==
  ASSUME IInv, NEW y \in Side, NEW n \in PayloadLens, NEW m \in PayloadLens, SendsTwo(y, n, m)
  PROVE  IInv'
<1>1. PICK f, g : /\ f = Frame(y, Len(written[y]) + 1, n)
                  /\ g = Frame(y, Len(written[y]) + 2, m)
  OBVIOUS
<1>2. n \in Nat /\ m \in Nat /\ Len(written[y]) + 1 \in Nat /\ Len(written[y]) + 2 \in Nat
  BY TunnelAssumption DEF IInv, TypeOK
<1>3. /\ f \in Seq(Plain) /\ Len(f) = 2 + n /\ f[1].len = n
      /\ g \in Seq(Plain) /\ Len(g) = 2 + m /\ g[1].len = m
  BY <1>1, <1>2, FrameIs
<1>4. Sends(y, <<f, g>>, f \o g)
  BY <1>1 DEF SendsTwo
<1>5. PICK fs \in Seq(Seq(Plain)) : fs = <<f, g>> /\ Len(fs) = 2 /\ fs[1] = f /\ fs[2] = g
  <2>1. /\ <<f, g>> \in Seq(Seq(Plain)) /\ Len(<<f, g>>) = 2
        /\ <<f, g>>[1] = f /\ <<f, g>>[2] = g
    BY <1>3
  <2> QED
    BY <2>1
<1>6. \A i \in 1 .. Len(fs) : Len(fs[i]) >= 2 /\ fs[i][1].len = Len(fs[i]) - 2
  <2>1. \A i \in 1 .. Len(fs) : i = 1 \/ i = 2
    BY <1>5
  <2>2. \A i \in 1 .. Len(fs) : fs[i] = f \/ fs[i] = g
    BY <1>5, <2>1
  <2>3. Len(f) >= 2 /\ f[1].len = Len(f) - 2 /\ Len(g) >= 2 /\ g[1].len = Len(g) - 2
    BY <1>2, <1>3
  <2> QED
    BY <2>2, <2>3
<1>7. PICK plain \in Seq(Plain) : plain = f \o g
  BY <1>3, Concat
<1>8. Sends(y, fs, plain) /\ plain = fs[1] \o fs[2]
  BY <1>4, <1>5, <1>7
<1> QED
  BY <1>5, <1>6, <1>8, SendsKeeps

-----------------------------------------------------------------------------
(* Decoding.                                                               *)

(* What follows the frame w[d + 1] in the batch up to n. *)
LEMMA BatchSplits ==
  ASSUME NEW w \in Seq(Seq(Plain)), NEW d \in Nat, NEW n \in {d + 1, d + 2}, n <= Len(w)
  PROVE  \E g \in Seq(Plain) : /\ Batch(w, d, n) = w[d + 1] \o g
                               /\ n = d + 1 => g = <<>>
                               /\ n = d + 2 => g = w[d + 2]
<1>1. /\ w[d + 1] \in Seq(Plain)
      /\ n = d + 1 => Batch(w, d, n) = w[d + 1]
      /\ n = d + 2 => Batch(w, d, n) = w[d + 1] \o w[d + 2] /\ w[d + 2] \in Seq(Plain)
  BY BatchIs
<1>2. CASE n = d + 1
  <2>1. w[d + 1] \o <<>> = w[d + 1] /\ <<>> \in Seq(Plain)
    BY <1>1, Empties
  <2>2. n # d + 2
    BY <1>2
  <2> QED
    BY <1>1, <1>2, <2>1, <2>2
<1>3. CASE n = d + 2
  <2>1. n # d + 1
    BY <1>3
  <2> QED
    BY <1>1, <1>3, <2>1
<1> QED
  BY <1>2, <1>3

(* What the Decoder wants when it has p of a frame, and takes from in. *)
Wants(p) == IF Len(p) < 2 THEN 2 - Len(p) ELSE 2 + p[1].len - Len(p)
Takes(p, in) == IF Wants(p) < Len(in) THEN Wants(p) ELSE Len(in)
Joined(p, in) == p \o First(in, Takes(p, in))
Rest(p, in) == After(in, Takes(p, in))
Complete(f) == Len(f) >= 2 /\ Len(f) = 2 + f[1].len

(* The next units after p, of a batch that begins with the frame w. *)
LEMMA Decodable ==
  ASSUME NEW w \in Seq(Plain), Len(w) >= 2, w[1].len = Len(w) - 2,
         NEW g \in Seq(Plain), NEW p \in Seq(Plain), NEW in \in Seq(Plain),
         p \o in = w \o g, Len(p) < Len(w)
  PROVE  /\ Joined(p, in) \in Seq(Plain) /\ Rest(p, in) \in Seq(Plain)
         /\ Joined(p, in) \o Rest(p, in) = w \o g
         /\ Complete(Joined(p, in)) => Joined(p, in) = w /\ Rest(p, in) = g
         /\ ~Complete(Joined(p, in)) => Len(Joined(p, in)) < Len(w)
<1>0. PICK m, k, f : /\ m = IF Len(p) < 2 THEN 2 - Len(p) ELSE 2 + p[1].len - Len(p)
                     /\ k = IF m < Len(in) THEN m ELSE Len(in)
                     /\ f = p \o First(in, k)
                     /\ Joined(p, in) = f /\ Rest(p, in) = After(in, k)
  BY DEF Wants, Takes, Joined, Rest
<1>1. PICK a \in Seq(Plain) : a = w \o g
  BY Concat
<1>2. /\ Len(a) = Len(w) + Len(g) /\ \A i \in 1 .. Len(w) : a[i] = w[i]
  BY <1>1, Concat
<1>3. /\ Len(a) = Len(p) + Len(in) /\ \A i \in 1 .. Len(p) : a[i] = p[i]
  <2>1. a = p \o in
    BY <1>1
  <2> QED
    BY <2>1, Concat
<1>4. Len(w) \in Nat /\ Len(p) \in Nat /\ Len(in) \in Nat /\ Len(g) \in Nat
  OBVIOUS
<1>5. Len(p) >= 2 => p[1] = w[1]
  <2>1. Len(p) >= 2 => 1 \in 1 .. Len(p) /\ 1 \in 1 .. Len(w)
    BY <1>4
  <2> QED
    BY <1>2, <1>3, <2>1
<1>6. m \in Nat /\ Len(p) + m <= Len(w)
  <2>1. CASE Len(p) < 2
    BY <1>0, <1>4, <2>1
  <2>2. CASE ~(Len(p) < 2)
    <3>1. m = Len(w) - Len(p)
      BY <1>0, <1>4, <1>5, <2>2
    <3> QED
      BY <1>4, <3>1
  <2> QED
    BY <2>1, <2>2
<1>7. k \in 0 .. Len(in) /\ Len(p) + k <= Len(w)
  BY SMTT(20), <1>0, <1>4, <1>6
<1>8. PICK q \in Seq(Plain) : q = First(in, k) /\ Len(q) = k
  <2>1. First(in, k) \in Seq(Plain) /\ Len(First(in, k)) = k
    BY <1>7, FirstSeq
  <2> QED
    BY <2>1
<1>9. PICK r \in Seq(Plain) : r = After(in, k)
  <2>1. After(in, k) \in Seq(Plain)
    BY <1>7, AfterSeq
  <2> QED
    BY <2>1
<1>10. f \in Seq(Plain) /\ Len(f) = Len(p) + k
  <2>1. f = p \o q
    BY <1>0, <1>8
  <2>2. p \o q \in Seq(Plain) /\ Len(p \o q) = Len(p) + Len(q)
    BY Concat
  <2> QED
    BY <1>8, <2>1, <2>2
<1>11. f \o r = a
  <2>1. (p \o First(in, k)) \o After(in, k) = p \o in
    BY <1>7, Moves
  <2> QED
    BY <1>0, <1>1, <1>9, <2>1
<1>12. \A i \in 1 .. Len(f) : f[i] = a[i]
  BY <1>10, <1>11, Concat
<1>13. Len(f) <= Len(w) /\ Len(f) \in Nat
  BY <1>4, <1>7, <1>10
<1>14. \A i \in 1 .. Len(f) : f[i] = w[i]
  <2>1. \A i \in 1 .. Len(f) : i \in 1 .. Len(w)
    BY <1>4, <1>13
  <2> QED
    BY <1>2, <1>12, <2>1
<1>15. Len(f) >= 2 => f[1] = w[1]
  <2>1. Len(f) >= 2 => 1 \in 1 .. Len(f)
    BY <1>13
  <2> QED
    BY <1>14, <2>1
<1>16. Complete(f) => f = w /\ r = g
  <2> SUFFICES ASSUME Complete(f) PROVE f = w /\ r = g
    OBVIOUS
  <2>1. Len(f) = Len(w)
    <3>1. Len(f) >= 2 /\ Len(f) = 2 + f[1].len
      BY DEF Complete
    <3>2. f[1].len = Len(w) - 2
      BY <1>15, <3>1
    <3> QED
      BY <1>4, <3>1, <3>2
  <2>2. f = w
    BY <1>10, <1>14, <2>1, SeqEq
  <2>3. w \o r = w \o g
    BY <1>1, <1>11, <2>2
  <2>4. r = g
    BY <1>9, <2>3, Cancels
  <2> QED
    BY <2>2, <2>4
<1>17. ~Complete(f) => Len(f) < Len(w)
  <2> SUFFICES ASSUME Len(f) = Len(w) PROVE Complete(f)
    BY <1>4, <1>13
  <2>1. Len(f) >= 2 /\ f[1].len = Len(w) - 2
    BY <1>15
  <2>2. Len(f) = 2 + f[1].len
    BY <1>4, <2>1
  <2> QED
    BY <2>1, <2>2 DEF Complete
<1>18. Joined(p, in) = f /\ Rest(p, in) = r /\ f \o r = w \o g
  BY <1>0, <1>1, <1>9, <1>11
<1> QED
  BY <1>10, <1>16, <1>17, <1>18

(* What x has in hand of w, of which it has opened n and decoded d. *)
Holds(w, n, d, p, buf) ==
    \/ n = d /\ p = <<>> /\ buf = <<>>
    \/ /\ n \in {d + 1, d + 2}
       /\ p \o buf = Batch(w, d, n)
       /\ Len(p) < Len(w[d + 1])

(* A frame that is decoded. *)
LEMMA DecodesFrame ==
  ASSUME NEW w \in Seq(Seq(Plain)), NEW d \in Nat, d + 1 <= Len(w),
         NEW e \in Seq(Seq(Plain)), Len(e) = d, e = First(w, d)
  PROVE  /\ Append(e, w[d + 1]) \in Seq(Seq(Plain))
         /\ Len(Append(e, w[d + 1])) = d + 1
         /\ Append(e, w[d + 1]) = First(w, d + 1)
<1>1. d + 1 \in 1 .. Len(w) /\ d + 1 \in 0 .. Len(w) /\ d \in 0 .. Len(w)
  OBVIOUS
<1>2. w[d + 1] \in Seq(Plain)
  BY <1>1
<1>3. PICK a \in Seq(Seq(Plain)) : /\ a = Append(e, w[d + 1]) /\ Len(a) = d + 1
                                   /\ \A i \in 1 .. d : a[i] = e[i]
                                   /\ a[d + 1] = w[d + 1]
  <2>1. /\ Append(e, w[d + 1]) \in Seq(Seq(Plain))
        /\ Len(Append(e, w[d + 1])) = Len(e) + 1
        /\ \A i \in 1 .. Len(e) : Append(e, w[d + 1])[i] = e[i]
        /\ Append(e, w[d + 1])[Len(e) + 1] = w[d + 1]
    BY <1>2, Appended
  <2> QED
    BY <2>1
<1>4. \A i \in 1 .. d : e[i] = w[i]
  BY <1>1, FirstSeq
<1>5. \A i \in 1 .. d + 1 : a[i] = w[i]
  <2> TAKE i \in 1 .. d + 1
  <2>1. i \in 1 .. d \/ i = d + 1
    OBVIOUS
  <2> QED
    BY <1>3, <1>4, <2>1
<1>6. PICK b \in Seq(Seq(Plain)) : /\ b = First(w, d + 1) /\ Len(b) = d + 1
                                   /\ \A i \in 1 .. d + 1 : b[i] = w[i]
  <2>1. /\ First(w, d + 1) \in Seq(Seq(Plain)) /\ Len(First(w, d + 1)) = d + 1
        /\ \A i \in 1 .. d + 1 : First(w, d + 1)[i] = w[i]
    BY <1>1, FirstSeq
  <2> QED
    BY <2>1
<1>7. \A i \in 1 .. Len(a) : a[i] = b[i]
  BY <1>3, <1>5, <1>6
<1>8. a = b
  BY <1>3, <1>6, <1>7, SeqEq
<1> QED
  BY <1>3, <1>6, <1>8

WellFormed(w) == \A i \in 1 .. Len(w) : Len(w[i]) >= 2 /\ w[i][1].len = Len(w[i]) - 2

(* What a Decoder that has p of a frame, and e before it, makes of in. *)
DecodesTo(w, n, d, e, p, in) ==
    /\ Joined(p, in) \in Seq(Plain) /\ Rest(p, in) \in Seq(Plain)
    /\ Complete(Joined(p, in)) =>
          /\ Append(e, Joined(p, in)) \in Seq(Seq(Plain))
          /\ Len(Append(e, Joined(p, in))) = d + 1
          /\ d + 1 <= Len(w) /\ Append(e, Joined(p, in)) = First(w, d + 1)
          /\ Holds(w, n, d + 1, <<>>, Rest(p, in))
    /\ ~Complete(Joined(p, in)) => Holds(w, n, d, Joined(p, in), Rest(p, in))

(* A read of `in`, the rest of a batch, by a Decoder that has p of a frame. *)
LEMMA DecodesOne ==
  ASSUME NEW w \in Seq(Seq(Plain)),
         WellFormed(w),
         NEW d \in Nat, NEW n \in {d + 1, d + 2}, n <= Len(w),
         NEW e \in Seq(Seq(Plain)), Len(e) = d, e = First(w, d),
         NEW p \in Seq(Plain), NEW in \in Seq(Plain),
         p \o in = Batch(w, d, n), Len(p) < Len(w[d + 1])
  PROVE  DecodesTo(w, n, d, e, p, in)
<1>1. d + 1 \in 1 .. Len(w) /\ d + 1 <= Len(w)
  OBVIOUS
<1>2. PICK h \in Seq(Plain) : h = w[d + 1] /\ Len(h) >= 2 /\ h[1].len = Len(h) - 2
  <2>1. w[d + 1] \in Seq(Plain)
    BY <1>1
  <2> QED
    BY <1>1, <2>1 DEF WellFormed
<1>3. PICK g \in Seq(Plain) : /\ Batch(w, d, n) = h \o g
                              /\ n = d + 1 => g = <<>>
                              /\ n = d + 2 => g = w[d + 2]
  BY SMT, ZenonT(30), <1>2, BatchSplits
<1>4. p \o in = h \o g
  BY <1>3
<1>5. Len(p) < Len(h)
  BY <1>2
<1>6. PICK f \in Seq(Plain), r \in Seq(Plain) :
         /\ f = Joined(p, in) /\ r = Rest(p, in)
         /\ f \o r = h \o g
         /\ Complete(f) => f = h /\ r = g
         /\ ~Complete(f) => Len(f) < Len(h)
  <2>1. /\ Joined(p, in) \in Seq(Plain) /\ Rest(p, in) \in Seq(Plain)
        /\ Joined(p, in) \o Rest(p, in) = h \o g
        /\ Complete(Joined(p, in)) => Joined(p, in) = h /\ Rest(p, in) = g
        /\ ~Complete(Joined(p, in)) => Len(Joined(p, in)) < Len(h)
    <3>1. /\ h \in Seq(Plain) /\ g \in Seq(Plain) /\ p \in Seq(Plain) /\ in \in Seq(Plain)
          /\ Len(h) >= 2 /\ h[1].len = Len(h) - 2
          /\ p \o in = h \o g /\ Len(p) < Len(h)
      BY <1>2, <1>4, <1>5
    <3> QED
      BY ONLY <3>1, Decodable
  <2> QED
    BY <2>1
<1>8. CASE Complete(f)
  <2>1. f = w[d + 1] /\ r = g
    BY <1>2, <1>6, <1>8
  <2>2. /\ Append(e, w[d + 1]) \in Seq(Seq(Plain)) /\ Len(Append(e, w[d + 1])) = d + 1
        /\ Append(e, w[d + 1]) = First(w, d + 1)
    BY <1>1, DecodesFrame
  <2>3. Holds(w, n, d + 1, <<>>, g)
    <3>1. CASE n = d + 1
      <4>1. g = <<>>
        BY <1>3, <3>1
      <4> QED
        BY <3>1, <4>1 DEF Holds
    <3>2. CASE n = d + 2
      <4>1. g = w[d + 2] /\ d + 2 \in 1 .. Len(w)
        BY SMTT(20), <1>3, <3>2
      <4>2. Batch(w, d + 1, d + 2) = w[d + 2]
        BY DEF Batch
      <4>3. <<>> \o g = g
        BY Empties
      <4>4. Len(<<>>) < Len(w[d + 2])
        <5>1. Len(w[d + 2]) >= 2 /\ Len(w[d + 2]) \in Nat
          BY <1>3, <4>1 DEF WellFormed
        <5> QED
          BY <5>1
      <4>5. n = (d + 1) + 1 /\ (d + 1) + 1 = d + 2
        BY <3>2
      <4> QED
        BY <4>1, <4>2, <4>3, <4>4, <4>5 DEF Holds
    <3> QED
      BY <3>1, <3>2
  <2> QED
    BY <1>1, <1>6, <1>8, <2>1, <2>2, <2>3 DEF DecodesTo
<1>9. CASE ~Complete(f)
  <2>1. Len(f) < Len(w[d + 1])
    BY <1>2, <1>6, <1>9
  <2>2. f \o r = h \o g
    BY <1>6
  <2>3. f \o r = Batch(w, d, n)
    BY <1>3, <2>2
  <2>4. Holds(w, n, d, f, r)
    BY <2>1, <2>3 DEF Holds
  <2> QED
    BY <1>6, <1>9, <2>4 DEF DecodesTo
<1> QED
  BY <1>8, <1>9

(* The same of x, with what its readBuf keeps. *)
LEMMA DecodesKeeps ==
  ASSUME TypeOK, DecodedPrefix, NEW x \in Side, Link(x),
         NEW n \in {Len(decoded[x]) + 1, Len(decoded[x]) + 2}, n <= Len(written[Peer(x)]),
         NEW in \in Seq(Plain),
         partial[x] \o in = Batch(written[Peer(x)], Len(decoded[x]), n),
         Len(partial[x]) < Len(written[Peer(x)][Len(decoded[x]) + 1]),
         NEW k, k = IF Missing(x) < Len(in) THEN Missing(x) ELSE Len(in),
         Decodes(x, First(in, k)), readBuf' = [readBuf EXCEPT ![x] = After(in, k)],
         UNCHANGED written
  PROVE  /\ decoded' \in [Side -> Seq(Seq(Plain))] /\ partial' \in [Side -> Seq(Plain)]
         /\ readBuf' \in [Side -> Seq(Plain)] /\ DecodedPrefix'
         /\ \A z \in Side : z # x => /\ decoded'[z] = decoded[z] /\ partial'[z] = partial[z]
                                     /\ readBuf'[z] = readBuf[z]
         /\ Holds(written[Peer(x)], n, Len(decoded'[x]), partial'[x], readBuf'[x])
<1>1. PICK w \in Seq(Seq(Plain)), e \in Seq(Seq(Plain)), p \in Seq(Plain) :
         w = written[Peer(x)] /\ e = decoded[x] /\ p = partial[x]
  BY Peers DEF TypeOK
<1>2. k = Takes(p, in)
  BY <1>1 DEF Missing, Wants, Takes
<1>3. PICK f, r : f = Joined(p, in) /\ r = Rest(p, in)
  OBVIOUS
<1>4. f = p \o First(in, k) /\ r = After(in, k)
  BY <1>2, <1>3 DEF Joined, Rest
<1>5. WellFormed(w)
  BY <1>1 DEF Link, WellFormed
<1>6. PICK d \in Nat : d = Len(e) /\ d <= Len(w) /\ e = First(w, d)
  <2>1. Len(e) \in Nat /\ Len(e) <= Len(w) /\ e = First(w, Len(e))
    BY <1>1 DEF DecodedPrefix
  <2> QED
    BY <2>1
<1>7. /\ n \in {d + 1, d + 2} /\ n <= Len(w)
      /\ p \o in = Batch(w, d, n) /\ Len(p) < Len(w[d + 1])
  BY <1>1, <1>6
<1>8. /\ f \in Seq(Plain) /\ r \in Seq(Plain)
      /\ Complete(f) => /\ Append(e, f) \in Seq(Seq(Plain)) /\ Len(Append(e, f)) = d + 1
                        /\ d + 1 <= Len(w) /\ Append(e, f) = First(w, d + 1)
                        /\ Holds(w, n, d + 1, <<>>, r)
      /\ ~Complete(f) => Holds(w, n, d, f, r)
  <2>1. Len(e) = d
    BY <1>6
  <2>2. DecodesTo(w, n, d, e, p, in)
    BY <1>5, <1>6, <1>7, <2>1, DecodesOne
  <2> QED
    BY <1>3, <2>2 DEF DecodesTo
<1>9. /\ Complete(f) => /\ decoded' = [decoded EXCEPT ![x] = Append(e, f)]
                        /\ partial' = [partial EXCEPT ![x] = <<>>]
      /\ ~Complete(f) => /\ partial' = [partial EXCEPT ![x] = f]
                         /\ decoded' = decoded
  BY <1>1, <1>4 DEF Decodes, Complete
<1>10. PICK e1 \in Seq(Seq(Plain)), p1 \in Seq(Plain), d1 \in Nat :
          /\ decoded' = [decoded EXCEPT ![x] = e1] /\ partial' = [partial EXCEPT ![x] = p1]
          /\ d1 = Len(e1) /\ d1 <= Len(w) /\ e1 = First(w, d1)
          /\ Holds(w, n, d1, p1, r)
  <2>1. CASE Complete(f)
    <3>1. <<>> \in Seq(Plain) /\ d + 1 \in Nat
      OBVIOUS
    <3>2. /\ Append(e, f) \in Seq(Seq(Plain)) /\ d + 1 = Len(Append(e, f))
          /\ d + 1 <= Len(w) /\ Append(e, f) = First(w, d + 1)
          /\ Holds(w, n, d + 1, <<>>, r)
      BY <1>8, <2>1
    <3>3. /\ decoded' = [decoded EXCEPT ![x] = Append(e, f)]
          /\ partial' = [partial EXCEPT ![x] = <<>>]
      BY <1>9, <2>1
    <3> QED
      BY <3>1, <3>2, <3>3, Zenon
  <2>2. CASE ~Complete(f)
    <3>1. decoded' = [decoded EXCEPT ![x] = e] /\ partial' = [partial EXCEPT ![x] = f]
      BY <1>1, <1>9, <2>2 DEF TypeOK
    <3>2. f \in Seq(Plain) /\ Holds(w, n, d, f, r)
      BY <1>8, <2>2
    <3> QED
      BY <1>6, <3>1, <3>2, Zenon
  <2> QED
    BY <2>1, <2>2
<1>11. /\ decoded' \in [Side -> Seq(Seq(Plain))] /\ partial' \in [Side -> Seq(Plain)]
       /\ readBuf' \in [Side -> Seq(Plain)]
       /\ decoded'[x] = e1 /\ partial'[x] = p1 /\ readBuf'[x] = r
  BY <1>4, <1>8, <1>10 DEF TypeOK
<1>12. \A z \in Side : z # x => /\ decoded'[z] = decoded[z] /\ partial'[z] = partial[z]
                                /\ readBuf'[z] = readBuf[z]
  BY <1>4, <1>10 DEF TypeOK
<1>13. DecodedPrefix'
  <2> SUFFICES ASSUME NEW z \in Side
               PROVE  /\ Len(decoded'[z]) <= Len(written[Peer(z)])
                      /\ decoded'[z] = First(written[Peer(z)], Len(decoded'[z]))
    BY DEF DecodedPrefix
  <2>1. CASE z = x
    BY <1>1, <1>10, <1>11, <2>1
  <2>2. CASE z # x
    BY <1>12, <2>2 DEF DecodedPrefix
  <2> QED
    BY <2>1, <2>2
<1> QED
  BY <1>1, <1>10, <1>11, <1>12, <1>13

-----------------------------------------------------------------------------
(* The reads of an open tunnel.                                            *)

(* A read moves nobody and leaves the direction of the reader alone. *)
LEMMA PhasesKept ==
  ASSUME TypeOK, Phases, NEW x \in Side, State(x) = "open",
         UNCHANGED <<client, server, over, setup, keys, written, undone>>,
         wire'[x] = wire[x], wire[Peer(x)] = <<>> => wire'[Peer(x)] = <<>>
  PROVE  Phases'
<1>1. /\ server \in {"open", "ended"} /\ client # "idle"
      /\ x = "server" => keys["server"] # None
      /\ x = "client" => client = "open"
  BY DEF State, Phases, Side, TypeOK
<1>2. /\ x = "server" => wire'["server"] = wire["server"]
      /\ status = None => wire'["server"] = <<>>
  BY DEF Phases, Side, Peer
<1> QED
  BY <1>1, <1>2 DEF Phases, setup, Side

LEMMA BodyKept ==
  ASSUME TypeOK, Body, Phases, NEW x \in Side, State(x) = "open",
         UNCHANGED <<client, server, setup>>
  PROVE  Body'
<1>1. server \notin {"prefix", "msg", "fallback"}
  BY DEF State, Phases, Side, TypeOK
<1> QED
  BY <1>1 DEF Body, setup

(* The link in the other direction notices nothing. *)
LEMMA PeerKept ==
  ASSUME TypeOK, NEW x \in Side, Link(Peer(x)),
         UNCHANGED <<client, server, over, setup, keys, written>>, wire'[x] = wire[x],
         nonce'[Peer(x)] = nonce[Peer(x)], nonce'[x].send = nonce[x].send,
         decoded'[Peer(x)] = decoded[Peer(x)], partial'[Peer(x)] = partial[Peer(x)],
         readBuf'[Peer(x)] = readBuf[Peer(x)]
  PROVE  Link(Peer(x))'
<1>1. PICK y \in Side : y = Peer(x) /\ Peer(y) = x
  BY Peers
<1>2. Link(y) /\ Calm(y) /\ over \subseteq over'
  BY <1>1 DEF Calm
<1>3. Reading(y)' => Reading(y) /\ Header(y)' = Header(y) /\ wire'[Peer(y)] = wire[Peer(y)]
  BY <1>1 DEF Reading, Header, setup
<1>4. Link(y)'
  BY <1>2, <1>3, LinkUntouched
<1> QED
  BY <1>1, <1>4

LEMMA ReadsBufferedKeeps ==
  ASSUME IInv, NEW x \in Side, ReadsBuffered(x)
  PROVE  IInv'
<1> USE DEF IInv
<1>1. PICK y \in Side : y = Peer(x) /\ Peer(y) = x /\ y # x
  BY Peers
<1>2. PICK buf \in Seq(Plain) : buf = readBuf[x] /\ buf # <<>>
  BY DEF TypeOK, ReadsBuffered
<1>3. PICK k : k = IF Missing(x) < Len(buf) THEN Missing(x) ELSE Len(buf)
  OBVIOUS
<1>4. /\ State(x) = "open" /\ Decodes(x, First(buf, k))
      /\ readBuf' = [readBuf EXCEPT ![x] = After(buf, k)]
      /\ UNCHANGED <<client, server, wire, over, setup, keys, nonce, written, undone>>
  BY <1>2, <1>3 DEF ReadsBuffered
<1>5. PICK w \in Seq(Seq(Plain)), d \in Nat, r \in Nat, s \in Nat :
         w = written[y] /\ d = Len(decoded[x]) /\ r = nonce[x].recv /\ s = nonce[y].send
  <2>1. written[y] \in Seq(Seq(Plain)) /\ decoded[x] \in Seq(Seq(Plain))
    BY DEF TypeOK
  <2>2. Len(decoded[x]) \in Nat
    BY <2>1
  <2>3. nonce[x].recv \in Nat /\ nonce[y].send \in Nat
    BY DEF TypeOK
  <2> QED
    BY <2>1, <2>2, <2>3
<1>6. PICK b \in [0 .. s -> 0 .. Len(w)] :
         Batches(y, b) /\ InHand(x, b) /\ (Reading(x) => OnWire(x, b))
  BY <1>1, <1>5 DEF Link
<1>7. r \in 0 .. s
  BY <1>1, <1>5 DEF Link
<1>8. PICK n \in 0 .. Len(w) : n = b[r]
  BY <1>6, <1>7
<1>9. /\ n \in {d + 1, d + 2} /\ partial[x] \o buf = Batch(w, d, n)
      /\ Len(partial[x]) < Len(w[d + 1])
  BY <1>1, <1>2, <1>5, <1>6, <1>8 DEF InHand
<1>10. /\ decoded' \in [Side -> Seq(Seq(Plain))] /\ partial' \in [Side -> Seq(Plain)]
       /\ readBuf' \in [Side -> Seq(Plain)] /\ DecodedPrefix'
       /\ \A z \in Side : z # x => /\ decoded'[z] = decoded[z] /\ partial'[z] = partial[z]
                                   /\ readBuf'[z] = readBuf[z]
       /\ Holds(w, n, Len(decoded'[x]), partial'[x], readBuf'[x])
  <2>1. /\ n \in {Len(decoded[x]) + 1, Len(decoded[x]) + 2} /\ n <= Len(written[Peer(x)])
        /\ partial[x] \o buf = Batch(written[Peer(x)], Len(decoded[x]), n)
        /\ Len(partial[x]) < Len(written[Peer(x)][Len(decoded[x]) + 1])
        /\ Link(x) /\ UNCHANGED written
    BY <1>1, <1>4, <1>5, <1>8, <1>9
  <2> QED
    BY SMT, ZenonT(30), <1>1, <1>3, <1>4, <1>5, <2>1, DecodesKeeps
<1>11. TypeOK'
  BY <1>4, <1>10 DEF TypeOK, setup
<1>12. Phases' /\ Body'
  BY <1>4, PhasesKept, BodyKept
<1>13. Link(y)'
  BY <1>1, <1>4, <1>10, PeerKept
<1>14. Link(x)'
  <2>1. Batches(y, b)' /\ (Reading(x)' => OnWire(x, b)')
    BY <1>4, <1>6 DEF Batches, Reading, OnWire, Header, setup
  <2>2. InHand(x, b)'
    BY <1>1, <1>4, <1>5, <1>8, <1>10 DEF InHand, Holds
  <2>3. nonce' = nonce /\ written' = written
    BY <1>4
  <2> QED
    BY <1>1, <1>5, <1>6, <2>1, <2>2, <2>3 DEF Link
<1>15. \A z \in Side : Link(z)'
  BY <1>1, <1>13, <1>14 DEF Side
<1> QED
  BY <1>10, <1>11, <1>12, <1>15

(* Who has nothing left in readBuf is between two frames. *)
LEMMA NothingHeld ==
  ASSUME NEW w \in Seq(Seq(Plain)), WellFormed(w), NEW d \in Nat, NEW n \in 0 .. Len(w),
         NEW p \in Seq(Plain), Holds(w, n, d, p, <<>>)
  PROVE  n = d /\ p = <<>>
<1> SUFFICES ASSUME n \in {d + 1, d + 2}, p \o <<>> = Batch(w, d, n), Len(p) < Len(w[d + 1])
             PROVE  FALSE
  BY DEF Holds
<1>1. n <= Len(w) /\ d + 1 \in 1 .. Len(w)
  OBVIOUS
<1>2. PICK g \in Seq(Plain) : Batch(w, d, n) = w[d + 1] \o g
  BY <1>1, BatchSplits
<1>3. PICK h \in Seq(Plain) : h = w[d + 1]
  BY <1>1
<1>4. p \o <<>> = p
  BY Empties
<1>5. p = h \o g
  BY <1>2, <1>3, <1>4
<1>6. Len(h \o g) = Len(h) + Len(g)
  BY Concat
<1> QED
  BY <1>3, <1>5, <1>6

(* The first sealed frame is taken off the wire. *)
LEMMA CarriesOn ==
  ASSUME NEW u \in Seq(Unit), Len(u) >= 2, NEW w, NEW r \in Nat, NEW s \in Nat, NEW b, NEW key,
         Carries(u, w, 0, r, s, b, key)
  PROVE  /\ r + 1 \in 0 .. s
         /\ u[2] = [key |-> key, nonce |-> r, plain |-> Batch(w, b[r], b[r + 1])]
         /\ After(u, 2) \in Seq(Unit) /\ Len(After(u, 2)) = Len(u) - 2
         /\ Carries(After(u, 2), w, 0, r + 1, s, b, key)
<1>1. /\ Len(u) <= 0 + 2 * (s - r)
      /\ \A j \in 1 .. s - r : 0 + 2 * j <= Len(u) =>
            u[0 + 2 * j] = [key |-> key, nonce |-> r + j - 1,
                            plain |-> Batch(w, b[r + j - 1], b[r + j])]
  BY DEF Carries
<1>2. Len(u) \in Nat /\ r + 1 \in 0 .. s /\ 1 \in 1 .. s - r
  BY <1>1
<1>3. u[2] = [key |-> key, nonce |-> r, plain |-> Batch(w, b[r], b[r + 1])]
  <2>1. 0 + 2 * 1 = 2 /\ r + 1 - 1 = r /\ 0 + 2 * 1 <= Len(u)
    BY <1>2
  <2>2. u[0 + 2 * 1] = [key |-> key, nonce |-> r + 1 - 1,
                        plain |-> Batch(w, b[r + 1 - 1], b[r + 1])]
    BY <1>1, <1>2, <2>1
  <2> QED
    BY <2>1, <2>2
<1>4. PICK t \in Seq(Unit) : /\ t = After(u, 2) /\ Len(t) = Len(u) - 2
                             /\ \A i \in 1 .. Len(u) - 2 : t[i] = u[2 + i]
  <2>1. 2 \in 0 .. Len(u)
    BY <1>2
  <2>2. /\ After(u, 2) \in Seq(Unit) /\ Len(After(u, 2)) = Len(u) - 2
        /\ \A i \in 1 .. Len(u) - 2 : After(u, 2)[i] = u[2 + i]
    BY <2>1, AfterSeq
  <2> QED
    BY <2>2
<1>5. Len(t) <= 0 + 2 * (s - (r + 1))
  BY <1>1, <1>2, <1>4
<1>6. ASSUME NEW j \in 1 .. s - (r + 1), 0 + 2 * j <= Len(t)
      PROVE  t[0 + 2 * j] = [key |-> key, nonce |-> (r + 1) + j - 1,
                             plain |-> Batch(w, b[(r + 1) + j - 1], b[(r + 1) + j])]
  <2>1. PICK i \in 1 .. s - r : i = j + 1
    BY <1>2
  <2>2. 0 + 2 * i <= Len(u) /\ 0 + 2 * j \in 1 .. Len(u) - 2 /\ 2 + (0 + 2 * j) = 0 + 2 * i
    BY <1>2, <1>4, <1>6, <2>1
  <2>3. r + i - 1 = (r + 1) + j - 1 /\ r + i = (r + 1) + j
    BY <2>1
  <2>4. t[0 + 2 * j] = u[0 + 2 * i]
    BY <1>4, <2>2
  <2>5. u[0 + 2 * i] = [key |-> key, nonce |-> r + i - 1,
                        plain |-> Batch(w, b[r + i - 1], b[r + i])]
    BY <1>1, <2>2
  <2> QED
    BY <2>3, <2>4, <2>5
<1>7. Carries(t, w, 0, r + 1, s, b, key)
  BY <1>5, <1>6 DEF Carries
<1> QED
  BY <1>2, <1>3, <1>4, <1>7

LEMMA ReadsSealedKeeps ==
  ASSUME IInv, NEW x \in Side, ReadsSealed(x)
  PROVE  IInv'
<1> USE DEF IInv
<1>1. PICK y \in Side : y = Peer(x) /\ Peer(y) = x /\ y # x
  BY Peers
<1>2. PICK u \in Seq(Unit) : u = wire[y] /\ Len(u) >= 2
  BY <1>1 DEF TypeOK, ReadsSealed
<1>3. PICK w \in Seq(Seq(Plain)), d \in Nat, r \in Nat, s \in Nat :
         w = written[y] /\ d = Len(decoded[x]) /\ r = nonce[x].recv /\ s = nonce[y].send
  <2>1. written[y] \in Seq(Seq(Plain)) /\ decoded[x] \in Seq(Seq(Plain))
    BY DEF TypeOK
  <2>2. Len(decoded[x]) \in Nat
    BY <2>1
  <2>3. nonce[x].recv \in Nat /\ nonce[y].send \in Nat
    BY DEF TypeOK
  <2> QED
    BY <2>1, <2>2, <2>3
<1>4. PICK in : in = u[2].plain
  OBVIOUS
<1>5. PICK k : k = IF Missing(x) < Len(in) THEN Missing(x) ELSE Len(in)
  OBVIOUS
<1>6. /\ State(x) = "open" /\ readBuf[x] = <<>>
      /\ wire' = [wire EXCEPT ![y] = After(u, 2)]
      /\ nonce' = [nonce EXCEPT ![x].recv = r + 1]
      /\ readBuf' = [readBuf EXCEPT ![x] = After(in, k)]
      /\ Decodes(x, First(in, k))
      /\ UNCHANGED <<client, server, over, setup, keys, written, undone>>
  BY <1>1, <1>2, <1>3, <1>4, <1>5 DEF ReadsSealed, Leftover
<1>7. Reading(x) /\ Header(x) = 0 /\ Reading(x)' /\ Header(x)' = 0
  BY <1>6 DEF State, Reading, Header, Side
<1>8. PICK b \in [0 .. s -> 0 .. Len(w)] :
         Batches(y, b) /\ InHand(x, b) /\ OnWire(x, b)
  BY <1>1, <1>3, <1>7 DEF Link
<1>9. Carries(u, w, 0, r, s, b, KeyOf(y))
  BY <1>1, <1>2, <1>3, <1>7, <1>8 DEF OnWire, Carries
<1>10. PICK t \in Seq(Unit) :
          /\ t = After(u, 2) /\ Len(t) = Len(u) - 2 /\ r + 1 \in 0 .. s
          /\ u[2] = [key |-> KeyOf(y), nonce |-> r, plain |-> Batch(w, b[r], b[r + 1])]
          /\ Carries(t, w, 0, r + 1, s, b, KeyOf(y))
  <2>1. u \in Seq(Unit) /\ Len(u) >= 2 /\ r \in Nat /\ s \in Nat
    BY <1>2, <1>3
  <2>2. /\ r + 1 \in 0 .. s
        /\ u[2] = [key |-> KeyOf(y), nonce |-> r, plain |-> Batch(w, b[r], b[r + 1])]
        /\ After(u, 2) \in Seq(Unit) /\ Len(After(u, 2)) = Len(u) - 2
        /\ Carries(After(u, 2), w, 0, r + 1, s, b, KeyOf(y))
    <3> HIDE DEF IInv
    <3> QED
      BY ONLY <2>1, <1>9, CarriesOn
  <2> QED
    BY <2>2
<1>11. PICK n \in 0 .. Len(w), n1 \in 0 .. Len(w) :
          n = b[r] /\ n1 = b[r + 1] /\ n1 \in {n + 1, n + 2}
  <2>1. r \in 0 .. s /\ r + 1 \in 1 .. s /\ (r + 1) - 1 = r
    <3>1. r \in Nat /\ s \in Nat /\ r + 1 \in 0 .. s
      BY <1>3, <1>10
    <3> QED
      BY ONLY <3>1
  <2>2. b[r + 1] \in {b[(r + 1) - 1] + 1, b[(r + 1) - 1] + 2}
    BY <1>3, <1>8, <2>1 DEF Batches
  <2>3. b[r] \in 0 .. Len(w) /\ b[r + 1] \in 0 .. Len(w)
    BY <1>10, <2>1
  <2> QED
    BY <2>1, <2>2, <2>3
<1>12. WellFormed(w)
  BY <1>1, <1>3 DEF Link, WellFormed
<1>13. n = d /\ partial[x] = <<>>
  <2>1. Holds(w, n, d, partial[x], <<>>)
    BY <1>1, <1>3, <1>6, <1>8, <1>11 DEF InHand, Holds
  <2>2. partial[x] \in Seq(Plain)
    BY DEF TypeOK
  <2> QED
    BY <1>12, <2>1, <2>2, NothingHeld
<1>14. /\ in = Batch(w, d, n1) /\ n1 \in {d + 1, d + 2} /\ n1 <= Len(w)
  BY <1>4, <1>10, <1>11, <1>13
<1>15. in \in Seq(Plain) /\ d + 1 \in 1 .. Len(w)
  BY <1>14, BatchIs
<1>16. partial[x] \o in = in /\ Len(partial[x]) < Len(w[d + 1])
  <2>1. Len(<<>>) = 0 /\ Len(w[d + 1]) >= 2 /\ w[d + 1] \in Seq(Plain)
    BY <1>12, <1>15 DEF WellFormed
  <2>2. <<>> \o in = in
    BY <1>15, Empties
  <2> QED
    BY <1>13, <2>1, <2>2
<1>17. /\ decoded' \in [Side -> Seq(Seq(Plain))] /\ partial' \in [Side -> Seq(Plain)]
       /\ readBuf' \in [Side -> Seq(Plain)] /\ DecodedPrefix'
       /\ \A z \in Side : z # x => /\ decoded'[z] = decoded[z] /\ partial'[z] = partial[z]
                                   /\ readBuf'[z] = readBuf[z]
       /\ Holds(w, n1, Len(decoded'[x]), partial'[x], readBuf'[x])
  <2>1. /\ n1 \in {Len(decoded[x]) + 1, Len(decoded[x]) + 2} /\ n1 <= Len(written[Peer(x)])
        /\ partial[x] \o in = Batch(written[Peer(x)], Len(decoded[x]), n1)
        /\ Len(partial[x]) < Len(written[Peer(x)][Len(decoded[x]) + 1])
        /\ Link(x) /\ UNCHANGED written
    BY <1>1, <1>3, <1>6, <1>14, <1>16
  <2> QED
    BY SMT, ZenonT(30), <1>1, <1>3, <1>5, <1>6, <1>15, <2>1, DecodesKeeps
<1>18. /\ wire'[y] = t /\ wire'[x] = wire[x]
       /\ nonce'[x].recv = r + 1 /\ nonce'[x].send = nonce[x].send /\ nonce'[y] = nonce[y]
  BY <1>1, <1>6, <1>10 DEF TypeOK
<1>19. TypeOK'
  <2>1. wire' \in [Side -> Seq(Unit)]
    BY <1>6, <1>10 DEF TypeOK
  <2>2. nonce' \in [Side -> [send : Nat, recv : Nat]]
    <3>1. nonce \in [Side -> [send : Nat, recv : Nat]]
      BY DEF TypeOK
    <3>2. r + 1 \in Nat
      OBVIOUS
    <3> QED
      BY <1>6, <3>1, <3>2
  <2> QED
    BY <1>6, <1>17, <2>1, <2>2 DEF TypeOK, setup
<1>20. Phases' /\ Body'
  <2>1. wire[Peer(x)] # <<>>
    BY <1>1, <1>2
  <2> QED
    BY <1>6, <1>18, <2>1, PhasesKept, BodyKept
<1>21. Link(y)'
  BY <1>1, <1>6, <1>17, <1>18, PeerKept
<1>22. Link(x)'
  <2>1. Batches(y, b)'
    BY <1>1, <1>6, <1>8, <1>18 DEF Batches
  <2>2. InHand(x, b)'
    BY <1>1, <1>3, <1>6, <1>11, <1>17, <1>18 DEF InHand, Holds
  <2>3. OnWire(x, b)'
    <3>1. Len(t) = 0 + 2 * (s - (r + 1)) \/ y \in over
      <4>1. Len(u) = 0 + 2 * (s - r) \/ y \in over
        BY <1>1, <1>2, <1>3, <1>7, <1>8 DEF OnWire
      <4> QED
        BY SMTT(20), <1>10, <4>1
    <3>2. /\ Len(t) <= 0 + 2 * (s - (r + 1))
          /\ \A j \in 1 .. s - (r + 1) : 0 + 2 * j <= Len(t) =>
                t[0 + 2 * j] = [key |-> KeyOf(y), nonce |-> (r + 1) + j - 1,
                                plain |-> Batch(w, b[(r + 1) + j - 1], b[(r + 1) + j])]
      BY <1>10 DEF Carries
    <3>3. /\ wire'[Peer(x)] = t /\ written'[Peer(x)] = w /\ Peer(x) = y /\ over' = over
          /\ nonce'[Peer(x)].send = s /\ nonce'[x].recv = r + 1 /\ Header(x)' = 0
      BY <1>1, <1>3, <1>6, <1>7, <1>18
    <3> HIDE DEF IInv
    <3>4. /\ Len(wire'[Peer(x)]) <= Header(x)' + 2 * (nonce'[Peer(x)].send - nonce'[x].recv)
          /\ \/ Peer(x) \in over'
             \/ Len(wire'[Peer(x)])
                   = Header(x)' + 2 * (nonce'[Peer(x)].send - nonce'[x].recv)
      BY <3>1, <3>2, <3>3
    <3>5. ASSUME NEW i \in 1 .. Header(x)'
          PROVE  i <= Len(wire'[Peer(x)]) => wire'[Peer(x)][i] = Msg("msg2")[i]
      BY <3>3, <3>5
    <3>6. ASSUME NEW j \in 1 .. nonce'[Peer(x)].send - nonce'[x].recv,
                 Header(x)' + 2 * j <= Len(wire'[Peer(x)])
          PROVE  wire'[Peer(x)][Header(x)' + 2 * j]
                    = [key |-> KeyOf(Peer(x)), nonce |-> nonce'[x].recv + j - 1,
                       plain |-> Batch(written'[Peer(x)], b[nonce'[x].recv + j - 1],
                                       b[nonce'[x].recv + j])]
      BY <3>2, <3>3, <3>6
    <3> QED
      BY <3>4, <3>5, <3>6 DEF OnWire
  <2>4. /\ nonce'[x].recv <= nonce'[y].send /\ nonce'[y].send = s
        /\ written'[y] = w
    BY <1>3, <1>6, <1>10, <1>18
  <2> QED
    BY <1>1, <1>12, <2>1, <2>2, <2>3, <2>4 DEF Link, WellFormed
<1>23. \A z \in Side : Link(z)'
  BY <1>1, <1>21, <1>22 DEF Side
<1> QED
  BY <1>17, <1>19, <1>20, <1>23

LEMMA ReadFailsKeeps ==
  ASSUME IInv, NEW x \in Side, ReadFails(x)
  PROVE  IInv'
  BY MuxEndsKeeps DEF ReadFails

LEMMA ClosesKeeps ==
  ASSUME IInv, NEW x \in Side, Closes(x)
  PROVE  IInv'
  BY MuxEndsKeeps DEF Closes

LEMMA StutterKeeps ==
  ASSUME IInv, UNCHANGED vars
  PROVE  IInv'
<1>1. /\ UNCHANGED <<client, server, wire, over, status, taken, allowed, sent, seen>>
      /\ UNCHANGED <<keys, nonce, readBuf, partial, decoded, written, undone>>
  BY DEF vars, setup, reading
<1>2. TypeOK'
  BY <1>1 DEF IInv, TypeOK
<1>3. Body'
  <2>1. Body
    BY DEF IInv
  <2> QED
    BY ONLY <2>1, <1>1 DEF Body, Announced
<1>4. Phases'
  <2>1. Phases
    BY DEF IInv
  <2> QED
    BY ONLY <2>1, <1>1 DEF Phases
<1>5. DecodedPrefix'
  BY <1>1 DEF IInv, DecodedPrefix
<1>6. ASSUME NEW x \in Side PROVE Link(x)'
  <2>1. TypeOK /\ Link(x)
    BY DEF IInv
  <2>2. Calm(x) /\ over \subseteq over'
    BY <1>1 DEF Calm
  <2>3. Reading(x)' => Reading(x) /\ Header(x)' = Header(x) /\ wire'[Peer(x)] = wire[Peer(x)]
    BY <1>1 DEF Reading, Header
  <2> QED
    BY <2>1, <2>2, <2>3, LinkUntouched
<1> QED
  BY <1>2, <1>3, <1>4, <1>5, <1>6 DEF IInv

LEMMA StepInv == IInv /\ [Next]_vars => IInv'
<1> SUFFICES ASSUME IInv, [Next]_vars PROVE IInv'
  OBVIOUS
<1>1. CASE Request
  BY <1>1, RequestKeeps
<1>2. CASE \E d \in Lens, n \in 0 .. MaxWeb, t \in BOOLEAN : Visit(d, n, t)
  BY <1>2, VisitKeeps
<1>3. CASE Handles
  BY <1>3, ReadsPrefixKeeps, ReadsMsg1Keeps, RespondsKeeps, RespondFailsKeeps,
     FallbackReadsKeeps DEF Handles
<1>4. CASE Answers
  BY <1>4, FallbackAnswersKeeps DEF Answers
<1>5. CASE ReadsMsg2 \/ AnswerIsShort
  BY <1>5, ReadsMsg2Keeps, AnswerIsShortKeeps
<1>6. ASSUME NEW x \in Side, \/ \E n \in PayloadLens : SendsOne(x, n)
                             \/ \E n, m \in PayloadLens : SendsTwo(x, n, m)
      PROVE  IInv'
  BY <1>6, SendsOneKeeps, SendsTwoKeeps
<1>7. ASSUME NEW x \in Side, Receives(x) \/ Closes(x)
      PROVE  IInv'
  BY <1>7, ReadsBufferedKeeps, ReadsSealedKeeps, ReadFailsKeeps, ClosesKeeps DEF Receives
<1>8. CASE \E i \in 0 .. Len(wire["client"]), j \in 0 .. Len(wire["server"]) : Cut(i, j)
  BY <1>8, CutKeeps
<1>9. CASE UNCHANGED vars
  BY <1>9, StutterKeeps
<1> QED
  BY <1>1, <1>2, <1>3, <1>4, <1>5, <1>6, <1>7, <1>8, <1>9 DEF Next

LEMMA Inductive == Spec => []IInv
  BY InitInv, StepInv, PTL DEF Spec

-----------------------------------------------------------------------------
(* Every unit on the wire, in a buffer or in a history has the form that   *)
(* the code gives it, through the handshake and both directions.           *)
THEOREM TypeCorrect == Spec => []TypeOK
<1>1. IInv => TypeOK
  BY DEF IInv
<1> QED
  BY <1>1, Inductive, PTL

(* h2_server.go:149-153: for a buffer, a body and an announced length of   *)
(* any size, what the handler read before it gave the request up and what  *)
(* is still to come make the request again, in order and nothing missing.  *)
THEOREM AllSeen == Spec => []FallbackSeesAll
<1>1. IInv => FallbackSeesAll
  <2> SUFFICES ASSUME IInv, server = "fallback" PROVE FallbackSeesAll
    BY DEF FallbackSeesAll
  <2>1. PICK s : s = seen \o taken \o wire["client"]
    OBVIOUS
  <2>2. s = First(sent, Len(s)) /\ (undone \/ s = sent)
    BY <2>1 DEF IInv, Body
  <2> QED
    BY <2>1, <2>2 DEF FallbackSeesAll
<1> QED
  BY <1>1, Inductive, PTL

(* What a Decoder returns is what the peer's mux sent, frame for frame and *)
(* in order, for any number of frames of any length, and wherever the      *)
(* connection is cut.                                                      *)
THEOREM FramesDecoded == Spec => []DecodedPrefix
<1>1. IInv => DecodedPrefix
  BY DEF IInv
<1> QED
  BY <1>1, Inductive, PTL
=============================================================================
