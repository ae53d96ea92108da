------------------------------ MODULE Coalescer ------------------------------
(***************************************************************************)
(* The sending half of one session: the write coalescer                    *)
(* (internal/shaper/coalesce.go) over the sealing of its output            *)
(* (internal/crypto/frame_cipher.go, internal/auth/session.go).            *)
(*                                                                         *)
(* Mux frames are appended to a batch; the batch is flushed when it is     *)
(* large enough, when its timer fires, or when the connection is closed.   *)
(* A cover loop flushes pure padding.  Every flush runs under the mutex    *)
(* c.mu and becomes one sealed frame: it first takes the next Noise nonce  *)
(* (Seal), and reaches the transport in a later step (Deliver).            *)
(*                                                                         *)
(* Sizes are in the unit of the constants; a frame is an abstract value    *)
(* with a size.  The contents of padding are left out.                     *)
(***************************************************************************)
EXTENDS Integers, Sequences

CONSTANTS Frame, Size,                \* mux frames and their encoded length
          Writer,                     \* goroutines that call Write
          TimerId, NoTimer,           \* timers made by time.AfterFunc
          Cover, Closer,              \* the cover loop; the goroutine in Close
          FlushBytes, MinPaddedSize, MaxPaddedSize, CoverInterval,  \* CoalesceConfig
          HeaderSize, MaxPayload, MaxSealedPayload,
          MaxWrites, MaxCovers        \* bounds on the calls and cover flushes

Actor == Writer \cup TimerId \cup {Cover, Closer}

ASSUME SizeAssumption == Size \in [Frame -> Nat \ {0}]
ASSUME ConfigAssumption ==
    /\ {FlushBytes, MinPaddedSize, HeaderSize, MaxPayload, MaxSealedPayload}
          \subseteq Nat \ {0}
    /\ MaxPaddedSize \in Nat /\ CoverInterval \in Int
    /\ MaxWrites \in Nat /\ MaxCovers \in Nat
ASSUME ActorAssumption ==
    /\ NoTimer \notin TimerId
    /\ Cover # Closer /\ {Cover, Closer} \cap (Writer \cup TimerId) = {}
    /\ Writer \cap TimerId = {}

VARIABLES
    buf,        \* c.buf, as the frames in it
    buffered,   \* len(c.buf)
    timer,      \* c.timer
    armed,      \* timers that have not fired
    fired,      \* timers whose goroutine runs but does not hold c.mu yet
    closed,     \* c.closed
    io,         \* what each goroutine is doing inside inner.Write or Close
    nonce,      \* the nonce the next Encrypt uses
    wire,       \* the sealed frames the transport has taken, in order
    transport,  \* "up", "failed" or "shut"
    covers,     \* cover flushes so far, for the bound MaxCovers
    accepted,   \* history: the frames appended to c.buf
    sent        \* history: the frames inside the sealed frames on the wire

vars == <<buf, buffered, timer, armed, fired, closed, io, nonce, wire,
          transport, covers, accepted, sent>>

Idle == [st |-> "idle", frames |-> <<>>, bytes |-> 0, nonce |-> 0]

(* Mutant: c.mu protects the transport write but not Encrypt. *)
Locked_NotWhileSealing == \E a \in Actor : io[a].st = "send"

(* c.mu is held by the goroutine that is inside inner.Write. *)
Locked == \E a \in Actor : io[a].st \in {"seal", "send"}

Init ==
    /\ buf = <<>> /\ buffered = 0
    /\ timer = NoTimer /\ armed = {} /\ fired = {}
    /\ closed = FALSE
    /\ io = [a \in Actor |-> Idle]
    /\ nonce = 0 /\ wire = <<>> /\ transport = "up"
    /\ covers = 0
    /\ accepted = <<>> /\ sent = <<>>

-----------------------------------------------------------------------------
(* Padding: the target of a flush and the length it gives n buffered bytes. *)

Target == IF MaxPaddedSize > MinPaddedSize
          THEN MinPaddedSize .. MaxPaddedSize ELSE {MinPaddedSize}

PadPayload(n, target) == IF target - n - HeaderSize > MaxPayload
                         THEN MaxPayload ELSE target - n - HeaderSize

(* Mutant: off by one in the least padding payload. *)
FlushSize_SkipsSmallPadding(n, target) ==
    IF n >= target \/ PadPayload(n, target) < 2
    THEN n ELSE n + HeaderSize + PadPayload(n, target)

FlushSize(n, target) ==
    IF n >= target \/ PadPayload(n, target) < 1
    THEN n ELSE n + HeaderSize + PadPayload(n, target)

(* Goroutine a enters inner.Write with the frames fs in n bytes. *)
Begin(a, fs, n) ==
    io' = [io EXCEPT ![a] = [st |-> "seal", frames |-> fs, bytes |-> n, nonce |-> 0]]

StopTimer == timer' = NoTimer /\ armed' = armed \ {timer}

(* Mutant: the batch is not reset after the write. *)
FlushLocked_KeepsBatch(a, fs, n) ==
    /\ \E target \in Target : Begin(a, fs, FlushSize(n, target))
    /\ buf' = fs /\ buffered' = n

(* The part of flushLocked that takes the batch fs of n bytes and pads it. *)
FlushLocked(a, fs, n) ==
    /\ \E target \in Target : Begin(a, fs, FlushSize(n, target))
    /\ buf' = <<>> /\ buffered' = 0

-----------------------------------------------------------------------------
BatchFull(n) == n >= FlushBytes

(* Write appends; it flushes at FlushBytes, else makes sure a timer runs. *)
Write(w, f) ==
    LET n == buffered + Size[f] IN
    /\ ~Locked /\ ~closed /\ io[w] = Idle
    /\ Len(accepted) < MaxWrites
    /\ accepted' = Append(accepted, f)
    /\ \/ /\ BatchFull(n)
          /\ StopTimer
          /\ FlushLocked(w, Append(buf, f), n)
       \/ /\ ~BatchFull(n)
          /\ buf' = Append(buf, f) /\ buffered' = n
          /\ IF timer # NoTimer
             THEN UNCHANGED <<timer, armed>>
             ELSE \E t \in TimerId \ (armed \cup fired) :
                     timer' = t /\ armed' = armed \cup {t}
          /\ UNCHANGED io
    /\ UNCHANGED <<fired, closed, nonce, wire, transport, covers, sent>>

(* The runtime starts the goroutine of an armed timer; Stop is too late now. *)
TimerFires(t) ==
    /\ t \in armed
    /\ armed' = armed \ {t} /\ fired' = fired \cup {t}
    /\ UNCHANGED <<buf, buffered, timer, closed, io, nonce, wire, transport,
                   covers, accepted, sent>>

(* Mutant: timerFlush leaves c.timer set. *)
TimerFlush_KeepsTimer(t) ==
    /\ t \in fired /\ ~Locked
    /\ fired' = fired \ {t}
    /\ UNCHANGED timer
    /\ IF closed \/ buffered = 0
       THEN UNCHANGED <<buf, buffered, io>>
       ELSE FlushLocked(t, buf, buffered)
    /\ UNCHANGED <<armed, closed, nonce, wire, transport, covers,
                   accepted, sent>>

(* timerFlush forgets c.timer, whichever timer that is, and flushes. *)
TimerFlush(t) ==
    /\ t \in fired /\ ~Locked
    /\ fired' = fired \ {t}
    /\ timer' = NoTimer
    /\ IF closed \/ buffered = 0
       THEN UNCHANGED <<buf, buffered, io>>
       ELSE FlushLocked(t, buf, buffered)
    /\ UNCHANGED <<armed, closed, nonce, wire, transport, covers,
                   accepted, sent>>

(* The loop runs unless its interval is negative: defaults() turns 0 to 25s. *)
CoverInSeconds == IF CoverInterval = 0 THEN 25 ELSE CoverInterval

CoverTick ==
    /\ CoverInSeconds > 0
    /\ ~Locked /\ ~closed /\ io[Cover] = Idle
    /\ IF buffered # 0
       THEN UNCHANGED <<buf, buffered, timer, armed, io, covers>>
       ELSE /\ covers < MaxCovers /\ covers' = covers + 1
            /\ StopTimer
            /\ FlushLocked(Cover, <<>>, 0)
    /\ UNCHANGED <<fired, closed, nonce, wire, transport, accepted, sent>>

(* Close marks the connection closed and writes the rest of the batch as is. *)
Close ==
    /\ ~Locked /\ ~closed
    /\ closed' = TRUE
    /\ StopTimer
    /\ IF buffered # 0
       THEN Begin(Closer, buf, buffered)
       ELSE io' = [io EXCEPT ![Closer].st = "shut"]
    /\ buf' = <<>> /\ buffered' = 0
    /\ UNCHANGED <<fired, nonce, wire, transport, covers, accepted, sent>>

-----------------------------------------------------------------------------
(* inner.Write returns to a: c.mu is released; Close goes on to inner.Close. *)
Return(a) ==
    io' = [io EXCEPT ![a] = IF a = Closer THEN [Idle EXCEPT !.st = "shut"] ELSE Idle]

(* FrameCipher.Write, first half: refuse, ignore, or take the next nonce. *)
Seal(a) ==
    /\ io[a].st = "seal"
    /\ IF io[a].bytes = 0 \/ io[a].bytes > MaxSealedPayload
       THEN Return(a) /\ UNCHANGED nonce
       ELSE /\ io' = [io EXCEPT ![a].st = "send", ![a].nonce = nonce]
            /\ nonce' = nonce + 1
    /\ UNCHANGED <<buf, buffered, timer, armed, fired, closed, wire, transport,
                   covers, accepted, sent>>

(* FrameCipher.Write, second half: the transport takes the sealed frame ... *)
Deliver(a) ==
    /\ io[a].st = "send" /\ transport = "up"
    /\ wire' = Append(wire, [nonce |-> io[a].nonce, bytes |-> io[a].bytes, by |-> a])
    /\ sent' = sent \o io[a].frames
    /\ Return(a)
    /\ UNCHANGED <<buf, buffered, timer, armed, fired, closed, nonce, transport,
                   covers, accepted>>

(* ... or has failed; flushLocked has reset the batch all the same. *)
Refuse(a) ==
    /\ io[a].st = "send" /\ transport # "up"
    /\ Return(a)
    /\ UNCHANGED <<buf, buffered, timer, armed, fired, closed, nonce, wire,
                   transport, covers, accepted, sent>>

(* Mutant: the inner connection is closed before the last write. *)
InnerClose_Unordered ==
    /\ io[Closer].st # "idle"
    /\ io' = [io EXCEPT ![Closer] = Idle]
    /\ transport' = IF transport = "up" THEN "shut" ELSE transport
    /\ UNCHANGED <<buf, buffered, timer, armed, fired, closed, nonce, wire,
                   covers, accepted, sent>>

(* The last step of Close, after c.mu is released. *)
InnerClose ==
    /\ io[Closer].st = "shut"
    /\ io' = [io EXCEPT ![Closer] = Idle]
    /\ transport' = IF transport = "up" THEN "shut" ELSE transport
    /\ UNCHANGED <<buf, buffered, timer, armed, fired, closed, nonce, wire,
                   covers, accepted, sent>>

(* The environment: the HTTP/2 stream below dies. *)
TransportFails ==
    /\ transport = "up" /\ transport' = "failed"
    /\ UNCHANGED <<buf, buffered, timer, armed, fired, closed, io, nonce, wire,
                   covers, accepted, sent>>

Next ==
    \/ \E w \in Writer, f \in Frame : Write(w, f)
    \/ \E t \in TimerId : TimerFires(t) \/ TimerFlush(t)
    \/ CoverTick \/ Close \/ InnerClose \/ TransportFails
    \/ \E a \in Actor : Seal(a) \/ Deliver(a) \/ Refuse(a)

Spec == Init /\ [][Next]_vars

(***************************************************************************)
(* Timers fire; a goroutine waiting for c.mu gets it (sync.Mutex hands the *)
(* lock over after 1ms of starvation: strong fairness); inner.Write        *)
(* returns, which assumes that the peer keeps reading or the transport     *)
(* fails.                                                                  *)
(***************************************************************************)
Fairness ==
    /\ \A t \in TimerId : WF_vars(TimerFires(t)) /\ SF_vars(TimerFlush(t))
    /\ \A a \in Actor : WF_vars(Seal(a)) /\ WF_vars(Deliver(a) \/ Refuse(a))
    /\ WF_vars(InnerClose)

FairSpec == Spec /\ Fairness

-----------------------------------------------------------------------------
(* The type invariant. *)
IOState == [st : {"idle", "seal", "send", "shut"}, frames : Seq(Frame),
            bytes : Nat, nonce : Nat]

TypeOK ==
    /\ buf \in Seq(Frame) /\ buffered \in Nat
    /\ timer \in TimerId \cup {NoTimer}
    /\ armed \subseteq TimerId /\ fired \subseteq TimerId
    /\ closed \in BOOLEAN
    /\ io \in [Actor -> IOState]
    /\ nonce \in Nat
    /\ wire \in Seq([nonce : Nat, bytes : Nat, by : Actor])
    /\ transport \in {"up", "failed", "shut"}
    /\ covers \in Nat
    /\ accepted \in Seq(Frame) /\ sent \in Seq(Frame)

(* No frame is stranded: while data waits in the batch of an open          *)
(* connection and nobody is flushing, a timer is armed or a flush goroutine *)
(* is on its way, although a stale timerFlush may clear c.timer under a     *)
(* newer timer (coalesce.go:131-136, 145).                                  *)
NothingStranded == buffered # 0 /\ ~closed => armed \cup fired # {}

(* Sealed frames reach the wire in nonce order without a gap: the receiver *)
(* decrypts with an implicit counter, so one swap kills the session        *)
(* (frame_cipher.go:72, 85: Encrypt runs before writeMu is taken).         *)
NonceOrder == \A i \in 1 .. Len(wire) : wire[i].nonce = i - 1

(* Frames small enough for a TUN packet: the bound the client and the      *)
(* server keep by reading packets into buffers of MTU+100 bytes.           *)
MTUSized ==
    /\ \A f \in Frame : Size[f] + FlushBytes <= MaxSealedPayload + 1
    /\ MinPaddedSize <= MaxSealedPayload /\ MaxPaddedSize <= MaxSealedPayload

(* No batch is refused by FrameCipher.Write: a refusal drops frames whose   *)
(* Write had already succeeded.  True of MTU-sized frames; frame.go:15-16   *)
(* allows larger ones.                                                      *)
NeverRefused == \A a \in Actor : io[a].st = "seal" => io[a].bytes <= MaxSealedPayload

(* What has left is a prefix of what was accepted: frames are never        *)
(* reordered, repeated or skipped, whichever goroutine flushes.            *)
PrefixSent == /\ Len(sent) <= Len(accepted)
              /\ \A i \in 1 .. Len(sent) : sent[i] = accepted[i]

(* Every padded flush is at least the smallest target less one header; only *)
(* the last write of Close is not padded.                                   *)
PaddedFlush == \A i \in 1 .. Len(wire) :
    wire[i].by # Closer => wire[i].bytes + HeaderSize >= MinPaddedSize

Abstract == INSTANCE FrameQueue
(* The coalescer implements the frame queue: nothing is reordered or left *)
(* behind, and every accepted frame leaves unless the transport fails.     *)
ImplementsQueue == Abstract!FairSpec

-----------------------------------------------------------------------------
(* The parts of the inductive invariants. *)

InWrite(a) == io[a].st \in {"seal", "send"}

(* c.mu admits one goroutine to inner.Write, and the batch is empty then. *)
Mutex == /\ \A a, b \in Actor : InWrite(a) /\ InWrite(b) => a = b
         /\ \A a \in Actor : InWrite(a) => buf = <<>>

Batch == /\ buffered = 0 <=> buf = <<>>
         /\ buffered < FlushBytes
         /\ \A a \in Actor : io[a].st = "seal" /\ io[a].bytes = 0 => io[a].frames = <<>>

(* c.timer never outlives the timer's goroutine. *)
TimerRef == timer # NoTimer => timer \in armed \cup fired

(* After Close only Close itself is inside inner.Write. *)
AfterClose == /\ closed => buf = <<>> /\ \A a \in Actor \ {Closer} : ~InWrite(a)
              /\ ~closed => io[Closer].st = "idle"
              /\ \A a \in Actor \ {Closer} : io[a].st # "shut"
              /\ transport = "shut" => closed

(* Nonces are taken in the order of the wire. *)
NonceCount == transport = "up" =>
    /\ (\A a \in Actor : io[a].st # "send") => nonce = Len(wire)
    /\ \A a \in Actor : io[a].st = "send" => /\ io[a].nonce = Len(wire)
                                             /\ nonce = Len(wire) + 1

(* What is accepted and not sent is in the batch or in the write under way. *)
Pending == transport = "up" =>
    /\ (\A a \in Actor : ~InWrite(a)) => accepted = sent \o buf
    /\ \A a \in Actor : InWrite(a) => accepted = sent \o io[a].frames

(* The invariant that is inductive for every value of the constants, and   *)
(* what it is with MTU-sized frames.                                       *)
IInv == /\ TypeOK /\ Mutex /\ Batch /\ AfterClose
        /\ TimerRef /\ NothingStranded /\ NonceCount /\ NonceOrder

DataInv == IInv /\ NeverRefused /\ Pending /\ PrefixSent

=============================================================================
