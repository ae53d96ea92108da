----------------------------- MODULE ReplayWindow -----------------------------
(***************************************************************************)
(* The sliding window of internal/auth/replay.go.  The bitmap word is the  *)
(* set of the positions of its 1 bits; bit i stands for nonce head - i.    *)
(***************************************************************************)
EXTENDS Naturals

CONSTANTS Nonce,        \* the nonces callers mark
          WindowSize    \* 64: the width of the bitmap word, too

ASSUME WindowAssumption == WindowSize \in Nat \ {0} /\ Nonce \subseteq Nat

VARIABLES head, bitmap, hasAny,
          times,      \* history: how often each nonce was accepted since Reset
          outcome     \* history: the last call of Mark and its result

windowVars == <<head, bitmap, hasAny, times, outcome>>

WindowInit ==
    /\ head = 0 /\ bitmap = {} /\ hasAny = FALSE
    /\ times = [n \in Nonce |-> 0]
    /\ outcome = [n |-> 0, fresh |-> FALSE]

(* bits << s: positions past the width of the word fall off. *)
ShiftLeft(bits, s) == {b \in 0 .. WindowSize - 1 : b >= s /\ b - s \in bits}

Result(n, fresh) ==
    /\ outcome' = [n |-> n, fresh |-> fresh]
    /\ times' = IF fresh THEN [times EXCEPT ![n] = @ + 1] ELSE times

MarkFirst(n) ==
    /\ ~hasAny
    /\ hasAny' = TRUE /\ head' = n /\ bitmap' = {0}
    /\ Result(n, TRUE)

MarkAhead(n) ==
    /\ hasAny /\ n > head
    /\ bitmap' = IF n - head >= WindowSize
                 THEN {0} ELSE ShiftLeft(bitmap, n - head) \cup {0}
    /\ head' = n /\ UNCHANGED hasAny
    /\ Result(n, TRUE)

(* Mutant: off by one; 1 << 64 is 0, and no bit of the word is tested. *)
TooOld_OffByOne(diff) == diff > WindowSize

TooOld(diff) == diff >= WindowSize

(* n <= head: inside the window and unseen, or refused. *)
MarkBehind(n) ==
    /\ hasAny /\ n <= head
    /\ LET diff == head - n IN
       IF TooOld(diff) \/ diff \in bitmap
       THEN Result(n, FALSE) /\ UNCHANGED bitmap
       ELSE Result(n, TRUE) /\ bitmap' = bitmap \cup ({diff} \cap 0 .. WindowSize - 1)
    /\ UNCHANGED <<head, hasAny>>

(* Mutant: Reset clears the bitmap but keeps the head. *)
Reset_KeepsHead ==
    /\ bitmap' = {} /\ UNCHANGED <<head, hasAny>>
    /\ times' = [n \in Nonce |-> 0]
    /\ UNCHANGED outcome

Reset ==
    /\ head' = 0 /\ bitmap' = {} /\ hasAny' = FALSE
    /\ times' = [n \in Nonce |-> 0]
    /\ UNCHANGED outcome

WindowNext == Reset \/ \E n \in Nonce : MarkFirst(n) \/ MarkAhead(n) \/ MarkBehind(n)

WindowSpec == WindowInit /\ [][WindowNext]_windowVars

-----------------------------------------------------------------------------
(* The type invariant: the bitmap is a word of WindowSize bits. *)
WindowTypeOK ==
    /\ head \in Nonce \cup {0}
    /\ bitmap \subseteq 0 .. WindowSize - 1
    /\ hasAny \in BOOLEAN
    /\ times \in [Nonce -> Nat]
    /\ outcome \in [n : Nonce \cup {0}, fresh : BOOLEAN]

(* No nonce is accepted twice between two resets (replay.go:30-32), however *)
(* far the window has moved and in whatever order nonces arrive.            *)
AtMostOnce == \A n \in Nonce : times[n] <= 1

(* The bitmap is exact: within the window a bit is set if and only if its  *)
(* nonce was accepted, and head is the highest accepted nonce.             *)
WindowExact ==
    /\ ~hasAny => head = 0 /\ bitmap = {} /\ \A n \in Nonce : times[n] = 0
    /\ hasAny => /\ head \in Nonce /\ 0 \in bitmap
                 /\ \A n \in Nonce :
                       /\ n > head => times[n] = 0
                       /\ n <= head /\ head - n < WindowSize =>
                             (times[n] > 0 <=> head - n \in bitmap)

Abstract == INSTANCE SeenSet
              WITH W <- WindowSize, seen <- {n \in Nonce : times[n] > 0}

(* Mark answers as the set of everything ever accepted would. *)
ImplementsSeenSet == Abstract!Spec

IInv == WindowTypeOK /\ WindowExact /\ AtMostOnce
=============================================================================
