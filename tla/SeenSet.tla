------------------------------- MODULE SeenSet -------------------------------
(***************************************************************************)
(* What a replay check of window W promises: a nonce is fresh exactly when *)
(* it was never accepted and is less than W below every accepted nonce.    *)
(***************************************************************************)
EXTENDS Naturals

CONSTANTS Nonce, W

VARIABLES seen,      \* the nonces accepted since the last Reset
          outcome    \* the last call of Mark and its result

vars == <<seen, outcome>>

Fresh(n) == n \notin seen /\ \A m \in seen : m < n + W

Init == seen = {} /\ outcome = [n |-> 0, fresh |-> FALSE]

Mark(n) ==
    /\ outcome' = [n |-> n, fresh |-> Fresh(n)]
    /\ seen' = IF Fresh(n) THEN seen \cup {n} ELSE seen

Reset == seen' = {} /\ UNCHANGED outcome

Next == Reset \/ \E n \in Nonce : Mark(n)

Spec == Init /\ [][Next]_vars
=============================================================================
