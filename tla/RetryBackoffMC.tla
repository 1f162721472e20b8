--------------------------- MODULE RetryBackoffMC ---------------------------
(***************************************************************************)
(* One call Backoff(d) for each delay d of Delays and each random draw k.  *)
(***************************************************************************)
EXTENDS RetryBackoff

CONSTANT Delays

VARIABLES d, k

Init == d \in Delays /\ k \in 0..Q - 1
Next == UNCHANGED <<d, k>>
Spec == Init /\ [][Next]_<<d, k>>

\* Spec section 4.5: the next delay doubles, capped at 30 seconds.
SpecBase(delay) == IF 2 * delay < 30 * Second THEN 2 * delay ELSE 30 * Second

(* Spec section 4.5: Backoff doubles the delay, capped at 30 seconds, and *)
(* perturbs the (capped) value by about 1% either way.                     *)
BackoffWithinSpec ==
    100 * Backoff(d, k) \in 99 * SpecBase(d)..101 * SpecBase(d)

=============================================================================
