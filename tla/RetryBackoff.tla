---------------------------- MODULE RetryBackoff ----------------------------
(***************************************************************************)
(* retry.Jitter and retry.Backoff (src/internal/b2types/b2types.go), the  *)
(* helpers a caller of retry.Do uses to grow its delay.  Durations are    *)
(* integers in a unit of Unit nanoseconds; rand.Float64() is k / Q for a  *)
(* k in 0..Q-1, and the float arithmetic is exact (its rounding is below  *)
(* one unit).                                                              *)
(***************************************************************************)
EXTENDS Integers

CONSTANTS
    Q,       \* rand.Float64() takes the values k / Q
    Second   \* time.Second in the model's unit

ASSUME Q \in Nat \ {0} /\ Second \in Nat \ {0}

\* time.Duration(f): conversion of a float truncates toward zero.
TruncDiv(a, b) == IF a >= 0 THEN a \div b ELSE -((-a) \div b)

(* f := float64(d) / 50; f += f * (r - 0.5), r = k / Q; so               *)
(* f = d * (Q + 2k) / (100 Q).                                             *)
Jitter(d, k) == TruncDiv(d * (Q + 2 * k), 100 * Q)

Backoff(d, k) ==
    IF d > 30 * Second THEN 30 * Second + Jitter(d, k)
    ELSE d * 2 + Jitter(d * 2, k)

=============================================================================
