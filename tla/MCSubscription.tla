--------------------------- MODULE MCSubscription ---------------------------
(* Subscription with a handful of iterations, two readers and a tiny cap.   *)
EXTENDS Subscription, TLC

CONSTANTS w1, w2, c1, c2, c3, r1, r2  \* model values

=============================================================================
