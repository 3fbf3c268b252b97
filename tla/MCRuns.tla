------------------------------- MODULE MCRuns -------------------------------
(* Two runs, two clients that cancel the first and one that follows it.     *)
EXTENDS Runs, TLC

CONSTANTS r1, r2, k1, k2, f1  \* model values

=============================================================================
