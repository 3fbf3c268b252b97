----------------------------- MODULE Accounting -----------------------------
(***************************************************************************)
(* What a load run promises about its own numbers, with no goroutine,      *)
(* channel or lock in sight: every arrival it takes up is either sent or   *)
(* dropped, every sample it produces is either measured or counted as      *)
(* lost, and the numbers are published once, when nothing is outstanding,  *)
(* and never move afterwards.                                              *)
(***************************************************************************)
EXTENDS Integers

CONSTANT Arrivals  \* how many arrivals the plan has

VARIABLES
    taken,      \* arrivals taken up
    sent,       \* of those, dispatched
    dropped,    \* of those, refused by the in-flight limit
    produced,   \* samples produced
    measured,   \* of those, in the aggregates
    lost,       \* of those, counted as lost
    published   \* the numbers are out

vars == <<taken, sent, dropped, produced, measured, lost, published>>

Init ==
    /\ taken = 0 /\ sent = 0 /\ dropped = 0
    /\ produced = 0 /\ measured = 0 /\ lost = 0
    /\ published = FALSE

Take ==
    /\ ~published
    /\ taken < Arrivals
    /\ taken' = taken + 1
    /\ \/ sent' = sent + 1 /\ UNCHANGED dropped
       \/ dropped' = dropped + 1 /\ UNCHANGED sent
    /\ UNCHANGED <<produced, measured, lost, published>>

\* A sample is produced; whether it will be measured may be settled later.
Produce ==
    /\ ~published
    /\ produced' = produced + 1
    /\ lost' \in {lost, lost + 1}
    /\ UNCHANGED <<taken, sent, dropped, measured, published>>

Measure ==
    /\ ~published
    /\ measured + lost < produced
    /\ measured' = measured + 1
    /\ UNCHANGED <<taken, sent, dropped, produced, lost, published>>

Publish ==
    /\ ~published
    /\ sent + dropped = taken
    /\ measured + lost = produced
    /\ published' = TRUE
    /\ UNCHANGED <<taken, sent, dropped, produced, measured, lost>>

Next == Take \/ Produce \/ Measure \/ Publish

Spec == Init /\ [][Next]_vars
=============================================================================
