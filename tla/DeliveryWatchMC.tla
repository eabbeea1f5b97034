--------------------------- MODULE DeliveryWatchMC ---------------------------
(***************************************************************************)
(* Small instances of DeliveryWatch for TLC.                                *)
(***************************************************************************)
EXTENDS DeliveryWatch, TLC

CONSTANTS o1, w1, w2

\* Counts at the limits of sweepReplyDrop: the rate fell, and the rate is half of the
\* week's to a hair.
Boundary == {[recentOut |-> 8, recentIn |-> 1, histOut |-> 10, histIn |-> 3],
             [recentOut |-> 8, recentIn |-> 2, histOut |-> 10, histIn |-> 5]}
=============================================================================
