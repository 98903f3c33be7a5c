--------------------------- MODULE MCWatcherCycle ---------------------------
(* A small instance of WatcherCycle for TLC.  A location is named after its *)
(* first trigger.                                                           *)
EXTENDS WatcherCycle, TLC
CONSTANTS r1, r2, w1, w2, t1, t2, t3

PairAndOne == [t \in Triggers |-> IF t = t3 THEN t1 ELSE t]
=============================================================================
