----------------------------- MODULE MCV2Epoch -----------------------------
(* Instance of V2Epoch for TLC: a full genesis of five seats, which Rule M  *)
(* closes and Rule N can shrink, and an open one of one seat.              *)
EXTENDS V2Epoch

MCVals == 1 .. 6
MCDelegators == {10}
MCGeneses == {[seats |-> 1 .. 5, target |-> 5], [seats |-> {1}, target |-> 1]}
MCAmounts == {2}
MCRates == {0, 5000}
MCSeeds == {[v \in MCVals |-> v], [v \in MCVals |-> 7 - v]}
MCFlaky == {1, 2}
MCMovers == {1, 6}

=============================================================================
