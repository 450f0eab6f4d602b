---------------------------- MODULE MCDateChange ----------------------------
(* Instances of DateChange: the sweeping processes are interchangeable.      *)
EXTENDS DateChange, TLC

Sweepers == Permutations(Sweeper)
=============================================================================
