------------------------------- MODULE MCLog -------------------------------
(* Instances of Log for TLC.                                               *)
EXTENDS Log, TLC

LogSymmetry == Permutations(Threads) \cup Permutations(Blocks) \cup Permutations(Values)
=============================================================================
