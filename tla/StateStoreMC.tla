---------------------------- MODULE StateStoreMC ----------------------------
(* Instances of StateStore for TLC.                                        *)
EXTENDS StateStore, TLC

CONSTANTS w1, w2, t1, t2

StoreSymmetry == Permutations(Writers) \cup Permutations(Timers)
=============================================================================
