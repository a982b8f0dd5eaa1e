-------------------------- MODULE MCMemoryCache --------------------------
(* Instances of MemoryCache for TLC.                                       *)
EXTENDS MemoryCache, TLC

CONSTANTS w1, w2, k1, k2, k3, k4

TwoWorkers == {w1, w2}
FourKeys == {k1, k2, k3, k4}
===========================================================================
