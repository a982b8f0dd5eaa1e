----------------------- MODULE MCConcurrentExecutor -----------------------
(* Instances of ConcurrentExecutor for TLC.                                *)
EXTENDS ConcurrentExecutor, TLC

CONSTANTS c1, c2

TwoCalls == {c1, c2}
===========================================================================
