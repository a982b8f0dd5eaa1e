-------------------------- MODULE MCDuckDbEngine --------------------------
(* Instances of DuckDbEngine for TLC.                                      *)
EXTENDS DuckDbEngine, TLC

CONSTANTS r1, r2, r3, c1, c2, c3

TwoReq == {r1, r2}
ThreeReq == {r1, r2, r3}
MCConn == {c1, c2, c3}
TwoConn == {c1, c2}
MCPrewarmed == <<c1>>
AnyStatement == Sql

ThreeSymmetry == Permutations(ThreeReq) \cup Permutations({c2, c3})
===========================================================================
