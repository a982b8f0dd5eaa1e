-------------------------- MODULE MCSqliteEngine --------------------------
(* Instances of SqliteEngine for TLC.                                      *)
EXTENDS SqliteEngine, TLC

CONSTANTS r1, r2, r3, c1, c2, c3

TwoReq == {r1, r2}
ThreeReq == {r1, r2, r3}
TwoConn == {c1, c2}
OnePrewarmed == <<c1>>

(* Which statements may fail. *)
AnyStatement == Sql
AnyButRollback == Sql \ {"ROLLBACK"}

ThreeSymmetry == Permutations(ThreeReq)
===========================================================================
