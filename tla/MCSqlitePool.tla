--------------------------- MODULE MCSqlitePool ---------------------------
(* Instances of SqlitePool for TLC.                                        *)
EXTENDS SqlitePool, TLC

CONSTANTS r1, r2, r3, c1, c2, c3

ThreeReq == {r1, r2, r3}
MCConn == {c1, c2, c3}
TwoPrewarmed == <<c1, c2>>
===========================================================================
