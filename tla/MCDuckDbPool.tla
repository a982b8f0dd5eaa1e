--------------------------- MODULE MCDuckDbPool ---------------------------
(* Instances of DuckDbPool for TLC: three requests compete for a pool of   *)
(* two permits that starts with one connection.                            *)
EXTENDS DuckDbPool, TLC

CONSTANTS r1, r2, r3, c1, c2, c3

MCReq == {r1, r2, r3}
MCConn == {c1, c2, c3}
MCPrewarmed == <<c1>>
===========================================================================
