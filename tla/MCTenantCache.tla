--------------------------- MODULE MCTenantCache ---------------------------
(* Instances of TenantCache for TLC.                                       *)
EXTENDS TenantCache, TLC

CONSTANTS w1, w2, t1, t2

TwoTasks == {w1, w2}
TwoTenants == {t1, t2}
OnlyT1 == {t1}
OnlyT2 == {t2}

(* Callers are interchangeable. *)
TaskSymmetry == Permutations(TwoTasks)
===========================================================================
