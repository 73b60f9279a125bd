--------------------------- MODULE MCCommandQueue ---------------------------
(***************************************************************************)
(* Two lanes: three commands compete for one, a fourth has the other.  The *)
(* three are interchangeable, which the safety run uses (Symmetry).        *)
(***************************************************************************)
EXTENDS CommandQueue, TLC

CONSTANTS main, cron, t1, t2, t3, t4

MCLanes == {main, cron}
MCTasks == {t1, t2, t3, t4}
MCLaneOf == [t \in MCTasks |-> IF t = t4 THEN cron ELSE main]
MCCaps == {0, 2}

Symmetry == Permutations({t1, t2, t3})
=============================================================================
