----------------------------- MODULE MCTaskManager -----------------------------
(* A small table: three identifiers, room for one finished task.             *)
EXTENDS TaskManager, TLC

CONSTANTS t1, t2, t3, n1, r1, e1

MCTaskIds == {t1, t2, t3}
MCNodes == {n1}
MCResults == {r1}
MCErrors == {e1}
MCCallTypes == {"local"}
MCCallPhases == {"received"}

Symmetry == Permutations(MCTaskIds)
=============================================================================
