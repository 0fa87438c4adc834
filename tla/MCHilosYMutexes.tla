-------------------------- MODULE MCHilosYMutexes ---------------------------
(***************************************************************************)
(* Process p with threads 0, 1 and 2, and thread 0 of process q.           *)
(***************************************************************************)
EXTENDS HilosYMutexes

CONSTANTS p0, p1, p2, q0, p, q

MCProceso == [h \in Hilos |-> IF h = q0 THEN q ELSE p]

MCTid == [h \in Hilos |-> IF h \in {p0, q0} THEN 0 ELSE IF h = p1 THEN 1 ELSE 2]
=============================================================================
