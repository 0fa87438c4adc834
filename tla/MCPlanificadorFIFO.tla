------------------------- MODULE MCPlanificadorFIFO -------------------------
(***************************************************************************)
(* Process p with threads 0 and 1, process q with thread 0.                *)
(***************************************************************************)
EXTENDS PlanificadorFIFO

CONSTANTS p0, p1, q0, p, q

MCProceso == [h \in Hilos |-> IF h = q0 THEN q ELSE p]

MCTid == [h \in Hilos |-> IF h = p1 THEN 1 ELSE 0]
=============================================================================
