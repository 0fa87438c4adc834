--------------------- MODULE MCPlanificadorPrioridades ----------------------
(***************************************************************************)
(* Process p with threads 0 and 1 of different priorities, and process q   *)
(* with a thread 0 of the best one: p0 and q0 share tid and queue.         *)
(***************************************************************************)
EXTENDS PlanificadorPrioridades

CONSTANTS p0, p1, q0, p, q

MCProceso == [h \in Hilos |-> IF h = q0 THEN q ELSE p]

MCTid == [h \in Hilos |-> IF h = p1 THEN 1 ELSE 0]

MCPrioridad == MCTid
=============================================================================
