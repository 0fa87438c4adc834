----------------------------- MODULE MCContextos ----------------------------
(***************************************************************************)
(* Process p with threads 0 and 1, and q with thread 0. Registers of three *)
(* bits; the partition of q starts where that of p ends.                   *)
(***************************************************************************)
EXTENDS Contextos

CONSTANTS p0, p1, q0, p, q

MCProceso == [h \in Hilos |-> IF h = q0 THEN q ELSE p]

MCTid == [h \in Hilos |-> IF h = p1 THEN 1 ELSE 0]

MCBase == [x \in Procesos |-> IF x = p THEN 0 ELSE 3]

MCTamanio == [x \in Procesos |-> IF x = p THEN 3 ELSE 1]

Op(op) == [op |-> op]

\* Creates a thread, adds through zero in a loop and ends the process.
Padre == <<Op("thread_create"), [op |-> "sum", v |-> 4],
           [op |-> "jnz", a |-> 1], Op("process_exit")>>

\* Uses an address that p has and q has not, blocks, and ends.
Hijo == <<[op |-> "set", v |-> 2], Op("mem"), Op("io"), Op("thread_exit")>>

MCProgramas == {Padre, Hijo}
=============================================================================
