--------------------------- MODULE MCProtocoloCPU ---------------------------
(***************************************************************************)
(* Threads a and b of one process; main creates a.                         *)
(***************************************************************************)
EXTENDS ProtocoloCPU

CONSTANTS a, b
=============================================================================
