----------------------------- MODULE MCMensajes -----------------------------
(***************************************************************************)
(* Every connection, and every message of each; texts of one and two units *)
(* and up to two interrupts on their way.                                  *)
(***************************************************************************)
EXTENDS Mensajes

MCEscenarios ==
    {{"dispatch"}, {"interrupt"}, {"cpu"}, {"kernel", "filesystem"}}
=============================================================================
