------------------------ MODULE MCMemoriaParticiones ------------------------
(***************************************************************************)
(* Four processes of one to four units in a memory of eight. Dynamic: holes *)
(* of all sizes open between partitions that stay. Fixed: partitions of 1, *)
(* 3 and 2 units, so that one process waits or is too large. One process   *)
(* is dumped.                                                              *)
(***************************************************************************)
EXTENDS MemoriaParticiones, TLC

MCParticiones == <<1, 3, 2>>

Simetria == Permutations(Pids \ ConDump)
=============================================================================
