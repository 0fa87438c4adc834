------------------------ MODULE MCSistemaDeArchivos -------------------------
(***************************************************************************)
(* Blocks of 8 bytes, so that an index block has two pointers: files of 4  *)
(* and 12 bytes take two and three blocks, with a short last one, and a    *)
(* file of 20 bytes does not fit in an index block.                        *)
(***************************************************************************)
EXTENDS SistemaDeArchivos, TLC

Simetria == Permutations(Pedidos)
=============================================================================
