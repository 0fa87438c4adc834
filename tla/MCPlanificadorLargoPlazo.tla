---------------------- MODULE MCPlanificadorLargoPlazo ----------------------
\* Two partitions of different sizes, and processes of both sizes: a small
\* process may take the large partition and a large one then has to wait.
EXTENDS PlanificadorLargoPlazo, TLC

MCParticiones == {1, 2}
MCTamanioDe == (1 :> 1) @@ (2 :> 2)
MCTamanios == {1, 2}
=============================================================================
