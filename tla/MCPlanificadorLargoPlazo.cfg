\* The long-term planner: three processes, two partitions.
CONSTANTS
    MaxProcesos = 3
    Particiones <- MCParticiones
    TamanioDe <- MCTamanioDe
    Tamanios <- MCTamanios

SPECIFICATION FairSpec

INVARIANTS
    TypeOK
    FichasCubrenNuevos
    SinAvisoPerdido
    MemoriaDeLosAdmitidos

PROPERTIES
    CumpleAdmisionJusta

\* All processes may have ended, or wait for memory that nobody frees.
CHECK_DEADLOCK FALSE
