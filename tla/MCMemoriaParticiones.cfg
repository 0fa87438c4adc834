\* Both schemes, with the three search algorithms.
CONSTANTS
    Pids = {a, b, c, d}
    Tamanios = {1, 2, 3, 4}
    TamMemoria = 8
    Particiones <- MCParticiones
    Esquemas = {"DINAMICAS", "FIJAS"}
    ConDump = {a}
    SinPid = SinPid

SPECIFICATION SpecParticiones

INVARIANTS
    Mosaico
    AjusteElegido
    

PROPERTIES
    CumpleContigua

SYMMETRY Simetria

\* Every process may have ended.
CHECK_DEADLOCK FALSE
