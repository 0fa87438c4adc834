SPECIFICATION FairSpec
CONSTANTS
    p0 = p0
    p1 = p1
    q0 = q0
    p = p
    q = q
    Hilos = {p0, p1, q0}
    Procesos = {p, q}
    Proceso <- MCProceso
    Tid <- MCTid
    Dumpean = {p1}
    MaxFichas = 2
    Nadie = Nadie
INVARIANTS UnaCPU FichasCubrenListos SacaLoQueMiro
PROPERTIES CumpleColaJusta
\* The kernel may have fallen, or every process ended.
CHECK_DEADLOCK FALSE
