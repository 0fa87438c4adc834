SPECIFICATION Spec
CONSTANTS
    p0 = p0
    p1 = p1
    p2 = p2
    q0 = q0
    p = p
    q = q
    Hilos = {p0, p1, p2}
    Procesos = {p, q}
    Proceso <- MCProceso
    Tid <- MCTid
    Tids = {0, 1, 2}
    Mutexes = {"m"}
    Nadie = Nadie
    Algoritmo = "CMN"
    SalenConMutex = TRUE
    MaxSalidos = 3
INVARIANTS ExclusionMutua
CHECK_DEADLOCK FALSE
