\* The liveness properties are about CMN, whose quantum takes every thread off.
SPECIFICATION FairSpec
CONSTANTS
    p0 = p0
    p1 = p1
    q0 = q0
    p = p
    q = q
    Hilos = {p0, p1, q0}
    Procesos = {p, q}
    Proceso <- MCProceso
    Tid <- MCTid
    Prioridades = {0, 1}
    Prioridad <- MCPrioridad
    Algoritmo = "CMN"
    Nadie = Nadie
INVARIANTS FichasPorCola UnaCPU FichasParaCola UnSoloLugar
PROPERTIES CPUNoOciosa TurnoRotativo
\* The kernel may have fallen, or every process ended.
CHECK_DEADLOCK FALSE
