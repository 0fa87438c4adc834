SPECIFICATION Spec
CONSTANTS
    p0 = p0
    p1 = p1
    q0 = q0
    p = p
    q = q
    Hilos = {p0, p1, q0}
    Procesos = {p, q}
    Proceso <- MCProceso
    Tid <- MCTid
    Programas <- MCProgramas
    Base <- MCBase
    Tamanio <- MCTamanio
    Modulo = 8
    Nadie = Nadie
INVARIANTS CadaVivoSuContexto EncuentraContexto DireccionExacta
PROPERTIES CumpleAislada
CHECK_DEADLOCK FALSE
