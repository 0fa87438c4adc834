CONSTANTS
    Largos = {1, 2}
    Escenarios <- MCEscenarios
    EnVuelo = 2
    SinLeer = 1
    Nada = Nada

SPECIFICATION FairSpecMensajes

INVARIANTS
    SoloLoPedido
    DumpDicho

PROPERTIES
    CumpleCorreo
    TodoPedidoTermina

\* The CPU exits when memoria answers ERROR.
CHECK_DEADLOCK FALSE
