\* Three requests for five blocks, and nobody kills the process.
CONSTANTS
    Pedidos = {a, b, c}
    CantidadBloques = 5
    TamBloque = 8
    Tamanios = {4, 12}
    MaxCaidas = 0

SPECIFICATION Spec

INVARIANT EspacioSuficiente

CHECK_DEADLOCK FALSE
