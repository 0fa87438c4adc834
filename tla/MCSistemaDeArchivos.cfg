\* Three requests for five blocks: some fit together and some do not.
CONSTANTS
    Pedidos = {a, b, c}
    CantidadBloques = 5
    TamBloque = 8
    Tamanios = {4, 12, 20}
    MaxCaidas = 1

SPECIFICATION Spec

INVARIANTS
    DeUnSoloArchivo
    RechazoSinRastro

PROPERTIES
    CumpleAlmacen

SYMMETRY Simetria

\* Every request may have been served.
CHECK_DEADLOCK FALSE
