--------------------------- MODULE AlmacenArchivos --------------------------
(***************************************************************************)
(* What the filesystem module promises to memoria, without a bitmap,       *)
(* blocks or threads: a file is stored whole at one instant or refused, an *)
(* accepted file keeps its bytes for ever, through any restart, and the    *)
(* accepted files fit in the disk.                                         *)
(***************************************************************************)
EXTENDS Integers, FiniteSets

CONSTANTS
    Pedidos,           \* the requests, each for a file of its own
    CantidadBloques,   \* BLOCK_COUNT
    TamBloque,         \* BLOCK_SIZE
    Tamanios           \* sizes of the files, in bytes

VARIABLES
    situacion,   \* situacion[c]: where request c stands
    tamanio,     \* tamanio[c]: the size it asks for
    leido        \* leido[c]: the bytes that reading its file gives

vars == <<situacion, tamanio, leido>>

\* One index block, and the data blocks that hold t bytes.
CantidadPara(t) == (t + TamBloque - 1) \div TamBloque + 1

Contenido(c, t) == [o \in 0 .. t - 1 |-> <<c, o>>]

\* The files of the requests of R fit in the disk together: each has blocks of
\* its own, as many as its size asks for.
Caben(R) ==
    \E suyos \in [R -> SUBSET (0 .. CantidadBloques - 1)] :
        /\ \A c \in R : Cardinality(suyos[c]) = CantidadPara(tamanio[c])
        /\ \A c, d \in R : c # d => suyos[c] \cap suyos[d] = {}

Init ==
    /\ situacion = [c \in Pedidos |-> "sin_pedido"]
    /\ tamanio = [c \in Pedidos |-> 0]
    /\ leido = [c \in Pedidos |-> <<>>]

Pide(c, t) ==
    /\ situacion[c] = "sin_pedido"
    /\ situacion' = [situacion EXCEPT ![c] = "pendiente"]
    /\ tamanio' = [tamanio EXCEPT ![c] = t]
    /\ UNCHANGED leido

Guarda(c) ==
    /\ situacion[c] = "pendiente"
    /\ Caben({c} \cup {d \in Pedidos : situacion[d] = "guardado"})
    /\ situacion' = [situacion EXCEPT ![c] = "guardado"]
    /\ leido' = [leido EXCEPT ![c] = Contenido(c, tamanio[c])]
    /\ UNCHANGED tamanio

Rechaza(c) ==
    /\ situacion[c] = "pendiente"
    /\ situacion' = [situacion EXCEPT ![c] = "rechazado"]
    /\ UNCHANGED <<tamanio, leido>>

\* The filesystem goes down: the requests it was serving get no answer.
Cae ==
    /\ situacion' = [c \in Pedidos |->
            IF situacion[c] = "pendiente" THEN "cortado" ELSE situacion[c]]
    /\ UNCHANGED <<tamanio, leido>>

Next ==
    \/ \E c \in Pedidos :
         (\E t \in Tamanios : Pide(c, t)) \/ Guarda(c) \/ Rechaza(c)
    \/ Cae

Spec == Init /\ [][Next]_vars
=============================================================================
