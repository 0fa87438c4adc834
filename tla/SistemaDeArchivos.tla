-------------------------- MODULE SistemaDeArchivos -------------------------
(***************************************************************************)
(* The filesystem module (filesystem/src): one thread per connection of    *)
(* memoria serves one WRITE_FILE request. The threads share the bitmap and *)
(* the blocks, two files mapped in memory (MAP_SHARED), so that what they  *)
(* write there outlives the process; each writes one metadata file. The    *)
(* process may go down at any moment, and is started again over the same   *)
(* mount directory.                                                        *)
(* Every critical section of mutex_bitmap and mutex_bloques is a step.     *)
(***************************************************************************)
EXTENDS Integers, Sequences, FiniteSets

CONSTANTS
    Pedidos,           \* the requests, each for a file of its own
    CantidadBloques,   \* BLOCK_COUNT
    TamBloque,         \* BLOCK_SIZE
    Tamanios,          \* sizes of the files, in bytes
    MaxCaidas          \* bound: how many times the process is killed

ASSUME ArchivosAssumption ==
    /\ CantidadBloques \in Nat
    /\ TamBloque \in Nat \ {0}
    /\ Tamanios \subseteq Nat

VARIABLES
    bitmap,       \* bitmap.dat: the blocks that are taken
    bloques,      \* bloques.dat: bloques[b] is what block b holds
    metadata,     \* metadata[c]: the file of metadata of request c
    pc,           \* pc[c]: control point of the thread of request c
    tamanio,      \* tamanio[c]: file_request->tamanio
    indices,      \* indices[c]: the blocks that reservar_bloques got
    actual,       \* actual[c]: the index that find_first_free_block looks at
    escritos,     \* escritos[c]: data blocks that grabar_bloques has written
    respuestas,   \* respuestas[c]: what was sent on the socket
    activo,       \* the process is up
    caidas

disco == <<bitmap, bloques, metadata>>
locales == <<tamanio, indices, actual, escritos>>
proceso == <<activo, caidas>>
vars == <<disco, locales, pc, respuestas, proceso>>

Bloques == 0 .. CantidadBloques - 1

\* sizeof(uint32_t): the bytes of a pointer of the index block.
TamPuntero == 4

\* creacion_de_archivo: the data blocks and the index block.
CantidadPara(t) == (t + TamBloque - 1) \div TamBloque + 1

ValidaPunteros(t) == TamBloque \div TamPuntero >= CantidadPara(t) - 1

Libres == Bloques \ bitmap

\* What a block holds: nothing yet, the pointers of a file, or bytes
\* desde .. desde + cuantos - 1 of a file.
Vacio == [tipo |-> "vacio"]
Indice(s) == [tipo |-> "indice", punteros |-> s]
Datos(c, desde, cuantos) ==
    [tipo |-> "datos", archivo |-> c, desde |-> desde, cuantos |-> cuantos]

\* A file of metadata: absent, opened and still empty, or written.
SinMetadata == [tipo |-> "no_existe"]
MetadataVacia == [tipo |-> "vacia"]
Metadata(t, b) == [tipo |-> "escrita", tamanio |-> t, indice_bloque |-> b]

EnCurso == {"evalua", "reserva", "crea_metadata", "escribe_metadata",
            "indice", "datos", "contesta"}

Init ==
    /\ bitmap = {}
    /\ bloques = [b \in Bloques |-> Vacio]
    /\ metadata = [c \in Pedidos |-> SinMetadata]
    /\ pc = [c \in Pedidos |-> "sin_pedido"]
    /\ tamanio = [c \in Pedidos |-> 0]
    /\ indices = [c \in Pedidos |-> <<>>]
    /\ actual = [c \in Pedidos |-> 0]
    /\ escritos = [c \in Pedidos |-> 0]
    /\ respuestas = [c \in Pedidos |-> <<>>]
    /\ activo = TRUE
    /\ caidas = 0

-----------------------------------------------------------------------------
Va(c, desde, hasta) ==
    /\ activo
    /\ pc[c] = desde
    /\ pc' = [pc EXCEPT ![c] = hasta]
    /\ UNCHANGED proceso

\* A connection, its thread, and recibir_write_file_request.
Recibe(c, t) ==
    /\ Va(c, "sin_pedido", "evalua")
    /\ tamanio' = [tamanio EXCEPT ![c] = t]
    /\ UNCHANGED <<disco, indices, actual, escritos, respuestas>>

\* evaluar_espacio counts the free blocks under mutex_bitmap, and unlocks it.
Acepta(c) ==
    /\ Va(c, "evalua", "reserva")
    /\ ValidaPunteros(tamanio[c])
    /\ Cardinality(Libres) >= CantidadPara(tamanio[c])
    /\ UNCHANGED <<disco, locales, respuestas>>

\* Mutant: answers ERROR and goes on.
RechazaSinVolver(c) ==
    /\ Va(c, "evalua", "reserva")
    /\ \/ ~ValidaPunteros(tamanio[c])
       \/ Cardinality(Libres) < CantidadPara(tamanio[c])
    /\ respuestas' = [respuestas EXCEPT ![c] = Append(@, "ERROR")]
    /\ UNCHANGED <<disco, locales>>

Rechaza(c) ==
    /\ Va(c, "evalua", "contesta")
    /\ \/ ~ValidaPunteros(tamanio[c])
       \/ Cardinality(Libres) < CantidadPara(tamanio[c])
    /\ respuestas' = [respuestas EXCEPT ![c] = Append(@, "ERROR")]
    /\ UNCHANGED <<disco, locales>>

\* Mutant: finds a free block and does not mark it.
TomaBloqueSinOcupar(c) ==
    /\ Va(c, "reserva", IF Len(indices[c]) + 1 = CantidadPara(tamanio[c])
                        THEN "crea_metadata" ELSE "reserva")
    /\ actual[c] \in Libres
    /\ indices' = [indices EXCEPT ![c] = Append(@, actual[c])]
    /\ actual' = [actual EXCEPT ![c] = 0]
    /\ UNCHANGED <<disco, tamanio, escritos, respuestas>>

\* reservar_bloques: find_first_free_block looks at one index in each
\* critical section, and starts again from the first for every block.
TomaBloque(c) ==
    /\ Va(c, "reserva", IF Len(indices[c]) + 1 = CantidadPara(tamanio[c])
                        THEN "crea_metadata" ELSE "reserva")
    /\ actual[c] \in Libres
    /\ bitmap' = bitmap \cup {actual[c]}
    /\ indices' = [indices EXCEPT ![c] = Append(@, actual[c])]
    /\ actual' = [actual EXCEPT ![c] = 0]
    /\ UNCHANGED <<bloques, metadata, tamanio, escritos, respuestas>>

SaltaBloque(c) ==
    /\ Va(c, "reserva", "reserva")
    /\ actual[c] \in bitmap
    /\ actual' = [actual EXCEPT ![c] = @ + 1]
    /\ UNCHANGED <<disco, tamanio, indices, escritos, respuestas>>

\* escribir_metadata: fopen leaves an empty file, fclose writes it.
CreaMetadata(c) ==
    /\ Va(c, "crea_metadata", "escribe_metadata")
    /\ metadata' = [metadata EXCEPT ![c] = MetadataVacia]
    /\ UNCHANGED <<bitmap, bloques, locales, respuestas>>

EscribeMetadata(c) ==
    /\ Va(c, "escribe_metadata", "indice")
    /\ metadata' =
         [metadata EXCEPT ![c] = Metadata(tamanio[c], Head(indices[c]))]
    /\ UNCHANGED <<bitmap, bloques, locales, respuestas>>

\* grabar_bloque_indice
GrabaIndice(c) ==
    /\ Va(c, "indice", IF CantidadPara(tamanio[c]) = 1
                       THEN "contesta" ELSE "datos")
    /\ bloques' =
         [bloques EXCEPT ![Head(indices[c])] = Indice(Tail(indices[c]))]
    /\ UNCHANGED <<bitmap, metadata, locales, respuestas>>

\* grabar_bloques: the last block may be short.
GrabaDatos(c) ==
    LET offset == escritos[c] * TamBloque
        size_to_copy == IF offset + TamBloque > tamanio[c]
                        THEN tamanio[c] - offset ELSE TamBloque
    IN  /\ Va(c, "datos", IF escritos[c] + 2 = CantidadPara(tamanio[c])
                          THEN "contesta" ELSE "datos")
        /\ bloques' = [bloques EXCEPT ![indices[c][escritos[c] + 2]] =
                           Datos(c, offset, size_to_copy)]
        /\ escritos' = [escritos EXCEPT ![c] = @ + 1]
        /\ UNCHANGED <<bitmap, metadata, tamanio, indices, actual, respuestas>>

\* manejar_cliente_memoria answers OK in every case; after an ERROR memoria
\* has already read its answer. Then the request and its indices are freed.
Contesta(c) ==
    /\ Va(c, "contesta", "fin")
    /\ respuestas' = [respuestas EXCEPT ![c] = Append(@, "OK")]
    /\ indices' = [indices EXCEPT ![c] = <<>>]
    /\ UNCHANGED <<disco, tamanio, actual, escritos>>

-----------------------------------------------------------------------------
(* The process goes down: what its threads had in their hands is lost.     *)

SeCorta ==
    /\ activo' = FALSE
    /\ pc' = [c \in Pedidos |-> IF pc[c] \in EnCurso THEN "cortado" ELSE pc[c]]
    /\ indices' = [c \in Pedidos |-> <<>>]
    /\ UNCHANGED <<disco, tamanio, actual, escritos, respuestas>>

\* reservar_bloques finds no block, frees nothing and returns NULL, and
\* creacion_de_archivo reads indices[0].
SinBloques(c) ==
    /\ activo
    /\ pc[c] = "reserva" /\ actual[c] = CantidadBloques
    /\ SeCorta
    /\ UNCHANGED caidas

\* exit(EXIT_FAILURE), a signal, the end of the machine's session.
Cae ==
    /\ activo
    /\ caidas < MaxCaidas
    /\ caidas' = caidas + 1
    /\ SeCorta

\* Mutant: clears the bitmap, as the memset that inicializar_bitmap has in a
\* comment.
ReiniciaEnCero ==
    /\ ~activo
    /\ activo' = TRUE
    /\ bitmap' = {}
    /\ UNCHANGED <<bloques, metadata, locales, pc, respuestas, caidas>>

\* inicializar_bitmap and inicializar_bloques map the files they find.
Reinicia ==
    /\ ~activo
    /\ activo' = TRUE
    /\ UNCHANGED <<disco, locales, pc, respuestas, caidas>>

-----------------------------------------------------------------------------
Hilo(c) ==
    \/ Acepta(c) \/ Rechaza(c) \/ TomaBloque(c) \/ SaltaBloque(c)
    \/ SinBloques(c) \/ CreaMetadata(c) \/ EscribeMetadata(c)
    \/ GrabaIndice(c) \/ GrabaDatos(c) \/ Contesta(c)

Next ==
    \/ \E c \in Pedidos : (\E t \in Tamanios : Recibe(c, t)) \/ Hilo(c)
    \/ Cae \/ Reinicia

Spec == Init /\ [][Next]_vars

-----------------------------------------------------------------------------
(* Properties.                                                             *)

Contenidos ==
    [tipo : {"vacio"}] \cup [tipo : {"indice"}, punteros : Seq(Bloques)]
    \cup [tipo : {"datos"}, archivo : Pedidos, desde : Int, cuantos : Int]

Metadatas ==
    [tipo : {"no_existe", "vacia"}]
    \cup [tipo : {"escrita"}, tamanio : Nat, indice_bloque : Bloques]

\* Every variable has its type.
TypeOK ==
    /\ bitmap \subseteq Bloques
    /\ bloques \in [Bloques -> Contenidos]
    /\ metadata \in [Pedidos -> Metadatas]
    /\ pc \in [Pedidos -> EnCurso \cup {"sin_pedido", "fin", "cortado"}]
    /\ tamanio \in [Pedidos -> Nat]
    /\ indices \in [Pedidos -> Seq(Bloques)]
    /\ actual \in [Pedidos -> 0 .. CantidadBloques]
    /\ escritos \in [Pedidos -> Nat]
    /\ respuestas \in [Pedidos -> Seq({"OK", "ERROR"})]
    /\ activo \in BOOLEAN
    /\ caidas \in Nat

\* The blocks that a thread holds, and those that the disk says are of its
\* file: the index block that the metadata names, and its pointers.
EnMano(c) == {indices[c][k] : k \in 1 .. Len(indices[c])}

EnDisco(c) ==
    IF metadata[c].tipo # "escrita" THEN {}
    ELSE LET b == metadata[c].indice_bloque
         IN  {b} \cup (IF bloques[b].tipo # "indice" THEN {}
                       ELSE {bloques[b].punteros[k] :
                               k \in 1 .. Len(bloques[b].punteros)})

BloquesDe(c) == EnMano(c) \cup EnDisco(c)

\* No block is of two files, finished, in progress or cut by a crash, and no
\* block in use is free for find_first_free_block: the test-and-set of one
\* index in each critical section is enough, although the search is not
\* atomic, and the bitmap that a restart maps covers all that was written.
DeUnSoloArchivo ==
    \A c \in Pedidos :
        /\ BloquesDe(c) \subseteq bitmap
        /\ \A d \in Pedidos \ {c} : BloquesDe(c) \cap BloquesDe(d) = {}

\* memoria reads one answer. A request refused leaves nothing behind: no
\* metadata, no block (connection.c 96-107).
RechazoSinRastro ==
    \A c \in Pedidos :
        respuestas[c] # <<>> /\ respuestas[c][1] = "ERROR" =>
            BloquesDe(c) = {} /\ metadata[c] = SinMetadata

Guardado(c) == respuestas[c] # <<>> /\ respuestas[c][1] = "OK"

\* Reading byte o of the file of c: metadata, index block, data block.
LeeByte(c, o) ==
    LET indice == bloques[metadata[c].indice_bloque]
        datos == bloques[indice.punteros[(o \div TamBloque) + 1]]
    IN  IF /\ indice.tipo = "indice"
           /\ o \div TamBloque < Len(indice.punteros)
           /\ datos.tipo = "datos"
           /\ o % TamBloque < datos.cuantos
        THEN <<datos.archivo, datos.desde + (o % TamBloque)>>
        ELSE <<"basura">>

Lee(c) == [o \in 0 .. metadata[c].tamanio - 1 |-> LeeByte(c, o)]

\* Where request c stands for memoria, which reads the first answer.
SituacionDe(c) ==
    CASE Guardado(c) -> "guardado"
      [] respuestas[c] # <<>> /\ ~Guardado(c) -> "rechazado"
      [] OTHER -> IF pc[c] \in EnCurso THEN "pendiente" ELSE pc[c]

Situacion == [c \in Pedidos |-> SituacionDe(c)]
Leido == [c \in Pedidos |-> IF Guardado(c) THEN Lee(c) ELSE <<>>]

\* The promise of AlmacenArchivos: a file is stored when memoria is told OK,
\* and from then on reading it back through the disk gives its bytes, also
\* after crashes and restarts.
Almacen ==
    INSTANCE AlmacenArchivos WITH situacion <- Situacion, leido <- Leido

CumpleAlmacen == Almacen!Spec

\* cantidad_libre_suficiente answers true because "significa que hay espacio
\* suficiente" (bitmap.c 69): a request that passed the check gets its blocks.
EspacioSuficiente ==
    \A c \in Pedidos : pc[c] = "reserva" => actual[c] < CantidadBloques

\* When the reservation fails, "deberia liberar el espacio asignado"
\* (bloques.c 65): a block that is taken is of a request in progress, or of a
\* file that the disk has.
SinBloquesPerdidos ==
    bitmap \subseteq UNION {BloquesDe(c) : c \in Pedidos}
=============================================================================
