---------------------- MODULE SistemaDeArchivosPruebas ----------------------
(***************************************************************************)
(* Proofs about SistemaDeArchivos, for any number of requests, of blocks   *)
(* and of crashes, and any sizes.                                          *)
(***************************************************************************)
EXTENDS SistemaDeArchivos, FiniteSetTheorems, TLAPS

\* The control points at which a thread holds all its blocks.
ConTodos == {"crea_metadata", "escribe_metadata", "indice", "datos"}

\* What a thread knows of its own request: how many blocks it holds, what it
\* has written in its metadata, what it has answered.
Cuenta(c) ==
    /\ pc[c] \in {"sin_pedido", "evalua", "fin", "cortado"} =>
         indices[c] = <<>>
    /\ pc[c] = "reserva" => Len(indices[c]) < CantidadPara(tamanio[c])
    /\ pc[c] \in ConTodos => Len(indices[c]) = CantidadPara(tamanio[c])
    /\ pc[c] = "datos" => escritos[c] + 2 <= CantidadPara(tamanio[c])
    /\ pc[c] \in {"sin_pedido", "evalua", "reserva"}
                \cup (ConTodos \ {"datos"}) =>
         escritos[c] = 0

Metas(c) ==
    /\ pc[c] \in {"sin_pedido", "evalua", "reserva", "crea_metadata"} =>
         metadata[c] = SinMetadata
    /\ pc[c] = "escribe_metadata" => metadata[c] = MetadataVacia
    /\ pc[c] \in {"indice", "datos"} =>
         /\ metadata[c].tipo = "escrita"
         /\ metadata[c].indice_bloque = indices[c][1]

Contestado(c) ==
    /\ pc[c] \notin {"contesta", "fin", "cortado"} => respuestas[c] = <<>>
    /\ respuestas[c] # <<>> /\ respuestas[c][1] = "ERROR" =>
         /\ pc[c] \in {"contesta", "fin", "cortado"}
         /\ indices[c] = <<>>
         /\ metadata[c] = SinMetadata

Distintos(c) ==
    \A i, j \in 1 .. Len(indices[c]) : indices[c][i] = indices[c][j] => i = j

\* A block that nobody has taken, or that a thread has just taken, has never
\* been written: nothing in it can pass for the index of a file.
LibresVacios == \A b \in Bloques \ bitmap : bloques[b].tipo = "vacio"

SinEscribir(c) ==
    pc[c] \in {"reserva", "crea_metadata", "escribe_metadata", "indice"} =>
        \A b \in EnMano(c) : bloques[b].tipo = "vacio"

HiloOK(c) ==
    Cuenta(c) /\ Metas(c) /\ Contestado(c) /\ Distintos(c) /\ SinEscribir(c)

IInv ==
    /\ TypeOK
    /\ \A c \in Pedidos : HiloOK(c)
    /\ LibresVacios
    /\ DeUnSoloArchivo

-----------------------------------------------------------------------------
\* A file takes one block at least: its index block.
LEMMA AlMenosUno ==
    ASSUME NEW t \in Nat
    PROVE  CantidadPara(t) \in Nat \ {0}
  BY ArchivosAssumption, SMT DEF CantidadPara

LEMMA InicioIInv == Init => IInv
<1> SUFFICES ASSUME Init PROVE IInv
  OBVIOUS
<1>1. TypeOK
  BY ArchivosAssumption DEF Init, TypeOK, Contenidos, Vacio, Metadatas,
     SinMetadata, EnCurso, Bloques
<1>2. ASSUME NEW c \in Pedidos PROVE HiloOK(c)
  BY DEF Init, HiloOK, Cuenta, Metas, Contestado, Distintos, SinEscribir,
     ConTodos
<1>3. LibresVacios
  BY DEF Init, LibresVacios, Vacio
<1>4. DeUnSoloArchivo
  BY DEF Init, DeUnSoloArchivo, BloquesDe, EnMano, EnDisco, SinMetadata
<1> QED
  BY <1>1, <1>2, <1>3, <1>4 DEF IInv

-----------------------------------------------------------------------------
(* Types.                                                                  *)

LEMMA ConTodosTiene ==
    ASSUME IInv, NEW c \in Pedidos, pc[c] \in ConTodos
    PROVE  /\ indices[c] \in Seq(Bloques) /\ indices[c] # <<>>
           /\ Len(indices[c]) >= 1
           /\ Head(indices[c]) = indices[c][1] /\ indices[c][1] \in Bloques
<1>1. indices[c] \in Seq(Bloques) /\ tamanio[c] \in Nat
  BY DEF IInv, TypeOK
<1>2. Len(indices[c]) >= 1
  BY <1>1, AlMenosUno DEF IInv, HiloOK, Cuenta
<1> QED
  BY <1>1, <1>2

LEMMA CorteTipo ==
    ASSUME TypeOK, SeCorta, caidas' \in Nat
    PROVE  TypeOK'
<1>1. pc' \in [Pedidos -> EnCurso \cup {"sin_pedido", "fin", "cortado"}]
  BY DEF TypeOK, SeCorta
<1>2. indices' \in [Pedidos -> Seq(Bloques)]
  BY DEF SeCorta
<1> QED
  BY <1>1, <1>2 DEF TypeOK, SeCorta, disco

LEMMA PasoTipo ==
    ASSUME IInv, [Next]_vars
    PROVE  TypeOK'
<1> USE ArchivosAssumption DEF TypeOK, vars, disco, locales, proceso, Va
<1>0. TypeOK
  BY DEF IInv
<1>1. CASE UNCHANGED vars
  BY <1>0, <1>1
<1>2. ASSUME NEW c \in Pedidos, NEW t \in Tamanios, Recibe(c, t)
      PROVE  TypeOK'
  BY <1>0, <1>2 DEF Recibe, EnCurso
<1>3. ASSUME NEW c \in Pedidos, Acepta(c) PROVE TypeOK'
  BY <1>0, <1>3 DEF Acepta, EnCurso
<1>4. ASSUME NEW c \in Pedidos, Rechaza(c) PROVE TypeOK'
  BY <1>0, <1>4 DEF Rechaza, EnCurso
<1>5. ASSUME NEW c \in Pedidos, TomaBloque(c) PROVE TypeOK'
  <2>1. actual[c] \in Bloques
    BY <1>5 DEF TomaBloque, Libres
  <2>2. indices' \in [Pedidos -> Seq(Bloques)]
    BY <1>0, <1>5, <2>1 DEF TomaBloque
  <2>3. pc' \in [Pedidos -> EnCurso \cup {"sin_pedido", "fin", "cortado"}]
    BY <1>0, <1>5 DEF TomaBloque, EnCurso
  <2>4. bitmap' \subseteq Bloques /\ actual' \in [Pedidos -> 0 .. CantidadBloques]
    BY <1>0, <1>5, <2>1 DEF TomaBloque
  <2> QED
    BY <1>0, <1>5, <2>2, <2>3, <2>4 DEF TomaBloque
<1>6. ASSUME NEW c \in Pedidos, SaltaBloque(c) PROVE TypeOK'
  BY <1>0, <1>6 DEF SaltaBloque, EnCurso, Bloques
<1>7. ASSUME NEW c \in Pedidos, SinBloques(c) PROVE TypeOK'
  BY <1>0, <1>7, CorteTipo DEF SinBloques
<1>8. ASSUME NEW c \in Pedidos, CreaMetadata(c) PROVE TypeOK'
  BY <1>0, <1>8 DEF CreaMetadata, EnCurso, Metadatas, MetadataVacia
<1>9. ASSUME NEW c \in Pedidos, EscribeMetadata(c) PROVE TypeOK'
  <2>1. Head(indices[c]) \in Bloques
    BY <1>0, <1>9, ConTodosTiene DEF EscribeMetadata, ConTodos
  <2>2. metadata' \in [Pedidos -> Metadatas]
    BY <1>0, <1>9, <2>1 DEF EscribeMetadata, Metadatas, Metadata
  <2> QED
    BY <1>0, <1>9, <2>2 DEF EscribeMetadata, EnCurso
<1>10. ASSUME NEW c \in Pedidos, GrabaIndice(c) PROVE TypeOK'
  <2>1. Tail(indices[c]) \in Seq(Bloques)
    BY <1>0, <1>10, ConTodosTiene DEF GrabaIndice, ConTodos
  <2>2. bloques' \in [Bloques -> Contenidos]
    BY <1>0, <1>10, <2>1 DEF GrabaIndice, Contenidos, Indice
  <2>3. pc' \in [Pedidos -> EnCurso \cup {"sin_pedido", "fin", "cortado"}]
    BY <1>0, <1>10 DEF GrabaIndice, EnCurso
  <2> QED
    BY <1>0, <1>10, <2>2, <2>3 DEF GrabaIndice
<1>11. ASSUME NEW c \in Pedidos, GrabaDatos(c) PROVE TypeOK'
  <2> DEFINE offset == escritos[c] * TamBloque
             cuantos == IF offset + TamBloque > tamanio[c]
                        THEN tamanio[c] - offset ELSE TamBloque
  <2>1. Datos(c, offset, cuantos) \in Contenidos
    BY <1>0 DEF Datos, Contenidos
  <2>2. bloques' = [bloques EXCEPT ![indices[c][escritos[c] + 2]] =
                        Datos(c, offset, cuantos)]
    BY <1>11 DEF GrabaDatos
  <2>3. bloques' \in [Bloques -> Contenidos]
    BY <1>0, <2>1, <2>2
  <2>4. pc' \in [Pedidos -> EnCurso \cup {"sin_pedido", "fin", "cortado"}]
    BY <1>0, <1>11 DEF GrabaDatos, EnCurso
  <2>5. escritos' \in [Pedidos -> Nat]
    BY <1>0, <1>11 DEF GrabaDatos
  <2>6. UNCHANGED <<bitmap, metadata, tamanio, indices, actual, respuestas,
                    proceso>>
    BY <1>11 DEF GrabaDatos, Va
  <2> HIDE DEF offset, cuantos
  <2> QED
    BY <1>0, <2>3, <2>4, <2>5, <2>6 DEF proceso
<1>12. ASSUME NEW c \in Pedidos, Contesta(c) PROVE TypeOK'
  BY <1>0, <1>12 DEF Contesta, EnCurso
<1>13. CASE Cae
  BY <1>0, <1>13, CorteTipo DEF Cae
<1>14. CASE Reinicia
  BY <1>0, <1>14 DEF Reinicia
<1> QED
  BY <1>1, <1>2, <1>3, <1>4, <1>5, <1>6, <1>7, <1>8, <1>9, <1>10, <1>11,
     <1>12, <1>13, <1>14 DEF Next, Hilo

-----------------------------------------------------------------------------
(* A step of one thread.                                                   *)

\* It writes in blocks that it holds and leaves the other requests alone.
SoloToca(c) ==
    /\ \A d \in Pedidos \ {c} :
         /\ pc'[d] = pc[d] /\ tamanio'[d] = tamanio[d]
         /\ indices'[d] = indices[d] /\ escritos'[d] = escritos[d]
         /\ metadata'[d] = metadata[d] /\ respuestas'[d] = respuestas[d]
    /\ \A b \in Bloques \ EnMano(c) : bloques'[b] = bloques[b]

LEMMA EnBloques ==
    ASSUME TypeOK, NEW c \in Pedidos
    PROVE  EnMano(c) \subseteq Bloques /\ EnDisco(c) \subseteq Bloques
<1>1. EnMano(c) \subseteq Bloques
  BY DEF TypeOK, EnMano
<1>2. metadata[c].tipo = "escrita" => metadata[c].indice_bloque \in Bloques
  BY DEF TypeOK, Metadatas
<1>3. ASSUME NEW b \in Bloques, bloques[b].tipo = "indice"
      PROVE  bloques[b].punteros \in Seq(Bloques)
  BY <1>3 DEF TypeOK, Contenidos
<1> QED
  BY <1>1, <1>2, <1>3 DEF EnDisco

LEMMA AjenoIntacto ==
    ASSUME IInv, NEW c \in Pedidos, SoloToca(c), NEW d \in Pedidos \ {c}
    PROVE  HiloOK(d)' /\ BloquesDe(d)' = BloquesDe(d)
<1>1. TypeOK /\ HiloOK(d)
  BY DEF IInv
<1>2. EnMano(d)' = EnMano(d)
  BY DEF SoloToca, EnMano
<1>3. \A b \in BloquesDe(d) : b \in Bloques /\ b \notin EnMano(c)
  BY <1>1, EnBloques DEF IInv, DeUnSoloArchivo, BloquesDe
<1>4. \A b \in BloquesDe(d) : bloques'[b] = bloques[b]
  BY <1>3 DEF SoloToca
<1>5. EnDisco(d)' = EnDisco(d)
  <2>1. CASE metadata[d].tipo # "escrita"
    BY <2>1 DEF SoloToca, EnDisco
  <2>2. CASE metadata[d].tipo = "escrita"
    <3>1. metadata[d].indice_bloque \in BloquesDe(d)
      BY <2>2 DEF BloquesDe, EnDisco
    <3>2. bloques'[metadata[d].indice_bloque] = bloques[metadata[d].indice_bloque]
      BY <3>1, <1>4
    <3>3. metadata'[d] = metadata[d]
      BY DEF SoloToca
    <3> QED
      BY <3>2, <3>3 DEF EnDisco
  <2> QED
    BY <2>1, <2>2
<1>6. SinEscribir(d)'
  BY <1>1, <1>2, <1>4 DEF HiloOK, SinEscribir, BloquesDe, SoloToca
<1>7. (Cuenta(d) /\ Metas(d) /\ Contestado(d) /\ Distintos(d))'
  BY <1>1 DEF HiloOK, SoloToca, Cuenta, Metas, Contestado, Distintos
<1> QED
  BY <1>2, <1>5, <1>6, <1>7 DEF HiloOK, BloquesDe

\* What a request does by itself, but for the step that brings everything down.
Trabaja(c) ==
    \/ \E t \in Tamanios : Recibe(c, t)
    \/ Acepta(c) \/ Rechaza(c) \/ TomaBloque(c) \/ SaltaBloque(c)
    \/ CreaMetadata(c) \/ EscribeMetadata(c)
    \/ GrabaIndice(c) \/ GrabaDatos(c) \/ Contesta(c)

LEMMA SoloTocaLoSuyo ==
    ASSUME IInv, NEW c \in Pedidos, Trabaja(c)
    PROVE  SoloToca(c)
<1> USE DEF TypeOK, disco, locales, proceso, Va, ConTodos
<1>1. HiloOK(c) /\ TypeOK
  BY DEF IInv
<1>2. ASSUME NEW t \in Tamanios, Recibe(c, t) PROVE SoloToca(c)
  BY <1>2, <1>1 DEF Recibe, SoloToca
<1>3. CASE Acepta(c)
  BY <1>3, <1>1 DEF Acepta, SoloToca
<1>4. CASE Rechaza(c)
  BY <1>4, <1>1 DEF Rechaza, SoloToca
<1>5. CASE TomaBloque(c)
  BY <1>5, <1>1 DEF TomaBloque, SoloToca
<1>6. CASE SaltaBloque(c)
  BY <1>6, <1>1 DEF SaltaBloque, SoloToca
<1>7. CASE CreaMetadata(c)
  BY <1>7, <1>1 DEF CreaMetadata, SoloToca
<1>8. CASE EscribeMetadata(c)
  BY <1>8, <1>1 DEF EscribeMetadata, SoloToca
<1>9. CASE GrabaIndice(c)
  <2>1. Head(indices[c]) \in EnMano(c)
    BY <1>9, ConTodosTiene DEF GrabaIndice, EnMano
  <2> QED
    BY <1>9, <1>1, <2>1 DEF GrabaIndice, SoloToca
<1>10. CASE GrabaDatos(c)
  <2>1. indices[c][escritos[c] + 2] \in EnMano(c)
    BY <1>10, <1>1, ConTodosTiene DEF GrabaDatos, EnMano, HiloOK, Cuenta
  <2> QED
    BY <1>10, <1>1, <2>1 DEF GrabaDatos, SoloToca
<1>11. CASE Contesta(c)
  BY <1>11, <1>1 DEF Contesta, SoloToca
<1> QED
  BY <1>2, <1>3, <1>4, <1>5, <1>6, <1>7,
     <1>8, <1>9, <1>10, <1>11 DEF Trabaja

LEMMA PasoDeHilo ==
    ASSUME IInv, TypeOK', NEW c \in Pedidos, SoloToca(c), HiloOK(c)',
           bitmap \subseteq bitmap',
           BloquesDe(c)' \subseteq BloquesDe(c) \cup (bitmap' \ bitmap)
    PROVE  IInv'
<1>1. \A d \in Pedidos : HiloOK(d)'
  BY AjenoIntacto
<1>2. EnMano(c) \subseteq bitmap
  BY DEF IInv, DeUnSoloArchivo, BloquesDe
<1>3. LibresVacios'
  BY <1>2 DEF IInv, LibresVacios, SoloToca, Bloques
<1>4. DeUnSoloArchivo'
  <2>1. \A d \in Pedidos : BloquesDe(d) \subseteq bitmap
    BY DEF IInv, DeUnSoloArchivo
  <2>2. \A d \in Pedidos \ {c} : BloquesDe(d)' = BloquesDe(d)
    BY AjenoIntacto
  <2>3. \A d \in Pedidos : BloquesDe(d)' \subseteq bitmap'
    BY <2>1, <2>2
  <2>4. ASSUME NEW d \in Pedidos, NEW e \in Pedidos \ {d}
        PROVE  BloquesDe(d)' \cap BloquesDe(e)' = {}
    <3>1. BloquesDe(d) \cap BloquesDe(e) = {}
      BY DEF IInv, DeUnSoloArchivo
    <3>2. CASE d # c /\ e # c
      BY <2>2, <3>1, <3>2
    <3>3. CASE d = c
      BY <2>1, <2>2, <3>1, <3>3
    <3>4. CASE e = c
      BY <2>1, <2>2, <3>1, <3>4
    <3> QED
      BY <3>2, <3>3, <3>4
  <2> QED
    BY <2>3, <2>4 DEF DeUnSoloArchivo
<1> QED
  BY <1>1, <1>3, <1>4 DEF IInv

-----------------------------------------------------------------------------
\* A crash: the disk stays, and nobody holds a block that is not of a file.
LEMMA CorteIInv ==
    ASSUME IInv, SeCorta, TypeOK'
    PROVE  IInv'
<1>1. TypeOK /\ \A c \in Pedidos : HiloOK(c)
  BY DEF IInv
<1>2. ASSUME NEW c \in Pedidos PROVE HiloOK(c)'
  <2>1. /\ pc'[c] \in {"sin_pedido", "fin", "cortado"} /\ indices'[c] = <<>>
        /\ pc[c] = "sin_pedido" \/ pc'[c] # "sin_pedido"
    BY <1>1 DEF SeCorta, TypeOK
  <2> QED
    BY <1>1, <2>1 DEF SeCorta, disco, HiloOK, Cuenta, Metas, Contestado,
       Distintos, SinEscribir, ConTodos
<1>3. \A c \in Pedidos : BloquesDe(c)' \subseteq BloquesDe(c)
  BY DEF SeCorta, disco, BloquesDe, EnMano, EnDisco
<1> QED
  BY <1>2, <1>3 DEF IInv, SeCorta, disco, LibresVacios, DeUnSoloArchivo

LEMMA PasoIInv ==
    ASSUME IInv, [Next]_vars
    PROVE  IInv'
<1> USE DEF TypeOK, vars, disco, locales, proceso, Va, ConTodos
<1>0. TypeOK'
  BY PasoTipo
<1>1. CASE UNCHANGED vars
  <2>1. \A c \in Pedidos : HiloOK(c)' /\ BloquesDe(c)' = BloquesDe(c)
    BY <1>1 DEF IInv, HiloOK, Cuenta, Metas, Contestado, Distintos,
       SinEscribir, BloquesDe, EnMano, EnDisco
  <2> QED
    BY <1>0, <1>1, <2>1 DEF IInv, LibresVacios, DeUnSoloArchivo
<1>2. ASSUME NEW c \in Pedidos, NEW t \in Tamanios, Recibe(c, t)
      PROVE  IInv'
  <2>1. HiloOK(c) /\ TypeOK
    BY DEF IInv
  <2>2. SoloToca(c)
    BY <1>2, SoloTocaLoSuyo DEF Trabaja
  <2>3. HiloOK(c)'
    BY <1>2, <2>1 DEF Recibe, HiloOK, Cuenta, Metas, Contestado, Distintos,
       SinEscribir, EnMano
  <2>4. BloquesDe(c)' \subseteq BloquesDe(c)
    BY <1>2, <2>1 DEF Recibe, BloquesDe, EnMano, EnDisco
  <2> QED
    BY <1>2, <1>0, <2>2, <2>3, <2>4, PasoDeHilo DEF Recibe
<1>3. ASSUME NEW c \in Pedidos, Acepta(c) PROVE IInv'
  <2>1. HiloOK(c) /\ TypeOK
    BY DEF IInv
  <2>2. SoloToca(c)
    BY <1>3, SoloTocaLoSuyo DEF Trabaja
  <2>3. HiloOK(c)'
    BY <1>3, <2>1, AlMenosUno DEF Acepta, HiloOK, Cuenta, Metas, Contestado,
       Distintos, SinEscribir, EnMano
  <2>4. BloquesDe(c)' \subseteq BloquesDe(c)
    BY <1>3, <2>1 DEF Acepta, BloquesDe, EnMano, EnDisco
  <2> QED
    BY <1>3, <1>0, <2>2, <2>3, <2>4, PasoDeHilo DEF Acepta
<1>4. ASSUME NEW c \in Pedidos, Rechaza(c) PROVE IInv'
  <2>1. HiloOK(c) /\ TypeOK
    BY DEF IInv
  <2>2. SoloToca(c)
    BY <1>4, SoloTocaLoSuyo DEF Trabaja
  <2>3. HiloOK(c)'
    BY <1>4, <2>1 DEF Rechaza, HiloOK, Cuenta, Metas, Contestado,
       Distintos, SinEscribir, EnMano
  <2>4. BloquesDe(c)' \subseteq BloquesDe(c)
    BY <1>4, <2>1 DEF Rechaza, BloquesDe, EnMano, EnDisco
  <2> QED
    BY <1>4, <1>0, <2>2, <2>3, <2>4, PasoDeHilo DEF Rechaza
<1>6. ASSUME NEW c \in Pedidos, SaltaBloque(c) PROVE IInv'
  <2>1. HiloOK(c) /\ TypeOK
    BY DEF IInv
  <2>2. SoloToca(c)
    BY <1>6, SoloTocaLoSuyo DEF Trabaja
  <2>3. HiloOK(c)'
    BY <1>6, <2>1 DEF SaltaBloque, HiloOK, Cuenta, Metas, Contestado,
       Distintos, SinEscribir, EnMano
  <2>4. BloquesDe(c)' \subseteq BloquesDe(c)
    BY <1>6, <2>1 DEF SaltaBloque, BloquesDe, EnMano, EnDisco
  <2> QED
    BY <1>6, <1>0, <2>2, <2>3, <2>4, PasoDeHilo DEF SaltaBloque
<1>8. ASSUME NEW c \in Pedidos, CreaMetadata(c) PROVE IInv'
  <2>1. HiloOK(c) /\ TypeOK
    BY DEF IInv
  <2>2. SoloToca(c)
    BY <1>8, SoloTocaLoSuyo DEF Trabaja
  <2>3. HiloOK(c)'
    BY <1>8, <2>1 DEF CreaMetadata, HiloOK, Cuenta, Metas, Contestado,
       Distintos, SinEscribir, EnMano
  <2>4. BloquesDe(c)' \subseteq BloquesDe(c)
    BY <1>8, <2>1
       DEF CreaMetadata, MetadataVacia, BloquesDe, EnMano, EnDisco
  <2> QED
    BY <1>8, <1>0, <2>2, <2>3, <2>4, PasoDeHilo DEF CreaMetadata
<1>9. ASSUME NEW c \in Pedidos, EscribeMetadata(c) PROVE IInv'
  <2>1. HiloOK(c) /\ TypeOK
    BY DEF IInv
  <2>2. SoloToca(c)
    BY <1>9, SoloTocaLoSuyo DEF Trabaja
  <2>3. HiloOK(c)'
    <3>1. /\ metadata'[c].tipo = "escrita"
          /\ metadata'[c].indice_bloque = indices[c][1]
      BY <1>9, <2>1, ConTodosTiene DEF EscribeMetadata, Metadata
    <3> QED
      BY <1>9, <2>1, <3>1 DEF EscribeMetadata, HiloOK, Cuenta, Metas,
         Contestado, Distintos, SinEscribir, EnMano
  <2>4. BloquesDe(c)' \subseteq BloquesDe(c)
    <3> DEFINE b == indices[c][1]
    <3>1. /\ metadata'[c].tipo = "escrita"
          /\ metadata'[c].indice_bloque = b
      BY <1>9, <2>1, ConTodosTiene DEF EscribeMetadata, Metadata
    <3>2. b \in EnMano(c)
      BY <1>9, ConTodosTiene DEF EscribeMetadata, EnMano
    <3>3. bloques'[b].tipo = "vacio"
      BY <1>9, <2>1, <3>2 DEF EscribeMetadata, HiloOK, SinEscribir
    <3>4. EnDisco(c)' = {b}
      BY <3>1, <3>3 DEF EnDisco
    <3>5. EnMano(c)' = EnMano(c)
      BY <1>9 DEF EscribeMetadata, EnMano
    <3> QED
      BY <3>2, <3>4, <3>5 DEF BloquesDe
  <2> QED
    BY <1>9, <1>0, <2>2, <2>3, <2>4, PasoDeHilo DEF EscribeMetadata
<1>10. ASSUME NEW c \in Pedidos, GrabaIndice(c) PROVE IInv'
  <2>1. HiloOK(c) /\ TypeOK
    BY DEF IInv
  <2>2. SoloToca(c)
    BY <1>10, SoloTocaLoSuyo DEF Trabaja
  <2>3. HiloOK(c)'
    BY <1>10, <2>1, ConTodosTiene DEF GrabaIndice, HiloOK, Cuenta, Metas, Contestado,
       Distintos, SinEscribir, EnMano
  <2>4. BloquesDe(c)' \subseteq BloquesDe(c)
    <3> DEFINE b == indices[c][1]
               s == Tail(indices[c])
    <3>1. /\ metadata'[c].tipo = "escrita"
          /\ metadata'[c].indice_bloque = b
      BY <1>10, <2>1 DEF GrabaIndice, HiloOK, Metas
    <3>2. b \in Bloques /\ Head(indices[c]) = b /\ indices[c] \in Seq(Bloques)
          /\ indices[c] # <<>>
      BY <1>10, ConTodosTiene DEF GrabaIndice
    <3>3. bloques'[b] = Indice(s)
      BY <1>10, <2>1, <3>2 DEF GrabaIndice
    <3>4. EnDisco(c)' = {b} \cup {s[k] : k \in 1 .. Len(s)}
      BY <3>1, <3>3 DEF EnDisco, Indice
    <3>5. \A k \in 1 .. Len(s) : s[k] = indices[c][k + 1]
                                /\ k + 1 \in 1 .. Len(indices[c])
      BY <3>2
    <3>6. EnDisco(c)' \subseteq EnMano(c)
      BY <3>2, <3>4, <3>5 DEF EnMano
    <3>7. EnMano(c)' = EnMano(c)
      BY <1>10 DEF GrabaIndice, EnMano
    <3> QED
      BY <3>6, <3>7 DEF BloquesDe
  <2> QED
    BY <1>10, <1>0, <2>2, <2>3, <2>4, PasoDeHilo DEF GrabaIndice
<1>11. ASSUME NEW c \in Pedidos, GrabaDatos(c) PROVE IInv'
  <2>1. HiloOK(c) /\ TypeOK
    BY DEF IInv
  <2>2. SoloToca(c)
    BY <1>11, SoloTocaLoSuyo DEF Trabaja
  <2>3. HiloOK(c)'
    BY <1>11, <2>1, ConTodosTiene DEF GrabaDatos, HiloOK, Cuenta, Metas, Contestado,
       Distintos, SinEscribir, EnMano
  <2>4. BloquesDe(c)' \subseteq BloquesDe(c)
    <3> DEFINE b == indices[c][1]
    <3>1. metadata[c].indice_bloque = b
      BY <1>11, <2>1 DEF GrabaDatos, HiloOK, Metas
    <3>2. escritos[c] + 2 \in 1 .. Len(indices[c]) /\ escritos[c] + 2 # 1
      BY <1>11, <2>1, ConTodosTiene DEF GrabaDatos, HiloOK, Cuenta
    <3>3. indices[c][escritos[c] + 2] # b
      BY <2>1, <3>2 DEF HiloOK, Distintos
    <3>4. bloques'[b] = bloques[b]
      BY <1>11, <2>1, <3>3, ConTodosTiene DEF GrabaDatos
    <3>5. EnDisco(c)' = EnDisco(c)
      <4>1. metadata'[c] = metadata[c]
        BY <1>11 DEF GrabaDatos
      <4> QED
        BY <4>1, <3>1, <3>4 DEF EnDisco
    <3>6. EnMano(c)' = EnMano(c)
      BY <1>11 DEF GrabaDatos, EnMano
    <3> QED
      BY <3>5, <3>6 DEF BloquesDe
  <2> QED
    BY <1>11, <1>0, <2>2, <2>3, <2>4, PasoDeHilo DEF GrabaDatos
<1>12. ASSUME NEW c \in Pedidos, Contesta(c) PROVE IInv'
  <2>1. HiloOK(c) /\ TypeOK
    BY DEF IInv
  <2>2. SoloToca(c)
    BY <1>12, SoloTocaLoSuyo DEF Trabaja
  <2>3. HiloOK(c)'
    BY <1>12, <2>1 DEF Contesta, HiloOK, Cuenta, Metas, Contestado,
       Distintos, SinEscribir, EnMano
  <2>4. BloquesDe(c)' \subseteq BloquesDe(c)
    BY <1>12, <2>1 DEF Contesta, BloquesDe, EnMano, EnDisco
  <2> QED
    BY <1>12, <1>0, <2>2, <2>3, <2>4, PasoDeHilo DEF Contesta
<1>5. ASSUME NEW c \in Pedidos, TomaBloque(c) PROVE IInv'
  <2>1. HiloOK(c) /\ TypeOK
    BY DEF IInv
  <2>2. SoloToca(c)
    BY <1>5, SoloTocaLoSuyo DEF Trabaja
  <2>3. HiloOK(c)'
    <3> DEFINE n == Len(indices[c])
    <3>1. /\ actual[c] \in Bloques \ bitmap
          /\ indices[c] \in Seq(Bloques) /\ n \in Nat
          /\ indices'[c] = Append(indices[c], actual[c])
      BY <1>5, <2>1 DEF TomaBloque, Libres
    <3>2. /\ Len(indices'[c]) = n + 1
          /\ indices'[c][n + 1] = actual[c]
          /\ \A k \in 1 .. n : indices'[c][k] = indices[c][k]
      BY <3>1
    <3>3. \A k \in 1 .. n : indices[c][k] \in EnMano(c)
      BY DEF EnMano
    <3>4. EnMano(c) \subseteq bitmap
      BY DEF IInv, DeUnSoloArchivo, BloquesDe
    <3>5. Distintos(c)'
      BY <2>1, <3>1, <3>2, <3>3, <3>4 DEF HiloOK, Distintos
    <3>6. EnMano(c)' = EnMano(c) \cup {actual[c]}
      BY <3>1, <3>2 DEF EnMano
    <3>7. SinEscribir(c)'
      <4>1. bloques[actual[c]].tipo = "vacio"
        BY <3>1 DEF IInv, LibresVacios
      <4> QED
        BY <1>5, <2>1, <3>6, <4>1 DEF TomaBloque, HiloOK, SinEscribir
    <3>8. pc'[c] = IF n + 1 = CantidadPara(tamanio[c])
                   THEN "crea_metadata" ELSE "reserva"
      BY <1>5, <2>1 DEF TomaBloque
    <3>9. Cuenta(c)'
      <4> DEFINE N == CantidadPara(tamanio[c])
      <4>1. N \in Nat
        BY <2>1, AlMenosUno
      <4>2. n < N /\ escritos[c] = 0
        BY <1>5, <2>1 DEF TomaBloque, HiloOK, Cuenta
      <4>3. tamanio'[c] = tamanio[c] /\ escritos'[c] = escritos[c]
        BY <1>5 DEF TomaBloque
      <4>4. CantidadPara(tamanio[c])' = N
        BY <4>3 DEF CantidadPara
      <4> HIDE DEF N
      <4> QED
        BY <3>1, <3>2, <3>8, <4>1, <4>2, <4>3, <4>4 DEF Cuenta, N
    <3>10. (Metas(c) /\ Contestado(c))'
      BY <1>5, <2>1, <3>8 DEF TomaBloque, HiloOK, Metas, Contestado
    <3> QED
      BY <3>5, <3>7, <3>9, <3>10 DEF HiloOK
  <2>4. BloquesDe(c)' \subseteq BloquesDe(c) \cup {actual[c]}
    <3>1. EnDisco(c)' = EnDisco(c)
      BY <1>5 DEF TomaBloque, EnDisco
    <3>2. indices[c] \in Seq(Bloques)
          /\ indices'[c] = Append(indices[c], actual[c])
      BY <1>5, <2>1 DEF TomaBloque
    <3>3. EnMano(c)' \subseteq EnMano(c) \cup {actual[c]}
      BY <3>2 DEF EnMano
    <3> QED
      BY <3>1, <3>3 DEF BloquesDe
  <2>5. actual[c] \in bitmap' \ bitmap
    BY <1>5 DEF TomaBloque, Libres
  <2> QED
    BY <1>5, <1>0, <2>2, <2>3, <2>4, <2>5, PasoDeHilo DEF TomaBloque
<1>7. ASSUME NEW c \in Pedidos, SinBloques(c) PROVE IInv'
  BY <1>7, <1>0, CorteIInv DEF SinBloques
<1>13. CASE Cae
  BY <1>13, <1>0, CorteIInv DEF Cae
<1>14. CASE Reinicia
  <2>1. \A c \in Pedidos : HiloOK(c)' /\ BloquesDe(c)' = BloquesDe(c)
    <3> TAKE c \in Pedidos
    <3>1. UNCHANGED <<disco, locales, pc, respuestas>>
      BY <1>14 DEF Reinicia
    <3>2. BloquesDe(c)' = BloquesDe(c) /\ EnMano(c)' = EnMano(c)
      BY <3>1 DEF BloquesDe, EnMano, EnDisco
    <3> QED
      BY <3>1, <3>2 DEF IInv, HiloOK, Cuenta, Metas, Contestado, Distintos,
         SinEscribir, CantidadPara
  <2> QED
    BY <1>0, <1>14, <2>1 DEF Reinicia, IInv, LibresVacios, DeUnSoloArchivo
<1> QED
  BY <1>1, <1>2, <1>3, <1>4, <1>5, <1>6, <1>7, <1>8, <1>9, <1>10, <1>11,
     <1>12, <1>13, <1>14 DEF Next, Hilo

-----------------------------------------------------------------------------
\* The inductive invariant holds for any requests, sizes, blocks and crashes
\* (connection.c, bitmap.c, bloques.c, metadata.c).
THEOREM Invariancia == Spec => []IInv
  BY InicioIInv, PasoIInv, PTL DEF Spec

\* Every variable has its type, in particular no block outside of the disk is
\* taken and no thread searches past its end.
THEOREM TipoCorrecto == Spec => []TypeOK
<1>1. IInv => TypeOK
  BY DEF IInv
<1> QED
  BY <1>1, Invariancia, PTL

\* No two files share a block and no block in use is free, for any number of
\* concurrent requests and any crashes.
THEOREM CadaBloqueUnArchivo == Spec => []DeUnSoloArchivo
<1>1. IInv => DeUnSoloArchivo
  BY DEF IInv
<1> QED
  BY <1>1, Invariancia, PTL

\* A refused request leaves no metadata and no block.
THEOREM RechazoLimpio == Spec => []RechazoSinRastro
<1>1. ASSUME IInv PROVE RechazoSinRastro
  <2>1. ASSUME NEW c \in Pedidos, respuestas[c] # <<>>,
               respuestas[c][1] = "ERROR"
        PROVE  BloquesDe(c) = {} /\ metadata[c] = SinMetadata
    <3>1. indices[c] = <<>> /\ metadata[c] = SinMetadata
      BY <1>1, <2>1 DEF IInv, HiloOK, Contestado
    <3> QED
      BY <3>1 DEF BloquesDe, EnMano, EnDisco, SinMetadata
  <2> QED
    BY <2>1 DEF RechazoSinRastro
<1> QED
  BY <1>1, Invariancia, PTL

-----------------------------------------------------------------------------
(* What is on the disk of an accepted file: the refinement.                *)

\* The k-th data block of the file of c, from 0.
Trozo(c, k) ==
    Datos(c, k * TamBloque,
          IF k * TamBloque + TamBloque > tamanio[c]
          THEN tamanio[c] - k * TamBloque ELSE TamBloque)

\* From the metadata one gets to the index block, and from its pointers to
\* all the data of the file, each in a block of its own.
Entero(c) ==
    LET b == metadata[c].indice_bloque
        s == bloques[b].punteros
    IN  /\ metadata[c].tipo = "escrita" /\ metadata[c].tamanio = tamanio[c]
        /\ bloques[b].tipo = "indice"
        /\ Len(s) + 1 = CantidadPara(tamanio[c])
        /\ \A k \in 1 .. Len(s) : s[k] # b
        /\ \A j, k \in 1 .. Len(s) : s[j] = s[k] => j = k
        /\ \A k \in 0 .. Len(s) - 1 : bloques[s[k + 1]] = Trozo(c, k)

\* The thread of an accepted request, from its index block on.
Graba(c) == pc[c] = "datos" \/ (pc[c] = "contesta" /\ respuestas[c] = <<>>)

\* How far it is: what it has written is in place.
Avance(c) ==
    /\ pc[c] = "indice" \/ Graba(c) =>
         /\ metadata[c] = Metadata(tamanio[c], indices[c][1])
         /\ Len(indices[c]) = CantidadPara(tamanio[c])
    /\ Graba(c) =>
         /\ bloques[indices[c][1]] = Indice(Tail(indices[c]))
         /\ escritos[c] + 1 <= CantidadPara(tamanio[c])
         /\ \A k \in 0 .. escritos[c] - 1 :
              bloques[indices[c][k + 2]] = Trozo(c, k)
    /\ pc[c] = "contesta" =>
         /\ ~Guardado(c)
         /\ respuestas[c] = <<>> => escritos[c] + 1 = CantidadPara(tamanio[c])

IInvAlmacen == \A c \in Pedidos : Avance(c) /\ (Guardado(c) => Entero(c))

\* Byte o of a file of t bytes is in data block o \div TamBloque, at
\* o % TamBloque, and no file has a byte past its last block.
LEMMA ByteEnSuBloque ==
    ASSUME NEW t \in Nat, NEW o \in 0 .. t - 1
    PROVE  LET k == o \div TamBloque
           IN  /\ k \in 0 .. CantidadPara(t) - 2
               /\ o % TamBloque \in Nat /\ o % TamBloque < TamBloque
               /\ k * TamBloque + (o % TamBloque) = o
<1> DEFINE k == o \div TamBloque
           r == o % TamBloque
           p == (t + TamBloque - 1) \div TamBloque
           q == (t + TamBloque - 1) % TamBloque
<1>1. TamBloque \in Nat /\ TamBloque > 0
  BY ArchivosAssumption
<1>2. /\ k \in Int /\ r \in Int /\ 0 <= r /\ r < TamBloque
      /\ o = k * TamBloque + r
  BY <1>1, SMT
<1>3. /\ p \in Int /\ q \in Int /\ 0 <= q /\ q < TamBloque
      /\ t + TamBloque - 1 = p * TamBloque + q
  BY <1>1, SMT
<1> HIDE DEF k, r, p, q
<1>4. k >= 0
  <2>1. CASE k <= -1
    <3>1. k * TamBloque <= -1 * TamBloque
      BY <1>1, <1>2, <2>1, SMT
    <3> QED
      BY <1>1, <1>2, <3>1, SMT
  <2> QED
    BY <1>2, <2>1, SMT
<1>5. k < p
  <2>1. CASE p <= k
    <3>1. p * TamBloque <= k * TamBloque
      BY <1>1, <1>2, <1>3, <2>1, SMT
    <3>2. k * TamBloque \in Int /\ p * TamBloque \in Int
      BY <1>1, <1>2, <1>3, SMT
    <3> DEFINE kt == k * TamBloque
               pt == p * TamBloque
    <3>3. /\ kt \in Int /\ pt \in Int /\ pt <= kt /\ o = kt + r
          /\ t + TamBloque - 1 = pt + q
      BY <1>2, <1>3, <3>1, <3>2
    <3> HIDE DEF kt, pt
    <3> QED
      BY <1>1, <1>2, <1>3, <3>3, SMT
  <2> QED
    BY <1>2, <1>3, <2>1, SMT
<1>6. CantidadPara(t) = p + 1
  BY DEF CantidadPara, p
<1> QED
  BY <1>1, <1>2, <1>3, <1>4, <1>5, <1>6, SMT DEF k, r

\* Nobody else writes in the blocks of a request.
LEMMA AjenoSinTocar ==
    ASSUME IInv, NEW c \in Pedidos, SoloToca(c), NEW d \in Pedidos \ {c}
    PROVE  \A b \in BloquesDe(d) : b \in Bloques /\ bloques'[b] = bloques[b]
<1>1. \A b \in BloquesDe(d) : b \in Bloques /\ b \notin EnMano(c)
  BY EnBloques DEF IInv, DeUnSoloArchivo, BloquesDe
<1> QED
  BY <1>1 DEF SoloToca

\* The blocks of a complete file, as a sequence of different blocks.
LEMMA PunterosDeEntero ==
    ASSUME TypeOK, NEW c \in Pedidos, Entero(c)
    PROVE  LET b == metadata[c].indice_bloque
               s == bloques[b].punteros
           IN  /\ b \in Bloques /\ s \in Seq(Bloques) /\ Len(s) \in Nat
               /\ EnDisco(c) = {b} \cup {s[k] : k \in 1 .. Len(s)}
<1> DEFINE b == metadata[c].indice_bloque
           s == bloques[b].punteros
<1>1. b \in Bloques
  BY DEF TypeOK, Metadatas, Entero
<1>2. s \in Seq(Bloques)
  BY <1>1 DEF TypeOK, Contenidos, Entero
<1>3. EnDisco(c) = {b} \cup {s[k] : k \in 1 .. Len(s)}
  BY DEF EnDisco, Entero
<1> QED
  BY <1>1, <1>2, <1>3

\* A complete file stays so while nobody writes in its blocks.
LEMMA EnteroSigue ==
    ASSUME TypeOK, NEW c \in Pedidos, Entero(c),
           \A b \in EnDisco(c) : bloques'[b] = bloques[b],
           metadata'[c] = metadata[c], tamanio'[c] = tamanio[c]
    PROVE  Entero(c)'
<1> DEFINE b == metadata[c].indice_bloque
           s == bloques[b].punteros
<1>1. /\ b \in Bloques /\ s \in Seq(Bloques) /\ Len(s) \in Nat
      /\ EnDisco(c) = {b} \cup {s[k] : k \in 1 .. Len(s)}
  BY PunterosDeEntero
<1>2. bloques'[b] = bloques[b]
  BY <1>1
<1>3. \A k \in 0 .. Len(s) - 1 : bloques'[s[k + 1]] = bloques[s[k + 1]]
  <2> TAKE k \in 0 .. Len(s) - 1
  <2>1. k + 1 \in 1 .. Len(s)
    BY <1>1
  <2> QED
    BY <1>1, <2>1
<1>4. CantidadPara(tamanio[c])' = CantidadPara(tamanio[c])
  BY DEF CantidadPara
<1>5. \A k : Trozo(c, k)' = Trozo(c, k)
  BY DEF Trozo, Datos
<1>6. \A k \in 0 .. Len(s) - 1 : bloques'[s[k + 1]] = Trozo(c, k)'
  BY <1>3, <1>5 DEF Entero
<1>7. /\ metadata'[c].indice_bloque = b /\ bloques'[b].punteros = s
      /\ bloques'[b].tipo = "indice"
      /\ metadata'[c].tipo = "escrita" /\ metadata'[c].tamanio = tamanio'[c]
      /\ Len(s) + 1 = CantidadPara(tamanio[c])'
      /\ \A k \in 1 .. Len(s) : s[k] # b
      /\ \A j, k \in 1 .. Len(s) : s[j] = s[k] => j = k
  BY <1>2, <1>4 DEF Entero
<1> HIDE DEF b, s
<1> QED
  BY <1>6, <1>7 DEF Entero

LEMMA AvanceAjeno ==
    ASSUME IInv, NEW c \in Pedidos, SoloToca(c), NEW d \in Pedidos \ {c},
           Avance(d)
    PROVE  Avance(d)'
<1>1. TypeOK /\ indices[d] \in Seq(Bloques) /\ escritos[d] \in Nat
      /\ tamanio[d] \in Nat
  BY DEF IInv, TypeOK
<1>2. /\ pc'[d] = pc[d] /\ tamanio'[d] = tamanio[d] /\ indices'[d] = indices[d]
      /\ escritos'[d] = escritos[d] /\ metadata'[d] = metadata[d]
      /\ respuestas'[d] = respuestas[d]
  BY DEF SoloToca
<1>3. /\ Graba(d)' = Graba(d) /\ Guardado(d)' = Guardado(d)
      /\ CantidadPara(tamanio[d])' = CantidadPara(tamanio[d])
      /\ Metadata(tamanio[d], indices[d][1])' = Metadata(tamanio[d], indices[d][1])
      /\ \A k : Trozo(d, k)' = Trozo(d, k)
  BY <1>2 DEF Graba, Guardado, CantidadPara, Metadata, Trozo, Datos
<1>4. CantidadPara(tamanio[d]) \in Nat \ {0}
  BY <1>1, AlMenosUno
<1>5. ASSUME Graba(d)
      PROVE  /\ bloques'[indices[d][1]] = bloques[indices[d][1]]
             /\ \A k \in 0 .. escritos[d] - 1 :
                  bloques'[indices[d][k + 2]] = bloques[indices[d][k + 2]]
  <2>1. Len(indices[d]) = CantidadPara(tamanio[d])
        /\ escritos[d] + 1 <= CantidadPara(tamanio[d])
    BY <1>5 DEF Avance
  <2>2. \A i \in 1 .. Len(indices[d]) : bloques'[indices[d][i]] = bloques[indices[d][i]]
    BY AjenoSinTocar DEF BloquesDe, EnMano
  <2>3. 1 \in 1 .. Len(indices[d])
        /\ \A k \in 0 .. escritos[d] - 1 : k + 2 \in 1 .. Len(indices[d])
    BY <1>1, <1>4, <2>1
  <2> QED
    BY <2>2, <2>3
<1>6. Graba(d)' =>
        /\ (bloques[indices[d][1]] = Indice(Tail(indices[d])))'
        /\ (escritos[d] + 1 <= CantidadPara(tamanio[d]))'
        /\ (\A k \in 0 .. escritos[d] - 1 :
              bloques[indices[d][k + 2]] = Trozo(d, k))'
  BY <1>2, <1>3, <1>5 DEF Avance, Indice
<1> QED
  BY <1>2, <1>3, <1>6 DEF Avance

LEMMA PasoDeHiloAlmacen ==
    ASSUME IInv, IInvAlmacen, NEW c \in Pedidos, SoloToca(c),
           Avance(c)', Guardado(c)' => Entero(c)'
    PROVE  IInvAlmacen'
<1>1. ASSUME NEW d \in Pedidos \ {c}
      PROVE  Avance(d)' /\ (Guardado(d)' => Entero(d)')
  <2>1. Avance(d)'
    BY AvanceAjeno DEF IInvAlmacen
  <2>2. Guardado(d)' = Guardado(d) /\ metadata'[d] = metadata[d]
        /\ tamanio'[d] = tamanio[d]
    BY DEF SoloToca, Guardado
  <2>3. \A b \in EnDisco(d) : bloques'[b] = bloques[b]
    BY AjenoSinTocar DEF BloquesDe
  <2>4. Guardado(d) => Entero(d)'
    BY <2>2, <2>3, EnteroSigue DEF IInvAlmacen, IInv
  <2> QED
    BY <2>1, <2>2, <2>4
<1> QED
  BY <1>1 DEF IInvAlmacen

\* Before its last step a request has no answer OK.
LEMMA AunNoGuardado ==
    ASSUME IInv, IInvAlmacen, NEW c \in Pedidos,
           pc[c] \notin {"fin", "cortado"}
    PROVE  ~Guardado(c)
  BY DEF IInv, HiloOK, Contestado, IInvAlmacen, Avance, Guardado

\* The step of a request keeps what it has of its file; the two steps that
\* write blocks have lemmas of their own.
LEMMA AvanceIndice ==
    ASSUME IInv, IInvAlmacen, NEW c \in Pedidos, GrabaIndice(c)
    PROVE  Avance(c)'
<1> DEFINE N == CantidadPara(tamanio[c])
<1>1. TypeOK /\ HiloOK(c) /\ Avance(c)
  BY DEF IInv, IInvAlmacen
<1>2. N \in Nat \ {0}
  BY <1>1, AlMenosUno DEF TypeOK
<1>3. /\ pc[c] = "indice" /\ respuestas[c] = <<>> /\ escritos[c] = 0
      /\ metadata[c] = Metadata(tamanio[c], indices[c][1])
      /\ Len(indices[c]) = N
  BY <1>1 DEF GrabaIndice, Va, Avance, HiloOK, Contestado, Cuenta, ConTodos
<1>4. Head(indices[c]) = indices[c][1] /\ indices[c][1] \in Bloques
  BY <1>3, ConTodosTiene DEF ConTodos
<1>5. bloques'[indices[c][1]] = Indice(Tail(indices[c]))
  BY <1>1, <1>4 DEF GrabaIndice, TypeOK
<1>6. /\ UNCHANGED <<metadata, tamanio, indices, escritos, respuestas>>
      /\ pc'[c] = IF N = 1 THEN "contesta" ELSE "datos"
  BY <1>1 DEF GrabaIndice, Va, TypeOK, locales
<1>7. /\ CantidadPara(tamanio[c])' = N
      /\ Metadata(tamanio[c], indices[c][1])' = Metadata(tamanio[c], indices[c][1])
      /\ Indice(Tail(indices[c]))' = Indice(Tail(indices[c]))
  BY <1>6 DEF CantidadPara, Metadata, Indice
<1>8. ~Guardado(c)'
  BY <1>3, <1>6 DEF Guardado
<1>9. \A k \in 0 .. escritos[c]' - 1 :
        (bloques[indices[c][k + 2]] = Trozo(c, k))'
  BY <1>3, <1>6
<1> HIDE DEF N
<1> QED
  BY <1>2, <1>3, <1>5, <1>6, <1>7, <1>8, <1>9 DEF Avance, Graba

LEMMA AvanceDatos ==
    ASSUME IInv, IInvAlmacen, NEW c \in Pedidos, GrabaDatos(c)
    PROVE  Avance(c)'
<1> DEFINE N == CantidadPara(tamanio[c])
           e == escritos[c]
           s == indices[c]
<1>1. TypeOK /\ HiloOK(c) /\ Avance(c)
  BY DEF IInv, IInvAlmacen
<1>2. N \in Nat \ {0} /\ e \in Nat /\ s \in Seq(Bloques)
  BY <1>1, AlMenosUno DEF TypeOK
<1>3. /\ pc[c] = "datos" /\ respuestas[c] = <<>> /\ e + 2 <= N
      /\ metadata[c] = Metadata(tamanio[c], s[1])
      /\ Len(s) = N
      /\ bloques[s[1]] = Indice(Tail(s))
      /\ \A k \in 0 .. e - 1 : bloques[s[k + 2]] = Trozo(c, k)
  BY <1>1 DEF GrabaDatos, Va, Avance, Graba, HiloOK, Contestado, Cuenta
<1>4. \A i \in 1 .. N : s[i] \in Bloques
  BY <1>2, <1>3
<1>5. \A i \in 1 .. N : i # e + 2 => s[i] # s[e + 2]
  BY <1>1, <1>2, <1>3 DEF HiloOK, Distintos
<1>6. bloques' = [bloques EXCEPT ![s[e + 2]] = Trozo(c, e)]
  BY DEF GrabaDatos, Trozo
<1>7. /\ bloques'[s[e + 2]] = Trozo(c, e)
      /\ \A i \in 1 .. N : i # e + 2 => bloques'[s[i]] = bloques[s[i]]
  BY <1>1, <1>2, <1>3, <1>4, <1>5, <1>6 DEF TypeOK
<1>8. /\ UNCHANGED <<metadata, tamanio, indices, respuestas>>
      /\ escritos'[c] = e + 1
      /\ pc'[c] = IF e + 2 = N THEN "contesta" ELSE "datos"
  BY <1>1 DEF GrabaDatos, Va, TypeOK
<1>9. /\ CantidadPara(tamanio[c])' = N
      /\ Metadata(tamanio[c], indices[c][1])' = Metadata(tamanio[c], s[1])
      /\ Indice(Tail(indices[c]))' = Indice(Tail(s))
      /\ \A k : Trozo(c, k)' = Trozo(c, k)
  BY <1>8 DEF CantidadPara, Metadata, Indice, Trozo, Datos
<1>10. bloques'[s[1]] = Indice(Tail(s))
  BY <1>2, <1>3, <1>7
<1>11. \A k \in 0 .. e : bloques'[s[k + 2]] = Trozo(c, k)
  <2> TAKE k \in 0 .. e
  <2>1. CASE k = e
    BY <1>7, <2>1
  <2>2. CASE k # e
    <3>1. k \in 0 .. e - 1 /\ k + 2 \in 1 .. N /\ k + 2 # e + 2
      BY <1>2, <1>3, <2>2
    <3> QED
      BY <1>3, <1>7, <3>1
  <2> QED
    BY <2>1, <2>2
<1>12. ~Guardado(c)'
  BY <1>3, <1>8 DEF Guardado
<1>13. \A k \in 0 .. escritos[c]' - 1 :
         (bloques[indices[c][k + 2]] = Trozo(c, k))'
  BY <1>2, <1>8, <1>9, <1>11
<1>14. (escritos[c] + 1 <= CantidadPara(tamanio[c]))'
       /\ (pc'[c] = "contesta" => (escritos[c] + 1 = CantidadPara(tamanio[c]))')
  BY <1>2, <1>3, <1>8, <1>9
<1> HIDE DEF N, e, s
<1> QED
  BY <1>3, <1>8, <1>9, <1>10, <1>12, <1>13, <1>14 DEF Avance, Graba, N, s

\* When the thread of an accepted request is about to answer, its file is
\* complete.
LEMMA AlContestarEntero ==
    ASSUME IInv, IInvAlmacen, NEW c \in Pedidos,
           pc[c] = "contesta", respuestas[c] = <<>>
    PROVE  Entero(c)
<1> DEFINE N == CantidadPara(tamanio[c])
           s == indices[c]
           p == Tail(s)
<1>1. TypeOK /\ HiloOK(c) /\ Avance(c)
  BY DEF IInv, IInvAlmacen
<1>2. N \in Nat \ {0} /\ escritos[c] \in Nat /\ s \in Seq(Bloques)
  BY <1>1, AlMenosUno DEF TypeOK
<1>3. /\ metadata[c] = Metadata(tamanio[c], s[1])
      /\ Len(s) = N
      /\ bloques[s[1]] = Indice(p)
      /\ \A k \in 0 .. escritos[c] - 1 : bloques[s[k + 2]] = Trozo(c, k)
      /\ escritos[c] + 1 = N
  BY <1>1 DEF Avance, Graba
<1>4. /\ Len(p) + 1 = N
      /\ \A k \in 1 .. Len(p) : p[k] = s[k + 1] /\ k + 1 \in 1 .. Len(s)
  BY <1>2, <1>3
<1>5. \A i, j \in 1 .. Len(s) : s[i] = s[j] => i = j
  BY <1>1 DEF HiloOK, Distintos
<1>6. /\ \A k \in 1 .. Len(p) : p[k] # s[1]
      /\ \A j, k \in 1 .. Len(p) : p[j] = p[k] => j = k
  <2>1. 1 \in 1 .. Len(s)
    BY <1>2, <1>3
  <2>2. \A k \in 1 .. Len(p) : p[k] # s[1]
    <3> TAKE k \in 1 .. Len(p)
    <3>1. k + 1 # 1
      BY <1>2, <1>4
    <3> QED
      BY <1>4, <1>5, <2>1, <3>1
  <2>3. ASSUME NEW j \in 1 .. Len(p), NEW k \in 1 .. Len(p), p[j] = p[k]
        PROVE  j = k
    <3>1. j + 1 = k + 1
      BY <1>4, <1>5, <2>3
    <3> QED
      BY <3>1
  <2> QED
    BY <2>2, <2>3
<1>7. \A k \in 0 .. Len(p) - 1 : bloques[p[k + 1]] = Trozo(c, k)
  <2> TAKE k \in 0 .. Len(p) - 1
  <2>1. k + 1 \in 1 .. Len(p) /\ k \in 0 .. escritos[c] - 1
        /\ (k + 1) + 1 = k + 2
    BY <1>2, <1>3, <1>4
  <2>2. p[k + 1] = s[k + 2]
    BY <1>4, <2>1
  <2> QED
    BY <1>3, <2>1, <2>2
<1>8. /\ metadata[c].tipo = "escrita" /\ metadata[c].tamanio = tamanio[c]
      /\ metadata[c].indice_bloque = s[1]
      /\ bloques[s[1]].tipo = "indice" /\ bloques[s[1]].punteros = p
  BY <1>3 DEF Metadata, Indice
<1> HIDE DEF s, p
<1> QED
  BY <1>4, <1>6, <1>7, <1>8 DEF Entero

LEMMA PasoAlmacen ==
    ASSUME IInv, IInvAlmacen, [Next]_vars
    PROVE  IInvAlmacen'
<1> USE DEF vars, disco, locales, proceso, Va
<1>1. ASSUME UNCHANGED <<disco, tamanio, escritos, respuestas>>,
             NEW c \in Pedidos
      PROVE  Guardado(c)' => Entero(c)'
  <2>1. Guardado(c)' = Guardado(c)
    BY <1>1 DEF Guardado
  <2>2. Entero(c) => Entero(c)'
    BY <1>1 DEF Entero, CantidadPara, Trozo, Datos
  <2> QED
    BY <2>1, <2>2 DEF IInvAlmacen
<1>2. CASE UNCHANGED vars
  <2>1. \A c \in Pedidos : Avance(c)'
    BY <1>2 DEF IInvAlmacen, Avance, Graba, Guardado, Metadata, Indice,
       CantidadPara, Trozo, Datos
  <2> QED
    BY <1>1, <1>2, <2>1 DEF IInvAlmacen
<1>3. CASE Reinicia
  <2>1. \A c \in Pedidos : Avance(c)'
    BY <1>3 DEF Reinicia, IInvAlmacen, Avance, Graba, Guardado, Metadata,
       Indice, CantidadPara, Trozo, Datos
  <2> QED
    BY <1>1, <1>3, <2>1 DEF Reinicia, IInvAlmacen
<1>4. CASE SeCorta
  <2>1. \A c \in Pedidos : pc'[c] \in {"sin_pedido", "fin", "cortado"}
    BY <1>4 DEF SeCorta, IInv, TypeOK
  <2>2. \A c \in Pedidos : Avance(c)'
    BY <2>1 DEF Avance, Graba
  <2> QED
    BY <1>1, <1>4, <2>2 DEF SeCorta, IInvAlmacen
<1>5. ASSUME NEW c \in Pedidos, Trabaja(c) PROVE IInvAlmacen'
  <2>1. SoloToca(c)
    BY <1>5, SoloTocaLoSuyo
  <2>2. TypeOK /\ HiloOK(c) /\ Avance(c)
    BY DEF IInv, IInvAlmacen
  <2>3. Avance(c)' /\ (Guardado(c)' => Entero(c)')
    <3>1. ASSUME NEW t \in Tamanios, Recibe(c, t)
          PROVE  Avance(c)' /\ ~Guardado(c)'
      BY <2>2, <3>1, AunNoGuardado DEF Recibe, TypeOK, Avance, Graba, Guardado
    <3>2. CASE Acepta(c)
      BY <2>2, <3>2, AunNoGuardado DEF Acepta, TypeOK, Avance, Graba, Guardado
    <3>3. CASE Rechaza(c)
      <4>1. pc'[c] = "contesta" /\ respuestas'[c] = <<"ERROR">>
        BY <2>2, <3>3 DEF Rechaza, TypeOK, HiloOK, Contestado
      <4> QED
        BY <4>1 DEF Avance, Graba, Guardado
    <3>4. CASE TomaBloque(c)
      BY <2>2, <3>4, AunNoGuardado DEF TomaBloque, TypeOK, Avance, Graba, Guardado
    <3>5. CASE SaltaBloque(c)
      BY <2>2, <3>5, AunNoGuardado DEF SaltaBloque, TypeOK, Avance, Graba, Guardado
    <3>6. CASE CreaMetadata(c)
      BY <2>2, <3>6, AunNoGuardado DEF CreaMetadata, TypeOK, Avance, Graba, Guardado
    <3>7. CASE EscribeMetadata(c)
      <4>1. /\ pc'[c] = "indice"
            /\ metadata'[c] = Metadata(tamanio[c], indices[c][1])
            /\ Len(indices[c]) = CantidadPara(tamanio[c])
            /\ UNCHANGED <<tamanio, indices, respuestas>>
        BY <2>2, <3>7, ConTodosTiene
           DEF EscribeMetadata, TypeOK, HiloOK, Cuenta, ConTodos
      <4> QED
        BY <3>7, <4>1, AunNoGuardado
           DEF EscribeMetadata, Avance, Graba, Guardado, Metadata, CantidadPara
    <3>8. CASE GrabaIndice(c)
      BY <3>8, AvanceIndice, AunNoGuardado DEF GrabaIndice, Guardado
    <3>9. CASE GrabaDatos(c)
      BY <3>9, AvanceDatos, AunNoGuardado DEF GrabaDatos, Guardado
    <3>10. CASE Contesta(c)
      <4>1. Avance(c)'
        BY <2>2, <3>10 DEF Contesta, TypeOK, Avance, Graba
      <4>2. CASE respuestas[c] = <<>>
        <5>1. Entero(c)
          BY <3>10, <4>2, AlContestarEntero DEF Contesta
        <5> QED
          BY <2>2, <3>10, <4>1, <5>1, EnteroSigue DEF Contesta
      <4>3. CASE respuestas[c] # <<>>
        <5>1. /\ respuestas[c] \in Seq({"OK", "ERROR"})
              /\ respuestas[c][1] # "OK"
              /\ respuestas'[c] = Append(respuestas[c], "OK")
          BY <2>2, <3>10, <4>3, AunNoGuardado DEF Contesta, TypeOK, Guardado
        <5>2. respuestas'[c][1] = respuestas[c][1]
          BY <4>3, <5>1
        <5> QED
          BY <4>1, <5>1, <5>2 DEF Guardado
      <4> QED
        BY <4>2, <4>3
    <3> QED
      BY <1>5, <3>1, <3>2, <3>3, <3>4, <3>5, <3>6, <3>7, <3>8, <3>9, <3>10
         DEF Trabaja
  <2> QED
    BY <2>1, <2>3, PasoDeHiloAlmacen
<1> QED
  BY <1>2, <1>3, <1>4, <1>5 DEF Next, Hilo, Trabaja, SinBloques, Cae

LEMMA InicioAlmacen == Init => IInvAlmacen
  BY DEF Init, IInvAlmacen, Avance, Graba, Guardado

-----------------------------------------------------------------------------
(* The promise of AlmacenArchivos.                                         *)

\* What the files of the requests that were told OK give when they are read.
LeidoBien ==
    Leido = [c \in Pedidos |->
        IF Guardado(c) THEN Almacen!Contenido(c, tamanio[c]) ELSE <<>>]

LEMMA SeLeeEntero ==
    ASSUME IInv, IInvAlmacen
    PROVE  LeidoBien
<1> SUFFICES ASSUME NEW c \in Pedidos, Guardado(c)
             PROVE  Lee(c) = Almacen!Contenido(c, tamanio[c])
  BY DEF LeidoBien, Leido
<1> DEFINE b == metadata[c].indice_bloque
           s == bloques[b].punteros
           t == tamanio[c]
<1>1. TypeOK /\ Entero(c) /\ t \in Nat /\ TamBloque \in Nat \ {0}
  BY ArchivosAssumption DEF IInv, IInvAlmacen, TypeOK
<1>2. metadata[c].tamanio = t /\ bloques[b].tipo = "indice"
      /\ Len(s) + 1 = CantidadPara(t) /\ Len(s) \in Nat
      /\ \A k \in 0 .. Len(s) - 1 : bloques[s[k + 1]] = Trozo(c, k)
  BY <1>1, PunterosDeEntero DEF Entero
<1>3. ASSUME NEW o \in 0 .. t - 1 PROVE LeeByte(c, o) = <<c, o>>
  <2> DEFINE k == o \div TamBloque
             r == o % TamBloque
             kt == k * TamBloque
             x == bloques[s[k + 1]]
  <2>1. /\ k \in 0 .. CantidadPara(t) - 2
        /\ r \in Nat /\ r < TamBloque /\ kt + r = o
    BY <1>1, ByteEnSuBloque
  <2>2. k \in 0 .. Len(s) - 1 /\ k < Len(s)
    <3> HIDE DEF k, s, t
    <3>1. CantidadPara(t) - 2 = Len(s) - 1
      BY <1>2
    <3> QED
      BY <1>2, <2>1, <3>1
  <2>3. x = Trozo(c, k)
    BY <1>2, <2>2
  <2>4. /\ x.tipo = "datos" /\ x.archivo = c /\ x.desde = kt
        /\ x.cuantos = IF kt + TamBloque > t THEN t - kt ELSE TamBloque
    BY <2>3 DEF Trozo, Datos
  <2>5. kt \in Int
    BY <1>1, <2>1
  <2>6. r < x.cuantos
    <3> HIDE DEF k, r, kt, x, t
    <3> QED
      BY <1>1, <2>1, <2>4, <2>5
  <2>7. LeeByte(c, o) = <<x.archivo, x.desde + r>>
    BY <1>2, <2>2, <2>4, <2>6 DEF LeeByte
  <2> QED
    BY <2>1, <2>4, <2>7
<1> QED
  BY <1>2, <1>3 DEF Lee, Almacen!Contenido

\* A complete file takes as many blocks as its size asks for.
LEMMA BloquesDeEntero ==
    ASSUME IInv, NEW c \in Pedidos, Entero(c)
    PROVE  /\ EnDisco(c) \in SUBSET (0 .. CantidadBloques - 1)
           /\ Cardinality(EnDisco(c)) = CantidadPara(tamanio[c])
<1> DEFINE b == metadata[c].indice_bloque
           s == bloques[b].punteros
           n == Len(s)
           f == [i \in 1 .. n + 1 |-> IF i = 1 THEN b ELSE s[i - 1]]
<1>1. /\ b \in Bloques /\ s \in Seq(Bloques) /\ n \in Nat
      /\ EnDisco(c) = {b} \cup {s[k] : k \in 1 .. n}
  BY PunterosDeEntero DEF IInv
<1>2. /\ n + 1 = CantidadPara(tamanio[c])
      /\ \A k \in 1 .. n : s[k] # b
      /\ \A j, k \in 1 .. n : s[j] = s[k] => j = k
  BY DEF Entero
<1> HIDE DEF b, s, n
<1>3. \A i \in 1 .. n + 1 : i # 1 => i - 1 \in 1 .. n
  BY <1>1
<1>4. f \in [1 .. n + 1 -> EnDisco(c)]
  BY <1>1, <1>3
<1>5. f \in Surjection(1 .. n + 1, EnDisco(c))
  <2>1. ASSUME NEW x \in EnDisco(c) PROVE \E i \in 1 .. n + 1 : f[i] = x
    <3>1. CASE x = b
      <4>1. 1 \in 1 .. n + 1 /\ f[1] = b
        BY <1>1
      <4> QED
        BY <3>1, <4>1
    <3>2. ASSUME NEW k \in 1 .. n, x = s[k] PROVE \E i \in 1 .. n + 1 : f[i] = x
      <4>1. k + 1 \in 1 .. n + 1 /\ k + 1 # 1 /\ (k + 1) - 1 = k
        BY <1>1
      <4>2. f[k + 1] = s[k]
        BY <4>1
      <4> QED
        BY <3>2, <4>1, <4>2
    <3> QED
      BY <1>1, <3>1, <3>2
  <2> QED
    BY <1>4, <2>1 DEF Surjection
<1>6. f \in Injection(1 .. n + 1, EnDisco(c))
  <2>1. ASSUME NEW i \in 1 .. n + 1, NEW j \in 1 .. n + 1, f[i] = f[j]
        PROVE  i = j
    <3>1. CASE i = 1
      BY <1>2, <1>3, <2>1, <3>1
    <3>2. CASE j = 1
      BY <1>2, <1>3, <2>1, <3>2
    <3>3. CASE i # 1 /\ j # 1
      <4>1. s[i - 1] = s[j - 1] /\ i - 1 \in 1 .. n /\ j - 1 \in 1 .. n
        BY <1>3, <2>1, <3>3
      <4>2. i - 1 = j - 1
        BY <1>2, <4>1
      <4> QED
        BY <1>1, <4>2
    <3> QED
      BY <3>1, <3>2, <3>3
  <2> QED
    BY <1>4, <2>1 DEF Injection, IsInjective
<1>7. IsFiniteSet(1 .. n + 1) /\ Cardinality(1 .. n + 1) = n + 1
  BY <1>1, FS_Interval
<1>8. Cardinality(EnDisco(c)) = n + 1
  <2> HIDE DEF f
  <2> QED
    BY <1>5, <1>6, <1>7, FS_Surjection
<1>9. EnDisco(c) \subseteq Bloques
  BY EnBloques DEF IInv
<1> QED
  BY <1>2, <1>8, <1>9 DEF Bloques

\* Only an answer, the arrival of the request or a crash moves a request.
LEMMA SituacionIgual ==
    ASSUME NEW c \in Pedidos, respuestas'[c] = respuestas[c],
           pc'[c] = pc[c] \/ (pc[c] \in EnCurso /\ pc'[c] \in EnCurso)
    PROVE  SituacionDe(c)' = SituacionDe(c)
<1>1. Guardado(c)' = Guardado(c)
  BY DEF Guardado
<1> QED
  BY <1>1 DEF SituacionDe

LEMMA SituacionPendiente ==
    ASSUME NEW c \in Pedidos, respuestas[c] = <<>>, pc[c] \in EnCurso
    PROVE  SituacionDe(c) = "pendiente"
  BY DEF SituacionDe, Guardado

\* A step that changes no situation and no size is no step of the promise.
LEMMA PasoInvisible ==
    ASSUME LeidoBien, LeidoBien', UNCHANGED tamanio,
           \A c \in Pedidos : respuestas'[c] = respuestas[c],
           \A c \in Pedidos :
               pc'[c] = pc[c] \/ (pc[c] \in EnCurso /\ pc'[c] \in EnCurso)
    PROVE  UNCHANGED Almacen!vars
<1>1. \A c \in Pedidos : SituacionDe(c)' = SituacionDe(c)
  BY SituacionIgual
<1>2. Situacion' = Situacion
  BY <1>1 DEF Situacion
<1>3. \A c \in Pedidos : Guardado(c)' = Guardado(c)
  BY DEF Guardado
<1>4. Leido' = Leido
  BY <1>3 DEF LeidoBien, Almacen!Contenido
<1> QED
  BY <1>2, <1>4 DEF Almacen!vars

\* The step of one request: the others stay where they are.
LEMMA SituacionAjena ==
    ASSUME NEW c \in Pedidos, SoloToca(c)
    PROVE  /\ Situacion' = [Situacion EXCEPT ![c] = SituacionDe(c)']
           /\ \A d \in Pedidos \ {c} : /\ Guardado(d)' = Guardado(d)
                                       /\ tamanio'[d] = tamanio[d]
<1>1. \A d \in Pedidos \ {c} : SituacionDe(d)' = SituacionDe(d)
  BY SituacionIgual DEF SoloToca
<1>2. \A d \in Pedidos \ {c} : Guardado(d)' = Guardado(d)
  BY DEF SoloToca, Guardado
<1> QED
  BY <1>1, <1>2 DEF Situacion, SoloToca

LEMMA CorteRefina ==
    ASSUME TypeOK, LeidoBien, LeidoBien', SeCorta
    PROVE  Almacen!Cae
<1>1. UNCHANGED <<tamanio, respuestas>>
      /\ pc' = [c \in Pedidos |-> IF pc[c] \in EnCurso THEN "cortado" ELSE pc[c]]
  BY DEF SeCorta
<1>2. \A c \in Pedidos : Guardado(c)' = Guardado(c)
  BY <1>1 DEF Guardado
<1>3. Leido' = Leido
  BY <1>1, <1>2 DEF LeidoBien, Almacen!Contenido
<1>4. ASSUME NEW c \in Pedidos
      PROVE  SituacionDe(c)' =
                 IF SituacionDe(c) = "pendiente" THEN "cortado" ELSE SituacionDe(c)
  <2>1. pc[c] \in EnCurso \cup {"sin_pedido", "fin", "cortado"}
    BY DEF TypeOK
  <2>2. pc'[c] = (IF pc[c] \in EnCurso THEN "cortado" ELSE pc[c])
        /\ respuestas'[c] = respuestas[c]
    BY <1>1
  <2> QED
    BY <1>2, <2>1, <2>2 DEF SituacionDe, EnCurso
<1> QED
  BY <1>1, <1>3, <1>4 DEF Almacen!Cae, Situacion

LEMMA RecibeRefina ==
    ASSUME IInv, LeidoBien, LeidoBien', NEW c \in Pedidos, NEW t \in Tamanios,
           Recibe(c, t)
    PROVE  Almacen!Pide(c, t)
<1>1. TypeOK /\ HiloOK(c)
  BY DEF IInv
<1>2. SoloToca(c)
  BY SoloTocaLoSuyo DEF Trabaja
<1>3. /\ respuestas[c] = <<>> /\ respuestas'[c] = <<>>
      /\ pc[c] = "sin_pedido" /\ pc'[c] = "evalua"
      /\ tamanio' = [tamanio EXCEPT ![c] = t]
  BY <1>1 DEF Recibe, Va, TypeOK, HiloOK, Contestado
<1>4. SituacionDe(c) = "sin_pedido" /\ SituacionDe(c)' = "pendiente"
  BY <1>3 DEF SituacionDe, Guardado, EnCurso
<1>5. ~Guardado(c) /\ ~Guardado(c)'
  BY <1>3 DEF Guardado
<1>6. Leido' = Leido
  BY <1>2, <1>5, SituacionAjena DEF LeidoBien, Almacen!Contenido
<1> QED
  BY <1>2, <1>3, <1>4, <1>6, SituacionAjena DEF Almacen!Pide, Situacion

LEMMA RechazaRefina ==
    ASSUME IInv, LeidoBien, LeidoBien', NEW c \in Pedidos, Rechaza(c)
    PROVE  Almacen!Rechaza(c)
<1>1. TypeOK /\ HiloOK(c)
  BY DEF IInv
<1>2. SoloToca(c)
  BY SoloTocaLoSuyo DEF Trabaja
<1>3. /\ respuestas[c] = <<>> /\ respuestas'[c] = <<"ERROR">>
      /\ pc[c] = "evalua" /\ UNCHANGED tamanio
  BY <1>1 DEF Rechaza, Va, TypeOK, HiloOK, Contestado, locales
<1>4. ~Guardado(c) /\ ~Guardado(c)'
  BY <1>3 DEF Guardado
<1>5. SituacionDe(c) = "pendiente" /\ SituacionDe(c)' = "rechazado"
  BY <1>3, <1>4, SituacionPendiente DEF SituacionDe, EnCurso
<1>6. Leido' = Leido
  BY <1>2, <1>3, <1>4, SituacionAjena DEF LeidoBien, Almacen!Contenido
<1> QED
  BY <1>2, <1>3, <1>5, <1>6, SituacionAjena DEF Almacen!Rechaza, Situacion

\* The answer OK is the instant at which a file is stored: it fits, since it
\* has its blocks already.
LEMMA ContestaRefina ==
    ASSUME IInv, IInvAlmacen, LeidoBien, LeidoBien', NEW c \in Pedidos,
           Contesta(c), respuestas[c] = <<>>
    PROVE  Almacen!Guarda(c)
<1>1. TypeOK
  BY DEF IInv
<1>2. SoloToca(c)
  BY SoloTocaLoSuyo DEF Trabaja
<1>3. /\ respuestas'[c] = <<"OK">> /\ pc[c] = "contesta" /\ UNCHANGED tamanio
  BY <1>1 DEF Contesta, Va, TypeOK
<1>4. ~Guardado(c) /\ Guardado(c)'
  BY <1>3 DEF Guardado
<1>5. SituacionDe(c) = "pendiente" /\ SituacionDe(c)' = "guardado"
  BY <1>3, <1>4, SituacionPendiente DEF SituacionDe, EnCurso
<1> DEFINE R == {c} \cup {d \in Pedidos : Situacion[d] = "guardado"}
<1>6. \A d \in R : d \in Pedidos /\ Entero(d)
  <2>1. Entero(c)
    BY <1>3, AlContestarEntero
  <2>2. ASSUME NEW d \in Pedidos, Situacion[d] = "guardado" PROVE Guardado(d)
    <3>1. pc[d] # "guardado"
      BY <1>1 DEF TypeOK, EnCurso
    <3> QED
      BY <2>2, <3>1 DEF Situacion, SituacionDe
  <2> QED
    BY <2>1, <2>2 DEF IInvAlmacen
<1>7. Almacen!Caben(R)
  <2> DEFINE suyos == [d \in R |-> EnDisco(d)]
  <2>1. suyos \in [R -> SUBSET (0 .. CantidadBloques - 1)]
    BY <1>6, BloquesDeEntero
  <2>2. \A S : Almacen!Cardinality(S) = Cardinality(S)
    BY DEF Cardinality, Almacen!Cardinality
  <2>3. \A d \in R : Almacen!Cardinality(suyos[d]) = Almacen!CantidadPara(tamanio[d])
    BY <1>6, <2>2, BloquesDeEntero DEF Almacen!CantidadPara, CantidadPara
  <2>4. \A d, e \in R : d # e => suyos[d] \cap suyos[e] = {}
    BY <1>6 DEF IInv, DeUnSoloArchivo, BloquesDe
  <2> HIDE DEF suyos, R
  <2> QED
    BY <2>1, <2>3, <2>4 DEF Almacen!Caben
<1>8. Leido' = [Leido EXCEPT ![c] = Almacen!Contenido(c, tamanio[c])]
  BY <1>2, <1>3, <1>4, SituacionAjena DEF LeidoBien, Almacen!Contenido
<1> QED
  BY <1>2, <1>3, <1>5, <1>7, <1>8, SituacionAjena DEF Almacen!Guarda, Situacion

LEMMA PasoRefina ==
    ASSUME IInv, IInvAlmacen, LeidoBien, LeidoBien', [Next]_vars
    PROVE  [Almacen!Next]_(Almacen!vars)
<1> USE DEF Va
<1>1. CASE UNCHANGED vars
  BY <1>1, PasoInvisible DEF vars, disco, locales, proceso
<1>2. CASE Reinicia
  BY <1>2, PasoInvisible DEF Reinicia, locales
<1>3. CASE SeCorta
  BY <1>3, CorteRefina DEF Almacen!Next, IInv
<1>4. ASSUME NEW c \in Pedidos, Trabaja(c)
      PROVE  [Almacen!Next]_(Almacen!vars)
  <2>1. TypeOK
    BY DEF IInv
  <2>2. ASSUME NEW t \in Tamanios, Recibe(c, t) PROVE Almacen!Next
    BY <2>2, RecibeRefina DEF Almacen!Next
  <2>3. CASE Rechaza(c)
    BY <2>3, RechazaRefina DEF Almacen!Next
  <2>4. CASE Contesta(c) /\ respuestas[c] = <<>>
    BY <2>4, ContestaRefina DEF Almacen!Next
  <2>5. CASE Contesta(c) /\ respuestas[c] # <<>>
    <3>1. /\ respuestas[c] \in Seq({"OK", "ERROR"})
          /\ respuestas'[c] = Append(respuestas[c], "OK")
          /\ UNCHANGED tamanio
      BY <2>1, <2>5 DEF Contesta, TypeOK
    <3>2. ~Guardado(c)
      BY <2>5, AunNoGuardado DEF Contesta
    <3>3. respuestas'[c] # <<>> /\ respuestas'[c][1] = respuestas[c][1]
      BY <2>5, <3>1
    <3>4. ~Guardado(c)' /\ SituacionDe(c)' = SituacionDe(c)
      BY <2>5, <3>2, <3>3 DEF Guardado, SituacionDe
    <3>5. SoloToca(c)
      BY <1>4, SoloTocaLoSuyo
    <3>6. Situacion' = Situacion
      BY <3>4, <3>5, SituacionAjena DEF Situacion
    <3>7. Leido' = Leido
      BY <3>1, <3>2, <3>4, <3>5, SituacionAjena DEF LeidoBien, Almacen!Contenido
    <3> QED
      BY <3>1, <3>6, <3>7 DEF Almacen!vars
  <2>6. CASE Acepta(c) \/ TomaBloque(c) \/ SaltaBloque(c) \/ CreaMetadata(c)
             \/ EscribeMetadata(c) \/ GrabaIndice(c) \/ GrabaDatos(c)
    <3>1. UNCHANGED <<tamanio, respuestas>>
      BY <2>6 DEF Acepta, TomaBloque, SaltaBloque, CreaMetadata,
         EscribeMetadata, GrabaIndice, GrabaDatos, locales
    <3>2. pc[c] \in EnCurso /\ pc'[c] \in EnCurso
          /\ \A d \in Pedidos \ {c} : pc'[d] = pc[d]
      BY <2>1, <2>6 DEF Acepta, TomaBloque, SaltaBloque, CreaMetadata,
         EscribeMetadata, GrabaIndice, GrabaDatos, TypeOK, EnCurso
    <3> QED
      BY <3>1, <3>2, PasoInvisible
  <2> QED
    BY <1>4, <2>2, <2>3, <2>4, <2>5, <2>6 DEF Trabaja
<1> QED
  BY <1>1, <1>2, <1>3, <1>4 DEF Next, Hilo, Trabaja, SinBloques, Cae

\* memoria sees every file stored whole at one instant, or refused, and what
\* was stored keeps its bytes for ever and fits in the disk, for any number
\* of concurrent requests, any crashes and any restarts.
THEOREM ArchivosEnterosONada == Spec => CumpleAlmacen
<1>1. Init => Almacen!Init
  <2> SUFFICES ASSUME Init PROVE Almacen!Init
    OBVIOUS
  <2>1. \A c \in Pedidos : ~Guardado(c) /\ SituacionDe(c) = "sin_pedido"
    BY DEF Init, Guardado, SituacionDe, EnCurso
  <2> QED
    BY <2>1 DEF Init, Almacen!Init, Situacion, Leido
<1>2. Spec => []IInvAlmacen
  BY InicioAlmacen, PasoAlmacen, Invariancia, PTL DEF Spec
<1>3. IInv /\ IInvAlmacen => LeidoBien
  BY SeLeeEntero
<1>4. Spec => []LeidoBien
  BY <1>2, <1>3, Invariancia, PTL
<1>5. IInv /\ IInvAlmacen /\ LeidoBien /\ LeidoBien' /\ [Next]_vars
        => [Almacen!Next]_(Almacen!vars)
  BY PasoRefina
<1> QED
  BY <1>1, <1>2, <1>4, <1>5, Invariancia, PTL DEF Spec, CumpleAlmacen, Almacen!Spec
=============================================================================
