------------------------- MODULE MemoriaParticiones -------------------------
(***************************************************************************)
(* The user memory of the memory module (memoria_administracion.c), with   *)
(* both partition schemes and the three search algorithms. Each request of *)
(* the kernel (CREATE_PROCESS, END_PROCESS, MEMORY_DUMP) has a connection  *)
(* and a thread of its own; partition_mutex guards the list of partitions, *)
(* and a dump holds it twice.                                              *)
(***************************************************************************)
EXTENDS Integers, SequencesExt

CONSTANTS
    Pids,          \* the processes
    Tamanios,      \* sizes that a process asks for
    TamMemoria,    \* TAM_MEMORIA
    Particiones,   \* PARTICIONES: the sizes of the fixed ones
    Esquemas,      \* the values of ESQUEMA that are tried
    ConDump,       \* bound: the processes that are ever dumped
    SinPid         \* pid -1

\* Where the i-th of the fixed partitions ends.
Hasta[i \in 0 .. Len(Particiones)] ==
    IF i = 0 THEN 0 ELSE Hasta[i - 1] + Particiones[i]

\* A configuration with fixed partitions names one at least.
Configurada ==
    /\ TamMemoria \in Nat
    /\ Tamanios \subseteq Nat
    /\ Particiones \in Seq(Nat)
    /\ Hasta[Len(Particiones)] <= TamMemoria
    /\ Esquemas \subseteq {"FIJAS", "DINAMICAS"}
    /\ "FIJAS" \in Esquemas => Particiones # <<>>
    /\ ConDump \subseteq Pids
    /\ SinPid \notin Pids

ASSUME ParticionesAssumption == Configurada

VARIABLES
    esquema, algoritmo,   \* memoria_config
    lista,                \* lista_particiones
    situacion,            \* situacion[p]: what the kernel was told of p
    tam,                  \* tam[p]: the size it asked for
    dump                  \* dump[p]: the thread that serves its dump

config == <<esquema, algoritmo>>
varsParticiones == <<config, lista, situacion, tam, dump>>

\* `libre` and `pid` are always assigned together: libre is pid = SinPid.
NuevaParticion(inicio, tamanio, pid) ==
    [inicio |-> inicio, tamanio |-> tamanio, pid |-> pid]

Libre(particion) == particion.pid = SinPid

Fijas ==
    [i \in 1 .. Len(Particiones) |->
        NuevaParticion(Hasta[i - 1], Particiones[i], SinPid)]

InitParticiones ==
    /\ esquema \in Esquemas
    /\ algoritmo \in {"FIRST_FIT", "BEST_FIT", "WORST_FIT"}
    /\ lista = IF esquema = "FIJAS" THEN Fijas
               ELSE <<NuevaParticion(0, TamMemoria, SinPid)>>
    /\ situacion = [p \in Pids |-> "nuevo"]
    /\ tam = [p \in Pids |-> 0]
    /\ dump = [p \in Pids |-> [paso |-> "no", copiados |-> 0, enviados |-> 0]]

-----------------------------------------------------------------------------
(* choose_algorithm_partition: loops that keep an index, 0 for NULL.       *)

Alcanza(i, t) == Libre(lista[i]) /\ lista[i].tamanio >= t

\* Mutant: the last one of the best ones.
MejoraConEmpates(i, j) ==
    CASE algoritmo = "FIRST_FIT" -> FALSE
      [] algoritmo = "BEST_FIT" -> lista[j].tamanio <= lista[i].tamanio
      [] algoritmo = "WORST_FIT" -> lista[j].tamanio >= lista[i].tamanio

\* Whether partition j takes the place of i, which was found before.
Mejora(i, j) ==
    CASE algoritmo = "FIRST_FIT" -> FALSE
      [] algoritmo = "BEST_FIT" -> lista[j].tamanio < lista[i].tamanio
      [] algoritmo = "WORST_FIT" -> lista[j].tamanio > lista[i].tamanio

\* The index after looking at partition j.
Mira(i, j, t) == IF Alcanza(j, t) /\ (i = 0 \/ Mejora(i, j)) THEN j ELSE i

Elige(t) ==
    LET elegida[k \in 0 .. Len(lista)] ==
            IF k = 0 THEN 0 ELSE Mira(elegida[k - 1], k, t)
    IN  elegida[Len(lista)]

-----------------------------------------------------------------------------
(* crear_proceso                                                           *)

\* asignar_memoria_fija: the whole partition.
AsignaFija(i, p) == lista' = [lista EXCEPT ![i].pid = p]

\* Mutant: leaves what is left over at the end of the list.
AsignaDinamicaAlFinal(i, p, t) ==
    LET resto ==
            NuevaParticion(lista[i].inicio + t, lista[i].tamanio - t, SinPid)
        asignada == [lista EXCEPT ![i].pid = p, ![i].tamanio = t]
    IN  lista' = IF resto.tamanio > 0 THEN Append(asignada, resto) ELSE asignada

\* asignar_memoria_dinamica: what is left over becomes a free partition just
\* after the one assigned.
AsignaDinamica(i, p, t) ==
    LET resto ==
            NuevaParticion(lista[i].inicio + t, lista[i].tamanio - t, SinPid)
        asignada == [lista EXCEPT ![i].pid = p, ![i].tamanio = t]
    IN  lista' = IF resto.tamanio > 0 THEN InsertAt(asignada, i + 1, resto)
                 ELSE asignada

\* The kernel asks for the same process again after a refusal.
CrearProceso(p, t) ==
    /\ situacion[p] = "nuevo" \/ (situacion[p] = "rechazado" /\ tam[p] = t)
    /\ tam' = [tam EXCEPT ![p] = t]
    /\ LET i == Elige(t)
       IN  IF i = 0
           THEN /\ situacion' = [situacion EXCEPT ![p] = "rechazado"]
                /\ UNCHANGED lista
           ELSE /\ situacion' = [situacion EXCEPT ![p] = "vivo"]
                /\ IF esquema = "FIJAS" THEN AsignaFija(i, p)
                   ELSE AsignaDinamica(i, p, t)
    /\ UNCHANGED <<config, dump>>

-----------------------------------------------------------------------------
(* finalizar_proceso                                                       *)

\* Mutant: goes on with the next pair after joining two partitions, without
\* the step back.
ConsolidaSinVolver(particiones) ==
    LET hechas[k \in 0 .. Len(particiones)] ==
            IF k = 0 THEN <<>>
            ELSE LET antes == hechas[k - 1]
                     q == particiones[k]
                 IN  IF antes # <<>> /\ Libre(Last(antes)) /\ Libre(q)
                        /\ Last(antes) \in ToSet(particiones)
                     THEN [antes EXCEPT ![Len(antes)].tamanio = @ + q.tamanio]
                     ELSE Append(antes, q)
    IN  hechas[Len(particiones)]

\* The next partition joins the last one when both are free.
Junta(hechas, q) ==
    IF hechas # <<>> /\ Libre(Last(hechas)) /\ Libre(q)
    THEN [hechas EXCEPT ![Len(hechas)].tamanio = @ + q.tamanio]
    ELSE Append(hechas, q)

\* consolidar_particiones: after joining i and i + 1 the loop steps back and
\* compares the result with the next one.
Consolida(particiones) ==
    LET hechas[k \in 0 .. Len(particiones)] ==
            IF k = 0 THEN <<>> ELSE Junta(hechas[k - 1], particiones[k])
    IN  hechas[Len(particiones)]

\* liberar_memoria_por_pid
FinalizarProceso(p) ==
    /\ situacion[p] = "vivo"
    /\ situacion' = [situacion EXCEPT ![p] = "terminado"]
    /\ \E i \in 1 .. Len(lista) :
         /\ lista[i].pid = p
         /\ LET liberada == [lista EXCEPT ![i].pid = SinPid]
            IN  lista' = IF esquema = "DINAMICAS" THEN Consolida(liberada)
                         ELSE liberada
    /\ UNCHANGED <<config, tam, dump>>

-----------------------------------------------------------------------------
(* memory_dump, one for each process. The kernel asks while p lives; the   *)
(* end of p, by another of its threads, may come before either step.       *)

PideDump(p) ==
    /\ p \in ConDump
    /\ situacion[p] = "vivo" /\ dump[p].paso = "no"
    /\ dump' = [dump EXCEPT ![p].paso = "pedido"]
    /\ UNCHANGED <<config, lista, situacion, tam>>

\* Mutant: copies the bytes that the process asked for.
DumpCopiaPedidos(p) ==
    /\ dump[p].paso = "pedido"
    /\ dump' = [dump EXCEPT ![p].paso = "copiado", ![p].copiados = tam[p]]
    /\ UNCHANGED <<config, lista, situacion, tam>>

\* get_memory_pid_content; without a partition the answer is ERROR.
DumpCopia(p) ==
    /\ dump[p].paso = "pedido"
    /\ \/ \E i \in 1 .. Len(lista) :
            /\ lista[i].pid = p
            /\ dump' = [dump EXCEPT ![p].paso = "copiado",
                                    ![p].copiados = lista[i].tamanio]
       \/ /\ \A i \in 1 .. Len(lista) : lista[i].pid # p
          /\ dump' = [dump EXCEPT ![p].paso = "error"]
    /\ UNCHANGED <<config, lista, situacion, tam>>

\* tamanio_particion_por_pid, 0 without a partition: the bytes of the copy
\* that go to the filesystem.
DumpEnvia(p) ==
    /\ dump[p].paso = "copiado"
    /\ \/ \E i \in 1 .. Len(lista) :
            /\ lista[i].pid = p
            /\ dump' = [dump EXCEPT ![p].paso = "enviado",
                                    ![p].enviados = lista[i].tamanio]
       \/ /\ \A i \in 1 .. Len(lista) : lista[i].pid # p
          /\ dump' = [dump EXCEPT ![p].paso = "enviado", ![p].enviados = 0]
    /\ UNCHANGED <<config, lista, situacion, tam>>

-----------------------------------------------------------------------------
NextParticiones ==
    \E p \in Pids :
        \/ \E t \in Tamanios : CrearProceso(p, t)
        \/ FinalizarProceso(p)
        \/ PideDump(p) \/ DumpCopia(p) \/ DumpEnvia(p)

SpecParticiones == InitParticiones /\ [][NextParticiones]_varsParticiones

-----------------------------------------------------------------------------
(* Properties.                                                             *)

\* Every variable has its type: no size goes below zero, which size_t would
\* turn into a huge one.
TypeOKParticiones ==
    /\ esquema \in Esquemas
    /\ algoritmo \in {"FIRST_FIT", "BEST_FIT", "WORST_FIT"}
    /\ lista \in Seq([inicio : 0 .. TamMemoria, tamanio : 0 .. TamMemoria,
                      pid : Pids \cup {SinPid}])
    /\ situacion \in
         [Pids -> {"nuevo", "rechazado", "vivo", "terminado"}]
    /\ tam \in [Pids -> Tamanios \cup {0}]
    /\ dump \in [Pids ->
         [paso : {"no", "pedido", "copiado", "enviado", "error"},
          copiados : 0 .. TamMemoria, enviados : 0 .. TamMemoria]]

\* The partitions are, in the order of the list, a tiling of the memory: no
\* byte is in two of them, and with DINAMICAS none is lost by splitting and
\* joining.
Mosaico ==
    LET fin(q) == q.inicio + q.tamanio
    IN  /\ lista # <<>>
        /\ Head(lista).inicio = 0
        /\ \A i \in 1 .. Len(lista) - 1 : lista[i + 1].inicio = fin(lista[i])
        /\ fin(Last(lista)) <= TamMemoria
        /\ esquema = "DINAMICAS" => fin(Last(lista)) = TamMemoria

\* The three loops against what their names say: the first of the partitions
\* that fit, of the smallest ones, of the largest ones.
AjusteElegido ==
    \A t \in Tamanios :
        LET alcanzan == {i \in 1 .. Len(lista) : Alcanza(i, t)}
            preferidas ==
                CASE algoritmo = "FIRST_FIT" -> alcanzan
                  [] algoritmo = "BEST_FIT" ->
                       {i \in alcanzan : \A j \in alcanzan :
                            lista[i].tamanio <= lista[j].tamanio}
                  [] algoritmo = "WORST_FIT" ->
                       {i \in alcanzan : \A j \in alcanzan :
                            lista[i].tamanio >= lista[j].tamanio}
        IN  IF alcanzan = {} THEN Elige(t) = 0
            ELSE Elige(t) \in preferidas /\ \A j \in preferidas : Elige(t) <= j

\* A dump copies under one lock and takes the size under another one
\* (memoria_administracion.c 398 and 410). Whatever happens between them, no
\* more is sent than was copied.
EnviadoDentroDeLoCopiado ==
    \A p \in Pids : dump[p].enviados <= dump[p].copiados

\* The process that each byte is of, by the list l.
Duenos(l) ==
    [b \in 0 .. TamMemoria - 1 |->
        LET cubren == {i \in 1 .. Len(l) :
                b \in l[i].inicio .. l[i].inicio + l[i].tamanio - 1}
        IN  IF cubren = {} THEN SinPid ELSE l[CHOOSE i \in cubren : TRUE].pid]

Piezas ==
    IF esquema = "DINAMICAS" THEN {}
    ELSE {<<Fijas[i].inicio, Fijas[i].tamanio>> : i \in 1 .. Len(Fijas)}

\* The promise of MemoriaContigua. In particular a process is refused only
\* when no run of free bytes, or with FIJAS no free partition, is large enough:
\* the list never hides a hole by cutting it in pieces. A process in memory
\* has one partition that holds it, the same one until it ends.
Contigua ==
    INSTANCE MemoriaContigua WITH
        Procesos <- Pids, Nadie <- SinPid,
        dueno <- Duenos(lista), piezas <- Piezas

CumpleContigua == Contigua!Spec
=============================================================================
