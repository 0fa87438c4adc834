----------------------- MODULE PlanificadorLargoPlazo -----------------------
(***************************************************************************)
(* The long-term planner of the kernel (kernel/src/planificacion.c) with   *)
(* the threads it shares queue_new_processes and two counting semaphores   *)
(* with:                                                                   *)
(*   - the creator: main, for the first process, and then gestionar_       *)
(*     syscalls, which runs PROCESS_CREATE_KERNEL;                         *)
(*   - the finalizers, which run finalizacion_procesos: the thread         *)
(*     recibir_interrupciones_confirmadas, one process at a time, and one  *)
(*     dump thread per failed dump, concurrent with everything else.       *)
(* Every semaphore operation, every critical section and every request to  *)
(* the memory module is a step. The memory module answers as with fixed    *)
(* partitions (esquema FIJAS); any of its three search algorithms chooses  *)
(* one of the free partitions that are large enough.                       *)
(***************************************************************************)
EXTENDS Integers, Sequences

CONSTANTS
    MaxProcesos,   \* bound: how many processes are ever created
    Particiones,   \* the partitions of the memory module
    TamanioDe,     \* TamanioDe[i]: size of partition i
    Tamanios       \* sizes a process may ask for

Procesos == 0 .. MaxProcesos - 1

\* pid -1 marks a free partition in the code; also "no process" here.
Nadie == -1

ASSUME LargoPlazoAssumption ==
    /\ MaxProcesos \in Nat
    /\ TamanioDe \in [Particiones -> Nat]
    /\ Tamanios \subseteq Nat

VARIABLES
    queue_new,       \* queue_new_processes
    pid_generator,   \* pid of the next process
    tam,             \* tam[p]: pcb->tam_memoria_pseudocodigo
    estado,          \* estado[p]: where p, or the thread finalizing it, is
    causa,           \* causa[p]: what is finalizing p now
    proceso_nuevo,   \* semaphore proceso_nuevo
    espacio,         \* semaphore espacio_para_proceso
    planificador,    \* control point of planificador_largo_plazo
    candidato,       \* its local variable `proceso`
    creador,         \* control point of the creator
    particion        \* particion[i]: pid that owns partition i of memoria

vars == <<queue_new, pid_generator, tam, estado, causa, proceso_nuevo,
          espacio, planificador, candidato, creador, particion>>

\* A process is in NEW until its thread 0 is pushed to READY; then the steps
\* of finalizacion_procesos.
Estados == {"inexistente", "new", "ready", "notifica_memoria",
            "memoria_libre", "aviso_espacio", "aviso_proceso", "exit"}

Causas == {"ninguna", "process_exit", "segmentation_fault", "dump"}

\* Reasons that the thread recibir_interrupciones_confirmadas handles.
CausasDeInterrupcion == {"process_exit", "segmentation_fault"}

Puntos == {"espera_proceso", "espera_espacio", "mira_cola", "pide_memoria",
           "saca", "a_listos", "avisa_espacio", "avisa_proceso",
           "sin_lugar", "cola_vacia"}

-----------------------------------------------------------------------------
\* The interrupt thread is inside finalizacion_procesos: nothing executes.
InterrupcionEnCurso == \E p \in Procesos : causa[p] \in CausasDeInterrupcion

\* The free partitions of memoria that hold process p.
ParticionesPara(p) ==
    {i \in Particiones : particion[i] = Nadie /\ tam[p] <= TamanioDe[i]}

Cabe(p) == ParticionesPara(p) # {}

Va(desde, hasta) == planificador = desde /\ planificador' = hasta

Init ==
    /\ queue_new = <<>>
    /\ pid_generator = 0
    /\ tam = [p \in Procesos |-> 0]
    /\ estado = [p \in Procesos |-> "inexistente"]
    /\ causa = [p \in Procesos |-> "ninguna"]
    /\ proceso_nuevo = 0
    /\ espacio = 1
    /\ planificador = "espera_proceso"
    /\ candidato = Nadie
    /\ creador = "libre"
    /\ particion = [i \in Particiones |-> Nadie]

-----------------------------------------------------------------------------
(* PROCESS_CREATE_KERNEL: main calls it for the first process, a thread    *)
(* that executes calls it for the others.                                  *)

CreaProceso(t) ==
    /\ creador = "libre"
    /\ pid_generator < MaxProcesos
    /\ \/ pid_generator = 0
       \/ \E p \in Procesos : estado[p] = "ready"
    /\ ~InterrupcionEnCurso
    /\ tam' = [tam EXCEPT ![pid_generator] = t]
    /\ estado' = [estado EXCEPT ![pid_generator] = "new"]
    /\ queue_new' = Append(queue_new, pid_generator)
    /\ pid_generator' = pid_generator + 1
    /\ creador' = "encolado"
    /\ UNCHANGED <<causa, proceso_nuevo, espacio, planificador, candidato,
                   particion>>

AvisaProcesoCreado ==
    /\ creador = "encolado"
    /\ creador' = "libre"
    /\ proceso_nuevo' = proceso_nuevo + 1
    /\ UNCHANGED <<queue_new, pid_generator, tam, estado, causa, espacio,
                   planificador, candidato, particion>>

-----------------------------------------------------------------------------
(* planificador_largo_plazo, one action per step of its loop.              *)

\* Mutant: takes a token without waiting for one.
EsperaProcesoSinEsperar ==
    /\ Va("espera_proceso", "espera_espacio")
    /\ proceso_nuevo' = proceso_nuevo - 1
    /\ UNCHANGED <<queue_new, pid_generator, tam, estado, causa, espacio,
                   candidato, creador, particion>>

EsperaProceso ==
    /\ Va("espera_proceso", "espera_espacio")
    /\ proceso_nuevo > 0
    /\ proceso_nuevo' = proceso_nuevo - 1
    /\ UNCHANGED <<queue_new, pid_generator, tam, estado, causa, espacio,
                   candidato, creador, particion>>

EsperaEspacio ==
    /\ Va("espera_espacio", "mira_cola")
    /\ espacio > 0
    /\ espacio' = espacio - 1
    /\ UNCHANGED <<queue_new, pid_generator, tam, estado, causa,
                   proceso_nuevo, candidato, creador, particion>>

\* Peeks the oldest process; it stays in the queue.
MiraCola ==
    /\ Va("mira_cola", "pide_memoria")
    /\ queue_new # <<>>
    /\ candidato' = Head(queue_new)
    /\ UNCHANGED <<queue_new, pid_generator, tam, estado, causa,
                   proceso_nuevo, espacio, creador, particion>>

MiraColaVacia ==
    /\ Va("mira_cola", "cola_vacia")
    /\ queue_new = <<>>
    /\ UNCHANGED <<queue_new, pid_generator, tam, estado, causa,
                   proceso_nuevo, espacio, candidato, creador, particion>>

\* memoria assigns a partition under its partition_mutex and answers OK.
MemoriaAcepta ==
    /\ Va("pide_memoria", "saca")
    /\ \E i \in ParticionesPara(candidato) :
         particion' = [particion EXCEPT ![i] = candidato]
    /\ UNCHANGED <<queue_new, pid_generator, tam, estado, causa,
                   proceso_nuevo, espacio, candidato, creador>>

\* Mutant: goes on as if memoria had answered OK.
MemoriaRechazaIgnorada ==
    /\ Va("pide_memoria", "saca")
    /\ ~Cabe(candidato)
    /\ UNCHANGED <<queue_new, pid_generator, tam, estado, causa,
                   proceso_nuevo, espacio, candidato, creador, particion>>

MemoriaRechaza ==
    /\ Va("pide_memoria", "sin_lugar")
    /\ ~Cabe(candidato)
    /\ candidato' = Nadie
    /\ UNCHANGED <<queue_new, pid_generator, tam, estado, causa,
                   proceso_nuevo, espacio, creador, particion>>

SacaDeNew ==
    /\ Va("saca", "a_listos")
    /\ queue_new' = Tail(queue_new)
    /\ UNCHANGED <<pid_generator, tam, estado, causa, proceso_nuevo, espacio,
                   candidato, creador, particion>>

\* push_queue_ready(proceso->hilo0)
PasaAListos ==
    /\ Va("a_listos", "avisa_espacio")
    /\ estado' = [estado EXCEPT ![candidato] = "ready"]
    /\ candidato' = Nadie
    /\ UNCHANGED <<queue_new, pid_generator, tam, causa, proceso_nuevo,
                   espacio, creador, particion>>

\* Mutant: keeps the token after an admission too.
NoAvisaEspacio ==
    /\ Va("avisa_espacio", "avisa_proceso")
    /\ UNCHANGED <<queue_new, pid_generator, tam, estado, causa,
                   proceso_nuevo, espacio, candidato, creador, particion>>

\* The planner keeps its place for the next process ...
AvisaEspacio ==
    /\ Va("avisa_espacio", "avisa_proceso")
    /\ espacio' = espacio + 1
    /\ UNCHANGED <<queue_new, pid_generator, tam, estado, causa,
                   proceso_nuevo, candidato, creador, particion>>

\* ... and asks itself to look at the queue again.
AvisaProceso ==
    /\ Va("avisa_proceso", "espera_proceso")
    /\ proceso_nuevo' = proceso_nuevo + 1
    /\ UNCHANGED <<queue_new, pid_generator, tam, estado, causa, espacio,
                   candidato, creador, particion>>

\* Mutant: does not post proceso_nuevo after a refusal.
SinLugarSinReintento ==
    /\ Va("sin_lugar", "espera_proceso")
    /\ UNCHANGED <<queue_new, pid_generator, tam, estado, causa,
                   proceso_nuevo, espacio, candidato, creador, particion>>

\* Refused: the token of espacio_para_proceso is not given back, so the
\* planner sleeps until some process ends.
SinLugar ==
    /\ Va("sin_lugar", "espera_proceso")
    /\ proceso_nuevo' = proceso_nuevo + 1
    /\ UNCHANGED <<queue_new, pid_generator, tam, estado, causa, espacio,
                   candidato, creador, particion>>

\* Mutant: loses the token of espacio_para_proceso.
ColaVaciaSinDevolver ==
    /\ Va("cola_vacia", "espera_proceso")
    /\ UNCHANGED <<queue_new, pid_generator, tam, estado, causa,
                   proceso_nuevo, espacio, candidato, creador, particion>>

\* Empty queue: the token of proceso_nuevo is not given back.
ColaVacia ==
    /\ Va("cola_vacia", "espera_proceso")
    /\ espacio' = espacio + 1
    /\ UNCHANGED <<queue_new, pid_generator, tam, estado, causa,
                   proceso_nuevo, candidato, creador, particion>>

-----------------------------------------------------------------------------
(* finalizacion_procesos. The interrupt thread runs it for one process at  *)
(* a time, while no thread executes and so no syscall is being served; a   *)
(* dump thread runs it whenever the dump of a thread of p has failed.      *)

Finaliza(p, c) ==
    /\ estado[p] = "ready"
    /\ c \in CausasDeInterrupcion => ~InterrupcionEnCurso /\ creador = "libre"
    /\ estado' = [estado EXCEPT ![p] = "notifica_memoria"]
    /\ causa' = [causa EXCEPT ![p] = c]
    /\ UNCHANGED <<queue_new, pid_generator, tam, proceso_nuevo, espacio,
                   planificador, candidato, creador, particion>>

\* memoria frees the partition of p and confirms.
NotificaMemoria(p) ==
    /\ estado[p] = "notifica_memoria"
    /\ estado' = [estado EXCEPT ![p] = "memoria_libre"]
    /\ \E i \in Particiones : /\ particion[i] = p
                              /\ particion' = [particion EXCEPT ![i] = Nadie]
    /\ UNCHANGED <<queue_new, pid_generator, tam, causa, proceso_nuevo,
                   espacio, planificador, candidato, creador>>

\* Mutant: does not announce the place.
NoAvisaEspacioLibre(p) ==
    /\ estado[p] = "memoria_libre"
    /\ estado' = [estado EXCEPT ![p] = "aviso_espacio"]
    /\ UNCHANGED <<queue_new, pid_generator, tam, causa, proceso_nuevo,
                   espacio, planificador, candidato, creador, particion>>

\* The threads and the pcb of p are destroyed and the place is announced.
AvisaEspacioLibre(p) ==
    /\ estado[p] = "memoria_libre"
    /\ estado' = [estado EXCEPT ![p] = "aviso_espacio"]
    /\ espacio' = espacio + 1
    /\ UNCHANGED <<queue_new, pid_generator, tam, causa, proceso_nuevo,
                   planificador, candidato, creador, particion>>

AvisaReintento(p) ==
    /\ estado[p] = "aviso_espacio"
    /\ estado' = [estado EXCEPT ![p] = IF causa[p] = "segmentation_fault"
                                       THEN "aviso_proceso" ELSE "exit"]
    /\ causa' = [causa EXCEPT ![p] = IF @ = "segmentation_fault"
                                      THEN @ ELSE "ninguna"]
    /\ proceso_nuevo' = proceso_nuevo + 1
    /\ UNCHANGED <<queue_new, pid_generator, tam, espacio, planificador,
                   candidato, creador, particion>>

\* END_BY_SEGMENTATION_FAULT announces the place a second time.
AvisaEspacioOtraVez(p) ==
    /\ estado[p] = "aviso_proceso"
    /\ estado' = [estado EXCEPT ![p] = "exit"]
    /\ causa' = [causa EXCEPT ![p] = "ninguna"]
    /\ espacio' = espacio + 1
    /\ UNCHANGED <<queue_new, pid_generator, tam, proceso_nuevo, planificador,
                   candidato, creador, particion>>

-----------------------------------------------------------------------------
Creador == (\E t \in Tamanios : CreaProceso(t)) \/ AvisaProcesoCreado

Planificador ==
    \/ EsperaProceso \/ EsperaEspacio \/ MiraCola \/ MiraColaVacia
    \/ MemoriaAcepta \/ MemoriaRechaza \/ SacaDeNew \/ PasaAListos
    \/ AvisaEspacio \/ AvisaProceso \/ SinLugar \/ ColaVacia

Finalizador(p) ==
    \/ NotificaMemoria(p) \/ AvisaEspacioLibre(p) \/ AvisaReintento(p)
    \/ AvisaEspacioOtraVez(p)

Next ==
    \/ Creador
    \/ Planificador
    \/ \E p \in Procesos, c \in Causas \ {"ninguna"} : Finaliza(p, c)
    \/ \E p \in Procesos : Finalizador(p)

Spec == Init /\ [][Next]_vars

\* Every kernel thread that can take a step takes it: the planner, the
\* creator once it has queued its process, and each finalizer once started.
\* Nothing makes a program create or end processes.
Fairness ==
    /\ WF_vars(Planificador)
    /\ WF_vars(AvisaProcesoCreado)
    /\ \A p \in Procesos : WF_vars(Finalizador(p))

FairSpec == Spec /\ Fairness

-----------------------------------------------------------------------------
(* Properties.                                                             *)

\* Every variable has its type; the semaphores never go below zero.
TypeOK ==
    /\ queue_new \in Seq(Procesos)
    /\ pid_generator \in 0 .. MaxProcesos
    /\ tam \in [Procesos -> Nat]
    /\ estado \in [Procesos -> Estados]
    /\ causa \in [Procesos -> Causas]
    /\ proceso_nuevo \in Nat
    /\ espacio \in Nat
    /\ planificador \in Puntos
    /\ candidato \in Procesos \cup {Nadie}
    /\ creador \in {"libre", "encolado"}
    /\ particion \in [Particiones -> Procesos \cup {Nadie}]

\* The planner has taken a token of proceso_nuevo and owes it, or the
\* creator has queued a process and has not announced it yet.
FichasEnMano ==
    (IF planificador \in {"espera_proceso", "cola_vacia"} THEN 0 ELSE 1)
    + (IF creador = "encolado" THEN 1 ELSE 0)

\* There is a token of proceso_nuevo, posted or about to be, for each process
\* in NEW: the planner never goes to sleep on proceso_nuevo over a queue that
\* nobody will announce, although it throws tokens away when the queue is
\* empty (planificacion.c 35-38).
FichasCubrenNuevos == Len(queue_new) <= proceso_nuevo + FichasEnMano

TieneEspacio ==
    planificador \in {"mira_cola", "pide_memoria", "saca", "a_listos",
                      "avisa_espacio", "cola_vacia"}

\* The planner's refusal keeps the token of espacio_para_proceso. When none
\* is left, the oldest process really does not fit, or a finalizer that has
\* already freed memory is about to post one: no wakeup is lost between the
\* answer of memoria and the sleep (planificacion.c 22-33 against 44-50).
SinAvisoPerdido ==
    espacio = 0 /\ ~TieneEspacio =>
        /\ queue_new # <<>>
        /\ \/ ~Cabe(Head(queue_new))
           \/ \E p \in Procesos : estado[p] = "memoria_libre"

\* memoria and the kernel agree on who is admitted: a partition belongs to a
\* process that is ready, or ending and not yet given up, or to the one that
\* the planner is moving to READY; each of these owns exactly one; a process
\* that waits in NEW owns none.
Admitido(p) ==
    \/ estado[p] \in {"ready", "notifica_memoria"}
    \/ planificador \in {"saca", "a_listos"} /\ p = candidato

MemoriaDeLosAdmitidos ==
    /\ \A i \in Particiones : particion[i] # Nadie => Admitido(particion[i])
    /\ \A p \in Procesos : Admitido(p) => \E i \in Particiones : particion[i] = p
    /\ \A i, j \in Particiones :
         particion[i] = particion[j] /\ particion[i] # Nadie => i = j

\* A process enters READY only when every process created before it has:
\* nobody overtakes the queue, however the memory is freed meanwhile.
OrdenDeAdmision ==
    [][\A p \in Procesos :
         estado[p] = "new" /\ estado'[p] # "new" =>
             \A q \in Procesos : q < p => estado[q] # "new"]_vars

\* The promise of AdmisionProcesos: the queue of the abstraction loses its
\* head at the moment memoria answers OK.
Admision ==
    INSTANCE AdmisionProcesos
        WITH llegados <- pid_generator,
             nuevos <- IF planificador = "saca" THEN Tail(queue_new)
                       ELSE queue_new

CumpleAdmision == Admision!Spec

\* With fairness of the kernel's threads the oldest process is not left
\* waiting for ever while a partition holds it.
CumpleAdmisionJusta == Admision!FairSpec
=============================================================================
