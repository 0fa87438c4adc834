----------------------- MODULE PlanificadorPrioridades ----------------------
(***************************************************************************)
(* The short-term planner of the kernel with ALGORITMO_PLANIFICACION       *)
(* PRIORIDADES or CMN (kernel/src/planificacion.c, interrupciones.c).      *)
(* Three kernel threads share the lists of ready threads:                  *)
(*   - C, crear_colas_por_prioridad, moves threads from                    *)
(*     queue_ready_threads to the queue of their priority;                 *)
(*   - P, planificar_prioridades_hilos or planificar_cmn_hilos, sends a    *)
(*     thread of the best queue to the CPU, and forgets empty queues;      *)
(*   - I, recibir_interrupciones_confirmadas, takes the thread off the CPU *)
(*     and, when its process ends, its siblings out of the queues.         *)
(* The threads that push to READY (syscalls, ends of IO and of dumps, the  *)
(* long-term planner) signal after the push. The CPU stops a thread once   *)
(* for each dispatch, at any moment and for any reason.                    *)
(* Critical sections are steps; mutex creando_colas_por_prioridad, which   *)
(* is held across several of them, is a variable.                          *)
(***************************************************************************)
EXTENDS Integers, Sequences, FiniteSets, RemoverHilo

CONSTANTS
    Hilos,         \* the threads that are ever created
    Procesos,
    Proceso,       \* Proceso[h]: hilo->proceso
    Tid,           \* Tid[h]: hilo->tid, unique within its process only
    Prioridades,   \* 0 is the best one
    Prioridad,     \* Prioridad[h]: hilo->prioridad
    Algoritmo,     \* ALGORITMO_PLANIFICACION
    Nadie          \* NULL

ASSUME PrioridadesAssumption ==
    /\ IsFiniteSet(Prioridades) /\ Prioridades \subseteq Nat
    /\ Proceso \in [Hilos -> Procesos]
    /\ Tid \in [Hilos -> Nat]
    /\ Prioridad \in [Hilos -> Prioridades]
    /\ Algoritmo \in {"PRIORIDADES", "CMN"}
    /\ Nadie \notin Hilos

VARIABLES
    queue_ready,      \* queue_ready_threads
    colas,            \* colas[pr]: the queue of priority pr
    existe,           \* priorities that have a queue in colas_prioridad
    nuevos_hilos,     \* semaphore: one token per queue
    para_cola,        \* semaphore nuevos_hilos_para_cola
    cpu_libre,        \* semaphore sem_CPU_libre_para_hilo
    creando,          \* owner of mutex creando_colas_por_prioridad
    hilo_en_ejecucion,
    estado,           \* estado[h]: where the kernel believes h is
    avisando,         \* pushers that have pushed and not signalled yet
    en_syscall,       \* gestionar_syscalls is one of those pushers
    pcC, hiloC,       \* control point of C, its local variable
    pcP, hiloP,       \* control point of P, its local variable
    pcI, hiloI,       \* control point of I, the thread it removes
    motivo,           \* reason that the CPU has confirmed
    por_terminar,     \* threads of the ending process left to look at
    muertos,          \* processes whose pcb has been freed
    caido             \* the kernel has dereferenced NULL or a freed pcb

\* Groups of variables that steps leave alone together.
listas == <<queue_ready, colas, existe>>
cpu == <<cpu_libre, hilo_en_ejecucion>>
pushers == <<avisando, en_syscall>>
deC == <<pcC, hiloC>>
deP == <<pcP, hiloP>>
deI == <<pcI, hiloI, motivo, por_terminar, muertos>>
vars == <<listas, nuevos_hilos, para_cola, cpu, creando, estado, pushers,
          deC, deP, deI, caido>>

Estados == {"inexistente", "listo", "exec", "bloqueado", "exit"}
Motivos == {"ninguno", "quantum", "bloqueo", "thread_exit", "fin_proceso"}

EnColas(h) == Prioridad[h] \in existe /\ EnCola(h, colas[Prioridad[h]])

Init ==
    /\ queue_ready = <<>>
    /\ colas = [pr \in Prioridades |-> <<>>]
    /\ existe = {}
    /\ nuevos_hilos = 0 /\ para_cola = 0 /\ cpu_libre = 1
    /\ creando = "nadie"
    /\ hilo_en_ejecucion = Nadie
    /\ estado = [h \in Hilos |-> "inexistente"]
    /\ avisando = 0 /\ en_syscall = FALSE
    /\ pcC = "espera" /\ hiloC = Nadie
    /\ pcP = "espera" /\ hiloP = Nadie
    /\ pcI = "espera" /\ hiloI = Nadie
    /\ motivo = "ninguno" /\ por_terminar = {} /\ muertos = {}
    /\ caido = FALSE

-----------------------------------------------------------------------------
(* push_queue_ready: the push, then signal_sem(&nuevos_hilos_para_cola).   *)

PushReady(h) ==
    /\ ~caido
    /\ estado' = [estado EXCEPT ![h] = "listo"]
    /\ queue_ready' = Append(queue_ready, h)
    /\ UNCHANGED <<colas, existe, nuevos_hilos, para_cola, cpu, creando, deC,
                   deP, deI, caido>>

\* Thread 0 of a process, pushed by the long-term planner.
AdmiteHilo0(h) ==
    /\ Tid[h] = 0 /\ estado[h] = "inexistente"
    /\ PushReady(h)
    /\ avisando' = avisando + 1
    /\ UNCHANGED en_syscall

\* THREAD_CREATE_KERNEL: tids are given in order.
CreaHilo(h) ==
    /\ hilo_en_ejecucion # Nadie /\ motivo = "ninguno" /\ ~en_syscall
    /\ Proceso[h] = Proceso[hilo_en_ejecucion] /\ estado[h] = "inexistente"
    /\ \A g \in Hilos : Proceso[g] = Proceso[h] /\ Tid[g] < Tid[h] =>
                            estado[g] # "inexistente"
    /\ PushReady(h)
    /\ en_syscall' = TRUE
    /\ UNCHANGED avisando

\* esperar_IO or dump: the blocked thread goes back to READY, perhaps before
\* I has taken it off the CPU.
Despierta(h) ==
    /\ estado[h] = "bloqueado"
    /\ PushReady(h)
    /\ avisando' = avisando + 1
    /\ UNCHANGED en_syscall

\* Mutant: pushes to READY without announcing it.
AvisaNada ==
    /\ ~caido /\ avisando > 0
    /\ avisando' = avisando - 1
    /\ UNCHANGED <<listas, nuevos_hilos, para_cola, cpu, creando, estado,
                   en_syscall, deC, deP, deI, caido>>

AvisaListo ==
    /\ ~caido /\ avisando > 0
    /\ avisando' = avisando - 1
    /\ para_cola' = para_cola + 1
    /\ UNCHANGED <<listas, nuevos_hilos, cpu, creando, estado, en_syscall,
                   deC, deP, deI, caido>>

AvisaCreado ==
    /\ ~caido /\ en_syscall
    /\ en_syscall' = FALSE
    /\ para_cola' = para_cola + 1
    /\ UNCHANGED <<listas, nuevos_hilos, cpu, creando, estado, avisando, deC,
                   deP, deI, caido>>

-----------------------------------------------------------------------------
(* C: crear_colas_por_prioridad.                                           *)

PasoC(desde, hasta) ==
    /\ ~caido /\ pcC = desde /\ pcC' = hasta
    /\ UNCHANGED <<cpu, estado, pushers, deP, deI>>

CEspera ==
    /\ PasoC("espera", "toma")
    /\ para_cola > 0
    /\ para_cola' = para_cola - 1
    /\ UNCHANGED <<listas, nuevos_hilos, creando, hiloC, caido>>

CToma ==
    /\ PasoC("toma", "mira")
    /\ creando = "nadie"
    /\ creando' = "C"
    /\ UNCHANGED <<listas, nuevos_hilos, para_cola, hiloC, caido>>

\* Looks at the queue, and unlocks it before the pop.
CMira ==
    /\ PasoC("mira", IF queue_ready = <<>> THEN "suelta" ELSE "saca")
    /\ UNCHANGED <<listas, nuevos_hilos, para_cola, creando, hiloC, caido>>

\* pop_queue_ready; NULL when I has emptied the queue in between, and
\* agregar_a_cola_prioridad(NULL) brings the kernel down.
CSaca ==
    /\ PasoC("saca", "agrega")
    /\ IF queue_ready = <<>>
       THEN caido' = TRUE /\ UNCHANGED <<queue_ready, hiloC>>
       ELSE /\ hiloC' = Head(queue_ready)
            /\ queue_ready' = Tail(queue_ready)
            /\ UNCHANGED caido
    /\ UNCHANGED <<colas, existe, nuevos_hilos, para_cola, creando>>

\* Mutant: the newest thread goes to the front of its queue.
EncolaDelante(h) ==
    /\ existe' = existe \cup {Prioridad[h]}
    /\ colas' = [colas EXCEPT ![Prioridad[h]] = <<h>> \o @]

\* agregar_a_cola_prioridad, inside mutex_cola_de_prioridad.
Encola(h) ==
    /\ existe' = existe \cup {Prioridad[h]}
    /\ colas' = [colas EXCEPT ![Prioridad[h]] = Append(@, h)]

\* Mutant: does not announce the new queue.
CAgregaSinAvisar ==
    /\ PasoC("agrega", "suelta")
    /\ Encola(hiloC)
    /\ hiloC' = Nadie
    /\ UNCHANGED <<queue_ready, nuevos_hilos, para_cola, creando, caido>>

CAgrega ==
    /\ PasoC("agrega",
             IF Prioridad[hiloC] \in existe THEN "suelta" ELSE "avisa_cola")
    /\ Encola(hiloC)
    /\ hiloC' = Nadie
    /\ UNCHANGED <<queue_ready, nuevos_hilos, para_cola, creando, caido>>

CAvisaCola ==
    /\ PasoC("avisa_cola", "suelta")
    /\ nuevos_hilos' = nuevos_hilos + 1
    /\ UNCHANGED <<listas, para_cola, creando, hiloC, caido>>

CSuelta ==
    /\ PasoC("suelta", "espera")
    /\ creando' = "nadie"
    /\ UNCHANGED <<listas, nuevos_hilos, para_cola, hiloC, caido>>

-----------------------------------------------------------------------------
(* P: planificar_prioridades_hilos, planificar_cmn_hilos.                  *)

PasoP(desde, hasta) ==
    /\ ~caido /\ pcP = desde /\ pcP' = hasta
    /\ UNCHANGED <<queue_ready, para_cola, creando, pushers, deC, deI>>

PEspera ==
    /\ PasoP("espera", "espera_cpu")
    /\ nuevos_hilos > 0
    /\ nuevos_hilos' = nuevos_hilos - 1
    /\ UNCHANGED <<colas, existe, cpu, estado, hiloP, caido>>

PEsperaCPU ==
    /\ PasoP("espera_cpu", "elige")
    /\ cpu_libre > 0
    /\ cpu_libre' = cpu_libre - 1
    /\ UNCHANGED <<colas, existe, nuevos_hilos, hilo_en_ejecucion, estado,
                   hiloP, caido>>

\* devolver_lista_maxima_prioridad
EsMaxima(pr) == pr \in existe /\ \A x \in existe : pr <= x

PEligeHilo ==
    /\ PasoP("elige", "ejecuta")
    /\ \E pr \in Prioridades :
         /\ EsMaxima(pr) /\ colas[pr] # <<>>
         /\ hiloP' = Head(colas[pr])
         /\ colas' = [colas EXCEPT ![pr] = Tail(@)]
    /\ UNCHANGED <<existe, nuevos_hilos, cpu, estado, caido>>

\* priority_queue == NULL, or an empty queue: list_remove_element, and its
\* token of nuevos_hilos goes with it.
PNoHayHilo ==
    /\ PasoP("elige", "devuelve_cpu")
    /\ IF existe = {}
       THEN UNCHANGED existe
       ELSE \E pr \in Prioridades :
              EsMaxima(pr) /\ colas[pr] = <<>> /\ existe' = existe \ {pr}
    /\ UNCHANGED <<colas, nuevos_hilos, cpu, estado, hiloP, caido>>

\* poner_en_ejecucion. It reads hilo->proceso->pid: a freed pcb may bring the
\* kernel down, or go to the CPU as any other.
PEjecuta ==
    /\ PasoP("ejecuta", "avisa")
    /\ hilo_en_ejecucion' = hiloP
    /\ hiloP' = Nadie
    /\ estado' = [estado EXCEPT ![hiloP] = "exec"]
    /\ \/ UNCHANGED caido
       \/ Proceso[hiloP] \in muertos /\ caido' = TRUE
    /\ UNCHANGED <<colas, existe, nuevos_hilos, cpu_libre>>

\* Mutant: the token of the queue is spent with its first thread.
PNoAvisa ==
    /\ PasoP("avisa", "espera")
    /\ UNCHANGED <<colas, existe, nuevos_hilos, cpu, estado, hiloP, caido>>

\* The queue keeps its token.
PAvisa ==
    /\ PasoP("avisa", "espera")
    /\ nuevos_hilos' = nuevos_hilos + 1
    /\ UNCHANGED <<colas, existe, cpu, estado, hiloP, caido>>

\* Mutant: keeps the CPU after removing an empty queue.
PNoDevuelveCPU ==
    /\ PasoP("devuelve_cpu", "espera")
    /\ UNCHANGED <<colas, existe, nuevos_hilos, cpu, estado, hiloP, caido>>

PDevuelveCPU ==
    /\ PasoP("devuelve_cpu", "espera")
    /\ cpu_libre' = cpu_libre + 1
    /\ UNCHANGED <<colas, existe, nuevos_hilos, hilo_en_ejecucion, estado,
                   hiloP, caido>>

-----------------------------------------------------------------------------
(* The CPU confirms why the thread stops. gestionar_syscalls has already   *)
(* put it in list_blocked_threads, or in queue_exit_threads.               *)

CPUConfirma(m) ==
    /\ ~caido
    /\ hilo_en_ejecucion # Nadie /\ motivo = "ninguno" /\ ~en_syscall
    /\ m = "quantum" => Algoritmo = "CMN"
    /\ motivo' = m
    /\ estado' = [estado EXCEPT ![hilo_en_ejecucion] =
                    CASE m = "bloqueo" -> "bloqueado"
                      [] m = "thread_exit" -> "exit"
                      [] OTHER -> @]
    /\ UNCHANGED <<listas, nuevos_hilos, para_cola, cpu, creando, pushers,
                   deC, deP, pcI, hiloI, por_terminar, muertos, caido>>

(* I: recibir_interrupciones_confirmadas.                                  *)

PasoI(desde, hasta) ==
    /\ ~caido /\ pcI = desde /\ pcI' = hasta
    /\ UNCHANGED <<para_cola, pushers, deC, deP>>

\* END_OF_QUANTUM
IToma ==
    /\ PasoI("espera", "encola")
    /\ motivo = "quantum" /\ creando = "nadie"
    /\ creando' = "I"
    /\ UNCHANGED <<listas, nuevos_hilos, cpu, estado, hiloI, motivo,
                   por_terminar, muertos, caido>>

\* The queue of the thread that executes is still there: nobody else owned
\* the CPU meanwhile, and only P removes queues. If it were not, agregar would
\* announce the new one.
IEncola ==
    /\ PasoI("encola", "limpia")
    /\ Encola(hilo_en_ejecucion)
    /\ nuevos_hilos' = IF Prioridad[hilo_en_ejecucion] \in existe
                       THEN nuevos_hilos ELSE nuevos_hilos + 1
    /\ estado' = [estado EXCEPT ![hilo_en_ejecucion] = "listo"]
    /\ UNCHANGED <<queue_ready, cpu, creando, hiloI, motivo, por_terminar,
                   muertos, caido>>

\* END_BY_PROCESS_EXIT, END_BY_SEGMENTATION_FAULT: finalizacion_procesos of
\* the process that executes. Its pcb must not have been freed before.
IFinProceso ==
    /\ PasoI("espera", "busca")
    /\ motivo = "fin_proceso"
    /\ IF Proceso[hilo_en_ejecucion] \in muertos
       THEN caido' = TRUE /\ UNCHANGED por_terminar
       ELSE /\ por_terminar' = {h \in Hilos :
                                  /\ Proceso[h] = Proceso[hilo_en_ejecucion]
                                  /\ estado[h] # "inexistente"}
            /\ UNCHANGED caido
    /\ UNCHANGED <<listas, nuevos_hilos, cpu, creando, estado, hiloI, motivo,
                   muertos>>

\* buscar_tcb_por_tid_y_pid, in the order of tid_list: only the priority
\* queues are searched.
IBusca ==
    /\ \E h \in por_terminar :
         /\ \A g \in por_terminar : Tid[h] <= Tid[g]
         /\ por_terminar' = por_terminar \ {h}
         /\ IF EnColas(h) THEN PasoI("busca", "quita_de_listos") /\ hiloI' = h
                          ELSE PasoI("busca", "busca") /\ UNCHANGED hiloI
    /\ UNCHANGED <<listas, nuevos_hilos, cpu, creando, estado, motivo,
                   muertos, caido>>

\* remover_hilo, first loop: compares the tid and not the process.
IQuitaDeListos ==
    /\ PasoI("quita_de_listos", "quita_de_colas")
    /\ queue_ready' =
         RemueveRotando(queue_ready, {g \in Hilos : Tid[g] = Tid[hiloI]})
    /\ UNCHANGED <<colas, existe, nuevos_hilos, cpu, creando, estado, hiloI,
                   motivo, por_terminar, muertos, caido>>

\* remover_hilo, last loop, which visits and may rotate every queue; then
\* push_queue_exit and liberar_tcb.
IQuitaDeColas ==
    /\ PasoI("quita_de_colas", "busca")
    /\ colas' = [pr \in Prioridades |-> RemueveRotando(colas[pr], {hiloI})]
    /\ estado' = [estado EXCEPT ![hiloI] = "exit"]
    /\ hiloI' = Nadie
    /\ UNCHANGED <<queue_ready, existe, nuevos_hilos, cpu, creando, motivo,
                   por_terminar, muertos, caido>>

\* liberar_pcb
ILibera ==
    /\ PasoI("busca", "limpia")
    /\ por_terminar = {}
    /\ muertos' = muertos \cup {Proceso[hilo_en_ejecucion]}
    /\ estado' = [estado EXCEPT ![hilo_en_ejecucion] = "exit"]
    /\ UNCHANGED <<listas, nuevos_hilos, cpu, creando, hiloI, motivo,
                   por_terminar, caido>>

\* Mutant: puts the thread back in its queue, as the end of the quantum does.
IBloqueoEncola ==
    /\ PasoI("espera", "encola")
    /\ motivo \in {"bloqueo", "thread_exit"}
    /\ UNCHANGED <<listas, nuevos_hilos, cpu, creando, estado, hiloI, motivo,
                   por_terminar, muertos, caido>>

\* The other reasons only take the thread off the CPU.
IBloqueo ==
    /\ PasoI("espera", "limpia")
    /\ motivo \in {"bloqueo", "thread_exit"}
    /\ UNCHANGED <<listas, nuevos_hilos, cpu, creando, estado, hiloI, motivo,
                   por_terminar, muertos, caido>>

ILimpia ==
    /\ PasoI("limpia", "avisa_cpu")
    /\ hilo_en_ejecucion' = Nadie
    /\ creando' = IF motivo = "quantum" THEN "nadie" ELSE creando
    /\ UNCHANGED <<listas, nuevos_hilos, cpu_libre, estado, hiloI, motivo,
                   por_terminar, muertos, caido>>

IAvisaCPU ==
    /\ PasoI("avisa_cpu", "espera")
    /\ cpu_libre' = cpu_libre + 1
    /\ motivo' = "ninguno"
    /\ UNCHANGED <<listas, nuevos_hilos, hilo_en_ejecucion, creando, estado,
                   hiloI, por_terminar, muertos, caido>>

-----------------------------------------------------------------------------
Avisa == AvisaListo \/ AvisaCreado

C == CEspera \/ CToma \/ CMira \/ CSaca \/ CAgrega \/ CAvisaCola \/ CSuelta

P ==
    \/ PEspera \/ PEsperaCPU \/ PEligeHilo \/ PNoHayHilo \/ PEjecuta
    \/ PAvisa \/ PDevuelveCPU

I ==
    \/ IToma \/ IEncola \/ IBloqueo
    \/ IFinProceso \/ IBusca \/ IQuitaDeListos \/ IQuitaDeColas \/ ILibera
    \/ ILimpia \/ IAvisaCPU

Next ==
    \/ \E h \in Hilos : AdmiteHilo0(h) \/ CreaHilo(h) \/ Despierta(h)
    \/ Avisa \/ C \/ P \/ I
    \/ \E m \in Motivos \ {"ninguno"} : CPUConfirma(m)

Spec == Init /\ [][Next]_vars

\* The kernel threads run while the kernel is up. C also gets the mutex it
\* waits for, which I holds for an instant of each quantum. With CMN the
\* quantum stops every thread: quantum_interrupt makes the CPU confirm.
Fairness ==
    /\ WF_vars(Avisa)
    /\ WF_vars(C)
    /\ SF_vars(CToma)
    /\ WF_vars(P)
    /\ WF_vars(I)
    /\ Algoritmo = "CMN" =>
         WF_vars(\E m \in Motivos \ {"ninguno"} : CPUConfirma(m))

FairSpec == Spec /\ Fairness

-----------------------------------------------------------------------------
(* Properties.                                                             *)

PuntosC == {"espera", "toma", "mira", "saca", "agrega", "avisa_cola",
            "suelta"}
PuntosP == {"espera", "espera_cpu", "elige", "ejecuta", "avisa",
            "devuelve_cpu"}
PuntosI == {"espera", "encola", "busca", "quita_de_listos",
            "quita_de_colas", "limpia", "avisa_cpu"}

\* Every variable has its type; the semaphores never go below zero.
TypeOK ==
    /\ queue_ready \in Seq(Hilos)
    /\ colas \in [Prioridades -> Seq(Hilos)]
    /\ existe \subseteq Prioridades
    /\ nuevos_hilos \in Nat /\ para_cola \in Nat /\ cpu_libre \in Nat
    /\ creando \in {"nadie", "C", "I"}
    /\ hilo_en_ejecucion \in Hilos \cup {Nadie}
    /\ estado \in [Hilos -> Estados]
    /\ avisando \in Nat /\ en_syscall \in BOOLEAN
    /\ pcC \in PuntosC /\ hiloC \in Hilos \cup {Nadie}
    /\ pcP \in PuntosP /\ hiloP \in Hilos \cup {Nadie}
    /\ pcI \in PuntosI /\ hiloI \in Hilos \cup {Nadie}
    /\ motivo \in Motivos
    /\ por_terminar \subseteq Hilos /\ muertos \subseteq Procesos
    /\ caido \in BOOLEAN

Uno(condicion) == IF condicion THEN 1 ELSE 0

\* nuevos_hilos counts queues, not threads: counting the tokens that P and C
\* hold, there is always one for each list of colas_prioridad. So P never
\* sleeps over a queue, and never finds colas_prioridad empty (planificacion.c
\* 147, 161, 165 and 287 against interrupciones.c 26).
FichasPorCola ==
    Cardinality(existe) =
        nuevos_hilos
        + Uno(pcP \in {"espera_cpu", "elige", "ejecuta", "avisa"})
        + Uno(pcC = "avisa_cola")

\* The CPU has one owner: the semaphore, P between its wait and its dispatch,
\* the thread that executes, or I before its signal. Nothing is dispatched
\* over a running thread.
UnaCPU ==
    cpu_libre + Uno(pcP \in {"elige", "ejecuta", "devuelve_cpu"})
              + Uno(hilo_en_ejecucion # Nadie) + Uno(pcI = "avisa_cpu") = 1

\* Each thread of queue_ready_threads has a token of nuevos_hilos_para_cola,
\* posted, about to be posted or in the hands of C: no ready thread is left
\* out of the priority queues, although remover_hilo takes threads out of the
\* queue without taking tokens.
FichasParaCola ==
    Len(queue_ready) <= para_cola + avisando + Uno(en_syscall)
                        + Uno(pcC \in {"toma", "mira", "saca"})

Lugares(h) ==
    Veces(h, queue_ready) + Veces(h, colas[Prioridad[h]])
    + Uno(hiloC = h) + Uno(hiloP = h)

\* A thread waits in one place at most, and only if it is ready: it is not
\* dispatched twice for one push, even when it is woken up, or put back by
\* the end of its quantum, before I has taken it off the CPU.
UnSoloLugar ==
    \A h \in Hilos :
        /\ Lugares(h) <= 1
        /\ Lugares(h) = 1 => estado[h] = "listo"

\* While a thread waits in READY or in a priority queue the CPU gets work: no
\* signal between pushers, C, P and I is lost.
CPUNoOciosa ==
    (\E h \in Hilos : EnCola(h, queue_ready) \/ EnColas(h))
        ~> (hilo_en_ejecucion # Nadie \/ caido)

\* With CMN the threads of the best priority take turns: each one that waits
\* leaves the queues, because it executes or because it is removed.
TurnoRotativo ==
    Algoritmo = "CMN" =>
        \A h \in Hilos :
            (\A pr \in Prioridades : Prioridad[h] <= pr) =>
                (Lugares(h) > 0 ~> (Lugares(h) = 0 \/ caido))

\* remover_hilo is meant to remove one thread, "Remover el hilo de la cola de
\* hilos listos" (planificacion.c 67): the others stay where they are, and a
\* thread that is ready and has not been freed is somewhere.
NadieSePierde ==
    \A h \in Hilos : estado[h] = "listo" =>
        Lugares(h) = 1

\* PROCESS_EXIT_KERNEL: "Finaliza el proceso en ejecucion." (syscalls.c 26). No
\* thread executes after its process has ended.
NingunoTrasElFin ==
    hilo_en_ejecucion # Nadie =>
        \/ Proceso[hilo_en_ejecucion] \notin muertos
        \/ motivo = "fin_proceso"
=============================================================================
