-------------------------- MODULE PlanificadorFIFO --------------------------
(***************************************************************************)
(* The short-term planner of the kernel with ALGORITMO_PLANIFICACION FIFO  *)
(* (kernel/src/planificacion.c, interrupciones.c, dump of syscalls.c):     *)
(*   - P, planificar_fifo_hilos, sends the oldest ready thread to the CPU; *)
(*   - I, recibir_interrupciones_confirmadas, takes it off, and finalizes  *)
(*     its process when it ends;                                           *)
(*   - D(h), dump, waits for the answer to a dump of thread h, and makes h *)
(*     ready or, when the dump failed, finalizes its process too.          *)
(* finalizacion_procesos thus runs on several kernel threads at once. It   *)
(* frees each thread that it finds, which others may still hold: reading a *)
(* freed tcb may bring the kernel down; if not, its tid has been           *)
(* overwritten by the heap and matches nobody's. Freeing twice brings it   *)
(* down. Critical sections are steps.                                      *)
(***************************************************************************)
EXTENDS RemoverHilo

CONSTANTS
    Hilos, Procesos,
    Proceso,       \* Proceso[h]: hilo->proceso
    Tid,           \* Tid[h]: hilo->tid, unique within its process only
    Dumpean,       \* bound: the threads that ever ask for a dump
    MaxFichas,     \* bound: nobody wakes up with that many tokens
    Nadie          \* NULL; as an index, the thread I

ASSUME FIFOAssumption ==
    /\ IsFiniteSet(Hilos)
    /\ Proceso \in [Hilos -> Procesos]
    /\ Tid \in [Hilos -> Nat]
    /\ Dumpean \subseteq Hilos
    /\ MaxFichas \in Nat
    /\ Nadie \notin Hilos

VARIABLES
    queue_ready,      \* queue_ready_threads
    nuevos_hilos,     \* semaphore: at least one token per ready thread
    cpu_libre,        \* semaphore sem_CPU_libre_para_hilo
    hilo_en_ejecucion,
    estado,           \* estado[h]: "volviendo" is in no list, on its way
    dormidos,         \* threads that somebody (an IO, a join) will wake up
    avisando,         \* pushers that have pushed and not signalled yet
    en_syscall,       \* gestionar_syscalls is one of those pushers
    pcP, hiloP,       \* control point of P, its local variable
    pcI, motivo,      \* control point of I, the reason the CPU confirmed
    dumps_fallan,     \* whether the filesystem ever lacks room
    dump,             \* dump[h]: control point of D(h)
    bloqueo_por_dump, \* semaphore
    fin,              \* fin[f]: where f is in finalizacion_procesos
    liberados,        \* threads whose tcb has been freed
    muertos,          \* processes whose pcb has been freed
    caido             \* the kernel is down

cpu == <<cpu_libre, hilo_en_ejecucion>>
pushers == <<avisando, en_syscall>>
deP == <<pcP, hiloP>>
deI == <<pcI, motivo>>
deD == <<dump, bloqueo_por_dump>>
fines == <<fin, liberados, muertos>>
vars == <<queue_ready, nuevos_hilos, cpu, estado, dormidos, pushers, deP, deI,
          dumps_fallan, deD, fines, caido>>

Estados == {"inexistente", "listo", "exec", "bloqueado", "volviendo", "exit"}
Motivos == {"ninguno", "bloqueo", "dump", "thread_exit", "fin_proceso"}
Finalizadores == Hilos \cup {Nadie}
Ocioso == [paso |-> "no", vistos |-> {}, hilo |-> Nadie]
BuscaTras(vistos) == [paso |-> "busca", vistos |-> vistos, hilo |-> Nadie]

Init ==
    /\ queue_ready = <<>>
    /\ nuevos_hilos = 0 /\ cpu_libre = 1 /\ bloqueo_por_dump = 0
    /\ hilo_en_ejecucion = Nadie
    /\ estado = [h \in Hilos |-> "inexistente"]
    /\ dormidos = {} /\ avisando = 0 /\ en_syscall = FALSE
    /\ pcP = "espera" /\ hiloP = Nadie
    /\ pcI = "espera" /\ motivo = "ninguno"
    /\ dumps_fallan \in BOOLEAN
    /\ dump = [h \in Hilos |-> "no"]
    /\ fin = [f \in Finalizadores |-> Ocioso]
    /\ liberados = {} /\ muertos = {} /\ caido = FALSE

-----------------------------------------------------------------------------
(* push_queue_ready: the push, then signal_sem(&nuevos_hilos).             *)

PushReady(h) ==
    /\ ~caido
    /\ estado' = [estado EXCEPT ![h] = "listo"]
    /\ queue_ready' = Append(queue_ready, h)
    /\ UNCHANGED <<nuevos_hilos, cpu, dormidos, deP, deI, dumps_fallan, deD,
                   fines, caido>>

\* Thread 0 of a process, pushed by the long-term planner.
AdmiteHilo0(h) ==
    /\ Tid[h] = 0 /\ estado[h] = "inexistente"
    /\ PushReady(h)
    /\ avisando' = avisando + 1
    /\ UNCHANGED en_syscall

\* THREAD_CREATE_KERNEL: tids are given in order.
CreaHilo(h) ==
    /\ hilo_en_ejecucion # Nadie /\ motivo = "ninguno" /\ ~en_syscall
    /\ Proceso[h] = Proceso[hilo_en_ejecucion] /\ Proceso[h] \notin muertos
    /\ estado[h] = "inexistente"
    /\ \A g \in Hilos : Proceso[g] = Proceso[h] /\ Tid[g] < Tid[h] =>
                            estado[g] # "inexistente"
    /\ PushReady(h)
    /\ en_syscall' = TRUE
    /\ UNCHANGED avisando

\* list_remove_blocked, of esperar_IO or of the end of another thread.
Despierta(h) ==
    /\ ~caido /\ h \in dormidos
    /\ nuevos_hilos + avisando < MaxFichas
    /\ dormidos' = dormidos \ {h}
    /\ estado' = [estado EXCEPT ![h] = "volviendo"]
    /\ UNCHANGED <<queue_ready, nuevos_hilos, cpu, pushers, deP, deI,
                   dumps_fallan, deD, fines, caido>>

\* And the push that follows.
Vuelve(h) ==
    /\ estado[h] = "volviendo"
    /\ PushReady(h)
    /\ avisando' = avisando + 1
    /\ UNCHANGED en_syscall

\* Mutant: pushes to READY without announcing it.
AvisaNada ==
    /\ ~caido /\ avisando > 0
    /\ avisando' = avisando - 1
    /\ UNCHANGED <<queue_ready, nuevos_hilos, cpu, estado, dormidos,
                   en_syscall, deP, deI, dumps_fallan, deD, fines, caido>>

AvisaListo ==
    /\ ~caido /\ avisando > 0
    /\ avisando' = avisando - 1
    /\ nuevos_hilos' = nuevos_hilos + 1
    /\ UNCHANGED <<queue_ready, cpu, estado, dormidos, en_syscall, deP, deI,
                   dumps_fallan, deD, fines, caido>>

AvisaCreado ==
    /\ ~caido /\ en_syscall
    /\ en_syscall' = FALSE
    /\ nuevos_hilos' = nuevos_hilos + 1
    /\ UNCHANGED <<queue_ready, cpu, estado, dormidos, avisando, deP, deI,
                   dumps_fallan, deD, fines, caido>>

-----------------------------------------------------------------------------
(* P: planificar_fifo_hilos.                                               *)

PasoP(desde, hasta) ==
    /\ ~caido /\ pcP = desde /\ pcP' = hasta
    /\ UNCHANGED <<dormidos, pushers, deI, dumps_fallan, deD, fines, caido>>

PEspera ==
    /\ PasoP("espera", "espera_cpu")
    /\ nuevos_hilos > 0
    /\ nuevos_hilos' = nuevos_hilos - 1
    /\ UNCHANGED <<queue_ready, cpu, estado, hiloP>>

PEsperaCPU ==
    /\ PasoP("espera_cpu", "mira")
    /\ cpu_libre > 0
    /\ cpu_libre' = cpu_libre - 1
    /\ UNCHANGED <<queue_ready, nuevos_hilos, hilo_en_ejecucion, estado, hiloP>>

\* Mutant: pops without looking.
PNoMira ==
    /\ PasoP("mira", "saca")
    /\ UNCHANGED <<queue_ready, nuevos_hilos, cpu, estado, hiloP>>

\* Looks at the queue, and unlocks it before the pop.
PMira ==
    /\ PasoP("mira", IF queue_ready = <<>> THEN "devuelve_cpu" ELSE "saca")
    /\ UNCHANGED <<queue_ready, nuevos_hilos, cpu, estado, hiloP>>

\* Mutant: takes the newest one.
PSacaUltimo ==
    /\ PasoP("saca", "ejecuta")
    /\ queue_ready # <<>>
    /\ hiloP' = queue_ready[Len(queue_ready)]
    /\ queue_ready' = SubSeq(queue_ready, 1, Len(queue_ready) - 1)
    /\ UNCHANGED <<nuevos_hilos, cpu, estado>>

\* pop_queue_ready
PSaca ==
    /\ PasoP("saca", "ejecuta")
    /\ queue_ready # <<>>
    /\ hiloP' = Head(queue_ready)
    /\ queue_ready' = Tail(queue_ready)
    /\ UNCHANGED <<nuevos_hilos, cpu, estado>>

\* poner_en_ejecucion
PEjecuta ==
    /\ PasoP("ejecuta", "avisa")
    /\ hilo_en_ejecucion' = hiloP
    /\ hiloP' = Nadie
    /\ estado' = [estado EXCEPT ![hiloP] = "exec"]
    /\ UNCHANGED <<queue_ready, nuevos_hilos, cpu_libre>>

\* It dereferences NULL, if the queue was emptied after the look, or a tcb or
\* pcb that has been freed.
PCae ==
    /\ ~caido
    /\ \/ pcP = "saca" /\ queue_ready = <<>>
       \/ pcP = "ejecuta" /\ (hiloP \in liberados \/ Proceso[hiloP] \in muertos)
    /\ caido' = TRUE
    /\ UNCHANGED <<queue_ready, nuevos_hilos, cpu, estado, dormidos, pushers,
                   deP, deI, dumps_fallan, deD, fines>>

\* The token goes back, so that there may be more tokens than threads.
PAvisa ==
    /\ PasoP("avisa", "espera")
    /\ nuevos_hilos' = nuevos_hilos + 1
    /\ UNCHANGED <<queue_ready, cpu, estado, hiloP>>

\* Mutant: keeps the CPU after finding the queue empty.
PNoDevuelveCPU ==
    /\ PasoP("devuelve_cpu", "espera")
    /\ UNCHANGED <<queue_ready, nuevos_hilos, cpu, estado, hiloP>>

PDevuelveCPU ==
    /\ PasoP("devuelve_cpu", "espera")
    /\ cpu_libre' = cpu_libre + 1
    /\ UNCHANGED <<queue_ready, nuevos_hilos, hilo_en_ejecucion, estado, hiloP>>

-----------------------------------------------------------------------------
(* The CPU confirms why the thread stops. gestionar_syscalls has already   *)
(* put it in list_blocked_threads or queue_exit_threads, and created D(h). *)

CPUConfirma(m) ==
    LET h == hilo_en_ejecucion
    IN  /\ ~caido
        /\ h # Nadie /\ motivo = "ninguno" /\ ~en_syscall
        /\ m = "dump" => h \in Dumpean
        /\ motivo' = m
        /\ estado' = [estado EXCEPT ![h] =
                        CASE m \in {"bloqueo", "dump"} -> "bloqueado"
                          [] m = "thread_exit" -> "exit"
                          [] OTHER -> @]
        /\ dormidos' = IF m = "bloqueo" THEN dormidos \cup {h} ELSE dormidos
        /\ dump' = IF m = "dump" THEN [dump EXCEPT ![h] = "espera"] ELSE dump
        /\ UNCHANGED <<queue_ready, nuevos_hilos, cpu, pushers, deP, pcI,
                       dumps_fallan, bloqueo_por_dump, fines, caido>>

(* I: recibir_interrupciones_confirmadas.                                  *)

PasoI(desde, hasta) ==
    /\ ~caido /\ pcI = desde /\ pcI' = hasta
    /\ UNCHANGED <<queue_ready, nuevos_hilos, estado, dormidos, pushers, deP,
                   dumps_fallan, dump, liberados, muertos>>

\* END_BY_PROCESS_EXIT, END_BY_SEGMENTATION_FAULT: finalizacion_procesos with
\* mutex_hilo_en_ejecucion and proceso_en_ejecucion_mutex locked. The pcb
\* must not have been freed before.
IFinProceso ==
    /\ PasoI("espera", "finaliza")
    /\ motivo = "fin_proceso"
    /\ caido' = (Proceso[hilo_en_ejecucion] \in muertos)
    /\ fin' = [fin EXCEPT ![Nadie] = BuscaTras({})]
    /\ UNCHANGED <<cpu, motivo, bloqueo_por_dump>>

IBloqueo ==
    /\ PasoI("espera", "limpia")
    /\ motivo \in {"bloqueo", "dump", "thread_exit"}
    /\ UNCHANGED <<cpu, motivo, bloqueo_por_dump, fin, caido>>

ILimpia ==
    /\ PasoI("limpia", "avisa_cpu")
    /\ hilo_en_ejecucion' = Nadie
    /\ UNCHANGED <<cpu_libre, motivo, bloqueo_por_dump, fin, caido>>

IAvisaCPU ==
    /\ PasoI("avisa_cpu", "espera")
    /\ cpu_libre' = cpu_libre + 1
    /\ bloqueo_por_dump' =
         bloqueo_por_dump + (IF motivo = "dump" THEN 1 ELSE 0)
    /\ motivo' = "ninguno"
    /\ UNCHANGED <<hilo_en_ejecucion, fin, caido>>

-----------------------------------------------------------------------------
(* D(h): dump, which waits for any token of bloqueo_por_dump.              *)

PasoD(h, hasta) ==
    /\ ~caido /\ dump[h] = "espera" /\ bloqueo_por_dump > 0
    /\ bloqueo_por_dump' = bloqueo_por_dump - 1
    /\ dump' = [dump EXCEPT ![h] = hasta]
    /\ UNCHANGED <<queue_ready, nuevos_hilos, cpu, dormidos, pushers, deP, deI,
                   dumps_fallan, liberados, muertos>>

\* list_remove_blocked; the push follows.
DumpBien(h) ==
    /\ PasoD(h, "no")
    /\ nuevos_hilos + avisando < MaxFichas
    /\ estado' = [estado EXCEPT ![h] = "volviendo"]
    /\ UNCHANGED <<fin, caido>>

\* I does not hold proceso_en_ejecucion_mutex.
ProcesoALaVista ==
    pcI # "finaliza" /\ ~(pcI = "limpia" /\ motivo = "fin_proceso")

Ejecuta(proceso) ==
    hilo_en_ejecucion # Nadie /\ Proceso[hilo_en_ejecucion] = proceso

\* process_to_execute is its process: the CPU is told to end it.
DumpMalDelQueEjecuta(h) ==
    /\ dumps_fallan /\ ProcesoALaVista /\ Ejecuta(Proceso[h])
    /\ PasoD(h, "fallido")
    /\ UNCHANGED <<estado, fin, caido>>

\* Otherwise D finalizes it, with no mutex locked: it may be dispatched now.
DumpMal(h) ==
    /\ dumps_fallan /\ ProcesoALaVista /\ ~Ejecuta(Proceso[h])
    /\ PasoD(h, "finaliza")
    /\ caido' = (Proceso[h] \in muertos)
    /\ fin' = [fin EXCEPT ![h] = BuscaTras({})]
    /\ UNCHANGED estado

-----------------------------------------------------------------------------
(* finalizacion_procesos, run by f.                                        *)

ProcesoDe(f) == Proceso[IF f = Nadie THEN hilo_en_ejecucion ELSE f]

\* tid_list, without the ones that the loop has been through.
Faltan(f) ==
    {h \in Hilos : /\ Proceso[h] = ProcesoDe(f)
                   /\ estado[h] # "inexistente"} \ fin[f].vistos

PasoFin(f, paso) ==
    /\ ~caido /\ fin[f].paso = paso
    /\ UNCHANGED <<nuevos_hilos, cpu, dormidos, pushers, deP, motivo,
                   dumps_fallan, bloqueo_por_dump>>

\* In queue_ready_threads, list_blocked_threads or queue_exit_threads.
EnListas(h) ==
    h \notin liberados /\ (estado[h] \in {"bloqueado", "exit"}
                              \/ EnCola(h, queue_ready))

\* The search reads freed tcbs on its way to h: the exit queue is the last
\* one, and keeps all of them.
LeeLiberados(h) ==
    \/ \E g \in liberados : EnCola(g, queue_ready)
    \/ liberados # {} /\ ~(EnCola(h, queue_ready) \/ estado[h] = "bloqueado")

\* buscar_tcb_por_tid_y_pid, in the order of tid_list.
Busca(f) ==
    /\ PasoFin(f, "busca")
    /\ \E h \in Faltan(f) :
         /\ \A g \in Faltan(f) : Tid[h] <= Tid[g]
         /\ fin' = [fin EXCEPT ![f] =
                      [paso |-> IF EnListas(h) THEN "quita" ELSE "busca",
                       vistos |-> fin[f].vistos \cup {h},
                       hilo |-> IF EnListas(h) THEN h ELSE Nadie]]
         /\ \/ caido' = (ProcesoDe(f) \in muertos)
            \/ LeeLiberados(h) /\ caido' = TRUE
    /\ UNCHANGED <<queue_ready, estado, pcI, dump, liberados, muertos>>

\* remover_hilo, first loop: compares the tid and not the process.
Quita(f) ==
    /\ PasoFin(f, "quita")
    /\ queue_ready' =
         RemueveRotando(queue_ready,
             IF fin[f].hilo \in liberados THEN {}
             ELSE {g \in Hilos \ liberados : Tid[g] = Tid[fin[f].hilo]})
    /\ fin' = [fin EXCEPT ![f] = [fin[f] EXCEPT !.paso = "libera"]]
    /\ UNCHANGED <<estado, pcI, dump, liberados, muertos, caido>>

\* remover_hilo from the blocked ones, push_queue_exit, liberar_tcb.
Libera(f) ==
    /\ PasoFin(f, "libera")
    /\ caido' = (fin[f].hilo \in liberados)
    /\ estado' = [estado EXCEPT ![fin[f].hilo] = "exit"]
    /\ liberados' = liberados \cup {fin[f].hilo}
    /\ fin' = [fin EXCEPT ![f] = BuscaTras(fin[f].vistos)]
    /\ UNCHANGED <<queue_ready, pcI, dump, muertos>>

\* liberar_pcb
Termina(f) ==
    /\ PasoFin(f, "busca")
    /\ Faltan(f) = {}
    /\ caido' = (ProcesoDe(f) \in muertos)
    /\ muertos' = muertos \cup {ProcesoDe(f)}
    /\ fin' = [fin EXCEPT ![f] = Ocioso]
    /\ IF f = Nadie THEN pcI' = "limpia" /\ UNCHANGED dump
       ELSE dump' = [dump EXCEPT ![f] = "fallido"] /\ UNCHANGED pcI
    /\ UNCHANGED <<queue_ready, estado, liberados>>

-----------------------------------------------------------------------------
Avisa == AvisaListo \/ AvisaCreado

P ==
    \/ PEspera \/ PEsperaCPU \/ PMira \/ PSaca \/ PEjecuta \/ PCae
    \/ PAvisa \/ PDevuelveCPU

Finaliza(f) == Busca(f) \/ Quita(f) \/ Libera(f) \/ Termina(f)

I == IFinProceso \/ IBloqueo \/ ILimpia \/ IAvisaCPU \/ Finaliza(Nadie)

D(h) ==
    DumpBien(h) \/ DumpMalDelQueEjecuta(h) \/ DumpMal(h) \/ Finaliza(h)

Next ==
    \/ \E h \in Hilos :
         AdmiteHilo0(h) \/ CreaHilo(h) \/ Despierta(h) \/ Vuelve(h) \/ D(h)
    \/ Avisa \/ P \/ I
    \/ \E m \in Motivos \ {"ninguno"} : CPUConfirma(m)

Spec == Init /\ [][Next]_vars

\* The kernel threads run while the kernel is up. Programs need not stop.
Fairness == WF_vars(Avisa) /\ WF_vars(P) /\ WF_vars(I)

FairSpec == Spec /\ Fairness

-----------------------------------------------------------------------------
(* Properties.                                                             *)

\* Every variable has its type; the semaphores never go below zero.
TypeOK ==
    /\ queue_ready \in Seq(Hilos)
    /\ nuevos_hilos \in Nat /\ cpu_libre \in Nat /\ bloqueo_por_dump \in Nat
    /\ hilo_en_ejecucion \in Finalizadores
    /\ estado \in [Hilos -> Estados]
    /\ dormidos \subseteq Hilos /\ avisando \in Nat /\ en_syscall \in BOOLEAN
    /\ pcP \in {"espera", "espera_cpu", "mira", "saca", "ejecuta", "avisa",
                "devuelve_cpu"}
    /\ hiloP \in Finalizadores
    /\ pcI \in {"espera", "finaliza", "limpia", "avisa_cpu"}
    /\ motivo \in Motivos
    /\ dumps_fallan \in BOOLEAN
    /\ dump \in [Hilos -> {"no", "espera", "finaliza", "fallido"}]
    /\ fin \in [Finalizadores -> [paso : {"no", "busca", "quita", "libera"},
                                  vistos : SUBSET Hilos,
                                  hilo : Finalizadores]]
    /\ liberados \subseteq Hilos /\ muertos \subseteq Procesos
    /\ caido \in BOOLEAN

Uno(condicion) == IF condicion THEN 1 ELSE 0

\* The CPU has one owner: the semaphore, P between its wait and its dispatch,
\* the thread that executes, or I before its signal. Ends of processes on
\* other kernel threads do not touch it.
UnaCPU ==
    cpu_libre + Uno(pcP \in {"mira", "saca", "ejecuta", "devuelve_cpu"})
              + Uno(hilo_en_ejecucion # Nadie) + Uno(pcI = "avisa_cpu") = 1

\* Each ready thread has a token of nuevos_hilos, posted, about to be posted
\* or in the hands of P. P throws one away when it finds the queue empty
\* (planificacion.c 131), posts one after each dispatch, and remover_hilo
\* takes threads out without their tokens.
FichasCubrenListos ==
    Len(queue_ready) <= nuevos_hilos + avisando + Uno(en_syscall)
                        + Uno(pcP \in {"espera_cpu", "mira", "saca"})

\* Between the look and the pop of planificar_fifo_hilos (planificacion.c 125
\* and 128) nobody empties the queue, although it is unlocked, unless a dump
\* fails: I, who may, never ends a process while P has the CPU.
SacaLoQueMiro ==
    pcP = "saca" /\ ~dumps_fallan => queue_ready # <<>>

\* The planner does what ColaDeListos promises: the CPU takes the oldest
\* ready thread, is never given two, and never idles while one waits, for as
\* long as the kernel is up.
Cola ==
    INSTANCE ColaDeListos
        WITH cola <- queue_ready,
             ejecuta <- IF pcP = "ejecuta" THEN hiloP ELSE hilo_en_ejecucion,
             caida <- caido

CumpleCola == Cola!Spec

CumpleColaJusta == Cola!FairSpec

\* "Planificador FIFO" (planificacion.c 117): threads leave READY in the
\* order in which they came.
OrdenDeLlegada ==
    [][~\E i, j \in 1 .. Len(queue_ready'), m, n \in 1 .. Len(queue_ready) :
           /\ i < j /\ m > n
           /\ queue_ready'[i] = queue_ready[m]
           /\ queue_ready'[j] = queue_ready[n]]_vars
=============================================================================
