--------------------------- MODULE HilosYMutexes ----------------------------
(***************************************************************************)
(* The syscalls of threads and mutexes (kernel/src/syscalls.c), and what   *)
(* they do to the lists of ready, blocked and finished threads             *)
(* (estructuras.c). gestionar_syscalls serves one syscall of the executing *)
(* thread at a time, and the CPU does nothing else until it has its        *)
(* answer; but threads that wait for an IO, or for a dump, move their      *)
(* thread from one list to another at any moment, and                      *)
(* crear_colas_por_prioridad moves ready threads to the priority queues.   *)
(* Queues of ready threads are sets here: their order is the subject of    *)
(* PlanificadorPrioridades. The end of whole processes is left out.        *)
(***************************************************************************)
EXTENDS Integers, Sequences, FiniteSets, SequencesExt

CONSTANTS
    Hilos, Procesos, Proceso, Tid,    \* as in PlanificadorPrioridades
    Tids,            \* arguments of THREAD_JOIN and THREAD_CANCEL
    Mutexes,         \* the names that programs use
    Nadie,           \* NULL
    Algoritmo,       \* "CMN", which stands for PRIORIDADES too, or "FIFO"
    SalenConMutex,   \* whether a thread may end while it has a mutex
    MaxSalidos       \* bound: length of queue_exit_threads

ASSUME HilosAssumption ==
    /\ Nadie \notin Hilos
    /\ Proceso \in [Hilos -> Procesos] /\ Tid \in [Hilos -> Tids]
    /\ \A g, h \in Hilos :
         Proceso[g] = Proceso[h] /\ Tid[g] = Tid[h] => g = h
    /\ Tids \subseteq Nat
    /\ Algoritmo \in {"CMN", "FIFO"}
    /\ SalenConMutex \in BOOLEAN
    /\ MaxSalidos \in Nat

VARIABLES
    creados,         \* threads that have a tcb
    exec,            \* hilo_en_ejecucion
    soltando,        \* the CPU has been told to stop exec
    listos,          \* queue_ready_threads
    colas,           \* threads in the priority queues
    bloqueados,      \* list_blocked_threads
    salidos,         \* queue_exit_threads
    uniones,         \* uniones[h]: hilo->hilos_bloqueados
    durmiendo,       \* threads with an IO or a dump under way
    despertando,     \* taken from list_blocked_threads, not in READY yet
    mutex_lista,     \* mutexes that exist
    disponible, duenio, cola,    \* of each mutex; cola is bloqueados
    caido,           \* the kernel has read NULL
    terminados,      \* history: threads that have finished
    cancelados,      \* history: the ones of them that another one cancelled
    tomado           \* history: tomado[m], whose LOCK of m has returned

listas == <<listos, colas, bloqueados, salidos>>
mutexes == <<mutex_lista, disponible, duenio, cola, tomado>>
finales == <<terminados, cancelados>>
vars == <<creados, exec, soltando, listas, uniones, durmiendo, despertando,
          mutexes, caido, finales>>

Init ==
    /\ creados = {} /\ exec = Nadie /\ soltando = FALSE
    /\ listos = {} /\ colas = {} /\ bloqueados = {} /\ salidos = <<>>
    /\ uniones = [h \in Hilos |-> <<>>]
    /\ durmiendo = {} /\ despertando = {}
    /\ mutex_lista = {}
    /\ disponible = [m \in Mutexes |-> TRUE]
    /\ duenio = [m \in Mutexes |-> Nadie]
    /\ cola = [m \in Mutexes |-> <<>>]
    /\ caido = FALSE
    /\ terminados = {} /\ cancelados = {} /\ tomado = [m \in Mutexes |-> {}]

-----------------------------------------------------------------------------
(* The rest of the kernel.                                                 *)

\* The long-term planner pushes thread 0 of a process.
AdmiteHilo0(h) ==
    /\ ~caido /\ h \notin creados /\ Tid[h] = 0
    /\ creados' = creados \cup {h} /\ listos' = listos \cup {h}
    /\ UNCHANGED <<exec, soltando, colas, bloqueados, salidos, uniones,
                   durmiendo, despertando, mutexes, caido, finales>>

\* crear_colas_por_prioridad
Encola(h) ==
    /\ ~caido /\ Algoritmo = "CMN" /\ h \in listos
    /\ listos' = listos \ {h} /\ colas' = colas \cup {h}
    /\ UNCHANGED <<creados, exec, soltando, bloqueados, salidos, uniones,
                   durmiendo, despertando, mutexes, caido, finales>>

\* The planner of the algorithm, and poner_en_ejecucion.
Despacha(h) ==
    /\ ~caido /\ exec = Nadie
    /\ h \in IF Algoritmo = "CMN" THEN colas ELSE listos
    /\ exec' = h
    /\ listos' = listos \ {h} /\ colas' = colas \ {h}
    /\ UNCHANGED <<creados, soltando, bloqueados, salidos, uniones, durmiendo,
                   despertando, mutexes, caido, finales>>

\* END_OF_QUANTUM is confirmed.
FinDeQuantum ==
    /\ ~caido /\ Algoritmo = "CMN" /\ exec # Nadie /\ ~soltando
    /\ colas' = colas \cup {exec} /\ exec' = Nadie
    /\ UNCHANGED <<creados, soltando, listos, bloqueados, salidos, uniones,
                   durmiendo, despertando, mutexes, caido, finales>>

\* The CPU confirms the reason of a syscall that blocks.
Suelta ==
    /\ ~caido /\ soltando
    /\ exec' = Nadie /\ soltando' = FALSE
    /\ UNCHANGED <<creados, listas, uniones, durmiendo, despertando, mutexes,
                   caido, finales>>

\* esperar_IO, and dump when memoria answers OK: list_remove_blocked...
TerminaIO(h) ==
    /\ ~caido /\ h \in durmiendo
    /\ durmiendo' = durmiendo \ {h} /\ despertando' = despertando \cup {h}
    /\ bloqueados' = bloqueados \ {h}
    /\ UNCHANGED <<creados, exec, soltando, listos, colas, salidos, uniones,
                   mutexes, caido, finales>>

\* ... and push_queue_ready.
VuelveDeIO(h) ==
    /\ ~caido /\ h \in despertando
    /\ despertando' = despertando \ {h} /\ listos' = listos \cup {h}
    /\ UNCHANGED <<creados, exec, soltando, colas, bloqueados, salidos,
                   uniones, durmiendo, mutexes, caido, finales>>

-----------------------------------------------------------------------------
(* gestionar_syscalls: the syscalls of exec.                               *)

Atiende == ~caido /\ exec # Nadie /\ ~soltando

\* THREAD_CREATE_KERNEL: tids are the positions in tid_list.
CreaHilo(h) ==
    /\ Atiende
    /\ h \notin creados /\ Proceso[h] = Proceso[exec]
    /\ \A g \in Hilos : Proceso[g] = Proceso[h] /\ Tid[g] < Tid[h] =>
                            g \in creados
    /\ creados' = creados \cup {h} /\ listos' = listos \cup {h}
    /\ UNCHANGED <<exec, soltando, colas, bloqueados, salidos, uniones,
                   durmiendo, despertando, mutexes, caido, finales>>

\* buscar_tcb_por_tid_y_pid looks into other lists with each algorithm.
Visibles == IF Algoritmo = "CMN" THEN colas
            ELSE listos \cup bloqueados \cup ToSet(salidos)

Busca(t) ==
    {g \in Visibles : Tid[g] = t /\ Proceso[g] = Proceso[exec]}

\* member_of_thread_queue peeks at the head as many times as the queue has
\* elements, and compares the tid.
EnSalidos(t) == salidos # <<>> /\ Tid[Head(salidos)] = t

\* NOT_BLOCK_THREAD_JOIN
NoEspera(t) == Busca(t) = {} \/ EnSalidos(t)

JoinNoBloquea(t) == Atiende /\ NoEspera(t) /\ UNCHANGED vars

\* Mutant: the caller does not enter the list of the thread it waits for.
JoinSinAnotar(t) ==
    /\ Atiende
    /\ ~NoEspera(t)
    /\ bloqueados' = bloqueados \cup {exec}
    /\ soltando' = TRUE
    /\ UNCHANGED <<creados, exec, listos, colas, salidos, uniones, durmiendo,
                   despertando, mutexes, caido, finales>>

\* BLOCK_THREAD_JOIN
JoinBloquea(t) ==
    /\ Atiende
    /\ ~EnSalidos(t)
    /\ \E g \in Busca(t) : uniones' = [uniones EXCEPT ![g] = Append(@, exec)]
    /\ bloqueados' = bloqueados \cup {exec}
    /\ soltando' = TRUE
    /\ UNCHANGED <<creados, exec, listos, colas, salidos, durmiendo,
                   despertando, mutexes, caido, finales>>

\* Whoever the end of h wakes up: liberar_tids_bloqueados and
\* liberar_mutex_bloqueados.
SusMutexes(h) == {m \in mutex_lista : duenio[m] = h}

Liberados(h) ==
    ToSet(uniones[h]) \cup UNION {ToSet(cola[m]) : m \in SusMutexes(h)}

\* Mutant: whoever wakes up stays in list_blocked_threads.
TerminaSinQuitar(h) ==
    /\ SalenConMutex \/ \A m \in Mutexes : h \notin tomado[m]
    /\ Len(salidos) < MaxSalidos
    /\ salidos' = Append(salidos, h)
    /\ listos' = listos \cup Liberados(h)
    /\ uniones' = [uniones EXCEPT ![h] = <<>>]
    /\ terminados' = terminados \cup {h}
    /\ UNCHANGED <<bloqueados, disponible, cola, tomado>>

\* push_queue_exit, liberar_tids_bloqueados, liberar_mutex_bloqueados: every
\* waiting thread goes to READY, and each mutex becomes available and keeps
\* its hilo_duenio.
Termina(h) ==
    /\ SalenConMutex \/ \A m \in Mutexes : h \notin tomado[m]
    /\ Len(salidos) < MaxSalidos
    /\ salidos' = Append(salidos, h)
    /\ bloqueados' = bloqueados \ Liberados(h)
    /\ listos' = listos \cup Liberados(h)
    /\ uniones' = [uniones EXCEPT ![h] = <<>>]
    /\ disponible' = [m \in Mutexes |->
                        m \in SusMutexes(h) \/ disponible[m]]
    /\ cola' = [m \in Mutexes |->
                  IF m \in SusMutexes(h) THEN <<>> ELSE cola[m]]
    /\ tomado' = [m \in Mutexes |->
                    IF m \in SusMutexes(h)
                    THEN (tomado[m] \ {h}) \cup ToSet(cola[m])
                    ELSE tomado[m] \ {h}]
    /\ terminados' = terminados \cup {h}

\* THREAD_EXIT_KERNEL
Exit ==
    /\ Atiende
    /\ Termina(exec)
    /\ soltando' = TRUE
    /\ UNCHANGED <<creados, exec, colas, durmiendo, despertando, mutex_lista,
                   duenio, cancelados, caido>>

\* THREAD_CANCEL_KERNEL of a thread that is not found: hilo->tid of NULL.
CancelInexistente(t) ==
    /\ Atiende
    /\ Busca(t) = {}
    /\ caido' = TRUE
    /\ UNCHANGED <<creados, exec, soltando, listas, uniones, durmiendo,
                   despertando, mutexes, finales>>

\* It stays in the lists where it was.
Cancel(t) ==
    /\ Atiende
    /\ ~EnSalidos(t)
    /\ \E g \in Busca(t) :
         /\ Termina(g)
         /\ soltando' = (g = exec)
         /\ cancelados' = cancelados \cup {g}
    /\ UNCHANGED <<creados, exec, colas, durmiendo, despertando, mutex_lista,
                   duenio, caido>>

MutexCreate(m) ==
    /\ Atiende /\ m \notin mutex_lista
    /\ mutex_lista' = mutex_lista \cup {m}
    /\ UNCHANGED <<creados, exec, soltando, listas, uniones, durmiendo,
                   despertando, disponible, duenio, cola, tomado, caido,
                   finales>>

\* MUTEX_LOCK_KERNEL, first branch.
Lock(m) ==
    /\ Atiende /\ m \in mutex_lista /\ disponible[m]
    /\ disponible' = [disponible EXCEPT ![m] = FALSE]
    /\ duenio' = [duenio EXCEPT ![m] = exec]
    /\ tomado' = [tomado EXCEPT ![m] = @ \cup {exec}]
    /\ UNCHANGED <<creados, exec, soltando, listas, uniones, durmiendo,
                   despertando, mutex_lista, cola, caido, finales>>

\* Second branch. A thread that locks twice waits for itself.
LockBloquea(m) ==
    /\ Atiende /\ m \in mutex_lista /\ ~disponible[m]
    /\ cola' = [cola EXCEPT ![m] = Append(@, exec)]
    /\ bloqueados' = bloqueados \cup {exec}
    /\ soltando' = TRUE
    /\ UNCHANGED <<creados, exec, listos, colas, salidos, uniones, durmiendo,
                   despertando, mutex_lista, disponible, duenio, tomado,
                   caido, finales>>

\* LOCK or UNLOCK of an unknown mutex ends the thread.
MutexInexistente(m) ==
    /\ Atiende /\ m \notin mutex_lista
    /\ Termina(exec)
    /\ soltando' = TRUE
    /\ UNCHANGED <<creados, exec, colas, durmiendo, despertando, mutex_lista,
                   duenio, cancelados, caido>>

EsSuDuenio(m) == m \in mutex_lista /\ ~disponible[m] /\ duenio[m] = exec

\* Mutant: wakes the first one up, and makes the mutex available.
UnlockSinPasar(m) ==
    /\ Atiende /\ EsSuDuenio(m)
    /\ IF cola[m] = <<>>
       THEN UNCHANGED <<listos, bloqueados, cola>>
       ELSE /\ cola' = [cola EXCEPT ![m] = Tail(@)]
            /\ bloqueados' = bloqueados \ {Head(cola[m])}
            /\ listos' = listos \cup {Head(cola[m])}
    /\ disponible' = [disponible EXCEPT ![m] = TRUE]
    /\ duenio' = [duenio EXCEPT ![m] = Nadie]
    /\ tomado' = [tomado EXCEPT ![m] = (@ \ {exec}) \cup
                    (IF cola[m] = <<>> THEN {} ELSE {Head(cola[m])})]
    /\ UNCHANGED <<creados, exec, soltando, colas, salidos, uniones,
                   durmiendo, despertando, mutex_lista, caido, finales>>

\* MUTEX_UNLOCK_KERNEL hands the mutex over to the first that waits.
Unlock(m) ==
    /\ Atiende /\ EsSuDuenio(m)
    /\ IF cola[m] = <<>>
       THEN /\ disponible' = [disponible EXCEPT ![m] = TRUE]
            /\ duenio' = [duenio EXCEPT ![m] = Nadie]
            /\ tomado' = [tomado EXCEPT ![m] = @ \ {exec}]
            /\ UNCHANGED <<listos, bloqueados, cola>>
       ELSE /\ cola' = [cola EXCEPT ![m] = Tail(@)]
            /\ bloqueados' = bloqueados \ {Head(cola[m])}
            /\ listos' = listos \cup {Head(cola[m])}
            /\ duenio' = [duenio EXCEPT ![m] = Head(cola[m])]
            /\ tomado' = [tomado EXCEPT ![m] =
                            (@ \ {exec}) \cup {Head(cola[m])}]
            /\ UNCHANGED disponible
    /\ UNCHANGED <<creados, exec, soltando, colas, salidos, uniones,
                   durmiendo, despertando, mutex_lista, caido, finales>>

\* IO_KERNEL, DUMP_MEMORY_KERNEL
IO ==
    /\ Atiende
    /\ bloqueados' = bloqueados \cup {exec}
    /\ durmiendo' = durmiendo \cup {exec}
    /\ soltando' = TRUE
    /\ UNCHANGED <<creados, exec, listos, colas, salidos, uniones,
                   despertando, mutexes, caido, finales>>

-----------------------------------------------------------------------------
SyscallsDeHilos ==
    \/ Exit \/ IO
    \/ \E h \in Hilos : CreaHilo(h)
    \/ \E t \in Tids : \/ JoinNoBloquea(t) \/ JoinBloquea(t)
                       \/ CancelInexistente(t) \/ Cancel(t)

SyscallsDeMutexes ==
    \E m \in Mutexes : \/ MutexCreate(m) \/ Lock(m) \/ LockBloquea(m)
                       \/ MutexInexistente(m) \/ Unlock(m)

Next ==
    \/ SyscallsDeHilos \/ SyscallsDeMutexes
    \/ Suelta \/ FinDeQuantum
    \/ \E h \in Hilos : \/ AdmiteHilo0(h) \/ Encola(h) \/ Despacha(h)
                        \/ TerminaIO(h) \/ VuelveDeIO(h)

Spec == Init /\ [][Next]_vars

-----------------------------------------------------------------------------
(* Properties.                                                             *)

\* Every variable has its type.
TypeOK ==
    /\ creados \subseteq Hilos /\ exec \in Hilos \cup {Nadie}
    /\ soltando \in BOOLEAN
    /\ listos \subseteq Hilos /\ colas \subseteq Hilos
    /\ bloqueados \subseteq Hilos /\ salidos \in Seq(Hilos)
    /\ uniones \in [Hilos -> Seq(Hilos)]
    /\ durmiendo \subseteq Hilos /\ despertando \subseteq Hilos
    /\ mutex_lista \subseteq Mutexes
    /\ disponible \in [Mutexes -> BOOLEAN]
    /\ duenio \in [Mutexes -> Hilos \cup {Nadie}]
    /\ cola \in [Mutexes -> Seq(Hilos)]
    /\ caido \in BOOLEAN
    /\ cancelados \subseteq terminados /\ terminados \subseteq Hilos
    /\ tomado \in [Mutexes -> SUBSET Hilos]

Uno(condicion) == IF condicion THEN 1 ELSE 0

\* Every thread is in one state: ready in READY or in a priority queue,
\* blocked, on its way back from an IO, executing, or finished. The thread
\* the CPU has been told to stop is where its syscall put it, even when its
\* IO has ended before the CPU confirmed. (THREAD_CANCEL leaves threads where
\* they were.)
UnSoloEstado ==
    \A h \in creados \ cancelados :
        Uno(h \in listos) + Uno(h \in colas) + Uno(h \in bloqueados)
        + Uno(h \in despertando) + Uno(exec = h /\ ~soltando)
        + Uno(h \in terminados) = 1

\* "Asignar hilo al mutex o bloquear hilo" (syscalls.c 181): of the programs
\* that have asked for a mutex, only one goes on, the one the kernel takes for
\* its owner.
ExclusionMutua ==
    \A m \in Mutexes :
        tomado[m] = IF disponible[m] THEN {} ELSE {duenio[m]}

\* The threads that may still go on, now or when they are woken up.
Siguen ==
    listos \cup colas \cup bloqueados \cup despertando
        \cup (IF soltando THEN {} ELSE {exec} \ {Nadie})

\* A blocked thread has somebody who will wake it up: an IO, the owner of the
\* mutex it waits for, or the thread it waits for, which may still go on.
HayQuienDespierte ==
    \A h \in bloqueados :
        \/ h \in durmiendo
        \/ \E m \in mutex_lista : /\ ~disponible[m] /\ duenio[m] \in Siguen
                                  /\ h \in ToSet(cola[m])
        \/ \E g \in Siguen : h \in ToSet(uniones[g])

\* "Bloquea al hilo que invoca la syscall hasta que el hilo con el TID pasado
\* por parametro finalice." (syscalls.c 58)
JoinEspera ==
    \A t \in Tids : Atiende /\ NoEspera(t) =>
        {g \in creados \ {exec} : Tid[g] = t /\ Proceso[g] = Proceso[exec]}
            \subseteq terminados

\* "finalizarlo pasando al mismo al estado EXIT" (syscalls.c 86): a thread
\* that has finished does not execute again.
TerminadoNoEjecuta == exec \in terminados => soltando

\* "En caso de que el TID pasado por parametro no exista o ya haya finalizado,
\* esta syscall no hace nada." (syscalls.c 87)
CancelNoHaceNada == [][\A t \in Tids : ~CancelInexistente(t)]_vars

\* The mutexes do what MutexConCola promises, in the eyes of the programs.
Promesa == INSTANCE MutexConCola WITH
    Libre <- Nadie,
    tiene <- [m \in Mutexes |-> IF tomado[m] = {} THEN Nadie
                                ELSE CHOOSE h \in tomado[m] : TRUE]

CumplePromesa == Promesa!Spec
=============================================================================
