---------------------------- MODULE ProtocoloCPU ----------------------------
(***************************************************************************)
(* How kernel and CPU hand a thread to each other, with CMN                *)
(* (kernel/src/syscalls.c, interrupciones.c, planificacion.c;              *)
(* cpu/src/ejecucion_hilos.c, cpu_interrupt.c, cpu_dispatch.c).            *)
(* Two sockets join them. On dispatch the kernel sends the thread to       *)
(* execute, the CPU sends syscalls and the kernel answers OK. On interrupt *)
(* the kernel says how each blocking syscall ended and when a quantum is   *)
(* over, and the CPU confirms that it has stopped the thread.              *)
(* In the CPU the instruction cycle and the interrupt thread N share three *)
(* flags and a semaphore. In the kernel run P, the planner, which starts a *)
(* timer for each dispatch; the timers; Q, interrumpir_por_fin_quantum; S, *)
(* gestionar_syscalls; I, recibir_interrupciones_confirmadas; and the      *)
(* threads that wait for dumps. sem_en_syscall keeps timers from comparing *)
(* while a syscall that may block is under way.                            *)
(* A syscall is abstracted to how the protocol tells it apart; which ready *)
(* thread P takes is the subject of PlanificadorPrioridades.               *)
(***************************************************************************)
EXTENDS Integers, Sequences, FiniteSets, Functions

CONSTANTS
    Hilos,
    Nadie,               \* NULL
    Primero,             \* the thread that main creates
    SyscallsUsadas,      \* kinds of syscall that the programs make
    DumpsFallan,         \* when memoria may answer ERROR to a dump: "no",
                         \* "sin_ejecutar" while no thread executes, or "si"
    QuantumCorto,        \* whether a quantum may end before the CPU has even
                         \* read the thread from dispatch
    MaxTemporizadores,   \* bound: see PocosTemporizadores
    MaxConfirmaciones    \* bound: confirmations I has not read yet

\* crea: PROCESS_CREATE, THREAD_CREATE, MUTEX_CREATE, and MUTEX_UNLOCK of a
\* mutex that exists. pregunta: THREAD_JOIN, THREAD_CANCEL, MUTEX_LOCK, where
\* the kernel decides. unlock_inexistente: MUTEX_UNLOCK of an unknown name.
TiposSyscall == {"crea", "pregunta", "io", "dump", "exit", "process_exit",
                 "unlock_inexistente"}

ASSUME ProtocoloAssumption ==
    /\ Nadie \notin Hilos /\ Primero \in Hilos /\ "OK" \notin Hilos
    /\ SyscallsUsadas \subseteq TiposSyscall
    /\ DumpsFallan \in {"no", "sin_ejecutar", "si"} /\ QuantumCorto \in BOOLEAN
    /\ MaxTemporizadores \in Nat /\ MaxConfirmaciones \in Nat

VARIABLES
    despacho,            \* dispatch socket, kernel to CPU
    pedido,              \* dispatch socket, CPU to kernel
    interrupcion,        \* interrupt socket, kernel to CPU
    confirmacion,        \* interrupt socket, CPU to kernel
    estado,              \* estado[h]: where the kernel has h
    hilo_en_ejecucion,
    cpu_libre,           \* semaphore sem_CPU_libre_para_hilo
    sem_en_syscall,      \* semaphore
    hilo_interrumpido,   \* semaphore
    bloqueo_por_dump,    \* semaphore
    dumps,               \* threads whose dump is under way
    dormidos,            \* dormidos[h]: timers of h before wait_sem
    comparando,          \* comparando[h]: timers of h that hold sem_en_syscall
    hiloP,               \* thread P has dispatched without a timer yet
    pcS,                 \* control point of S
    pcCPU,               \* control point of the instruction cycle
    hilo_ejecutar,
    hay_syscall_bloqueante, hay_segmentation_fault, hay_interrupcion,
    interrupcion_syscall,
    llego,               \* semaphore llego_la_interrupcion
    caido                \* a program has read NULL or given up

sockets == <<despacho, pedido, interrupcion, confirmacion>>
turno == <<estado, hilo_en_ejecucion, cpu_libre>>
quantum == <<hilo_interrumpido, dormidos, comparando, hiloP>>
deDump == <<bloqueo_por_dump, dumps>>
banderas == <<hay_syscall_bloqueante, hay_segmentation_fault,
              hay_interrupcion, interrupcion_syscall, llego>>
deKernel == <<turno, sem_en_syscall, quantum, deDump, pcS>>
deCPU == <<pcCPU, hilo_ejecutar, banderas>>
vars == <<sockets, deKernel, deCPU, caido>>

Estados == {"inexistente", "listo", "exec", "bloqueado", "exit"}

\* Reasons on the interrupt socket. sigue: NOT_BLOCK_THREAD_JOIN,
\* NOT_BLOCK_BY_MUTEX, NOT_END_BY_THREAD_CANCEL. bloqueo: BLOCK_THREAD_JOIN,
\* BLOCK_BY_MUTEX, BLOCK_IO, END_BY_THREAD_CANCEL, END_BY_THREAD_EXIT.
Bloqueantes == {"bloqueo", "dump", "fin_proceso"}
Motivos == Bloqueantes \cup {"sigue", "quantum", "segfault"}

\* After which the CPU goes back to wait for a thread.
Liberan == Motivos \ {"sigue"}

\* Syscalls for which execute sets hay_syscall_bloqueante itself.
Marcadas == TiposSyscall \ {"crea", "unlock_inexistente"}

\* How many elements of the sequence q are in M.
Veces(M, q) == Cardinality({i \in 1 .. Len(q) : q[i] \in M})

\* Once main has created its process and the long-term planner let it in.
Init ==
    /\ despacho = <<>> /\ pedido = <<>>
    /\ interrupcion = <<>> /\ confirmacion = <<>>
    /\ estado = [h \in Hilos |-> IF h = Primero THEN "listo"
                                               ELSE "inexistente"]
    /\ hilo_en_ejecucion = Nadie /\ cpu_libre = 1
    /\ sem_en_syscall = 1 /\ hilo_interrumpido = 0
    /\ bloqueo_por_dump = 0 /\ dumps = {}
    /\ dormidos = [h \in Hilos |-> 0] /\ comparando = [h \in Hilos |-> 0]
    /\ hiloP = Nadie
    /\ pcS = "espera"
    /\ pcCPU = "recibe" /\ hilo_ejecutar = Nadie
    /\ hay_syscall_bloqueante = FALSE /\ hay_segmentation_fault = FALSE
    /\ hay_interrupcion = FALSE
    /\ interrupcion_syscall = "sigue" /\ llego = 0
    /\ caido = FALSE

-----------------------------------------------------------------------------
(* P: poner_en_ejecucion and planificar_RR.                                *)

\* MaxTemporizadores: timers that sleep, compare or have sent their notice
\* and N has not read it, when a thread is dispatched.
PocosTemporizadores ==
    FoldFunction(+, 0, dormidos) + FoldFunction(+, 0, comparando)
        + hilo_interrumpido + Veces({"quantum"}, interrupcion)
            < MaxTemporizadores

PEjecuta(h) ==
    /\ ~caido /\ PocosTemporizadores
    /\ hiloP = Nadie /\ cpu_libre > 0 /\ estado[h] = "listo"
    /\ cpu_libre' = cpu_libre - 1
    /\ hilo_en_ejecucion' = h
    /\ estado' = [estado EXCEPT ![h] = "exec"]
    /\ despacho' = Append(despacho, h)
    /\ hiloP' = h
    /\ UNCHANGED <<pedido, interrupcion, confirmacion, sem_en_syscall,
                   hilo_interrumpido, dormidos, comparando, deDump, pcS,
                   deCPU, caido>>

\* pthread_create of quantum_interrupt: the thread may have stopped already.
PTemporizador ==
    /\ ~caido /\ hiloP # Nadie
    /\ dormidos' = [dormidos EXCEPT ![hiloP] = @ + 1]
    /\ hiloP' = Nadie
    /\ UNCHANGED <<sockets, turno, sem_en_syscall, hilo_interrumpido,
                   comparando, deDump, pcS, deCPU, caido>>

(* The timers: quantum_interrupt.                                          *)

\* QUANTUM is 25 ms at least in the configurations.
PasoElQuantum(h) == QuantumCorto \/ Veces({h}, despacho) = 0

\* usleep ends, and wait_sem(&sem_en_syscall).
TDespierta(h) ==
    /\ ~caido /\ dormidos[h] > 0 /\ PasoElQuantum(h)
    /\ sem_en_syscall > 0
    /\ sem_en_syscall' = sem_en_syscall - 1
    /\ dormidos' = [dormidos EXCEPT ![h] = @ - 1]
    /\ comparando' = [comparando EXCEPT ![h] = @ + 1]
    /\ UNCHANGED <<sockets, turno, hilo_interrumpido, hiloP, deDump, pcS,
                   deCPU, caido>>

TCompara(h) ==
    /\ ~caido /\ comparando[h] > 0
    /\ comparando' = [comparando EXCEPT ![h] = @ - 1]
    /\ sem_en_syscall' = sem_en_syscall + 1
    /\ hilo_interrumpido' = IF hilo_en_ejecucion = h
                            THEN hilo_interrumpido + 1 ELSE hilo_interrumpido
    /\ UNCHANGED <<sockets, turno, dormidos, hiloP, deDump, pcS, deCPU, caido>>

\* Q: interrumpir_por_fin_quantum reads hilo_en_ejecucion again.
QInforma ==
    /\ ~caido /\ hilo_interrumpido > 0
    /\ hilo_interrumpido' = hilo_interrumpido - 1
    /\ IF hilo_en_ejecucion = Nadie
       THEN caido' = TRUE /\ UNCHANGED interrupcion
       ELSE interrupcion' = Append(interrupcion, "quantum") /\ UNCHANGED caido
    /\ UNCHANGED <<despacho, pedido, confirmacion, turno, sem_en_syscall,
                   dormidos, comparando, hiloP, deDump, pcS, deCPU>>

-----------------------------------------------------------------------------
(* S: gestionar_syscalls.                                                  *)

\* recibir_paquete_syscall, then wait_sem(&sem_en_syscall), then the log line
\* that reads hilo_en_ejecucion.
SEspera ==
    /\ ~caido /\ pcS = "espera"
    /\ pedido # <<>> /\ sem_en_syscall > 0
    /\ sem_en_syscall' = sem_en_syscall - 1
    /\ pcS' = "atiende"
    /\ caido' = (hilo_en_ejecucion = Nadie)
    /\ UNCHANGED <<sockets, turno, quantum, deDump, deCPU>>

\* What each handler leaves: the reason it sends, and the new state of the
\* thread. The CPU cannot confirm before the handler ends, since I waits for
\* mutex_hilo_en_ejecucion.
Respuestas(s) ==
    CASE s = "pregunta" -> {<<"sigue", "exec">>, <<"bloqueo", "bloqueado">>,
                            <<"bloqueo", "exit">>}
      [] s = "io" -> {<<"bloqueo", "bloqueado">>}
      [] s = "dump" -> {<<"dump", "bloqueado">>}
      [] s \in {"exit", "unlock_inexistente"} -> {<<"bloqueo", "exit">>}
      [] s = "process_exit" -> {<<"fin_proceso", "exec">>}
      [] OTHER -> {}

\* Mutant: a lock that is granted does not post sem_en_syscall.
SAtiendeSinSignal ==
    /\ ~caido /\ pcS = "atiende"
    /\ \E r \in Respuestas(pedido[1]) :
         /\ interrupcion' = Append(interrupcion, r[1])
         /\ estado' = [estado EXCEPT ![hilo_en_ejecucion] = r[2]]
         /\ dumps' = IF r[1] = "dump"
                      THEN dumps \cup ({hilo_en_ejecucion} \ {Nadie})
                      ELSE dumps
    /\ pcS' = "confirma"
    /\ UNCHANGED <<despacho, pedido, confirmacion, hilo_en_ejecucion,
                   cpu_libre, sem_en_syscall, quantum, bloqueo_por_dump,
                   deCPU, caido>>

\* The handlers that call enviar_syscall_bloqueante. The ones that do not
\* block post sem_en_syscall; for the rest I does. All of them read
\* hilo_en_ejecucion or process_to_execute.
SAtiende ==
    /\ ~caido /\ pcS = "atiende"
    /\ caido' = (hilo_en_ejecucion = Nadie)
    /\ \E r \in Respuestas(pedido[1]) :
         /\ interrupcion' = Append(interrupcion, r[1])
         /\ estado' = [estado EXCEPT ![hilo_en_ejecucion] = r[2]]
         /\ sem_en_syscall' = IF r[1] = "sigue" THEN sem_en_syscall + 1
                                                ELSE sem_en_syscall
         /\ dumps' = IF r[1] = "dump"
                      THEN dumps \cup ({hilo_en_ejecucion} \ {Nadie})
                      ELSE dumps
    /\ pcS' = "confirma"
    /\ UNCHANGED <<despacho, pedido, confirmacion, hilo_en_ejecucion,
                   cpu_libre, quantum, bloqueo_por_dump, deCPU>>

\* The other handlers post it first. A new thread may get to READY.
SCrea ==
    /\ ~caido /\ pcS = "atiende" /\ pedido[1] = "crea"
    /\ sem_en_syscall' = sem_en_syscall + 1
    /\ \/ UNCHANGED estado
       \/ \E h \in Hilos : /\ estado[h] = "inexistente"
                           /\ estado' = [estado EXCEPT ![h] = "listo"]
    /\ pcS' = "confirma"
    /\ UNCHANGED <<sockets, hilo_en_ejecucion, cpu_libre, quantum, deDump,
                   deCPU, caido>>

\* enviar_confirmacion_syscall
SConfirma ==
    /\ ~caido /\ pcS = "confirma"
    /\ despacho' = Append(despacho, "OK")
    /\ pedido' = Tail(pedido)
    /\ pcS' = "espera"
    /\ UNCHANGED <<interrupcion, confirmacion, turno, sem_en_syscall, quantum,
                   deDump, deCPU, caido>>

-----------------------------------------------------------------------------
(* I: recibir_interrupciones_confirmadas.                                  *)

\* The reason that is handled, and what every branch leaves alone.
IRecibe(m) ==
    /\ ~caido /\ confirmacion # <<>> /\ confirmacion[1] = m
    /\ confirmacion' = Tail(confirmacion)
    /\ UNCHANGED <<despacho, pedido, interrupcion, quantum, dumps, pcS, deCPU>>

INoBloquea ==
    /\ IRecibe("sigue")
    /\ UNCHANGED <<turno, sem_en_syscall, bloqueo_por_dump, caido>>

\* agregar_a_cola_prioridad reads hilo_en_ejecucion.
IQuantum ==
    /\ IRecibe("quantum")
    /\ IF hilo_en_ejecucion = Nadie
       THEN caido' = TRUE /\ UNCHANGED turno
       ELSE /\ estado' = [estado EXCEPT ![hilo_en_ejecucion] = "listo"]
            /\ hilo_en_ejecucion' = Nadie
            /\ cpu_libre' = cpu_libre + 1
            /\ UNCHANGED caido
    /\ UNCHANGED <<sem_en_syscall, bloqueo_por_dump>>

\* Mutant: the thread that blocks is still hilo_en_ejecucion.
IBloqueoSinLimpiar ==
    /\ \E m \in {"bloqueo", "dump"} :
         /\ IRecibe(m)
         /\ bloqueo_por_dump' = IF m = "dump" THEN bloqueo_por_dump + 1
                                              ELSE bloqueo_por_dump
    /\ cpu_libre' = cpu_libre + 1
    /\ sem_en_syscall' = sem_en_syscall + 1
    /\ UNCHANGED <<estado, hilo_en_ejecucion, caido>>

IBloqueo ==
    /\ \E m \in {"bloqueo", "dump"} :
         /\ IRecibe(m)
         /\ bloqueo_por_dump' = IF m = "dump" THEN bloqueo_por_dump + 1
                                              ELSE bloqueo_por_dump
    /\ hilo_en_ejecucion' = Nadie
    /\ cpu_libre' = cpu_libre + 1
    /\ sem_en_syscall' = sem_en_syscall + 1
    /\ UNCHANGED <<estado, caido>>

\* finalizacion_procesos(process_to_execute): some ready threads leave with
\* the one that executes (which ones, in PlanificadorPrioridades).
\* END_BY_SEGMENTATION_FAULT is no syscall.
IFinProceso ==
    /\ \E m \in {"fin_proceso", "segfault"} :
         /\ IRecibe(m)
         /\ IF hilo_en_ejecucion = Nadie
            THEN caido' = TRUE /\ UNCHANGED <<turno, sem_en_syscall>>
            ELSE /\ \E S \in SUBSET {h \in Hilos : estado[h] = "listo"} :
                      estado' = [h \in Hilos |->
                          IF h = hilo_en_ejecucion \/ h \in S THEN "exit"
                                                              ELSE estado[h]]
                 /\ hilo_en_ejecucion' = Nadie
                 /\ cpu_libre' = cpu_libre + 1
                 /\ sem_en_syscall' = IF m = "fin_proceso"
                                      THEN sem_en_syscall + 1
                                      ELSE sem_en_syscall
                 /\ UNCHANGED caido
    /\ UNCHANGED bloqueo_por_dump

(* The threads that wake threads up.                                       *)

\* End of an IO, of a join or of the wait for a mutex, perhaps before I has
\* taken the thread off the CPU.
Despierta(h) ==
    /\ ~caido /\ estado[h] = "bloqueado" /\ h \notin dumps
    /\ estado' = [estado EXCEPT ![h] = "listo"]
    /\ UNCHANGED <<sockets, hilo_en_ejecucion, cpu_libre, sem_en_syscall,
                   quantum, deDump, pcS, deCPU, caido>>

\* dump, after the answer of memoria: wait_sem(&bloqueo_por_dump).
DumpTermina(h) ==
    /\ ~caido /\ h \in dumps /\ bloqueo_por_dump > 0
    /\ bloqueo_por_dump' = bloqueo_por_dump - 1
    /\ dumps' = dumps \ {h}
    /\ estado' = [estado EXCEPT ![h] = "listo"]
    /\ UNCHANGED <<sockets, hilo_en_ejecucion, cpu_libre, sem_en_syscall,
                   quantum, pcS, deCPU, caido>>

\* memoria answers ERROR. If the process executes (all threads are of one
\* here) the CPU is told to end it, as if it had asked for it; if not,
\* finalizacion_procesos at once. The thread stays among the blocked ones and
\* nobody wakes it up, which is "exit" here.
DumpFalla(h) ==
    /\ ~caido /\ h \in dumps /\ bloqueo_por_dump > 0
    /\ \/ DumpsFallan = "si"
       \/ DumpsFallan = "sin_ejecutar" /\ hilo_en_ejecucion = Nadie
    /\ bloqueo_por_dump' = bloqueo_por_dump - 1
    /\ dumps' = dumps \ {h}
    /\ IF hilo_en_ejecucion # Nadie
       THEN /\ interrupcion' = Append(interrupcion, "fin_proceso")
            /\ estado' = [estado EXCEPT ![h] = "exit"]
       ELSE /\ \E S \in SUBSET {g \in Hilos : estado[g] = "listo"} :
                 estado' = [g \in Hilos |-> IF g = h \/ g \in S THEN "exit"
                                                                ELSE estado[g]]
            /\ UNCHANGED interrupcion
    /\ UNCHANGED <<despacho, pedido, confirmacion, hilo_en_ejecucion,
                   cpu_libre, sem_en_syscall, quantum, pcS, deCPU, caido>>

-----------------------------------------------------------------------------
(* N: atender_cpu_interrupt.                                               *)

NSyscall ==
    /\ ~caido /\ interrupcion # <<>> /\ interrupcion[1] # "quantum"
    /\ interrupcion_syscall' = interrupcion[1]
    /\ interrupcion' = Tail(interrupcion)
    /\ hay_syscall_bloqueante' = TRUE
    /\ llego' = llego + 1
    /\ UNCHANGED <<despacho, pedido, confirmacion, deKernel, pcCPU,
                   hilo_ejecutar, hay_segmentation_fault, hay_interrupcion,
                   caido>>

NQuantum ==
    /\ ~caido /\ interrupcion # <<>> /\ interrupcion[1] = "quantum"
    /\ interrupcion' = Tail(interrupcion)
    /\ hay_interrupcion' = TRUE
    /\ UNCHANGED <<despacho, pedido, confirmacion, deKernel, pcCPU,
                   hilo_ejecutar, hay_syscall_bloqueante,
                   hay_segmentation_fault, interrupcion_syscall, llego, caido>>

-----------------------------------------------------------------------------
(* The instruction cycle: ejecutar_hilo, execute and check_interrupt.      *)

PasoCPU(desde, hasta) ==
    /\ ~caido /\ pcCPU = desde /\ pcCPU' = hasta
    /\ UNCHANGED <<deKernel, interrupcion>>

\* atender_cpu_dispatch. Anything but a thread ends the CPU.
CPURecibe ==
    /\ PasoCPU("recibe", "ejecuta")
    /\ despacho # <<>>
    /\ despacho' = Tail(despacho)
    /\ hilo_ejecutar' = despacho[1]
    /\ caido' = (despacho[1] = "OK")
    /\ UNCHANGED <<pedido, confirmacion, banderas>>

\* An instruction that is not a syscall; READ_MEM and WRITE_MEM may fault.
CPUInstruccion ==
    /\ PasoCPU("ejecuta", "chequea")
    /\ hay_segmentation_fault' \in BOOLEAN
    /\ UNCHANGED <<despacho, pedido, confirmacion, hilo_ejecutar,
                   hay_syscall_bloqueante, hay_interrupcion,
                   interrupcion_syscall, llego, caido>>

\* Mutant: goes on without the answer after a syscall that does not block.
CPUSyscallSinRespuesta(s) ==
    /\ PasoCPU("ejecuta", IF s \in Marcadas THEN "marca" ELSE "chequea")
    /\ pedido' = Append(pedido, s)
    /\ UNCHANGED <<despacho, confirmacion, hilo_ejecutar, banderas, caido>>

CPUSyscall(s) ==
    /\ PasoCPU("ejecuta", IF s \in Marcadas THEN "marca" ELSE "espera_ok")
    /\ pedido' = Append(pedido, s)
    /\ UNCHANGED <<despacho, confirmacion, hilo_ejecutar, banderas, caido>>

CPUMarca ==
    /\ PasoCPU("marca", "espera_ok")
    /\ hay_syscall_bloqueante' = TRUE
    /\ UNCHANGED <<despacho, pedido, confirmacion, hilo_ejecutar,
                   hay_segmentation_fault, hay_interrupcion,
                   interrupcion_syscall, llego, caido>>

\* recibir_confirmacion_syscall: anything but OK ends the CPU.
CPURecibeOK ==
    /\ PasoCPU("espera_ok", "chequea")
    /\ despacho # <<>>
    /\ despacho' = Tail(despacho)
    /\ caido' = (despacho[1] # "OK")
    /\ UNCHANGED <<pedido, confirmacion, hilo_ejecutar, banderas>>

TrasSyscall == IF hay_segmentation_fault THEN "segfault" ELSE "mira_quantum"

\* The copies of hay_syscall_bloqueante and hay_segmentation_fault.
CPUChequea ==
    /\ PasoCPU("chequea", IF hay_syscall_bloqueante THEN "espera_aviso"
                                                    ELSE TrasSyscall)
    /\ UNCHANGED <<despacho, pedido, confirmacion, hilo_ejecutar, banderas,
                   caido>>

\* Mutant: takes every reason for one that does not block.
CPUEsperaAvisoSinMirar ==
    /\ PasoCPU("espera_aviso", "confirma_sigue")
    /\ llego > 0
    /\ llego' = llego - 1
    /\ UNCHANGED <<despacho, pedido, confirmacion, hilo_ejecutar,
                   hay_syscall_bloqueante, hay_segmentation_fault,
                   hay_interrupcion, interrupcion_syscall, caido>>

\* sem_wait(&llego_la_interrupcion), and the test of the reason.
CPUEsperaAviso ==
    /\ PasoCPU("espera_aviso", IF interrupcion_syscall = "sigue"
                               THEN "confirma_sigue" ELSE "confirma")
    /\ llego > 0
    /\ llego' = llego - 1
    /\ UNCHANGED <<despacho, pedido, confirmacion, hilo_ejecutar,
                   hay_syscall_bloqueante, hay_segmentation_fault,
                   hay_interrupcion, interrupcion_syscall, caido>>

CPUConfirma ==
    /\ PasoCPU("confirma", "baja_interrupcion")
    /\ confirmacion' = Append(confirmacion, interrupcion_syscall)
    /\ hay_syscall_bloqueante' = FALSE
    /\ UNCHANGED <<despacho, pedido, hilo_ejecutar, hay_segmentation_fault,
                   hay_interrupcion, interrupcion_syscall, llego, caido>>

\* Without the lock; the unlock that follows changes nothing in the build.
CPUConfirmaSigue ==
    /\ PasoCPU("confirma_sigue", "baja_syscall")
    /\ Len(confirmacion) < MaxConfirmaciones
    /\ confirmacion' = Append(confirmacion, interrupcion_syscall)
    /\ UNCHANGED <<despacho, pedido, hilo_ejecutar, banderas, caido>>

\* Mutant: lowers hay_interrupcion as well, as the branch that blocks does.
CPUBajaTodo ==
    /\ PasoCPU("baja_syscall", TrasSyscall)
    /\ hay_syscall_bloqueante' = FALSE /\ hay_interrupcion' = FALSE
    /\ UNCHANGED <<despacho, pedido, confirmacion, hilo_ejecutar,
                   hay_segmentation_fault, interrupcion_syscall, llego, caido>>

CPUBajaSyscall ==
    /\ PasoCPU("baja_syscall", TrasSyscall)
    /\ hay_syscall_bloqueante' = FALSE
    /\ UNCHANGED <<despacho, pedido, confirmacion, hilo_ejecutar,
                   hay_segmentation_fault, hay_interrupcion,
                   interrupcion_syscall, llego, caido>>

CPUSegfault ==
    /\ PasoCPU("segfault", "baja_segfault")
    /\ confirmacion' = Append(confirmacion, "segfault")
    /\ UNCHANGED <<despacho, pedido, hilo_ejecutar, banderas, caido>>

CPUBajaSegfault ==
    /\ PasoCPU("baja_segfault", "baja_interrupcion")
    /\ hay_syscall_bloqueante' = FALSE /\ hay_segmentation_fault' = FALSE
    /\ UNCHANGED <<despacho, pedido, confirmacion, hilo_ejecutar,
                   hay_interrupcion, interrupcion_syscall, llego, caido>>

\* Also liberar_ejecucion.
CPUBajaInterrupcion ==
    /\ PasoCPU("baja_interrupcion", "recibe")
    /\ hay_interrupcion' = FALSE
    /\ hilo_ejecutar' = Nadie
    /\ UNCHANGED <<despacho, pedido, confirmacion, hay_syscall_bloqueante,
                   hay_segmentation_fault, interrupcion_syscall, llego, caido>>

CPUMiraQuantum ==
    /\ PasoCPU("mira_quantum", IF hay_interrupcion THEN "confirma_quantum"
                                                   ELSE "ejecuta")
    /\ UNCHANGED <<despacho, pedido, confirmacion, hilo_ejecutar, banderas,
                   caido>>

CPUConfirmaQuantum ==
    /\ PasoCPU("confirma_quantum", "suelta")
    /\ confirmacion' = Append(confirmacion, "quantum")
    /\ hay_interrupcion' = FALSE
    /\ UNCHANGED <<despacho, pedido, hilo_ejecutar, hay_syscall_bloqueante,
                   hay_segmentation_fault, interrupcion_syscall, llego, caido>>

\* Also liberar_ejecucion.
CPUSuelta ==
    /\ PasoCPU("suelta", "recibe")
    /\ hay_syscall_bloqueante' = FALSE
    /\ hilo_ejecutar' = Nadie
    /\ UNCHANGED <<despacho, pedido, confirmacion, hay_segmentation_fault,
                   hay_interrupcion, interrupcion_syscall, llego, caido>>

-----------------------------------------------------------------------------
P == PTemporizador \/ \E h \in Hilos : PEjecuta(h)

S == SEspera \/ SAtiende \/ SCrea \/ SConfirma

I == INoBloquea \/ IQuantum \/ IBloqueo \/ IFinProceso

N == NSyscall \/ NQuantum

CPU ==
    \/ CPURecibe \/ CPUInstruccion \/ \E s \in SyscallsUsadas : CPUSyscall(s)
    \/ CPUMarca \/ CPURecibeOK \/ CPUChequea \/ CPUEsperaAviso
    \/ CPUConfirma \/ CPUConfirmaSigue \/ CPUBajaSyscall \/ CPUSegfault
    \/ CPUBajaSegfault \/ CPUBajaInterrupcion \/ CPUMiraQuantum
    \/ CPUConfirmaQuantum \/ CPUSuelta

Next ==
    \/ P \/ QInforma \/ S \/ I \/ N \/ CPU
    \/ \E h \in Hilos :
         \/ TDespierta(h) \/ TCompara(h)
         \/ Despierta(h) \/ DumpTermina(h) \/ DumpFalla(h)

Spec == Init /\ [][Next]_vars

\* Every thread of both programs runs. A timer gets sem_en_syscall, and so
\* does S, although the other ones take it again and again.
Fairness ==
    /\ WF_vars(P) /\ WF_vars(QInforma) /\ WF_vars(S) /\ SF_vars(SEspera)
    /\ WF_vars(I) /\ WF_vars(N) /\ WF_vars(CPU)
    /\ \A h \in Hilos : SF_vars(TDespierta(h)) /\ WF_vars(TCompara(h))

FairSpec == Spec /\ Fairness

-----------------------------------------------------------------------------
(* Properties.                                                             *)

PuntosCPU == {"recibe", "ejecuta", "marca", "espera_ok", "chequea",
              "espera_aviso", "confirma", "confirma_sigue", "baja_syscall",
              "segfault", "baja_segfault", "baja_interrupcion",
              "mira_quantum", "confirma_quantum", "suelta"}

\* Every variable has its type; the semaphores never go below zero.
TypeOK ==
    /\ despacho \in Seq(Hilos \cup {"OK"}) /\ pedido \in Seq(TiposSyscall)
    /\ interrupcion \in Seq(Motivos) /\ confirmacion \in Seq(Motivos)
    /\ estado \in [Hilos -> Estados]
    /\ hilo_en_ejecucion \in Hilos \cup {Nadie}
    /\ cpu_libre \in Nat /\ sem_en_syscall \in Nat
    /\ hilo_interrumpido \in Nat /\ bloqueo_por_dump \in Nat
    /\ dumps \subseteq Hilos
    /\ dormidos \in [Hilos -> Nat] /\ comparando \in [Hilos -> Nat]
    /\ hiloP \in Hilos \cup {Nadie}
    /\ pcS \in {"espera", "atiende", "confirma"}
    /\ pcCPU \in PuntosCPU /\ hilo_ejecutar \in Hilos \cup {Nadie, "OK"}
    /\ hay_syscall_bloqueante \in BOOLEAN
    /\ hay_segmentation_fault \in BOOLEAN /\ hay_interrupcion \in BOOLEAN
    /\ interrupcion_syscall \in Motivos /\ llego \in Nat
    /\ caido \in BOOLEAN

Uno(condicion) == IF condicion THEN 1 ELSE 0

\* A blocking answer of the kernel that I has not seen confirmed yet.
BloqueosEnCurso ==
    Veces(Bloqueantes, interrupcion) + Veces(Bloqueantes, confirmacion)
    + IF interrupcion_syscall \in Bloqueantes
      THEN llego + Uno(pcCPU = "confirma") ELSE 0

\* sem_en_syscall passes from the timer that compares, or from S, back to the
\* semaphore, by way of the CPU and I when the syscall blocks. There is never
\* a second one, and none is lost: no timer compares while a syscall that
\* blocks is under way (planificacion.c 336-346 against syscalls.c 364).
UnaFichaDeSyscall ==
    caido \/ sem_en_syscall + Cardinality({h \in Hilos : comparando[h] > 0})
             + Uno(pcS = "atiende") + BloqueosEnCurso = 1

\* What the kernel answers on the interrupt socket to a syscall is taken by
\* the check_interrupt after that syscall: when the CPU executes, or waits for
\* a thread, no answer or post of llego_la_interrupcion is left, which the
\* next blocking syscall would take for its own.
SinAvisosViejos ==
    pcCPU \in {"recibe", "ejecuta"} =>
        llego = 0 /\ Veces(Motivos \ {"quantum"}, interrupcion) = 0

\* The CPU confirms once for each dispatch, with whatever reason: counting
\* the thread on its way, in the CPU or confirmed, there is one exactly while
\* the kernel believes that one executes. A second confirmation would take
\* the next thread off, or read hilo_en_ejecucion as NULL.
UnaConfirmacionPorDespacho ==
    caido \/ Uno(hilo_en_ejecucion # Nadie)
             = Veces(Hilos, despacho) + Veces(Liberan, confirmacion)
               + Uno(pcCPU \notin {"recibe", "baja_segfault",
                                   "baja_interrupcion", "suelta"})

\* The thread that the CPU executes is the one the kernel believes is
\* executing, it is neither blocked nor finished, and no answer is left over.
CPUYKernelDeAcuerdo ==
    /\ SinAvisosViejos
    /\ pcCPU = "ejecuta" /\ ~caido =>
         /\ hilo_ejecutar = hilo_en_ejecucion
         /\ estado[hilo_ejecutar] = "exec"

\* OK answers and threads share the dispatch socket without a confusion: the
\* CPU never finds one where it waits for the other.
DespachoEnOrden ==
    /\ pcCPU = "espera_ok" => Veces(Hilos, despacho) = 0
    /\ pcCPU \notin {"espera_ok", "marca"} => Veces({"OK"}, despacho) = 0
    /\ Len(despacho) <= 1

\* "Envia a CPU la interrupcion de un hilo -> Por FIN DE QUANTUM."
\* (conexiones.c 111): there is a thread to interrupt.
InterrumpeAUnHilo == [][QInforma => hilo_en_ejecucion # Nadie]_vars

\* Everywhere else the thread is still there, and each message is the one
\* that is waited for: neither the handlers of the syscalls (syscalls.c), nor I
\* (interrupciones.c), nor the CPU (cpu_dispatch.c, ejecucion_hilos.c) ever
\* reads hilo_en_ejecucion as NULL or gives up.
SoloElQuantumLeeNulo == [][~caido /\ caido' => QInforma]_vars

\* Every syscall is answered: the CPU does not wait for an OK for ever.
SyscallRespondida == pcCPU = "espera_ok" ~> pcCPU # "espera_ok" \/ caido

\* With CMN nobody keeps the CPU: a thread that executes leaves it.
QuantumSeCumple == hilo_en_ejecucion # Nadie ~>
                       hilo_en_ejecucion = Nadie \/ caido
=============================================================================
