# Formal models of the operating-systems TP

This directory holds TLA+ models of the kernel, the CPU, the memory module and
the filesystem module of `src/tpOperativos-main`, the TLC configurations that
check them on small instances, and TLAPS proofs of the main safety properties of
seven of them for every value of the constants. Names of actions and variables
follow the C code.

    tlc -workers 2 -config MCPlanificadorLargoPlazo.cfg MCPlanificadorLargoPlazo
    tlapm PlanificadorLargoPlazoPruebas.tla

`PROJECT.json` lists every run, the lines of C that each definition stands for,
the mutants that show that each property can fail, the findings and the hazards.

## 1. Inventory

Four programs talk over TCP. The **kernel** is the client of **cpu** (two
connections, dispatch and interrupt, for ever) and of **memoria** (a connection
for each request); **memoria** also serves cpu and is the client of
**filesystem** (a connection for each dump). `utils` is the socket code.

| Component | State | Operations | Hard behaviour | Correct when |
|---|---|---|---|---|
| Kernel, long-term planner (`planificacion.c` 11-51) | `queue_new_processes`, semaphores `proceso_nuevo` and `espacio_para_proceso` | `PROCESS_CREATE_KERNEL`, `planificador_largo_plazo`, `finalizacion_procesos` | creators, planner and finalizers interleave; a refusal keeps a token; tokens are thrown away on an empty queue | no wakeup is lost; processes enter in order; memoria and kernel agree |
| Kernel, short-term planner (`planificacion.c` 53-347, `interrupciones.c`) | `queue_ready_threads`, `colas_prioridad`, `hilo_en_ejecucion`, three semaphores and six mutexes | one planner thread for each algorithm, `crear_colas_por_prioridad`, `recibir_interrupciones_confirmadas`, quantum timers | three threads and every pusher share the lists; a token counts queues, not threads; look, unlock, pop | one thread executes; each ready thread is in one place and gets its turn; none of a process that ended executes |
| Kernel, syscalls (`syscalls.c`) | lists of blocked and finished threads, mutexes with their owners and queues, `sem_en_syscall`, `bloqueo_por_dump` | thread create, join, cancel, exit; mutex create, lock, unlock; IO; dump | IO and dump threads wake the caller up later; state used after its lock is released | a mutex has one owner; who waits for something that has happened is woken up |
| CPU (`ejecucion_hilos.c`, `cpu_interrupt.c`) | context of the thread, flags of pending interrupts, `llego_la_interrupcion` | fetch, decode, execute, `check_interrupt` | the interrupt thread sets flags that the cycle reads and clears | one confirmation for each dispatch; no interrupt lost or taken by the next thread |
| CPU, MMU and registers (`mmu.c`, `execute.c`) | none | logical to physical address | limits | an access is inside its partition or a fault |
| Memoria, partitions (`memoria_administracion.c`, `procesos.c`) | list of partitions | create and end of a process, dump | splitting and joining while indices move; two critical sections of a dump | the list is a tiling, hides no hole, moves nobody |
| Memoria, contexts (`hilos.c`) | array of contexts by pid and tid | create, get, update, end, fetch of an instruction | removal while iterating; requests of kernel and CPU interleave | one context for each live thread; a thread runs as if it were alone |
| Messages (`utils.c`; `comunicacion.c`, `memoria.c`; `conexiones.c` of kernel and cpu; `communication.c`) | sockets, and a thread for each connection | send, receive and decode each message; handshakes | a stream has no boundaries, so each reader has to know each layout; several threads write on one socket; some readers do not wait for all the bytes | what is read is what was sent; each request gets its own answer |
| Filesystem (`connection.c`, `bitmap.c`, `bloques.c`, `metadata.c`) | two mapped files and the metadata files | `WRITE_FILE` | a thread for each request; locks taken for each bit and each block; restart over old files | no block of two files; what was answered OK can be read for ever |
| Configuration, logs, so-commons | - | - | - | - |

The components meet at few places: the long-term planner pushes thread 0 to
`queue_ready_threads`; a process that ends runs `finalizacion_procesos` from the
interrupt thread, or from a dump thread, over both planners and memoria; memoria
accepts or refuses the process the long-term planner shows it; the registers of
a thread travel between the CPU and memoria at each dispatch; the dump goes from
a syscall to memoria and from there to the filesystem.

## 2. Modules

| Module | Models | Notes |
|---|---|---|
| `AdmisionProcesos` | abstract: a queue of processes that enter in order | no semaphores or threads |
| `PlanificadorLargoPlazo` | long-term planner, creators, finalizers, memoria as FIJAS | refines `AdmisionProcesos` |
| `PlanificadorPrioridades` | short-term planner with PRIORIDADES and CMN, interrupt thread, pushers | three kernel threads as program counters |
| `ColaDeListos` | abstract: a queue of ready threads and a CPU that takes the oldest one | no semaphores, no ends of processes |
| `PlanificadorFIFO` | short-term planner with FIFO, interrupt thread, pushers, dump threads that finalize processes | refines `ColaDeListos` |
| `RemoverHilo` | what the loops of `remover_hilo` compute | both short-term planners extend it; `Contextos` takes `Conserva` from it |
| `Correo` | abstract: each connection delivers its messages in order | no bytes |
| `Mensajes` | every message of the four programs as the bytes of a stream, its writers and its readers | refines `Correo` |
| `AlmacenArchivos` | abstract: files stored whole or refused | with the bytes that reading gives |
| `SistemaDeArchivos` | filesystem, threads, crashes, restarts | refines `AlmacenArchivos` |
| `ProtocoloCPU` | kernel and CPU over the dispatch and interrupt sockets, with CMN | eight kinds of thread, two programs |
| `MutexConCola` | abstract: mutexes with an owner and a queue | no lists of threads, no CPU |
| `HilosYMutexes` | the syscalls of threads and mutexes, IO, the lists of threads | refines `MutexConCola` |
| `EjecucionAislada` | abstract: each thread runs its program with registers of its own | no memoria, no CPU, no quantum |
| `Contextos` | the contexts in memoria and in the CPU, the instructions, the MMU | refines `EjecucionAislada` |
| `MemoriaContigua` | abstract: bytes and their owner, cut on demand or in fixed pieces | no list of partitions |
| `MemoriaParticiones` | the list of partitions, both schemes, three algorithms, dumps | refines `MemoriaContigua` with both schemes (`CumpleContigua`) |
| `...Pruebas` | theorems and proofs of the module they are named after | `MemoriaPruebas`: `Contextos` and `MemoriaParticiones`; `SocketsPruebas`: `ProtocoloCPU` and `Mensajes` |
| `MC...` | constants for TLC | |

Each action is one critical section, one semaphore operation or one exchange
of messages of one thread; a thread's place in its function is a program
counter. Operators whose comment starts with "Mutant" are plausible bugs; no
specification uses them.

### PlanificadorLargoPlazo

`planificador` goes through the loop of `planificador_largo_plazo` a semaphore
operation at a time; `creador` is whoever runs `PROCESS_CREATE_KERNEL` (one at a
time: main before anything executes, then the thread that attends syscalls);
`estado[p]` follows a process from NEW through `finalizacion_procesos`. The
interrupt thread ends one process at a time, while nothing executes; a failed
dump ends one from a thread of its own, at any moment. memoria assigns any free
partition that is large enough, which covers its three algorithms.

`CumpleAdmision` maps the abstract queue to `queue_new`, without its head
between the answer of memoria and `pop_queue_new`: that answer is where the
process really enters.

### PlanificadorPrioridades

`C`, `P` and `I` are the three threads; `pcC`, `pcP`, `pcI` their places.
`creando` is the mutex `creando_colas_por_prioridad`, the only one held across
steps. With PRIORIDADES the CPU never confirms a quantum; everything else is the
same, so that the safety runs use CMN, which has every behaviour of both. The
CPU is one action, `CPUConfirma`: it stops the running thread once per dispatch,
for any reason. Reading a pcb after `liberar_pcb` either goes on or brings the
kernel down (`caido`). `RemueveRotando` (module `RemoverHilo`) is what the loops
of `remover_hilo` really compute: they compare the number of turns with a size
that shrinks.

### PlanificadorFIFO

`P` is `planificar_fifo_hilos`, a semaphore operation or critical section at a
time, `I` the interrupt thread, `D(h)` the thread of a dump of `h`. Pushers have
pushed and not signalled yet for as long as `avisando` counts them. FIFO has no
timer, so the CPU stops a thread only when it blocks or ends (`CPUConfirma`).
`fin[f]` is the place of `f`, `I` or a dump thread, in `finalizacion_procesos`;
several may be in it at once, even for one process. `liberados` are the tcbs that
were freed, which stay in `queue_exit_threads` and wherever another kernel thread
holds them: a read of one either brings the kernel down (`caido`) or matches
nobody, and a second free brings it down. `CumpleCola` maps `P`'s pop to the
dispatch.

### Mensajes

A connection is two streams of units of 4 bytes; which unit of which field it is
stands for its value. Writers are packets, one operator for each function that
builds one, with its size and its fields in the order in which the code copies
them; readers are the lists of fields that each function takes off the stream and
how much it asks `recv` for. `Llega` cuts and joins what was sent at will.
`lee[v]` is the place of the reader (code, size, stream), `buzon[v]` the message
that it decoded and has not served yet, `cli` and `srv` where both ends are. The
order of the requests is any that the code of each end allows (`ProtocoloCPU` has
the real one of kernel and CPU). `en_viaje` is a history variable, the messages
that were meant and not read; `CumpleCorreo` maps it to the queues of `Correo`.
Texts have lengths `Largos`; a dump is longer than its file name, so that the two
lengths of its message cannot be exchanged unseen.

*Assumption* `UnSegmento`: `recibir_paquete_syscall` (`syscalls.c` 451) calls
`recv` without `MSG_WAITALL`, so the model delivers each syscall whole, as TCP
does in practice with some 20 bytes sent at once. Without it (set to `{}`)
`CumpleCorreo` is false.

### ProtocoloCPU

Sockets are queues of what the protocol tells apart: a thread or `OK` on
dispatch, a reason on interrupt. `pcCPU` is the place of the instruction cycle
in `execute` and `check_interrupt`, one step for each flag it reads or clears;
`N` is `atender_cpu_interrupt`. In the kernel `pcS` is the place of
`gestionar_syscalls`; a handler and its answer are one step, because the
interrupt thread cannot handle the confirmation before the handler releases
`mutex_hilo_en_ejecucion`. Timers are counted by thread: those that sleep or
wait for `sem_en_syscall`, and those that hold it while they compare. `estado`
abstracts the lists of the kernel: any ready thread may be dispatched, and
threads wake up when they please. Not modelled: the instruction `FIN`, after
which the CPU program ends, and the depth of its stack.

### HilosYMutexes

One syscall is one step, since the CPU waits for its answer, except that
threads that come back from an IO are in no list for a while. Queues of ready
threads are sets; `cancelados`, `tomado` and `terminados` are history variables,
what the programs know. `Visibles` and `EnSalidos` are the searches of the code
with their limits, which differ by algorithm. The end of a process is not
here. `CumplePromesa` maps the owner of `MutexConCola` to whoever came back from
its lock, not to the field `hilo_duenio`.

### Contextos

`lista_hilos` is the array of memoria, `contexto` the copy of the CPU. A request
to memoria is one step, `CreaHilo` and `FinalizaHilo` when memoria's thread for
that connection gets to it; the CPU takes a step for each instruction and for
each exchange. One register stands for the eight and any value for what is in the
user memory, so that READ_MEM and WRITE_MEM are `Mem`. `ThreadCreate`, `IO` and
the exits stand for the syscalls as far as contexts go: the ones that block are
like IO. The kernel dispatches any ready thread. `CumpleAislada` reads the
registers of a thread in the CPU from the dispatch on, and in memoria otherwise.
Threads that the end of a process misses and cancelled threads, which would be
dispatched without a context, are in `PlanificadorPrioridades` and
`HilosYMutexes`. `SinHilosDe` says which contexts the loop of
`finalizar_hilos_por_pid` takes, instead of running it: of each run of contexts
of the process, the first, the third and so on.

### SistemaDeArchivos

`pc[c]` follows the thread of request `c` through `manejar_cliente_memoria` and
`creacion_de_archivo`; one step for each bit that `find_first_free_block` looks
at and for each block written. `Cae` kills the process anywhere and `Reinicia`
maps the files again. What was stored to a `MAP_SHARED` mapping survives the
process (not a power failure: the order in which pages reach the disk is not
modelled). The abstraction reads each file back through its metadata, its index
block and its data blocks, byte by byte.

### MemoriaParticiones

`lista` is the array of partitions, in order. The loops of the search and of
`consolidar_particiones` are recursive functions of the position: `Mira` and
`Junta` are what one turn does. A process asks again after a refusal, as the
long-term planner does. `MemoriaPruebas` extends this module and `Contextos`,
which is why its names end in `Particiones` and its processes are `Pids`.

## 3. Runs

| Run | Configuration | Shows |
|---|---|---|
| `largo_plazo` | 3 processes, 2 unequal partitions, 2 sizes, fair kernel threads | `FichasCubrenNuevos`, `SinAvisoPerdido`, `MemoriaDeLosAdmitidos`, and that it implements `AdmisionProcesos`: processes enter in order, and the oldest one enters when it fits (`CumpleAdmisionJusta`) |
| `prioridades` | 3 threads of 2 processes, equal tids, 2 priorities, CMN, fair | `FichasPorCola`, `UnaCPU`, `FichasParaCola`, `UnSoloLugar`, `CPUNoOciosa`, `TurnoRotativo` |
| `fifo` | 3 threads of 2 processes, equal tids, one that dumps, dumps that end well or fail, fair | `UnaCPU`, `FichasCubrenListos`, `SacaLoQueMiro`, and that it implements `ColaDeListos`: the CPU takes the oldest ready thread and does not idle while one waits (`CumpleColaJusta`) |
| `filesystem` | 3 requests of 4, 12 or 20 bytes, 5 blocks of 8 bytes, 1 crash | `DeUnSoloArchivo`, `RechazoSinRastro`, and that it implements `AlmacenArchivos` |
| `espacio_suficiente` | 3 requests, 5 blocks, no crash | counterexample, see findings |
| `particiones` | 4 processes, sizes 1 to 4, the dump of one; 8 units that split and join, or fixed partitions; three algorithms | `Mosaico`, `AjusteElegido`, `EnviadoDentroDeLoCopiado`, and that it implements `MemoriaContigua` |
| `mensajes` | each connection alone, kernel and filesystem together for dumps; texts of 1 or 2 units, 2 interrupts on their way | `SoloLoPedido`, `DumpDicho`, `TodoPedidoTermina`, and that it implements `Correo` |
| `protocolo_cpu` | 2 threads, every syscall but the unlock of an unknown mutex, quanta of any length, 2 timers | `UnaFichaDeSyscall`, `UnaConfirmacionPorDespacho`, `CPUYKernelDeAcuerdo`, `DespachoEnOrden`, `SoloElQuantumLeeNulo` |
| `protocolo_cpu_vivo` | fair threads; create, ask, exit | `SyscallRespondida`, `QuantumSeCumple` |
| `hilos_y_mutexes` | 3 threads of a process and one of another, 1 mutex, CMN, no end with a mutex | `UnSoloEstado`, `HayQuienDespierte`, and that it implements `MutexConCola` |
| `sale_con_mutex` | 3 threads, which may end with the mutex | counterexample, see findings |
| `contextos` | 2 threads of a process and one of another, neighbouring partitions, 3-bit registers, two programs | `CadaVivoSuContexto`, `EncuentraContexto`, `DireccionExacta`, and that it implements `EjecucionAislada` |

**Bounds.** `MaxProcesos` (3 processes): two that hold memory and one refused
behind them are all the actors of the retry protocol. `Hilos` (3 threads): two
with the same tid in different processes, and a sibling; two priorities give an
empty best queue over a full one. `Pedidos`, `CantidadBloques`, `MaxCaidas`: three
requests of which some fit together and some do not, one size that no index
block can point to, and a crash at any step of any of them.
`TamMemoria` of 8 and 4 processes reach every pattern of free and taken
neighbours, and holes of three joined pieces. `ConDump` (1): dumps only read, so
that one against the ends of all is every interleaving. `Dumpean` (1 thread of
the two of its process): its dump fails while the sibling ends the same process,
or executes, or waits. `MaxFichas` (2): nobody comes back from an IO while the
extra tokens of FIFO are that many, one more than a planner can throw away.
`Largos` (2): two lengths tell a length that is read from one that is assumed.
`EnVuelo` (2): two messages in a stream, so that one may be cut into the next.
`SinLeer` (1): the answers of interrupt are all alike. `Escenarios`: connections
share no bytes, so each is checked alone, but a dump, which crosses three programs. `MaxTemporizadores` (2): the timer
of the turn and one left from an earlier turn, which is what a stale quantum
takes. `MaxConfirmaciones`: confirmations that the interrupt thread has not read,
which only answers that do not block can pile up; 2 lets a second one overtake.
`MaxSalidos` (2): two of four threads end, or one ends twice, cancelled and by
itself. The main runs leave out what the findings break: `SalenConMutex` turns
the ends with a mutex on, and `DumpsFallan` = "sin_ejecutar" lets memoria refuse
a dump only while nothing executes. `Modulo` (8) is 2^32 on three bits, enough for
an address and a sum to go round, and for an address past the limit; `Programas`
are one that creates a thread, adds through zero in a loop and ends its process,
and one that uses an address past the limit of the smaller partition, blocks and
ends; any thread may run either. No run depends on a state constraint: the bounds are guards of the actions, and the safety proofs hold
without them.

Deadlock checking is off: processes end, and a kernel whose programs have all
ended waits for ever.

**Fairness.** Weak fairness of the kernel's threads, which the operating system
schedules: the planners, `C`, `I`, a creator that has queued and not yet
signalled, a finalizer that has started. Programs need not create or end
anything. `CToma` has strong fairness: `I` takes the same mutex for an instant
at each end of quantum, and a pthread mutex that is free again and again is
eventually obtained. With CMN the CPU confirms sooner or later, because the
quantum is finite; with PRIORIDADES a thread may execute for ever. With FIFO a thread may
also execute for ever, and `CumpleColaJusta` asks only that a ready thread does not
wait while the CPU is free. In `Mensajes` TCP delivers what was sent and each reader
that has what it waits for goes on; programs need not make requests. In
`ProtocoloCPU` every thread of both programs is weakly fair, and the waits for
`sem_en_syscall`, which others take again and again, strongly. `QuantumSeCumple`
needs `QuantumCorto = FALSE`: a quantum (25 ms or more in the configurations) does
not end before the CPU has read the thread from its socket. Without it the
notice may come in between lines 304 and 306 of `ejecucion_hilos.c`, which erase
it as if it were of the thread that has just left.

## 4. Proofs

Each `...Pruebas` module proves that an inductive invariant holds initially and
that `[Next]_vars` preserves it, with one step for each action, and reads the
properties off it. The assumptions are the named ones on the constants, for any
number of processes, threads, priorities, mutexes, blocks, requests and crashes.
Two modules need more, and their theorems say it: in `HilosYMutexesPruebas` the
configuration is CMN, or no thread ends with a mutex in hand; in
`SocketsPruebas`, about `ProtocoloCPU`, no dump fails while a thread executes and nobody
unlocks an unknown mutex (`Supuestos`). The findings show that the properties are false
otherwise.

- **PlanificadorLargoPlazoPruebas.** `TypeOK`, `FichasCubrenNuevos`,
  `SinAvisoPerdido`, `MemoriaDeLosAdmitidos`, `OrdenDeAdmision`,
  `CumpleAdmision`. The properties are not inductive alone: `Inv` adds that
  `queue_new` holds exactly the processes in NEW, in increasing order and without
  repetition, that the candidate is its head while the planner works on it, and
  which tokens are in hand at each point of the loop. The refinement follows
  step by step: only `MemoriaAcepta` is an abstract admission.
- **PlanificadorPrioridadesPruebas.** `TypeOK`, `UnaCPU`, `FichasPorCola`,
  `FichasParaCola`, and `RamaNulaMuerta`: the planner never finds
  `colas_prioridad` empty. The key fact is that the queue of the thread that
  executes is still there when its quantum ends, because only `P` removes queues
  and `P` does not own the CPU then. `UnSoloLugar` has an invariant of its own,
  `InvLugares`: a thread is only in the queue of its own priority, and the kernel
  believes that the thread on the CPU executes until it blocks, ends, or `I` has
  taken note of why it stops. It rests on `VecesRemueve` and `RemueveUnica`: after
  the rotation of `remover_hilo` nobody is in a queue more often than before, and
  who was there once and is removed is not there.
- **PlanificadorFIFOPruebas.** `TypeOK`, `UnaCPU`, `FichasCubrenListos`,
  `SacaLoQueMiro`, and the safety part of the refinement (`CumpleCola`). `Inv`
  adds who may be inside `finalizacion_procesos`, and that `I` is not while `P`
  has the CPU: with no failed dumps nobody else takes threads out, so that the
  queue that `P` saw is still there at the pop. Tokens cover the queue because
  removals take threads out and leave tokens, and `P` throws one away only when
  the queue is empty.
- **SistemaDeArchivosPruebas.** `TypeOK`, `DeUnSoloArchivo`, `RechazoSinRastro`, and
  the refinement of `AlmacenArchivos` (`CumpleAlmacen`). `IInv` adds what a thread
  knows of its request at each control point (`Cuenta`, `Metas`, `Contestado`), that
  the blocks it holds are distinct, and that a block nobody has taken was never
  written, so that nothing in it passes for an index. `IInvAlmacen` says how far a
  request is in writing its file (`Avance`) and that the file of one told OK is
  complete (`Entero`). A step writes only in blocks in the hands of its thread, which
  `DeUnSoloArchivo` keeps apart from the other files, so these survive; `ByteEnSuBloque`
  takes a byte to its block, for every size and block size. That the files fit follows
  from the blocks they have (`BloquesDeEntero`).
- **RemoverHiloPruebas.** What the loops of `remover_hilo` and of
  `finalizar_hilos_por_pid` keep, for every queue: by counting positions, and
  with the least element of a set of naturals in place of an induction. They
  lengthen nothing, leave members of the queue only, and repeat nobody
  (`VecesRemueve`, `RemueveUnica`); the positions that stay are all there, once
  (`ConservaElige`).
- **HilosYMutexesPruebas.** `TypeOK`; if nobody ends with a mutex,
  `ExclusionMutua` and the refinement of `MutexConCola` (`CumplePromesa`), from an
  invariant that ties the field `hilo_duenio`, the queue of the mutex and what
  each thread was told; with CMN, `UnSoloEstado` and `HayQuienDespierte`, from the
  lists of threads and what each blocked thread waits for.
- **SocketsPruebas**, on `ProtocoloCPU`. `TypeOK`, `UnaFichaDeSyscall`,
  `UnaConfirmacionPorDespacho`, `CPUYKernelDeAcuerdo`, `DespachoEnOrden` and
  `SoloElQuantumLeeNulo`. The parts of `Inv` count: what is under way of each kind
  in the sockets, in the flags of the CPU and in the hands of the threads adds up
  to one dispatch, one confirmation or one token at each place of both programs.
- **MemoriaPruebas**, on `Contextos`. `TypeOK`, `CadaVivoSuContexto`, `EncuentraContexto`,
  `DireccionExacta`, and the refinement of `EjecucionAislada` (`CumpleAislada`).
  `IInv` says that no thread has two contexts in the array; that the thread in the
  CPU is in EXEC until it blocks or ends; that the program counter, in memoria and
  in the CPU, is that of an instruction; that a process ends after an instruction
  that ends processes; and that after the store memoria has what the CPU had.
  Instructions are abstract instructions; dispatches, stores and returns of the
  CPU show nothing. The addresses need that a partition ends before 2^32 - 1
  (`ContextosAssumption`): then an address that goes round falls below the base.
  `HastaElLimite` says what the MMU accepts as a set: the partition and its limit
  (`AceptaHastaElLimite`), for `mmu.c` 25 compares with `<=`.
- **MemoriaPruebas**, on `MemoriaParticiones`. `TypeOKParticiones`, `Mosaico`,
  `AjusteElegido`, `EnviadoDentroDeLoCopiado`, and the refinement of
  `MemoriaContigua` (`CumpleContigua`), for any configuration that
  `inicializar_memoria_particiones_fijas` does not refuse (`Configurada`).
  `IInvParticiones` says that each partition starts where the one before it ends;
  that with DINAMICAS the last one ends with the memory and no two free ones
  touch; that with FIJAS starts and sizes are still the configured ones; that a
  process has one partition at most, and none before it enters or after it ends;
  and that what a dump copied is still the size of the partition, if there is one. The loops are
  recursive functions: `HayRecorrido` shows that one exists for each list, by the
  least element of a set of naturals (`Induccion`), `EligeMejor` what the search has
  found after each turn, and `ConsolidaUne` that the joined list covers the
  same bytes of the same processes and has no two free partitions together. The
  refinement needs that last part: a run of free bytes lies in one partition, so
  that a refusal by the list is a refusal by the memory. `ListaComoContigua` has the
  hypothesis `TamaniosPositivos`, no process, fixed partition or memory of size
  0: the code refuses a process of size 0 when every byte has an owner, while an
  empty run of bytes is always there.
  The other theorems do without it.

- **SocketsPruebas**, on `Mensajes`. `SoloLoPedido` and `DumpDicho`, for texts of any
  length and however TCP cuts the streams. `IInvMensajes` says where each pair of
  programs may be (`CPUBien`, `KernelBien`): on a connection there is one request, or
  its answer, and nothing else. What there is of it is counted (`Va`): what its reader
  has not taken, in the buffer and in the network, is the whole message, or its size
  and the rest, or the rest (`EnCamino`), or it has been read (`Leido`). So the proof
  needs that each reader takes as many bytes as each writer puts (`Entiende`), for each
  kind of message. filesystem sends OK after its own ERROR: there only the first message
  counts (`VaPrimero`), since memoria closes the connection after it. `escrito` is
  carried with the answer from filesystem to memoria (`VolcadoBien`) and to the kernel;
  a filesystem that is still answering when nobody waits is `VolcadoAfuera`. The CPU's
  dispatch and interrupt connections are in no part of it: they do not answer one
  request at a time, and `ProtocoloCPU` orders them.

Only model-checked: liveness (fairness and `ENABLED` are beyond TLAPS), and in
`Mensajes` the refinement of `Correo` and its `TypeOK`. A message is the
concatenation of its fields, of any number, and its readers cut it again: that the
*contents* agree needs an induction over the bytes of every message that may be in
a stream, and on the connections of dispatch several may be. The proofs count bytes
and need only the lengths. Every other safety property that a passing run checks is
proved, with the hypotheses above. The `TypeOK` of the modules are invariants of the
proofs; the runs check properties that say more.

## 5. Findings

Two runs show counterexamples to what the comments of the code say:

1. `EspacioSuficiente`, `connection.c` 102: the space is checked and reserved in
   different critical sections; the loser dereferences NULL.
2. `ExclusionMutua`, `syscalls.c` 160: the end of the owner of a mutex lets all
   that wait for it go on.

More properties are defined in the modules, are false for the same kind of
reason, and no run lists them. Adding the property to the configuration named
here shows the counterexample:

| Property | Configuration | What the code does |
|---|---|---|
| `NadieSePierde` | `MCPlanificadorPrioridades.cfg` | `planificacion.c` 72: at the end of a process `remover_hilo` also drops ready threads of *other* processes with the same tid |
| `NingunoTrasElFin` | `MCPlanificadorPrioridades.cfg` | `estructuras.c` 87: a thread that is in no priority queue when its process ends is not found, and executes with a freed pcb |
| `SinBloquesPerdidos` | `MCEspacioSuficiente.cfg` | `bloques.c` 63-67: a failed reservation keeps its blocks for ever |
| `OrdenDeLlegada` (as PROPERTY) | `MCPlanificadorFIFO.cfg` | `planificacion.c` 69-76: the end of a process leaves `queue_ready_threads` rotated, and threads of others execute out of order |
| `InterrumpeAUnHilo` (as PROPERTY) | `MCProtocoloCPU.cfg` | `planificacion.c` 233: the notice of the quantum reads `hilo_en_ejecucion` after the thread may have left, and finds NULL |
| `CPUYKernelDeAcuerdo` | `MCProtocoloCPU.cfg` with "unlock_inexistente" in `SyscallsUsadas` | `syscalls.c` 238: `MUTEX_UNLOCK` of an unknown mutex finishes a thread that the CPU goes on executing |
| `UnaFichaDeSyscall` | `MCProtocoloCPU.cfg` with `DumpsFallan = "si"` | `syscalls.c` 274: a dump that memoria refuses while a sibling executes posts `sem_en_syscall` once too often |
| `HayQuienDespierte` | `MCHilosYMutexes.cfg` with `Algoritmo = "FIFO"` | `estructuras.c` 123: a join of a thread that has finished may block for ever |
| `SoloSuParticion` | `MCContextos.cfg` | `mmu.c` 25: the limit is accepted, the first byte after the partition, which may be of another process |
| `JoinEspera` | `MCHilosYMutexes.cfg` | `estructuras.c` 87: a join of a thread that is not in a priority queue does not wait |
| `CancelNoHaceNada` (as PROPERTY) | `MCHilosYMutexes.cfg` | `syscalls.c` 96: cancelling a thread that is not found reads NULL |
| `TerminadoNoEjecuta` | `MCHilosYMutexes.cfg` | `syscalls.c` 114: a cancelled thread executes again |

`PlanificadorFIFO` has two more, which its variable `caido` stands for: with dumps
that fail, the pop of `planificar_fifo_hilos` (`planificacion.c` 128) may get NULL,
and `finalizacion_procesos` may free a pcb or a tcb twice or under a user.

Read in the code and not stated as a property: `memory_dump` never closes its
connection to the filesystem (`memoria_administracion.c` 411-436); servers read an
uninitialized code when a peer closes (`memoria.c` 150);  `finalizar_hilos_por_pid`
(`hilos.c` 71) skips every other context of a process, which stays for ever
(`SinHilosDe` does the same); `obtener_instruccion_with_PC` (159) decides on the
program counter that is stored, not on the one it is asked for;
the instruction it returns (163) points into the list of the thread, which the end
of the process by a failed dump may free before it is sent; an access to
the user memory has four bytes, and only the address of the first is looked at
(`mmu.c` 12).

## 6. Not modelled, and plan

Not modelled:

- the removal of threads by a dump thread with PRIORIDADES and CMN
  (`PlanificadorFIFO` has it), and the end of whole processes in
  `HilosYMutexes` (both planners have it);
- reuse of freed memory by a later `malloc`: what a freed tcb holds is read as
  nobody's;
- broken connections: the programs give up on them, some after reading an
  uninitialized variable, whose value no source says; and syscalls cut in two
  (`UnSegmento`);
- a second CPU, and several short connections of the kernel at once, which share
  only the state that `Contextos` and `MemoriaParticiones` have;
- power failures, and the bytes of the user memory;
- logs and configuration, which have no state that a property could be about.

Plan, most important first:

1. The end of a process in `HilosYMutexes`, where mutexes of all processes share
   one list.
2. The threads that a dump thread removes with PRIORIDADES, and `NadieSePierde`
   for the threads whose tid no other process has.
