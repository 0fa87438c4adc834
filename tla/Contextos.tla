------------------------------ MODULE Contextos -----------------------------
(***************************************************************************)
(* Where the registers of a thread are (memoria/src/hilos.c, procesos.c,   *)
(* memoria.c; cpu/src/cpu_dispatch.c, ejecucion_hilos.c, execute.c,        *)
(* mmu.c). memoria keeps an array with the context of every thread, and    *)
(* serves it to the CPU, which takes a copy, runs instructions on it and   *)
(* sends it back when the thread stops. The kernel creates and ends        *)
(* contexts through connections of its own, each with a thread of memoria. *)
(* Nobody waits for the answer to END_THREAD: it may be served much later. *)
(* One register stands for the eight, and no program writes PC with SET.   *)
(* The rest of the kernel is reduced to who may execute. The threads that  *)
(* the end of a process misses are the subject of PlanificadorPrioridades, *)
(* and THREAD_CANCEL that of HilosYMutexes.                                *)
(***************************************************************************)
EXTENDS Integers, Sequences, SequencesExt, RemoverHilo

CONSTANTS
    Hilos, Procesos,
    Proceso, Tid,    \* as in PlanificadorPrioridades
    Programas,       \* the files of instructions
    Base, Tamanio,   \* of the partition of each process
    Modulo,          \* a register holds 0 .. Modulo - 1 (2^32)
    Nadie            \* NULL

Operaciones == {"set", "sum", "jnz", "mem", "io", "thread_create",
                "thread_exit", "process_exit"}

Salidas == {"thread_exit", "process_exit"}

\* Programs end, and jump inside themselves.
ASSUME ContextosAssumption ==
    /\ Nadie \notin Hilos
    /\ Proceso \in [Hilos -> Procesos] /\ Tid \in [Hilos -> Nat]
    /\ Modulo \in Nat \ {0}
    /\ \A i \in Programas :
         /\ Len(i) \in Nat \ {0} /\ Last(i).op \in Salidas
         /\ \A k \in 1 .. Len(i) :
              /\ i[k].op \in Operaciones
              /\ i[k].op = "jnz" => i[k].a \in 0 .. Len(i) - 1
              /\ i[k].op \in {"set", "sum"} => i[k].v \in 0 .. Modulo - 1
    /\ \A p \in Procesos : /\ Base[p] \in Nat /\ Tamanio[p] \in Nat
                           /\ Base[p] + Tamanio[p] < Modulo - 1

VARIABLES
    lista_hilos,     \* the array of memoria
    estado,          \* estado[h]: where the kernel has h
    creando,         \* CREATE_THREAD requests that memoria has not served
    terminando,      \* END_THREAD requests that memoria has not served
    pcCPU,
    hilo_ejecutar,
    contexto,        \* contexto_ejecucion of the CPU
    motivo           \* why the CPU gives the thread back

kernel == <<estado, creando, terminando>>
cpu == <<pcCPU, hilo_ejecutar, contexto, motivo>>
vars == <<lista_hilos, kernel, cpu>>

SinContexto == [ax |-> 0, pc |-> 0, base |-> 0, limite |-> 0]

Init ==
    /\ lista_hilos = <<>>
    /\ estado = [h \in Hilos |-> "inexistente"]
    /\ creando = {} /\ terminando = {}
    /\ pcCPU = "recibe" /\ hilo_ejecutar = Nadie
    /\ contexto = SinContexto /\ motivo = "ninguno"

-----------------------------------------------------------------------------
(* memoria                                                                 *)

\* The positions of the contexts of h; searches take the first one.
Posiciones(h) == {i \in 1 .. Len(lista_hilos) : lista_hilos[i].hilo = h}

Posicion(h) == CHOOSE i \in Posiciones(h) : \A j \in Posiciones(h) : i <= j

\* obtener_contexto_hilo
Guardado(h) == lista_hilos[Posicion(h)]

\* poblar_contexto_hilo_con_particion
Particion(h) == [base |-> Base[Proceso[h]],
                 limite |-> Base[Proceso[h]] + Tamanio[Proceso[h]]]

\* crear_contexto_hilo
CreaContexto(h, instrucciones) ==
    lista_hilos' = Append(lista_hilos,
        [hilo |-> h, ax |-> 0, pc |-> 0, instrucciones |-> instrucciones])

\* Mutant: the last one of the array goes instead.
FinalizaHiloUltimo(h) ==
    /\ h \in terminando
    /\ terminando' = terminando \ {h}
    /\ lista_hilos' = IF Posiciones(h) = {} THEN lista_hilos
                      ELSE Front(lista_hilos)
    /\ UNCHANGED <<estado, creando, cpu>>

\* finalizar_hilo
FinalizaHilo(h) ==
    /\ h \in terminando
    /\ terminando' = terminando \ {h}
    /\ lista_hilos' = IF Posiciones(h) = {} THEN lista_hilos
                      ELSE RemoveAt(lista_hilos, Posicion(h))
    /\ UNCHANGED <<estado, creando, cpu>>

\* finalizar_hilos_por_pid: after each removal the loop skips the context
\* that has taken the place of the one removed, so that of several of p in a
\* row the first, the third... go. In a row they are from j + 1 to i.
SinHilosDe(p) ==
    LET deP == {i \in 1 .. Len(lista_hilos) : Proceso[lista_hilos[i].hilo] = p}
        quitados == {i \in deP : \E j \in 0 .. i - 1 :
                        /\ j \notin deP /\ j + 1 .. i \subseteq deP
                        /\ (i - j) % 2 = 1}
    IN  Conserva(lista_hilos, (1 .. Len(lista_hilos)) \ quitados)

-----------------------------------------------------------------------------
(* The kernel.                                                             *)

\* planificador_largo_plazo: memoria has created the process and thread 0.
CreaProceso(h) ==
    /\ Tid[h] = 0 /\ estado[h] = "inexistente"
    /\ \E i \in Programas : CreaContexto(h, i)
    /\ estado' = [estado EXCEPT ![h] = "listo"]
    /\ UNCHANGED <<creando, terminando, cpu>>

Despacha(h) ==
    /\ pcCPU = "recibe" /\ hilo_ejecutar = Nadie
    /\ estado[h] = "listo"
    /\ estado' = [estado EXCEPT ![h] = "exec"]
    /\ hilo_ejecutar' = h /\ pcCPU' = "pide"
    /\ UNCHANGED <<lista_hilos, creando, terminando, contexto, motivo>>

Despierta(h) ==
    /\ estado[h] = "bloqueado"
    /\ estado' = [estado EXCEPT ![h] = "listo"]
    /\ UNCHANGED <<lista_hilos, creando, terminando, cpu>>

\* CREATE_THREAD is served. The thread has been in READY for a while.
CreaHilo(h) ==
    /\ h \in creando
    /\ creando' = creando \ {h}
    /\ \E i \in Programas : CreaContexto(h, i)
    /\ UNCHANGED <<estado, terminando, cpu>>

\* recibir_interrupciones_confirmadas: the CPU is free again.
SueltaCPU(m) ==
    /\ pcCPU = "confirma" /\ motivo = m
    /\ pcCPU' = "recibe" /\ hilo_ejecutar' = Nadie
    /\ contexto' = SinContexto /\ motivo' = "ninguno"
    /\ UNCHANGED <<creando, terminando>>

FinDeQuantum ==
    /\ SueltaCPU("quantum")
    /\ estado' = [estado EXCEPT ![hilo_ejecutar] = "listo"]
    /\ UNCHANGED lista_hilos

FinPorBloqueo == SueltaCPU("bloqueo") /\ UNCHANGED <<lista_hilos, estado>>

\* finalizacion_procesos waits for memoria, and nothing executes meanwhile.
FinProceso ==
    /\ SueltaCPU("fin_proceso")
    /\ lista_hilos' = SinHilosDe(Proceso[hilo_ejecutar])
    /\ estado' = [h \in Hilos |-> IF Proceso[h] = Proceso[hilo_ejecutar]
                                  THEN "fin" ELSE estado[h]]

-----------------------------------------------------------------------------
(* The MMU.                                                                *)

Error == Modulo - 1    \* -1 in a uint32_t

\* Mutant: looks at the limit only.
EsValidaHastaLimite(fisica) == fisica <= contexto.limite

\* _es_valido_direccion_fisica
EsValida(fisica) == fisica >= contexto.base /\ fisica <= contexto.limite

\* traducir_direccion_logica
Traduce(logica) ==
    LET fisica == (logica + contexto.base) % Modulo
    IN  IF EsValida(fisica) THEN fisica ELSE Error

-----------------------------------------------------------------------------
(* The CPU.                                                                *)

\* recibir_contexto_ejecucion_memoria. EncuentraContexto says that there is a
\* context; without one memoria would answer what malloc gave it.
PideContexto ==
    /\ pcCPU = "pide" /\ Posiciones(hilo_ejecutar) # {}
    /\ contexto' = [ax |-> Guardado(hilo_ejecutar).ax,
                    pc |-> Guardado(hilo_ejecutar).pc,
                    base |-> Particion(hilo_ejecutar).base,
                    limite |-> Particion(hilo_ejecutar).limite]
    /\ pcCPU' = "ejecuta"
    /\ UNCHANGED <<lista_hilos, kernel, hilo_ejecutar, motivo>>

\* fetch: list_get of the counter of the CPU.
Instruccion == Guardado(hilo_ejecutar).instrucciones[contexto.pc + 1]

\* An instruction: what it leaves in AX and in the program counter.
Ejecuta(op, ax, pc, hasta) ==
    /\ pcCPU = "ejecuta" /\ Posiciones(hilo_ejecutar) # {}
    /\ Instruccion.op = op
    /\ contexto' = [contexto EXCEPT !.ax = ax, !.pc = pc]
    /\ pcCPU' = hasta
    /\ UNCHANGED <<lista_hilos, creando, hilo_ejecutar>>

Siguiente == contexto.pc + 1

Set == /\ Ejecuta("set", Instruccion.v, Siguiente, "chequea")
       /\ UNCHANGED <<estado, terminando, motivo>>

\* SUM, and SUB, which adds the complement.
Sum == /\ Ejecuta("sum", (contexto.ax + Instruccion.v) % Modulo, Siguiente,
                  "chequea")
       /\ UNCHANGED <<estado, terminando, motivo>>

Jnz == /\ Ejecuta("jnz", contexto.ax,
                  IF contexto.ax # 0 THEN Instruccion.a ELSE Siguiente,
                  "chequea")
       /\ UNCHANGED <<estado, terminando, motivo>>

\* READ_MEM leaves any value; WRITE_MEM the one there was.
Mem == /\ Traduce(contexto.ax) # Error
       /\ \E v \in 0 .. Modulo - 1 : Ejecuta("mem", v, Siguiente, "chequea")
       /\ UNCHANGED <<estado, terminando, motivo>>

\* hay_segmentation_fault
MemInvalida ==
    /\ Traduce(contexto.ax) = Error
    /\ Ejecuta("mem", contexto.ax, Siguiente, "chequea")
    /\ motivo' = "fin_proceso"
    /\ UNCHANGED <<estado, terminando>>

\* IO, and every syscall that blocks.
IO == /\ Ejecuta("io", contexto.ax, Siguiente, "chequea")
      /\ estado' = [estado EXCEPT ![hilo_ejecutar] = "bloqueado"]
      /\ motivo' = "bloqueo"
      /\ UNCHANGED terminando

ThreadExit ==
    /\ Ejecuta("thread_exit", contexto.ax, Siguiente, "chequea")
    /\ estado' = [estado EXCEPT ![hilo_ejecutar] = "fin"]
    /\ terminando' = terminando \cup {hilo_ejecutar}
    /\ motivo' = "bloqueo"

ProcessExit ==
    /\ Ejecuta("process_exit", contexto.ax, Siguiente, "chequea")
    /\ motivo' = "fin_proceso"
    /\ UNCHANGED <<estado, terminando>>

Hermanos == {g \in Hilos : /\ Proceso[g] = Proceso[hilo_ejecutar]
                           /\ estado[g] = "inexistente"}

\* THREAD_CREATE_KERNEL: READY first, then memoria. Bound: nothing is created
\* once every thread of Hilos has been.
ThreadCreate(hasta) ==
    /\ pcCPU = "ejecuta" /\ Posiciones(hilo_ejecutar) # {}
    /\ Instruccion.op = "thread_create"
    /\ contexto' = [contexto EXCEPT !.pc = Siguiente]
    /\ IF Hermanos = {} THEN UNCHANGED <<estado, creando>>
       ELSE \E g \in Hermanos :
              /\ \A f \in Hermanos : Tid[g] <= Tid[f]
              /\ estado' = [estado EXCEPT ![g] = "listo"]
              /\ creando' = creando \cup {g}
    /\ pcCPU' = hasta
    /\ UNCHANGED <<lista_hilos, terminando, hilo_ejecutar, motivo>>

\* Mutant: does not wait for the answer of memoria.
CreaYSigue == ThreadCreate("chequea")

CreaYEspera == ThreadCreate("espera_ok")

RecibeOK ==
    /\ pcCPU = "espera_ok" /\ creando = {}
    /\ pcCPU' = "chequea"
    /\ UNCHANGED <<lista_hilos, kernel, hilo_ejecutar, contexto, motivo>>

\* check_interrupt. A quantum may be over at any time.
Chequea ==
    /\ pcCPU = "chequea"
    /\ \/ motivo # "ninguno" /\ pcCPU' = "guarda" /\ UNCHANGED motivo
       \/ motivo = "ninguno" /\ pcCPU' = "ejecuta" /\ UNCHANGED motivo
       \/ motivo = "ninguno" /\ pcCPU' = "guarda" /\ motivo' = "quantum"
    /\ UNCHANGED <<lista_hilos, kernel, hilo_ejecutar, contexto>>

\* Mutant: the program counter is not sent.
GuardaSinPC ==
    /\ pcCPU = "guarda"
    /\ pcCPU' = "confirma"
    /\ lista_hilos' =
         IF Posiciones(hilo_ejecutar) = {} THEN lista_hilos
         ELSE [lista_hilos EXCEPT ![Posicion(hilo_ejecutar)].ax = contexto.ax]
    /\ UNCHANGED <<kernel, hilo_ejecutar, contexto, motivo>>

\* enviar_contexto_hilo_a_memoria, actualizar_contexto_hilo
Guarda ==
    /\ pcCPU = "guarda"
    /\ pcCPU' = "confirma"
    /\ lista_hilos' =
         IF Posiciones(hilo_ejecutar) = {} THEN lista_hilos
         ELSE [lista_hilos EXCEPT ![Posicion(hilo_ejecutar)].ax = contexto.ax,
                                  ![Posicion(hilo_ejecutar)].pc = contexto.pc]
    /\ UNCHANGED <<kernel, hilo_ejecutar, contexto, motivo>>

-----------------------------------------------------------------------------
Memoria == \E h \in Hilos : CreaHilo(h) \/ FinalizaHilo(h)

Kernel ==
    \/ \E h \in Hilos : CreaProceso(h) \/ Despacha(h) \/ Despierta(h)
    \/ FinDeQuantum \/ FinPorBloqueo \/ FinProceso

CPU ==
    \/ PideContexto \/ Set \/ Sum \/ Jnz \/ Mem \/ MemInvalida \/ IO
    \/ ThreadExit \/ ProcessExit \/ CreaYEspera \/ RecibeOK \/ Chequea
    \/ Guarda

Next == Memoria \/ Kernel \/ CPU

Spec == Init /\ [][Next]_vars

-----------------------------------------------------------------------------
(* Properties.                                                             *)

\* Every variable has its type.
TypeOK ==
    /\ lista_hilos \in Seq([hilo : Hilos, ax : 0 .. Modulo - 1, pc : Nat,
                            instrucciones : Programas])
    /\ estado \in [Hilos -> {"inexistente", "listo", "exec", "bloqueado",
                             "fin"}]
    /\ creando \subseteq Hilos /\ terminando \subseteq Hilos
    /\ pcCPU \in {"recibe", "pide", "ejecuta", "espera_ok", "chequea",
                  "guarda", "confirma"}
    /\ hilo_ejecutar \in Hilos \cup {Nadie}
    /\ contexto \in [ax : 0 .. Modulo - 1, pc : Nat, base : Nat, limite : Nat]
    /\ motivo \in {"ninguno", "quantum", "bloqueo", "fin_proceso"}

Vivo(h) == estado[h] \notin {"inexistente", "fin"} /\ h \notin creando

\* A thread that lives has exactly one context in memoria, whatever the ends
\* of other threads and processes have moved in the array.
CadaVivoSuContexto ==
    \A h \in Hilos : Vivo(h) => \E i \in Posiciones(h) : Posiciones(h) = {i}

\* When the CPU asks for a context or an instruction memoria has it. A thread
\* is in READY before its context exists (syscalls.c 48), but its creator does
\* not leave the CPU before. And the program counter is that of an instruction
\* both in the CPU, which asks for it, and in memoria, where
\* obtener_instruccion_with_PC looks at whether the program is over.
EncuentraContexto ==
    /\ pcCPU \in {"pide", "ejecuta"} => Posiciones(hilo_ejecutar) # {}
    /\ pcCPU = "ejecuta" =>
         LET guardado == Guardado(hilo_ejecutar)
         IN  /\ contexto.pc < Len(guardado.instrucciones)
             /\ guardado.pc < Len(guardado.instrucciones)

\* The MMU refuses no address of the partition, and takes none that has gone
\* round 2^32. Of the others it takes one, the limit (mmu.c 25).
DireccionExacta ==
    pcCPU = "ejecuta" =>
        \A d \in 0 .. Modulo - 1 :
            Traduce(d) = IF d <= Tamanio[Proceso[hilo_ejecutar]]
                         THEN Base[Proceso[hilo_ejecutar]] + d ELSE Error

\* The bytes of the partition of p, and the first one after them.
BytesDe(p) == Base[p] .. Base[p] + Tamanio[p] - 1

LimiteDe(p) == Base[p] + Tamanio[p]

\* The physical addresses that the MMU takes from the thread in the CPU.
Aceptadas == {Traduce(d) : d \in 0 .. Modulo - 1} \ {Error}

\* The same as a set: the partition of the thread and one address more.
AceptaHastaElLimite ==
    pcCPU = "ejecuta" =>
        LET mio == Proceso[hilo_ejecutar]
        IN  Aceptadas = BytesDe(mio) \cup {LimiteDe(mio)}

\* False whenever a thread executes: the limit is not in the partition, and
\* may be the first byte of another one (mmu.c 25).
SoloSuParticion ==
    pcCPU = "ejecuta" => Aceptadas \subseteq BytesDe(Proceso[hilo_ejecutar])

\* The registers of h are in the CPU.
EnCPU(h) == hilo_ejecutar = h /\ pcCPU \notin {"recibe", "pide"}

Vive(h) == Vivo(h) /\ Posiciones(h) # {}

Aislada == INSTANCE EjecucionAislada WITH
    programa <- [h \in Hilos |->
                   IF Vive(h) THEN Guardado(h).instrucciones
                   ELSE <<>>],
    ctx <- [h \in Hilos |->
              IF ~Vive(h) THEN [ax |-> 0, pc |-> 0]
              ELSE IF EnCPU(h) THEN [ax |-> contexto.ax, pc |-> contexto.pc]
              ELSE [ax |-> Guardado(h).ax, pc |-> Guardado(h).pc]]

\* Each thread runs its program as if it were alone: no instruction is lost,
\* repeated or run with the registers of another thread, however it is taken
\* off the CPU and given it back.
CumpleAislada == Aislada!Spec
=============================================================================
