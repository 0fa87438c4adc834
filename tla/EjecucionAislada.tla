-------------------------- MODULE EjecucionAislada --------------------------
(***************************************************************************)
(* What a program may believe: each thread runs its program from zeroed    *)
(* registers, an instruction after another, as if it had a CPU of its own. *)
(* There is no memory module, no saved copy and no quantum.                *)
(***************************************************************************)
EXTENDS Integers, Sequences

CONSTANTS
    Hilos, Procesos, Proceso,    \* Proceso[h]: process of thread h
    Programas,                   \* sequences of instructions
    Modulo                       \* registers hold 0 .. Modulo - 1

VARIABLES
    programa,    \* programa[h]: empty while h does not run
    ctx          \* ctx[h]: register AX and program counter

vars == <<programa, ctx>>

Cero == [ax |-> 0, pc |-> 0]

Init == /\ programa = [h \in Hilos |-> <<>>]
        /\ ctx = [h \in Hilos |-> Cero]

Empieza(h, instrucciones) ==
    /\ programa[h] = <<>>
    /\ programa' = [programa EXCEPT ![h] = instrucciones]
    /\ UNCHANGED ctx

Instruccion(h) == programa[h][ctx[h].pc + 1]

Saltos(h) ==
    IF Instruccion(h).op = "jnz" /\ ctx[h].ax # 0 THEN Instruccion(h).a
    ELSE ctx[h].pc + 1

Registros(h) ==
    CASE Instruccion(h).op = "set" -> {Instruccion(h).v}
      [] Instruccion(h).op = "sum" -> {(ctx[h].ax + Instruccion(h).v) % Modulo}
      [] Instruccion(h).op = "mem" -> 0 .. Modulo - 1
      [] OTHER -> {ctx[h].ax}

Avanza(h) ==
    /\ programa[h] # <<>>
    /\ ctx[h].pc < Len(programa[h])
    /\ \E ax \in Registros(h) :
         ctx' = [ctx EXCEPT ![h] = [ax |-> ax, pc |-> Saltos(h)]]
    /\ UNCHANGED programa

\* The threads of S stop, and do not run again.
Termina(S) ==
    /\ programa' = [h \in Hilos |-> IF h \in S THEN <<>> ELSE programa[h]]
    /\ ctx' = [h \in Hilos |-> IF h \in S THEN Cero ELSE ctx[h]]

\* THREAD_EXIT, and the last instruction of a process.
Sale(h) ==
    /\ programa[h] # <<>> /\ ctx[h].pc < Len(programa[h])
    /\ Instruccion(h).op = "thread_exit"
    /\ Termina({h})

SaleProceso(h) ==
    /\ programa[h] # <<>> /\ ctx[h].pc > 0
    /\ programa[h][ctx[h].pc].op \in {"process_exit", "mem"}
    /\ Termina({g \in Hilos : Proceso[g] = Proceso[h]})

Next ==
    \E h \in Hilos :
        \/ \E i \in Programas : Empieza(h, i)
        \/ Avanza(h) \/ Sale(h) \/ SaleProceso(h)

Spec == Init /\ [][Next]_vars
=============================================================================
