--------------------------- MODULE MemoriaContigua --------------------------
(***************************************************************************)
(* What the memory module promises, without a list of partitions: each     *)
(* byte is free or of one process; a process gets as many contiguous bytes *)
(* as it asks for, or one of the fixed pieces when the memory has been cut *)
(* from the start, keeps those until it ends, and is refused only when     *)
(* there are none free.                                                    *)
(***************************************************************************)
EXTENDS Integers

CONSTANTS
    Procesos,
    TamMemoria,
    Tamanios,
    Nadie       \* owner of a free byte

VARIABLES
    situacion,  \* situacion[p]: whether process p is in memory
    tam,        \* tam[p]: the bytes it asked for
    dueno,      \* dueno[b]: the process that byte b belongs to
    piezas      \* the fixed pieces <<base, size>>; {} to cut on demand

vars == <<situacion, tam, dueno, piezas>>

Bytes == 0 .. TamMemoria - 1

Init ==
    /\ situacion = [p \in Procesos |-> "nuevo"]
    /\ tam = [p \in Procesos |-> 0]
    /\ dueno = [b \in Bytes |-> Nadie]
    /\ piezas \in SUBSET (Bytes \X (1 .. TamMemoria))

\* The n bytes from base on are free, and may be given for t.
Hueco(base, n, t) ==
    /\ IF piezas = {} THEN n = t ELSE n >= t /\ <<base, n>> \in piezas
    /\ base + n <= TamMemoria
    /\ \A b \in base .. base + n - 1 : dueno[b] = Nadie

Asigna(p, t) ==
    /\ \E base \in Bytes, n \in 1 .. TamMemoria :
         /\ Hueco(base, n, t)
         /\ dueno' = [b \in Bytes |-> IF b \in base .. base + n - 1
                                      THEN p ELSE dueno[b]]
    /\ situacion' = [situacion EXCEPT ![p] = "vivo"]

Rechaza(p, t) ==
    /\ ~\E base \in Bytes, n \in 1 .. TamMemoria : Hueco(base, n, t)
    /\ situacion' = [situacion EXCEPT ![p] = "rechazado"]
    /\ UNCHANGED dueno

\* A process asks once for its size, and again after each refusal.
Pide(p, t) ==
    /\ situacion[p] = "nuevo" \/ (situacion[p] = "rechazado" /\ tam[p] = t)
    /\ tam' = [tam EXCEPT ![p] = t]
    /\ UNCHANGED piezas
    /\ Asigna(p, t) \/ Rechaza(p, t)

Libera(p) ==
    /\ situacion[p] = "vivo"
    /\ situacion' = [situacion EXCEPT ![p] = "terminado"]
    /\ dueno' = [b \in Bytes |-> IF dueno[b] = p THEN Nadie ELSE dueno[b]]
    /\ UNCHANGED <<tam, piezas>>

Next ==
    \E p \in Procesos : (\E t \in Tamanios : Pide(p, t)) \/ Libera(p)

Spec == Init /\ [][Next]_vars
=============================================================================
