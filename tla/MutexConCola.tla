---------------------------- MODULE MutexConCola ----------------------------
(***************************************************************************)
(* What the mutexes of the kernel promise to the programs                  *)
(* (kernel/src/syscalls.c): one owner at a time, and whoever asks for a    *)
(* mutex that is taken gets it, in the order of asking, when its owner     *)
(* gives it back. No lists of threads, no CPU.                             *)
(***************************************************************************)
EXTENDS Sequences

CONSTANTS Hilos, Mutexes, Libre

VARIABLES
    tiene,    \* tiene[m]: the thread that has m, or Libre
    cola      \* cola[m]: the ones that wait for it

vars == <<tiene, cola>>

Init ==
    /\ tiene = [m \in Mutexes |-> Libre]
    /\ cola = [m \in Mutexes |-> <<>>]

Toma(h, m) ==
    /\ tiene[m] = Libre
    /\ tiene' = [tiene EXCEPT ![m] = h]
    /\ UNCHANGED cola

Espera(h, m) ==
    /\ tiene[m] # Libre
    /\ cola' = [cola EXCEPT ![m] = Append(@, h)]
    /\ UNCHANGED tiene

Devuelve(m) ==
    /\ tiene[m] # Libre /\ cola[m] = <<>>
    /\ tiene' = [tiene EXCEPT ![m] = Libre]
    /\ UNCHANGED cola

Pasa(m) ==
    /\ tiene[m] # Libre /\ cola[m] # <<>>
    /\ tiene' = [tiene EXCEPT ![m] = Head(cola[m])]
    /\ cola' = [cola EXCEPT ![m] = Tail(@)]

Next ==
    \E m \in Mutexes :
        \/ \E h \in Hilos : Toma(h, m) \/ Espera(h, m)
        \/ Devuelve(m) \/ Pasa(m)

Spec == Init /\ [][Next]_vars
=============================================================================
