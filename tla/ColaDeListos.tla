---------------------------- MODULE ColaDeListos ----------------------------
(***************************************************************************)
(* What the short-term planner promises with FIFO, without semaphores: the *)
(* threads wait in one queue, the CPU takes the oldest one when it has     *)
(* none, and only the end of a process touches the queue in another way:   *)
(* it takes out threads with one tid, and may leave the rest rotated.      *)
(***************************************************************************)
EXTENDS RemoverHilo

CONSTANTS Hilos, Tid, Nadie

VARIABLES
    cola,       \* the threads that wait, oldest first
    ejecuta,    \* the one that has the CPU, or Nadie
    caida       \* the kernel is down

vars == <<cola, ejecuta, caida>>

Init == cola = <<>> /\ ejecuta = Nadie /\ caida = FALSE

Llega(h) ==
    /\ cola' = Append(cola, h)
    /\ UNCHANGED ejecuta

Despacha ==
    /\ ejecuta = Nadie /\ cola # <<>>
    /\ ejecuta' = Head(cola)
    /\ cola' = Tail(cola)

Deja ==
    /\ ejecuta # Nadie
    /\ ejecuta' = Nadie
    /\ UNCHANGED cola

Poda(h) ==
    /\ \E k \in 0 .. Len(cola), S \in SUBSET {g \in Hilos : Tid[g] = Tid[h]} :
         cola' = SubSeq(cola, k + 1, Len(cola)) \o Quedan(SubSeq(cola, 1, k), S)
    /\ UNCHANGED ejecuta

Trabaja ==
    /\ ~caida /\ UNCHANGED caida
    /\ Despacha \/ Deja \/ \E h \in Hilos : Llega(h) \/ Poda(h)

Cae ==
    /\ caida' = TRUE
    /\ UNCHANGED <<cola, ejecuta>>

Next == Trabaja \/ Cae

Spec == Init /\ [][Next]_vars

\* While the kernel is up, nobody waits for a CPU that has no thread.
FairSpec == Spec /\ WF_vars(~caida /\ Despacha /\ UNCHANGED caida)
=============================================================================
