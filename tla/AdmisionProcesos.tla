-------------------------- MODULE AdmisionProcesos --------------------------
(***************************************************************************)
(* What the long-term planner of the kernel promises, without semaphores,  *)
(* threads or retries: processes wait in one queue, the oldest one enters  *)
(* as soon as a partition holds it, and no other one overtakes it.         *)
(***************************************************************************)
EXTENDS Integers, Sequences

CONSTANTS
    MaxProcesos,   \* bound: how many processes are ever created
    Particiones,   \* the partitions of the memory module (esquema FIJAS)
    TamanioDe,     \* TamanioDe[i]: size of partition i
    Tamanios       \* sizes a process may ask for

Procesos == 0 .. MaxProcesos - 1

\* The pid of a free partition (-1 in the code), and "no process" elsewhere.
Nadie == -1

VARIABLES
    llegados,    \* how many processes have arrived: the next one's name
    nuevos,      \* the processes that wait, oldest first
    particion,   \* particion[i]: the process that partition i belongs to
    tam          \* tam[p]: the size process p asked for

vars == <<llegados, nuevos, particion, tam>>

Init ==
    /\ llegados = 0
    /\ nuevos = <<>>
    /\ particion = [i \in Particiones |-> Nadie]
    /\ tam = [p \in Procesos |-> 0]

\* A new process joins the end of the queue.
Llega(t) ==
    /\ llegados < MaxProcesos
    /\ llegados' = llegados + 1
    /\ nuevos' = Append(nuevos, llegados)
    /\ tam' = [tam EXCEPT ![llegados] = t]
    /\ UNCHANGED particion

\* The oldest waiting process gets a free partition that holds it.
Admite ==
    /\ nuevos # <<>>
    /\ \E i \in Particiones :
         /\ particion[i] = Nadie
         /\ tam[Head(nuevos)] <= TamanioDe[i]
         /\ particion' = [particion EXCEPT ![i] = Head(nuevos)]
    /\ nuevos' = Tail(nuevos)
    /\ UNCHANGED <<llegados, tam>>

\* A process gives its partition back.
Devuelve(i) ==
    /\ particion[i] # Nadie
    /\ particion' = [particion EXCEPT ![i] = Nadie]
    /\ UNCHANGED <<llegados, nuevos, tam>>

Next ==
    \/ \E t \in Tamanios : Llega(t)
    \/ Admite
    \/ \E i \in Particiones : Devuelve(i)

Spec == Init /\ [][Next]_vars

\* The oldest process is not left waiting while a partition holds it.
FairSpec == Spec /\ WF_vars(Admite)
=============================================================================
