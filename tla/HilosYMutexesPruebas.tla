------------------------ MODULE HilosYMutexesPruebas ------------------------
(***************************************************************************)
(* Proofs about HilosYMutexes, for any threads, processes and mutexes: the *)
(* types; mutual exclusion and the refinement of MutexConCola, when no     *)
(* thread ends with a mutex; and with CMN the one state of each thread and *)
(* the waker of each blocked one.                                          *)
(***************************************************************************)
EXTENDS HilosYMutexes, SequenceTheorems, TLAPS

-----------------------------------------------------------------------------
(* The inductive invariants.                                               *)

\* A mutex is taken by one thread, or by none and nobody waits for it.
MutexesEnOrden ==
    \A m \in Mutexes :
        /\ disponible[m] => duenio[m] = Nadie /\ cola[m] = <<>>
        /\ ~disponible[m] => duenio[m] \in Hilos
        /\ tomado[m] = IF disponible[m] THEN {} ELSE {duenio[m]}

InvMutexes == TypeOK /\ MutexesEnOrden

\* In how many places a thread is that has not finished.
Lugares(h) ==
    Uno(h \in listos) + Uno(h \in colas) + Uno(h \in bloqueados)
    + Uno(h \in despertando) + Uno(exec = h /\ ~soltando)

\* A cancelled thread may go on, but in one place as the rest; one that does
\* not exist is nowhere.
UnLugar ==
    /\ soltando => exec # Nadie
    /\ \A h \in Hilos :
         /\ Lugares(h) <= 1
         /\ h \notin creados => Lugares(h) = 0 /\ h \notin terminados
         /\ h \in creados \ cancelados => Lugares(h) + Uno(h \in terminados) = 1

SinRepetir(q) == \A i, j \in 1 .. Len(q) : q[i] = q[j] => i = j

\* Whoever waits is blocked, and waits for one thing.
UnaEspera ==
    /\ durmiendo \subseteq bloqueados
    /\ \A g, h \in Hilos : h \in ToSet(uniones[g]) =>
         /\ h \in bloqueados \ durmiendo
         /\ \A f \in Hilos : h \in ToSet(uniones[f]) => f = g
         /\ \A m \in Mutexes : h \notin ToSet(cola[m])
    /\ \A m \in Mutexes : \A h \in Hilos : h \in ToSet(cola[m]) =>
         /\ h \in bloqueados \ durmiendo
         /\ \A n \in Mutexes : h \in ToSet(cola[n]) => n = m
    /\ \A m \in Mutexes : SinRepetir(cola[m])

\* Whoever others wait for may go on: who has a mutex, and who is joined. And
\* each blocked thread waits for something.
AlguienSigue ==
    /\ \A m \in Mutexes :
         IF disponible[m] THEN cola[m] = <<>>
         ELSE m \in mutex_lista /\ duenio[m] \in Siguen
    /\ \A g \in Hilos : uniones[g] # <<>> => g \in Siguen
    /\ \A h \in bloqueados :
         \/ h \in durmiendo
         \/ \E m \in Mutexes : h \in ToSet(cola[m])
         \/ \E g \in Hilos : h \in ToSet(uniones[g])

InvListas == TypeOK /\ UnLugar /\ UnaEspera /\ AlguienSigue

-----------------------------------------------------------------------------
(* Queues.                                                                 *)

\* Who is in a queue is in one of its positions.
LEMMA EnCola ==
    ASSUME NEW q \in Seq(Hilos), NEW x
    PROVE  x \in ToSet(q) <=> \E i \in 1 .. Len(q) : q[i] = x
BY LenProperties DEF ToSet

\* Adding a thread to a queue.
LEMMA PoneEnCola ==
    ASSUME NEW q \in Seq(Hilos), NEW h \in Hilos
    PROVE  /\ Append(q, h) \in Seq(Hilos) /\ Append(q, h) # <<>>
           /\ ToSet(Append(q, h)) = ToSet(q) \cup {h}
           /\ SinRepetir(q) /\ h \notin ToSet(q) => SinRepetir(Append(q, h))
<1>1. /\ Append(q, h) \in Seq(Hilos) /\ Append(q, h) # <<>>
      /\ Len(Append(q, h)) = Len(q) + 1 /\ Len(q) \in Nat
      /\ \A i \in 1 .. Len(q) : Append(q, h)[i] = q[i]
      /\ Append(q, h)[Len(q) + 1] = h
  BY AppendProperties, LenProperties
<1>2. ASSUME NEW x PROVE x \in ToSet(Append(q, h)) <=> x \in ToSet(q) \cup {h}
  <2>1. x \in ToSet(Append(q, h)) <=>
            \E i \in 1 .. Len(q) + 1 : Append(q, h)[i] = x
    BY <1>1 DEF ToSet
  <2>2. x \in ToSet(q) <=> \E i \in 1 .. Len(q) : q[i] = x
    BY DEF ToSet
  <2> QED BY <1>1, <2>1, <2>2
<1>3. SinRepetir(q) /\ h \notin ToSet(q) => SinRepetir(Append(q, h))
  <2>1. h \in ToSet(q) <=> \E i \in 1 .. Len(q) : q[i] = h
    BY EnCola
  <2> QED BY <1>1, <2>1 DEF SinRepetir
<1> QED BY <1>1, <1>2, <1>3, Zenon

\* Taking the first one.
LEMMA SacaDeCola ==
    ASSUME NEW q \in Seq(Hilos), q # <<>>
    PROVE  /\ Head(q) \in Hilos /\ Tail(q) \in Seq(Hilos)
           /\ ToSet(q) = ToSet(Tail(q)) \cup {Head(q)}
           /\ SinRepetir(q) => /\ SinRepetir(Tail(q))
                               /\ Head(q) \notin ToSet(Tail(q))
<1>1. /\ Head(q) \in Hilos /\ Tail(q) \in Seq(Hilos)
      /\ Len(Tail(q)) = Len(q) - 1 /\ Len(q) \in Nat \ {0}
      /\ \A i \in 1 .. Len(Tail(q)) : Tail(q)[i] = q[i + 1]
      /\ q[1] = Head(q)
  BY HeadTailProperties, LenProperties, EmptySeq
<1>2. ASSUME NEW x
      PROVE  x \in ToSet(Tail(q)) <=> \E i \in 2 .. Len(q) : q[i] = x
  <2>1. x \in ToSet(Tail(q)) <=> \E i \in 1 .. Len(Tail(q)) : Tail(q)[i] = x
    BY <1>1, EnCola
  <2>2. ASSUME NEW i \in 2 .. Len(q), q[i] = x
        PROVE  \E k \in 1 .. Len(Tail(q)) : Tail(q)[k] = x
    <3>1. i - 1 \in 1 .. Len(Tail(q)) /\ Tail(q)[i - 1] = x
      BY <1>1, <2>2
    <3> QED BY <3>1
  <2>3. ASSUME NEW i \in 1 .. Len(Tail(q)), Tail(q)[i] = x
        PROVE  \E k \in 2 .. Len(q) : q[k] = x
    <3>1. i + 1 \in 2 .. Len(q) /\ q[i + 1] = x
      BY <1>1, <2>3
    <3> QED BY <3>1
  <2> QED BY <2>1, <2>2, <2>3
<1>3. ASSUME NEW x PROVE x \in ToSet(q) <=> x \in ToSet(Tail(q)) \cup {Head(q)}
  <2>1. x \in ToSet(q) <=> \E i \in 1 .. Len(q) : q[i] = x
    BY EnCola
  <2> QED BY <1>1, <1>2, <2>1
<1>4. SinRepetir(q) => SinRepetir(Tail(q)) /\ Head(q) \notin ToSet(Tail(q))
  <2> SUFFICES ASSUME SinRepetir(q)
               PROVE  SinRepetir(Tail(q)) /\ Head(q) \notin ToSet(Tail(q))
    OBVIOUS
  <2>1. SinRepetir(Tail(q))
    <3> SUFFICES ASSUME NEW i \in 1 .. Len(Tail(q)), NEW j \in 1 .. Len(Tail(q)),
                        Tail(q)[i] = Tail(q)[j]
                 PROVE  i = j
      BY DEF SinRepetir
    <3>1. i + 1 \in 1 .. Len(q) /\ j + 1 \in 1 .. Len(q) /\ q[i + 1] = q[j + 1]
      BY <1>1
    <3>2. i + 1 = j + 1
      BY <3>1 DEF SinRepetir
    <3> QED BY <3>2
  <2>2. ASSUME NEW i \in 2 .. Len(q), q[i] = Head(q) PROVE FALSE
    <3>1. 1 \in 1 .. Len(q) /\ i \in 1 .. Len(q) /\ q[1] = q[i]
      BY <1>1, <2>2
    <3>2. i = 1
      BY <3>1 DEF SinRepetir
    <3> QED BY <3>2
  <2> QED BY <1>2, <2>1, <2>2
<1> QED BY <1>1, <1>3, <1>4, Zenon

\* Nobody is in the empty queue.
LEMMA ColaVacia == ToSet(<<>>) = {} /\ SinRepetir(<<>>)
BY EmptySeq DEF ToSet, SinRepetir

\* Who is in a queue of threads is a thread, and then it is not empty.
LEMMA EnColaEsHilo ==
    ASSUME NEW q \in Seq(Hilos)
    PROVE  ToSet(q) \subseteq Hilos
BY ElementOfSeq, LenProperties DEF ToSet

-----------------------------------------------------------------------------
(* The types.                                                              *)

\* The end of a thread keeps the types.
LEMMA TiposTermina ==
    ASSUME TypeOK, NEW h \in Hilos, Termina(h)
    PROVE  /\ salidos' \in Seq(Hilos) /\ bloqueados' \subseteq Hilos
           /\ listos' \subseteq Hilos /\ uniones' \in [Hilos -> Seq(Hilos)]
           /\ disponible' \in [Mutexes -> BOOLEAN]
           /\ cola' \in [Mutexes -> Seq(Hilos)]
           /\ tomado' \in [Mutexes -> SUBSET Hilos]
           /\ terminados' = terminados \cup {h}
<1> USE DEF TypeOK, Termina
<1>1. \A m \in Mutexes : ToSet(cola[m]) \subseteq Hilos
  BY EnColaEsHilo
<1>2. Liberados(h) \subseteq Hilos
  BY <1>1, EnColaEsHilo DEF Liberados, SusMutexes
<1>3. <<>> \in Seq(Hilos)
  BY EmptySeq
<1>4. tomado' \in [Mutexes -> SUBSET Hilos]
  BY <1>1 DEF SusMutexes
<1>5. salidos' \in Seq(Hilos)
  BY PoneEnCola
<1>6. disponible' \in [Mutexes -> BOOLEAN]
  BY Zenon DEF SusMutexes
<1>7. uniones' \in [Hilos -> Seq(Hilos)] /\ cola' \in [Mutexes -> Seq(Hilos)]
  BY <1>3
<1> QED BY <1>2, <1>4, <1>5, <1>6, <1>7

\* Every step keeps the types.
LEMMA PasoDeTipos == TypeOK /\ [Next]_vars => TypeOK'
<1> SUFFICES ASSUME TypeOK, [Next]_vars PROVE TypeOK'
  OBVIOUS
<1> USE HilosAssumption DEF TypeOK, listas, mutexes, finales
<1>1. Atiende => exec \in Hilos
  BY DEF Atiende
<1>2. CASE Exit
  BY <1>1, <1>2, TiposTermina DEF Exit
<1>3. CASE IO
  BY <1>1, <1>3 DEF IO
<1>4. ASSUME NEW h \in Hilos, CreaHilo(h) PROVE TypeOK'
  BY <1>4 DEF CreaHilo
<1>5. ASSUME NEW t \in Tids, JoinBloquea(t) PROVE TypeOK'
  <2>1. uniones' \in [Hilos -> Seq(Hilos)]
    <3>1. PICK g \in Busca(t) : uniones' = [uniones EXCEPT ![g] = Append(@, exec)]
      BY <1>5 DEF JoinBloquea
    <3>2. g \in Hilos => Append(uniones[g], exec) \in Seq(Hilos)
      BY <1>1, <1>5, PoneEnCola DEF JoinBloquea
    <3> QED BY <3>1, <3>2
  <2> QED BY <1>1, <1>5, <2>1 DEF JoinBloquea
<1>6. ASSUME NEW t \in Tids, JoinNoBloquea(t) PROVE TypeOK'
  BY <1>6 DEF JoinNoBloquea, vars
<1>7. ASSUME NEW t \in Tids, CancelInexistente(t) PROVE TypeOK'
  BY <1>7 DEF CancelInexistente
<1>8. ASSUME NEW t \in Tids, Cancel(t) PROVE TypeOK'
  <2>1. PICK g \in Busca(t) : /\ Termina(g) /\ soltando' = (g = exec)
                              /\ cancelados' = cancelados \cup {g}
    BY <1>8 DEF Cancel
  <2>2. g \in Hilos
    BY <2>1, EnColaEsHilo DEF Busca, Visibles
  <2> QED BY <1>8, <2>1, <2>2, TiposTermina DEF Cancel
<1>9. ASSUME NEW m \in Mutexes, MutexCreate(m) PROVE TypeOK'
  BY <1>9 DEF MutexCreate
<1>10. ASSUME NEW m \in Mutexes, Lock(m) PROVE TypeOK'
  BY <1>1, <1>10 DEF Lock
<1>11. ASSUME NEW m \in Mutexes, LockBloquea(m) PROVE TypeOK'
  <2>1. cola' \in [Mutexes -> Seq(Hilos)]
    BY <1>1, <1>11, PoneEnCola DEF LockBloquea
  <2> QED BY <1>1, <1>11, <2>1 DEF LockBloquea
<1>12. ASSUME NEW m \in Mutexes, MutexInexistente(m) PROVE TypeOK'
  BY <1>1, <1>12, TiposTermina DEF MutexInexistente
<1>13. ASSUME NEW m \in Mutexes, Unlock(m) PROVE TypeOK'
  <2>1. cola[m] # <<>> => Head(cola[m]) \in Hilos /\ Tail(cola[m]) \in Seq(Hilos)
    BY SacaDeCola
  <2>2. CASE cola[m] = <<>>
    <3>1. /\ disponible' = [disponible EXCEPT ![m] = TRUE]
          /\ duenio' = [duenio EXCEPT ![m] = Nadie]
          /\ tomado' = [tomado EXCEPT ![m] = @ \ {exec}]
          /\ UNCHANGED <<listos, bloqueados, cola>>
      BY <1>13, <2>2 DEF Unlock
    <3>2. disponible' \in [Mutexes -> BOOLEAN]
      BY <3>1
    <3>3. tomado' \in [Mutexes -> SUBSET Hilos]
      BY <3>1
    <3> QED BY <1>13, <3>1, <3>2, <3>3 DEF Unlock
  <2>3. CASE cola[m] # <<>>
    <3>1. /\ cola' = [cola EXCEPT ![m] = Tail(@)]
          /\ bloqueados' = bloqueados \ {Head(cola[m])}
          /\ listos' = listos \cup {Head(cola[m])}
          /\ duenio' = [duenio EXCEPT ![m] = Head(cola[m])]
          /\ tomado' = [tomado EXCEPT ![m] = (@ \ {exec}) \cup {Head(cola[m])}]
          /\ UNCHANGED disponible
      BY <1>13, <2>3 DEF Unlock
    <3>2. tomado' \in [Mutexes -> SUBSET Hilos]
      BY <2>1, <2>3, <3>1
    <3>3. cola' \in [Mutexes -> Seq(Hilos)]
      BY <2>1, <2>3, <3>1
    <3> QED BY <1>13, <2>1, <2>3, <3>1, <3>2, <3>3 DEF Unlock
  <2> QED BY <2>2, <2>3
<1>14. CASE Suelta \/ FinDeQuantum
  BY <1>14 DEF Suelta, FinDeQuantum
<1>15. ASSUME NEW h \in Hilos, \/ AdmiteHilo0(h) \/ Encola(h) \/ Despacha(h)
                               \/ TerminaIO(h) \/ VuelveDeIO(h)
       PROVE  TypeOK'
  BY <1>15 DEF AdmiteHilo0, Encola, Despacha, TerminaIO, VuelveDeIO
<1>16. CASE UNCHANGED vars
  BY <1>16 DEF vars
<1> QED
  BY <1>2, <1>3, <1>4, <1>5, <1>6, <1>7, <1>8, <1>9, <1>10, <1>11, <1>12,
     <1>13, <1>14, <1>15, <1>16 DEF Next, SyscallsDeHilos, SyscallsDeMutexes

\* The types of the lists, the queues and the mutexes hold for ever.
THEOREM TipoCorrecto == Spec => []TypeOK
<1>1. Init => TypeOK
  BY EmptySeq DEF Init, TypeOK
<1> QED BY <1>1, PasoDeTipos, PTL DEF Spec

-----------------------------------------------------------------------------
(* Mutual exclusion, and the promise of MutexConCola.                      *)

\* If threads end without mutexes, their end does nothing to them.
LEMMA TerminaSinMutexes ==
    ASSUME ~SalenConMutex, InvMutexes, NEW h \in Hilos, Termina(h)
    PROVE  UNCHANGED <<disponible, cola, tomado>>
<1> USE DEF InvMutexes, TypeOK
<1>1. \A m \in Mutexes : h \notin tomado[m]
  BY DEF Termina
<1>2. \A m \in Mutexes : duenio[m] # h
  BY <1>1, HilosAssumption DEF MutexesEnOrden
<1>3. SusMutexes(h) = {}
  BY <1>2 DEF SusMutexes
<1>4. \A m \in Mutexes : /\ disponible'[m] = disponible[m]
                         /\ cola'[m] = cola[m] /\ tomado'[m] = tomado[m]
  <2> TAKE m \in Mutexes
  <2>1. disponible'[m] = disponible[m]
    BY <1>3, Zenon DEF Termina
  <2>2. cola'[m] = cola[m] /\ tomado'[m] = tomado[m]
    BY <1>1, <1>3 DEF Termina
  <2> QED BY <2>1, <2>2
<1>5. disponible' = disponible
  BY <1>4 DEF Termina
<1>6. cola' = cola
  BY <1>4 DEF Termina
<1>7. tomado' = tomado
  BY <1>4 DEF Termina
<1> QED BY <1>5, <1>6, <1>7

\* What is not about mutexes leaves them alone.
LEMMA NoTocaMutexes ==
    ASSUME ~SalenConMutex, InvMutexes,
           \/ SyscallsDeHilos \/ Suelta \/ FinDeQuantum \/ UNCHANGED vars
           \/ \E m \in Mutexes : MutexCreate(m) \/ MutexInexistente(m)
           \/ \E h \in Hilos : \/ AdmiteHilo0(h) \/ Encola(h) \/ Despacha(h)
                               \/ TerminaIO(h) \/ VuelveDeIO(h)
    PROVE  UNCHANGED <<disponible, duenio, cola, tomado>>
<1> USE DEF mutexes
<1>1. Atiende => exec \in Hilos
  BY DEF Atiende, InvMutexes, TypeOK
<1>2. CASE SyscallsDeHilos
  <2>1. CASE Exit
    BY <1>1, <2>1, TerminaSinMutexes DEF Exit
  <2>2. CASE IO
    BY <2>2 DEF IO
  <2>3. ASSUME NEW h \in Hilos, CreaHilo(h)
        PROVE  UNCHANGED <<disponible, duenio, cola, tomado>>
    BY <2>3 DEF CreaHilo
  <2>4. ASSUME NEW t \in Tids, \/ JoinNoBloquea(t) \/ JoinBloquea(t)
                               \/ CancelInexistente(t)
        PROVE  UNCHANGED <<disponible, duenio, cola, tomado>>
    BY <2>4 DEF JoinNoBloquea, JoinBloquea, CancelInexistente, vars
  <2>5. ASSUME NEW t \in Tids, Cancel(t)
        PROVE  UNCHANGED <<disponible, duenio, cola, tomado>>
    <3>1. PICK g \in Hilos : Termina(g)
      BY <2>5 DEF Cancel, Busca, Visibles, InvMutexes, TypeOK, ToSet
    <3> QED BY <2>5, <3>1, TerminaSinMutexes DEF Cancel
  <2> QED BY <1>2, <2>1, <2>2, <2>3, <2>4, <2>5 DEF SyscallsDeHilos
<1>3. CASE \E m \in Mutexes : MutexCreate(m) \/ MutexInexistente(m)
  BY <1>1, <1>3, TerminaSinMutexes DEF MutexCreate, MutexInexistente
<1>4. CASE Suelta \/ FinDeQuantum \/ UNCHANGED vars
  BY <1>4 DEF Suelta, FinDeQuantum, vars
<1>5. ASSUME NEW h \in Hilos, \/ AdmiteHilo0(h) \/ Encola(h) \/ Despacha(h)
                              \/ TerminaIO(h) \/ VuelveDeIO(h)
      PROVE  UNCHANGED <<disponible, duenio, cola, tomado>>
  BY <1>5 DEF AdmiteHilo0, Encola, Despacha, TerminaIO, VuelveDeIO
<1> QED BY <1>2, <1>3, <1>4, <1>5

\* LOCK and UNLOCK, with what each branch gives to whom.
LEMMA PasoDeMutexes ==
    ASSUME ~SalenConMutex, InvMutexes, [Next]_vars
    PROVE  MutexesEnOrden'
<1> USE DEF InvMutexes, TypeOK, MutexesEnOrden
<1>1. Atiende => exec \in Hilos
  BY DEF Atiende
<1>2. CASE UNCHANGED <<disponible, duenio, cola, tomado>>
  BY <1>2
<1>3. ASSUME NEW m \in Mutexes, Lock(m) PROVE MutexesEnOrden'
  BY <1>1, <1>3 DEF Lock
<1>4. ASSUME NEW m \in Mutexes, LockBloquea(m) PROVE MutexesEnOrden'
  BY <1>4 DEF LockBloquea
<1>5. ASSUME NEW m \in Mutexes, Unlock(m) PROVE MutexesEnOrden'
  <2>1. ~disponible[m] /\ duenio[m] = exec /\ tomado[m] = {exec}
    BY <1>5 DEF Unlock, EsSuDuenio
  <2>2. CASE cola[m] = <<>>
    <3>1. /\ disponible' = [disponible EXCEPT ![m] = TRUE]
          /\ duenio' = [duenio EXCEPT ![m] = Nadie]
          /\ tomado' = [tomado EXCEPT ![m] = @ \ {exec}]
          /\ cola' = cola
      BY <1>5, <2>2 DEF Unlock
    <3> QED BY <2>1, <2>2, <3>1
  <2>3. CASE cola[m] # <<>>
    <3>1. Head(cola[m]) \in Hilos
      BY <2>3, SacaDeCola
    <3>2. /\ cola' = [cola EXCEPT ![m] = Tail(@)]
          /\ duenio' = [duenio EXCEPT ![m] = Head(cola[m])]
          /\ tomado' = [tomado EXCEPT ![m] = (@ \ {exec}) \cup {Head(cola[m])}]
          /\ disponible' = disponible
      BY <1>5, <2>3 DEF Unlock
    <3> QED BY <2>1, <2>3, <3>1, <3>2
  <2> QED BY <2>2, <2>3
<1> QED BY <1>2, <1>3, <1>4, <1>5, NoTocaMutexes DEF Next, SyscallsDeMutexes

\* In programs that do not end threads with a mutex in hand, of the ones that
\* have asked for a mutex exactly one goes on, the one the kernel takes for
\* its owner, and a free mutex has no waiters.
THEOREM ExclusionMutuaSiNadieSaleConMutex ==
    ~SalenConMutex => (Spec => [](ExclusionMutua /\ MutexesEnOrden))
<1> SUFFICES ASSUME ~SalenConMutex
             PROVE  Spec => [](ExclusionMutua /\ MutexesEnOrden)
  OBVIOUS
<1>1. Init => MutexesEnOrden
  BY DEF Init, MutexesEnOrden
<1>2. MutexesEnOrden /\ TypeOK /\ [Next]_vars => MutexesEnOrden'
  BY PasoDeMutexes DEF InvMutexes
<1>3. MutexesEnOrden => ExclusionMutua
  BY DEF MutexesEnOrden, ExclusionMutua
<1> QED BY <1>1, <1>2, <1>3, TipoCorrecto, PTL DEF Spec

\* In the eyes of the programs, the owner of each mutex.
Tiene == [m \in Mutexes |-> IF tomado[m] = {} THEN Nadie
                            ELSE CHOOSE h \in tomado[m] : TRUE]

\* It is the one that the kernel takes for its owner.
LEMMA TieneElDuenio == InvMutexes => Tiene = duenio
<1> SUFFICES ASSUME InvMutexes PROVE Tiene = duenio
  OBVIOUS
<1> USE DEF InvMutexes, TypeOK, MutexesEnOrden
<1>1. ASSUME NEW m \in Mutexes
      PROVE  (IF tomado[m] = {} THEN Nadie ELSE CHOOSE h \in tomado[m] : TRUE)
             = duenio[m]
  <2>1. CASE disponible[m]
    BY <2>1
  <2>2. CASE ~disponible[m]
    <3>1. tomado[m] = {duenio[m]}
      BY <2>2
    <3>2. (CHOOSE h \in {duenio[m]} : TRUE) = duenio[m]
      OBVIOUS
    <3> QED BY <3>1, <3>2
  <2> QED BY <2>1, <2>2
<1> QED BY <1>1 DEF Tiene

\* And so it is after a step.
LEMMA TieneElDuenioDespues == InvMutexes' => (Tiene = duenio)'
BY TieneElDuenio, PTL

\* Each step of the kernel is one of the promise, or none.
LEMMA PasoDePromesa ==
    ASSUME ~SalenConMutex, InvMutexes, InvMutexes', [Next]_vars
    PROVE  [Promesa!Next]_(Promesa!vars)
<1>1. Tiene = duenio /\ Tiene' = duenio'
  BY TieneElDuenio, TieneElDuenioDespues
<1> USE <1>1 DEF Tiene
<1>2. CASE UNCHANGED <<disponible, duenio, cola, tomado>>
  BY <1>2 DEF Promesa!vars
<1>3. ASSUME NEW m \in Mutexes, Lock(m) PROVE Promesa!Next
  <2>1. Promesa!Toma(exec, m)
    BY <1>3 DEF Lock, Promesa!Toma, InvMutexes, MutexesEnOrden
  <2> QED BY <1>3, <2>1 DEF Promesa!Next, Lock, Atiende, InvMutexes, TypeOK
<1>4. ASSUME NEW m \in Mutexes, LockBloquea(m) PROVE Promesa!Next
  <2>1. Promesa!Espera(exec, m)
    BY <1>4, HilosAssumption
    DEF LockBloquea, Promesa!Espera, InvMutexes, MutexesEnOrden
  <2> QED
    BY <1>4, <2>1 DEF Promesa!Next, LockBloquea, Atiende, InvMutexes, TypeOK
<1>5. ASSUME NEW m \in Mutexes, Unlock(m) PROVE Promesa!Next
  <2>1. duenio[m] # Nadie
    BY <1>5, HilosAssumption
    DEF Unlock, EsSuDuenio, InvMutexes, MutexesEnOrden
  <2>2. CASE cola[m] = <<>>
    BY <1>5, <2>1, <2>2 DEF Unlock, Promesa!Next, Promesa!Devuelve
  <2>3. CASE cola[m] # <<>>
    BY <1>5, <2>1, <2>3 DEF Unlock, Promesa!Next, Promesa!Pasa
  <2> QED BY <2>2, <2>3
<1> QED BY <1>2, <1>3, <1>4, <1>5, NoTocaMutexes DEF Next, SyscallsDeMutexes

\* In those programs, the mutexes of the kernel implement MutexConCola: one
\* owner at a time, and whoever waits gets the mutex in the order of asking.
THEOREM ImplementaPromesa == ~SalenConMutex => (Spec => CumplePromesa)
<1> SUFFICES ASSUME ~SalenConMutex PROVE Spec => CumplePromesa
  OBVIOUS
<1>1. Init => Promesa!Init
  BY DEF Init, Promesa!Init
<1>2. Spec => []InvMutexes
  BY TipoCorrecto, ExclusionMutuaSiNadieSaleConMutex, PTL DEF InvMutexes
<1>3. InvMutexes /\ InvMutexes' /\ [Next]_vars => [Promesa!Next]_(Promesa!vars)
  BY PasoDePromesa
<1> QED BY <1>1, <1>2, <1>3, PTL DEF Spec, CumplePromesa, Promesa!Spec

-----------------------------------------------------------------------------
(* One state for each thread, and a waker for each blocked one, with CMN.  *)

\* The thread that executes is in no list, and nobody waits with it.
LEMMA QuienEjecuta ==
    ASSUME InvListas, Atiende
    PROVE  /\ exec \in Hilos /\ exec \in creados
           /\ exec \notin listos \cup colas \cup bloqueados \cup despertando
           /\ exec \notin durmiendo
           /\ \A g \in Hilos : exec \notin ToSet(uniones[g])
           /\ \A m \in Mutexes : exec \notin ToSet(cola[m])
           /\ exec \notin cancelados => exec \notin terminados
<1>1. exec \in Hilos /\ ~soltando
  BY DEF Atiende, InvListas, TypeOK
<1>2. /\ Lugares(exec) <= 1
      /\ exec \notin creados => Lugares(exec) = 0
      /\ exec \in creados \ cancelados =>
             Lugares(exec) + Uno(exec \in terminados) = 1
  BY <1>1 DEF InvListas, UnLugar
<1>3. /\ exec \notin listos /\ exec \notin colas
      /\ exec \notin bloqueados /\ exec \notin despertando
      /\ exec \in creados
      /\ exec \notin cancelados => exec \notin terminados
  BY <1>1, <1>2 DEF Lugares, Uno
<1> QED BY <1>1, <1>3 DEF InvListas, UnaEspera

\* With CMN only a thread in a priority queue can be found, and it is in no
\* other place.
LEMMA QuienSeBusca ==
    ASSUME Algoritmo = "CMN", InvListas, Atiende, NEW t, NEW g \in Busca(t)
    PROVE  /\ g \in Hilos /\ g \in colas /\ g # exec
           /\ g \notin bloqueados /\ g \in creados
<1>1. g \in Hilos /\ g \in colas
  BY DEF Busca, Visibles, InvListas, TypeOK
<1>2. Lugares(g) <= 1 /\ (g \notin creados => Lugares(g) = 0)
  BY <1>1 DEF InvListas, UnLugar
<1>3. g \notin bloqueados /\ g \in creados
  BY <1>1, <1>2 DEF Lugares, Uno
<1> QED BY <1>1, <1>3, QuienEjecuta

\* Whoever the end of h wakes up was blocked by h.
LEMMA QuienSeLibera ==
    ASSUME InvListas, NEW h \in Hilos
    PROVE  /\ \A x : x \in Liberados(h) <=>
                  \/ x \in ToSet(uniones[h])
                  \/ \E m \in SusMutexes(h) : x \in ToSet(cola[m])
           /\ SusMutexes(h) \subseteq Mutexes
           /\ Liberados(h) \subseteq bloqueados \ durmiendo
           /\ Liberados(h) \subseteq Hilos
<1>1. SusMutexes(h) \subseteq Mutexes
  BY DEF SusMutexes, InvListas, TypeOK
<1>2. ToSet(uniones[h]) \subseteq Hilos
  BY EnColaEsHilo DEF InvListas, TypeOK
<1>3. \A m \in Mutexes : ToSet(cola[m]) \subseteq Hilos
  BY EnColaEsHilo DEF InvListas, TypeOK
<1>4. \A x : x \in Liberados(h) <=>
          \/ x \in ToSet(uniones[h])
          \/ \E m \in SusMutexes(h) : x \in ToSet(cola[m])
  BY DEF Liberados
<1> QED BY <1>1, <1>2, <1>3, <1>4 DEF InvListas, UnaEspera

\* What each thread is in after a step.
LEMMA PasoDeLugares ==
    ASSUME Algoritmo = "CMN", InvListas, [Next]_vars
    PROVE  UnLugar'
<1> USE HilosAssumption DEF InvListas, TypeOK, UnLugar, Lugares, Uno, listas,
                            mutexes, finales
<1>1. CASE Exit \/ \E m \in Mutexes : MutexInexistente(m)
  <2>1. Atiende /\ Termina(exec) /\ soltando' = TRUE
        /\ UNCHANGED <<creados, exec, colas, despertando, cancelados>>
    BY <1>1 DEF Exit, MutexInexistente
  <2>2. /\ Liberados(exec) \subseteq bloqueados
        /\ exec \in Hilos /\ exec \in creados /\ ~soltando
        /\ exec \notin listos \cup colas \cup bloqueados \cup despertando
    BY <2>1, QuienEjecuta, QuienSeLibera DEF Atiende
  <2>3. /\ bloqueados' = bloqueados \ Liberados(exec)
        /\ listos' = listos \cup Liberados(exec)
        /\ terminados' = terminados \cup {exec}
    BY <2>1 DEF Termina
  <2> QED BY <2>1, <2>2, <2>3
<1>2. CASE IO
  BY <1>2, QuienEjecuta DEF IO, Atiende
<1>3. ASSUME NEW h \in Hilos, CreaHilo(h) PROVE UnLugar'
  BY <1>3, QuienEjecuta DEF CreaHilo, Atiende
<1>4. ASSUME NEW t \in Tids, JoinBloquea(t) PROVE UnLugar'
  BY <1>4, QuienEjecuta DEF JoinBloquea, Atiende
<1>5. ASSUME NEW t \in Tids, JoinNoBloquea(t) \/ CancelInexistente(t)
      PROVE  UnLugar'
  BY <1>5 DEF JoinNoBloquea, CancelInexistente, vars
<1>6. ASSUME NEW t \in Tids, Cancel(t) PROVE UnLugar'
  <2>1. PICK g \in Busca(t) : /\ Termina(g) /\ soltando' = (g = exec)
                              /\ cancelados' = cancelados \cup {g}
    BY <1>6 DEF Cancel
  <2>2. Atiende /\ UNCHANGED <<creados, exec, colas, despertando>>
    BY <1>6 DEF Cancel
  <2>3. /\ g \in Hilos /\ g \in creados /\ g # exec /\ ~soltando
        /\ Liberados(g) \subseteq bloqueados
    BY <2>2, QuienSeBusca, QuienSeLibera DEF Atiende
  <2>4. /\ bloqueados' = bloqueados \ Liberados(g)
        /\ listos' = listos \cup Liberados(g)
        /\ terminados' = terminados \cup {g}
    BY <2>1 DEF Termina
  <2> QED BY <2>1, <2>2, <2>3, <2>4
<1>7. ASSUME NEW m \in Mutexes, MutexCreate(m) \/ Lock(m) PROVE UnLugar'
  BY <1>7 DEF MutexCreate, Lock
<1>8. ASSUME NEW m \in Mutexes, LockBloquea(m) PROVE UnLugar'
  BY <1>8, QuienEjecuta DEF LockBloquea, Atiende
<1>9. ASSUME NEW m \in Mutexes, Unlock(m) PROVE UnLugar'
  <2>1. UNCHANGED <<creados, exec, soltando, colas, despertando, terminados,
                    cancelados>>
    BY <1>9 DEF Unlock
  <2>2. CASE cola[m] = <<>>
    <3>1. UNCHANGED <<listos, bloqueados>>
      BY <1>9, <2>2 DEF Unlock
    <3> QED BY <2>1, <3>1
  <2>3. CASE cola[m] # <<>>
    <3>1. /\ bloqueados' = bloqueados \ {Head(cola[m])}
          /\ listos' = listos \cup {Head(cola[m])}
      BY <1>9, <2>3 DEF Unlock
    <3>2. Head(cola[m]) \in bloqueados
      BY <2>3, SacaDeCola DEF UnaEspera
    <3> QED BY <2>1, <3>1, <3>2
  <2> QED BY <2>2, <2>3
<1>10. CASE Suelta \/ FinDeQuantum
  BY <1>10 DEF Suelta, FinDeQuantum
<1>11. ASSUME NEW h \in Hilos, AdmiteHilo0(h) \/ Encola(h) \/ VuelveDeIO(h)
       PROVE  UnLugar'
  BY <1>11 DEF AdmiteHilo0, Encola, VuelveDeIO
<1>12. ASSUME NEW h \in Hilos, Despacha(h) PROVE UnLugar'
  BY <1>12 DEF Despacha
<1>13. ASSUME NEW h \in Hilos, TerminaIO(h) PROVE UnLugar'
  BY <1>13 DEF TerminaIO, UnaEspera
<1>14. CASE UNCHANGED vars
  BY <1>14 DEF vars
<1> QED
  BY <1>1, <1>2, <1>3, <1>4, <1>5, <1>6, <1>7, <1>8, <1>9, <1>10, <1>11,
     <1>12, <1>13, <1>14 DEF Next, SyscallsDeHilos, SyscallsDeMutexes

\* What nobody waits with, or for, may change without a trace in UnaEspera.
LEMMA EsperasIguales ==
    ASSUME UnaEspera, UNCHANGED <<uniones, cola, durmiendo>>,
           bloqueados' = bloqueados
    PROVE  UnaEspera'
BY DEF UnaEspera

\* The end of h takes whoever waits for it out of every queue where it waits.
LEMMA EsperasTermina ==
    ASSUME InvListas, NEW h \in Hilos, Termina(h), UNCHANGED durmiendo
    PROVE  UnaEspera'
<1> USE DEF InvListas, TypeOK
<1>1. /\ bloqueados' = bloqueados \ Liberados(h)
      /\ \A g \in Hilos : uniones'[g] = IF g = h THEN <<>> ELSE uniones[g]
      /\ \A m \in Mutexes : cola'[m] = IF m \in SusMutexes(h) THEN <<>>
                                       ELSE cola[m]
  BY DEF Termina
<1>2. /\ \A g, x \in Hilos : x \in ToSet(uniones'[g]) <=>
             g # h /\ x \in ToSet(uniones[g])
      /\ \A m \in Mutexes : \A x \in Hilos : x \in ToSet(cola'[m]) <=>
             m \notin SusMutexes(h) /\ x \in ToSet(cola[m])
      /\ \A m \in Mutexes : SinRepetir(cola'[m])
  BY <1>1, ColaVacia DEF UnaEspera
<1>3. \A g, x \in Hilos : x \in ToSet(uniones'[g]) => x \notin Liberados(h)
  BY <1>2, QuienSeLibera DEF UnaEspera
<1>4. \A m \in Mutexes : \A x \in Hilos : x \in ToSet(cola'[m]) =>
          x \notin Liberados(h)
  <2> SUFFICES ASSUME NEW m \in Mutexes, NEW x \in Hilos,
                      x \in ToSet(cola'[m]), x \in Liberados(h)
               PROVE  FALSE
    OBVIOUS
  <2>1. m \notin SusMutexes(h) /\ x \in ToSet(cola[m])
    BY <1>2
  <2>2. x \notin ToSet(uniones[h])
    BY <2>1 DEF UnaEspera
  <2>3. PICK n \in SusMutexes(h) : x \in ToSet(cola[n])
    BY <2>2, QuienSeLibera
  <2> QED BY <2>1, <2>3, QuienSeLibera DEF UnaEspera
<1>5. durmiendo' \subseteq bloqueados'
  BY <1>1, QuienSeLibera DEF UnaEspera
<1>6. ASSUME NEW g \in Hilos, NEW x \in Hilos, x \in ToSet(uniones'[g])
      PROVE  /\ x \in bloqueados' \ durmiendo'
             /\ \A f \in Hilos : x \in ToSet(uniones'[f]) => f = g
             /\ \A m \in Mutexes : x \notin ToSet(cola'[m])
  BY <1>1, <1>2, <1>3, <1>6 DEF UnaEspera
<1>7. ASSUME NEW m \in Mutexes, NEW x \in Hilos, x \in ToSet(cola'[m])
      PROVE  /\ x \in bloqueados' \ durmiendo'
             /\ \A n \in Mutexes : x \in ToSet(cola'[n]) => n = m
  BY <1>1, <1>2, <1>4, <1>7 DEF UnaEspera
<1> QED BY <1>2, <1>5, <1>6, <1>7 DEF UnaEspera

\* What each blocked thread waits for after a step.
LEMMA PasoDeEsperas ==
    ASSUME Algoritmo = "CMN", InvListas, [Next]_vars
    PROVE  UnaEspera'
<1> USE DEF InvListas, TypeOK, listas, mutexes, finales
<1>1. CASE Exit \/ \E m \in Mutexes : MutexInexistente(m)
  BY <1>1, QuienEjecuta, EsperasTermina DEF Exit, MutexInexistente
<1>2. CASE IO
  <2>1. Atiende /\ UNCHANGED <<uniones, cola>>
        /\ bloqueados' = bloqueados \cup {exec}
        /\ durmiendo' = durmiendo \cup {exec}
    BY <1>2 DEF IO
  <2> QED BY <2>1, QuienEjecuta DEF UnaEspera
<1>3. ASSUME NEW t \in Tids, JoinBloquea(t) PROVE UnaEspera'
  <2>1. PICK g \in Busca(t) : uniones' = [uniones EXCEPT ![g] = Append(@, exec)]
    BY <1>3 DEF JoinBloquea
  <2>2. Atiende /\ UNCHANGED <<cola, durmiendo>>
        /\ bloqueados' = bloqueados \cup {exec}
    BY <1>3 DEF JoinBloquea
  <2>3. g \in Hilos
    BY <2>2, QuienSeBusca
  <2>4. ToSet(Append(uniones[g], exec)) = ToSet(uniones[g]) \cup {exec}
    BY <2>2, <2>3, QuienEjecuta, PoneEnCola
  <2>5. \A f, x \in Hilos : x \in ToSet(uniones'[f]) <=>
            x \in ToSet(uniones[f]) \/ (f = g /\ x = exec)
    BY <2>1, <2>3, <2>4
  <2> QED BY <2>2, <2>3, <2>5, QuienEjecuta DEF UnaEspera
<1>4. ASSUME NEW t \in Tids, Cancel(t) PROVE UnaEspera'
  <2>1. PICK g \in Busca(t) : Termina(g)
    BY <1>4 DEF Cancel
  <2> QED BY <1>4, <2>1, QuienSeBusca, EsperasTermina DEF Cancel
<1>5. ASSUME NEW m \in Mutexes, LockBloquea(m) PROVE UnaEspera'
  <2>1. Atiende /\ UNCHANGED <<uniones, durmiendo>>
        /\ bloqueados' = bloqueados \cup {exec}
        /\ cola' = [cola EXCEPT ![m] = Append(@, exec)]
    BY <1>5 DEF LockBloquea
  <2>2. /\ ToSet(Append(cola[m], exec)) = ToSet(cola[m]) \cup {exec}
        /\ SinRepetir(Append(cola[m], exec))
    BY <2>1, QuienEjecuta, PoneEnCola DEF UnaEspera
  <2>3. /\ \A n \in Mutexes : \A x \in Hilos : x \in ToSet(cola'[n]) <=>
               x \in ToSet(cola[n]) \/ (n = m /\ x = exec)
        /\ \A n \in Mutexes : SinRepetir(cola'[n])
    BY <2>1, <2>2 DEF UnaEspera
  <2> QED BY <2>1, <2>3, QuienEjecuta DEF UnaEspera
<1>6. ASSUME NEW m \in Mutexes, Unlock(m) PROVE UnaEspera'
  <2>1. UNCHANGED <<uniones, durmiendo>>
    BY <1>6 DEF Unlock
  <2>2. CASE cola[m] = <<>>
    BY <1>6, <2>1, <2>2, EsperasIguales DEF Unlock
  <2>3. CASE cola[m] # <<>>
    <3> DEFINE cabeza == Head(cola[m])
    <3>1. /\ bloqueados' = bloqueados \ {cabeza}
          /\ cola' = [cola EXCEPT ![m] = Tail(@)]
      BY <1>6, <2>3 DEF Unlock
    <3>2. /\ cabeza \in Hilos
          /\ ToSet(cola[m]) = ToSet(Tail(cola[m])) \cup {cabeza}
          /\ SinRepetir(Tail(cola[m])) /\ cabeza \notin ToSet(Tail(cola[m]))
      BY <2>3, SacaDeCola DEF UnaEspera
    <3>3. \A n \in Mutexes : SinRepetir(cola'[n])
      BY <3>1, <3>2 DEF UnaEspera
    <3> HIDE DEF cabeza
    <3>4. \A n \in Mutexes : \A x \in Hilos :
              x \in ToSet(cola'[n]) <=> x \in ToSet(cola[n]) /\ x # cabeza
      BY <3>1, <3>2 DEF UnaEspera
    <3> QED BY <2>1, <3>1, <3>2, <3>3, <3>4 DEF UnaEspera
  <2> QED BY <2>2, <2>3
<1>7. ASSUME NEW h \in Hilos, TerminaIO(h) PROVE UnaEspera'
  BY <1>7 DEF TerminaIO, UnaEspera
<1>8. CASE \/ Suelta \/ FinDeQuantum \/ UNCHANGED vars
           \/ \E h \in Hilos : \/ CreaHilo(h) \/ AdmiteHilo0(h) \/ Encola(h)
                               \/ Despacha(h) \/ VuelveDeIO(h)
           \/ \E t \in Tids : JoinNoBloquea(t) \/ CancelInexistente(t)
           \/ \E m \in Mutexes : MutexCreate(m) \/ Lock(m)
  BY <1>8, EsperasIguales
  DEF Suelta, FinDeQuantum, vars, CreaHilo, AdmiteHilo0, Encola, Despacha,
      VuelveDeIO, JoinNoBloquea, CancelInexistente, MutexCreate, Lock
<1> QED
  BY <1>1, <1>2, <1>3, <1>4, <1>5, <1>6, <1>7, <1>8
  DEF Next, SyscallsDeHilos, SyscallsDeMutexes

\* Who may go on still may after a step that ends nobody.
LEMMA SiguenSiguiendo ==
    ASSUME Algoritmo = "CMN", InvListas, [Next]_vars,
           ~Exit, \A m \in Mutexes : ~MutexInexistente(m)
    PROVE  Siguen \subseteq Siguen'
<1> USE HilosAssumption DEF Siguen, InvListas, TypeOK, listas
<1>1. CASE IO
  BY <1>1 DEF IO
<1>2. ASSUME NEW t \in Tids, Cancel(t) PROVE Siguen \subseteq Siguen'
  <2>1. PICK g \in Busca(t) : Termina(g) /\ soltando' = (g = exec)
    BY <1>2 DEF Cancel
  <2>2. Atiende /\ UNCHANGED <<exec, colas, despertando>>
    BY <1>2 DEF Cancel
  <2>3. soltando' = FALSE
    <3>1. g # exec
      BY <2>2, QuienSeBusca
    <3> QED BY <2>1, <3>1
  <2>4. /\ bloqueados' = bloqueados \ Liberados(g)
        /\ listos' = listos \cup Liberados(g)
    BY <2>1 DEF Termina
  <2> QED BY <2>2, <2>3, <2>4 DEF Atiende
<1>3. ASSUME NEW t \in Tids, \/ JoinBloquea(t) \/ JoinNoBloquea(t)
                             \/ CancelInexistente(t)
      PROVE  Siguen \subseteq Siguen'
  BY <1>3 DEF JoinBloquea, JoinNoBloquea, CancelInexistente, vars
<1>4. ASSUME NEW m \in Mutexes, MutexCreate(m) \/ Lock(m) \/ LockBloquea(m)
      PROVE  Siguen \subseteq Siguen'
  BY <1>4 DEF MutexCreate, Lock, LockBloquea
<1>5. ASSUME NEW m \in Mutexes, Unlock(m) PROVE Siguen \subseteq Siguen'
  <2>1. UNCHANGED <<exec, soltando, colas, despertando>>
    BY <1>5 DEF Unlock
  <2>2. CASE cola[m] = <<>>
    BY <1>5, <2>1, <2>2 DEF Unlock
  <2>3. CASE cola[m] # <<>>
    <3>1. /\ bloqueados' = bloqueados \ {Head(cola[m])}
          /\ listos' = listos \cup {Head(cola[m])}
      BY <1>5, <2>3 DEF Unlock
    <3> QED BY <2>1, <3>1
  <2> QED BY <2>2, <2>3
<1>6. CASE Suelta \/ FinDeQuantum \/ UNCHANGED vars
  BY <1>6 DEF Suelta, FinDeQuantum, vars
<1>7. ASSUME NEW h \in Hilos, \/ CreaHilo(h) \/ AdmiteHilo0(h) \/ Encola(h)
                              \/ TerminaIO(h) \/ VuelveDeIO(h)
      PROVE  Siguen \subseteq Siguen'
  BY <1>7 DEF CreaHilo, AdmiteHilo0, Encola, TerminaIO, VuelveDeIO
<1>8. ASSUME NEW h \in Hilos, Despacha(h) PROVE Siguen \subseteq Siguen'
  BY <1>8 DEF Despacha, UnLugar
<1> QED
  BY <1>1, <1>2, <1>3, <1>4, <1>5, <1>6, <1>7, <1>8
  DEF Next, SyscallsDeHilos, SyscallsDeMutexes

\* The end of h, who was the owner of nothing but what it leaves free.
LEMMA AlguienSigueTermina ==
    ASSUME InvListas, NEW h \in Hilos, Termina(h), h \notin bloqueados,
           UNCHANGED <<durmiendo, mutex_lista, duenio>>,
           Siguen \ {h} \subseteq Siguen'
    PROVE  AlguienSigue'
<1> USE DEF InvListas, TypeOK
<1>1. /\ bloqueados' = bloqueados \ Liberados(h)
      /\ \A g \in Hilos : uniones'[g] = IF g = h THEN <<>> ELSE uniones[g]
      /\ \A m \in Mutexes : cola'[m] = IF m \in SusMutexes(h) THEN <<>>
                                       ELSE cola[m]
  BY DEF Termina
<1>2. \A m \in Mutexes :
          disponible'[m] <=> m \in SusMutexes(h) \/ disponible[m]
  BY Zenon DEF Termina
<1>3. ASSUME NEW m \in Mutexes
      PROVE  IF disponible'[m] THEN cola'[m] = <<>>
             ELSE m \in mutex_lista' /\ duenio'[m] \in Siguen'
  <2>1. CASE disponible'[m]
    BY <1>1, <1>2, <2>1 DEF AlguienSigue
  <2>2. CASE ~disponible'[m]
    <3>1. m \notin SusMutexes(h) /\ m \in mutex_lista /\ duenio[m] \in Siguen
      BY <1>2, <2>2 DEF AlguienSigue
    <3>2. duenio[m] # h
      BY <3>1 DEF SusMutexes
    <3> QED BY <2>2, <3>1, <3>2
  <2> QED BY <2>1, <2>2
<1>4. \A g \in Hilos : uniones'[g] # <<>> => g \in Siguen'
  BY <1>1 DEF AlguienSigue
<1>5. ASSUME NEW x \in bloqueados'
      PROVE  \/ x \in durmiendo'
             \/ \E m \in Mutexes : x \in ToSet(cola'[m])
             \/ \E g \in Hilos : x \in ToSet(uniones'[g])
  <2>1. x \in bloqueados /\ x \notin Liberados(h)
    BY <1>1
  <2>2. CASE x \in durmiendo
    BY <2>2
  <2>3. ASSUME NEW m \in Mutexes, x \in ToSet(cola[m])
        PROVE  \E n \in Mutexes : x \in ToSet(cola'[n])
    <3>1. m \notin SusMutexes(h)
      BY <2>1, <2>3, QuienSeLibera
    <3> QED BY <1>1, <2>3, <3>1
  <2>4. ASSUME NEW g \in Hilos, x \in ToSet(uniones[g])
        PROVE  \E f \in Hilos : x \in ToSet(uniones'[f])
    <3>1. g # h
      BY <2>1, <2>4, QuienSeLibera
    <3> QED BY <1>1, <2>4, <3>1
  <2> QED BY <2>1, <2>2, <2>3, <2>4 DEF AlguienSigue
<1> QED BY <1>3, <1>4, <1>5 DEF AlguienSigue

\* Who waits for whom after a step, and whether that one may go on.
LEMMA PasoDeAlguienSigue ==
    ASSUME Algoritmo = "CMN", InvListas, [Next]_vars
    PROVE  AlguienSigue'
<1> USE HilosAssumption DEF InvListas, TypeOK, listas, mutexes, finales
<1>1. CASE Exit \/ \E m \in Mutexes : MutexInexistente(m)
  <2>1. Atiende /\ Termina(exec)
        /\ UNCHANGED <<colas, despertando, durmiendo, mutex_lista, duenio>>
    BY <1>1 DEF Exit, MutexInexistente
  <2>2. /\ bloqueados' = bloqueados \ Liberados(exec)
        /\ listos' = listos \cup Liberados(exec)
    BY <2>1 DEF Termina
  <2>3. Siguen \ {exec} \subseteq Siguen'
    BY <2>1, <2>2 DEF Siguen
  <2> QED BY <2>1, <2>3, QuienEjecuta, AlguienSigueTermina
<1>a. ~Exit /\ (\A m \in Mutexes : ~MutexInexistente(m))
          => Siguen \subseteq Siguen'
  BY SiguenSiguiendo
<1>2. CASE \/ Suelta \/ FinDeQuantum \/ UNCHANGED vars
           \/ \E h \in Hilos : \/ CreaHilo(h) \/ AdmiteHilo0(h) \/ Encola(h)
                               \/ Despacha(h) \/ VuelveDeIO(h)
           \/ \E t \in Tids : JoinNoBloquea(t) \/ CancelInexistente(t)
           \/ \E m \in Mutexes : MutexCreate(m)
  <2>1. /\ UNCHANGED <<uniones, cola, disponible, duenio, bloqueados, durmiendo>>
        /\ mutex_lista \subseteq mutex_lista'
    BY <1>2
    DEF Suelta, FinDeQuantum, vars, CreaHilo, AdmiteHilo0, Encola, Despacha,
        VuelveDeIO, JoinNoBloquea, CancelInexistente, MutexCreate
  <2>2. CASE Exit \/ \E m \in Mutexes : MutexInexistente(m)
    BY <1>1, <2>2
  <2>3. CASE Siguen \subseteq Siguen'
    BY <2>1, <2>3 DEF AlguienSigue
  <2> QED BY <1>a, <2>2, <2>3
<1>3. CASE IO
  <2>1. ~Exit /\ \A m \in Mutexes : ~MutexInexistente(m)
    BY <1>3, QuienEjecuta DEF IO, Exit, MutexInexistente, Termina
  <2> QED BY <1>3, <1>a, <2>1 DEF IO, AlguienSigue
<1>4. ASSUME NEW t \in Tids, JoinBloquea(t), Siguen \subseteq Siguen'
      PROVE  AlguienSigue'
  <2>1. PICK g \in Busca(t) : uniones' = [uniones EXCEPT ![g] = Append(@, exec)]
    BY <1>4 DEF JoinBloquea
  <2>2. /\ Atiende /\ bloqueados' = bloqueados \cup {exec}
        /\ UNCHANGED <<colas, durmiendo, mutex_lista, disponible, duenio, cola>>
    BY <1>4 DEF JoinBloquea
  <2>3. g \in Hilos /\ g \in Siguen'
    BY <2>2, QuienSeBusca DEF Siguen
  <2>4. ToSet(Append(uniones[g], exec)) = ToSet(uniones[g]) \cup {exec}
    BY <2>2, <2>3, QuienEjecuta, PoneEnCola
  <2>5. /\ \A f \in Hilos : ToSet(uniones[f]) \subseteq ToSet(uniones'[f])
        /\ exec \in ToSet(uniones'[g])
    BY <2>1, <2>3, <2>4
  <2>6. \A f \in Hilos : uniones'[f] # <<>> => f = g \/ uniones[f] # <<>>
    BY <2>1, <2>3
  <2>7. \A f \in Hilos : uniones'[f] # <<>> => f \in Siguen'
    BY <1>4, <2>3, <2>6 DEF AlguienSigue
  <2>8. ASSUME NEW x \in bloqueados'
        PROVE  \/ x \in durmiendo'
               \/ \E m \in Mutexes : x \in ToSet(cola'[m])
               \/ \E f \in Hilos : x \in ToSet(uniones'[f])
    <3>1. CASE x = exec
      BY <2>3, <2>5, <3>1
    <3>2. CASE x \in bloqueados
      BY <2>2, <2>5, <3>2 DEF AlguienSigue
    <3> QED BY <2>2, <3>1, <3>2
  <2> QED BY <1>4, <2>2, <2>7, <2>8 DEF AlguienSigue
<1>5. ASSUME NEW t \in Tids, Cancel(t) PROVE AlguienSigue'
  <2>1. PICK g \in Busca(t) : Termina(g) /\ soltando' = (g = exec)
    BY <1>5 DEF Cancel
  <2>2. /\ Atiende
        /\ UNCHANGED <<exec, colas, despertando, durmiendo, mutex_lista, duenio>>
    BY <1>5 DEF Cancel
  <2>3. g \in Hilos /\ g \notin bloqueados /\ g # exec
    BY <2>2, QuienSeBusca
  <2>4. /\ bloqueados' = bloqueados \ Liberados(g)
        /\ listos' = listos \cup Liberados(g)
    BY <2>1 DEF Termina
  <2>5. Siguen \subseteq Siguen'
    BY <2>1, <2>2, <2>3, <2>4 DEF Siguen, Atiende
  <2> QED BY <2>1, <2>2, <2>3, <2>5, AlguienSigueTermina
<1>6. ASSUME NEW m \in Mutexes, Lock(m), Siguen \subseteq Siguen'
      PROVE  AlguienSigue'
  <2>1. exec \in Siguen
    BY <1>6 DEF Lock, Atiende, Siguen
  <2>2. /\ m \in mutex_lista /\ disponible' = [disponible EXCEPT ![m] = FALSE]
        /\ duenio' = [duenio EXCEPT ![m] = exec]
        /\ UNCHANGED <<bloqueados, uniones, durmiendo, mutex_lista, cola>>
    BY <1>6 DEF Lock
  <2> QED BY <1>6, <2>1, <2>2 DEF AlguienSigue
<1>7. ASSUME NEW m \in Mutexes, LockBloquea(m), Siguen \subseteq Siguen'
      PROVE  AlguienSigue'
  <2>1. /\ Atiende /\ ~disponible[m] /\ bloqueados' = bloqueados \cup {exec}
        /\ cola' = [cola EXCEPT ![m] = Append(@, exec)]
        /\ UNCHANGED <<uniones, durmiendo, mutex_lista, disponible, duenio>>
    BY <1>7 DEF LockBloquea
  <2>2. ToSet(Append(cola[m], exec)) = ToSet(cola[m]) \cup {exec}
    BY <2>1, QuienEjecuta, PoneEnCola
  <2>3. /\ \A n \in Mutexes : ToSet(cola[n]) \subseteq ToSet(cola'[n])
        /\ exec \in ToSet(cola'[m])
        /\ \A n \in Mutexes : n # m => cola'[n] = cola[n]
    BY <2>1, <2>2
  <2> QED BY <1>7, <2>1, <2>3 DEF AlguienSigue
<1>8. ASSUME NEW m \in Mutexes, Unlock(m), Siguen \subseteq Siguen'
      PROVE  AlguienSigue'
  <2>1. /\ m \in mutex_lista /\ ~disponible[m]
        /\ UNCHANGED <<uniones, durmiendo, mutex_lista>>
    BY <1>8 DEF Unlock, EsSuDuenio
  <2>2. CASE cola[m] = <<>>
    <3>1. /\ disponible' = [disponible EXCEPT ![m] = TRUE]
          /\ duenio' = [duenio EXCEPT ![m] = Nadie]
          /\ UNCHANGED <<bloqueados, cola>>
      BY <1>8, <2>2 DEF Unlock
    <3>2. \A n \in Mutexes : n # m => disponible'[n] = disponible[n]
      BY <3>1, Zenon
    <3>3. disponible'[m]
      BY <3>1
    <3>4. ASSUME NEW n \in Mutexes
          PROVE  IF disponible'[n] THEN cola'[n] = <<>>
                 ELSE n \in mutex_lista' /\ duenio'[n] \in Siguen'
      BY <1>8, <2>1, <2>2, <3>1, <3>2, <3>3 DEF AlguienSigue
    <3> QED BY <1>8, <2>1, <3>1, <3>4 DEF AlguienSigue
  <2>3. CASE cola[m] # <<>>
    <3> DEFINE cabeza == Head(cola[m])
    <3>1. /\ bloqueados' = bloqueados \ {cabeza}
          /\ listos' = listos \cup {cabeza}
          /\ cola' = [cola EXCEPT ![m] = Tail(@)]
          /\ duenio' = [duenio EXCEPT ![m] = cabeza]
          /\ disponible' = disponible
      BY <1>8, <2>3 DEF Unlock
    <3>2. ToSet(cola[m]) = ToSet(Tail(cola[m])) \cup {cabeza}
      BY <2>3, SacaDeCola
    <3>3. cabeza \in Siguen'
      BY <3>1 DEF Siguen
    <3> HIDE DEF cabeza
    <3>4. \A n \in Mutexes : \A x :
              x \in ToSet(cola[n]) /\ x # cabeza => x \in ToSet(cola'[n])
      BY <3>1, <3>2
    <3>5. ASSUME NEW n \in Mutexes
          PROVE  IF disponible'[n] THEN cola'[n] = <<>>
                 ELSE n \in mutex_lista' /\ duenio'[n] \in Siguen'
      BY <1>8, <2>1, <3>1, <3>3 DEF AlguienSigue
    <3>6. ASSUME NEW x \in bloqueados'
          PROVE  \/ x \in durmiendo'
                 \/ \E n \in Mutexes : x \in ToSet(cola'[n])
                 \/ \E g \in Hilos : x \in ToSet(uniones'[g])
      <4>1. x \in bloqueados /\ x # cabeza
        BY <3>1
      <4> QED BY <2>1, <3>4, <4>1 DEF AlguienSigue
    <3> QED BY <1>8, <2>1, <3>5, <3>6 DEF AlguienSigue
  <2> QED BY <2>2, <2>3
<1>9. ASSUME NEW h \in Hilos, TerminaIO(h), Siguen \subseteq Siguen'
      PROVE  AlguienSigue'
  BY <1>9 DEF TerminaIO, AlguienSigue
<1> QED
  BY <1>a, <1>1, <1>2, <1>3, <1>4, <1>5, <1>6, <1>7, <1>8, <1>9
  DEF Next, SyscallsDeHilos, SyscallsDeMutexes

\* The lists of the kernel stay in order, for any threads and mutexes.
THEOREM Invariancia == Algoritmo = "CMN" => (Spec => []InvListas)
<1> SUFFICES ASSUME Algoritmo = "CMN" PROVE Spec => []InvListas
  OBVIOUS
<1>1. Init => InvListas
  <2> SUFFICES ASSUME Init PROVE InvListas
    OBVIOUS
  <2> USE DEF Init
  <2>1. TypeOK
    BY EmptySeq DEF TypeOK
  <2>2. UnLugar
    BY HilosAssumption DEF UnLugar, Lugares, Uno
  <2>3. UnaEspera
    BY ColaVacia DEF UnaEspera
  <2>4. AlguienSigue
    BY DEF AlguienSigue
  <2> QED BY <2>1, <2>2, <2>3, <2>4 DEF InvListas
<1>2. InvListas /\ [Next]_vars => InvListas'
  BY PasoDeTipos, PasoDeLugares, PasoDeEsperas, PasoDeAlguienSigue
  DEF InvListas
<1> QED BY <1>1, <1>2, PTL DEF Spec

\* With CMN each thread that nobody has cancelled is in one state, whatever
\* syscalls, IOs and priority queues move it.
THEOREM CadaHiloUnEstado == Algoritmo = "CMN" => (Spec => []UnSoloEstado)
<1> SUFFICES ASSUME Algoritmo = "CMN" PROVE Spec => []UnSoloEstado
  OBVIOUS
<1>1. InvListas => UnSoloEstado
  BY DEF InvListas, TypeOK, UnLugar, Lugares, Uno, UnSoloEstado
<1> QED BY <1>1, Invariancia, PTL

\* With CMN a blocked thread waits for an IO, for a mutex that a thread that
\* may go on has, or for the end of one that may go on.
THEOREM AlguienDespierta == Algoritmo = "CMN" => (Spec => []HayQuienDespierte)
<1> SUFFICES ASSUME Algoritmo = "CMN" PROVE Spec => []HayQuienDespierte
  OBVIOUS
<1>1. InvListas => HayQuienDespierte
  <2> SUFFICES ASSUME InvListas, NEW h \in bloqueados
               PROVE  \/ h \in durmiendo
                      \/ \E m \in mutex_lista : /\ ~disponible[m]
                                                /\ duenio[m] \in Siguen
                                                /\ h \in ToSet(cola[m])
                      \/ \E g \in Siguen : h \in ToSet(uniones[g])
    BY DEF HayQuienDespierte
  <2>1. ASSUME NEW m \in Mutexes, h \in ToSet(cola[m])
        PROVE  m \in mutex_lista /\ ~disponible[m] /\ duenio[m] \in Siguen
    BY <2>1, ColaVacia DEF InvListas, AlguienSigue
  <2>2. ASSUME NEW g \in Hilos, h \in ToSet(uniones[g])
        PROVE  g \in Siguen
    BY <2>2, ColaVacia DEF InvListas, AlguienSigue
  <2> QED BY <2>1, <2>2 DEF InvListas, AlguienSigue
<1> QED BY <1>1, Invariancia, PTL
=============================================================================
