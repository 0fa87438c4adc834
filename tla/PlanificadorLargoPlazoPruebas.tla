-------------------- MODULE PlanificadorLargoPlazoPruebas --------------------
(***************************************************************************)
(* Proofs about the long-term planner, for any number of processes, any    *)
(* partitions and any sizes.                                               *)
(***************************************************************************)
EXTENDS PlanificadorLargoPlazo, SequenceTheorems, TLAPS

USE DEF Procesos, Nadie, Va

\* The queue holds, in order of creation, the processes in state NEW, all of
\* them but the one the planner has popped and not pushed to READY yet, which
\* is older than those left. The process that memoria was asked about is
\* still the head of the queue.
ColaInv ==
    /\ \A i, j \in 1 .. Len(queue_new) : i < j => queue_new[i] < queue_new[j]
    /\ \A i \in 1 .. Len(queue_new) : queue_new[i] < pid_generator
    /\ \A p \in Procesos : p >= pid_generator => estado[p] = "inexistente"
    /\ \A i \in 1 .. Len(queue_new) : estado[queue_new[i]] = "new"
    /\ \A p \in Procesos : estado[p] = "new" =>
          \/ planificador = "a_listos" /\ p = candidato
          \/ \E i \in 1 .. Len(queue_new) : queue_new[i] = p
    /\ planificador \in {"pide_memoria", "saca"} =>
          queue_new # <<>> /\ candidato = queue_new[1]
    /\ planificador = "a_listos" =>
          /\ candidato \in Procesos
          /\ candidato < pid_generator
          /\ estado[candidato] = "new"
          /\ \A i \in 1 .. Len(queue_new) : candidato < queue_new[i]

Inv == TypeOK /\ ColaInv /\ FichasCubrenNuevos /\ SinAvisoPerdido
              /\ MemoriaDeLosAdmitidos

LEMMA Inicio == Init => Inv
<1> SUFFICES ASSUME Init PROVE Inv
  OBVIOUS
<1> USE LargoPlazoAssumption DEF Init
<1>1. TypeOK
  BY DEF TypeOK, Estados, Causas, Puntos
<1>2. ColaInv
  BY DEF ColaInv
<1>3. FichasCubrenNuevos
  BY DEF FichasCubrenNuevos, FichasEnMano
<1>4. SinAvisoPerdido
  BY DEF SinAvisoPerdido
<1>5. MemoriaDeLosAdmitidos
  BY DEF MemoriaDeLosAdmitidos, Admitido
<1>6. QED
  BY <1>1, <1>2, <1>3, <1>4, <1>5 DEF Inv

\* What Head and Tail are for a queue of processes.
LEMMA CabezaYResto ==
  ASSUME NEW s \in Seq(Procesos), s # <<>>
  PROVE  /\ Len(s) \in Nat \ {0}
         /\ Head(s) = s[1]
         /\ Head(s) \in Procesos
         /\ Tail(s) \in Seq(Procesos)
         /\ Len(Tail(s)) = Len(s) - 1
         /\ \A i \in 1 .. Len(Tail(s)) : Tail(s)[i] = s[i + 1]
<1>1. Len(s) \in Nat \ {0}
  BY EmptySeq
<1>2. /\ Head(s) \in Procesos
      /\ Tail(s) \in Seq(Procesos)
      /\ Len(Tail(s)) = Len(s) - 1
      /\ \A i \in 1 .. Len(Tail(s)) : Tail(s)[i] = s[i + 1]
  BY HeadTailProperties
<1>3. Head(s) = s[1]
  BY <1>1
<1>4. QED
  BY <1>1, <1>2, <1>3

\* TypeOK is kept by every step.
LEMMA PasoTypeOK == TypeOK /\ ColaInv /\ [Next]_vars => TypeOK'
<1> SUFFICES ASSUME TypeOK, ColaInv, [Next]_vars PROVE TypeOK'
  OBVIOUS
<1> USE LargoPlazoAssumption DEF TypeOK, Estados, Causas, Puntos
<1>1. ASSUME NEW t \in Tamanios, CreaProceso(t) PROVE TypeOK'
  BY <1>1 DEF CreaProceso
<1>2. CASE AvisaProcesoCreado
  BY <1>2 DEF AvisaProcesoCreado
<1>3. CASE EsperaProceso
  BY <1>3 DEF EsperaProceso
<1>4. CASE EsperaEspacio
  BY <1>4 DEF EsperaEspacio
<1>5. CASE MiraCola
  BY <1>5, CabezaYResto DEF MiraCola
<1>6. CASE MiraColaVacia
  BY <1>6 DEF MiraColaVacia
<1>7. CASE MemoriaAcepta
  <2>1. candidato \in Procesos
    BY <1>7 DEF MemoriaAcepta, ColaInv
  <2>2. QED
    BY <1>7, <2>1 DEF MemoriaAcepta, ParticionesPara
<1>8. CASE MemoriaRechaza
  BY <1>8 DEF MemoriaRechaza
<1>9. CASE SacaDeNew
  BY <1>9, CabezaYResto DEF SacaDeNew, ColaInv
<1>10. CASE PasaAListos
  BY <1>10 DEF PasaAListos
<1>11. CASE AvisaEspacio
  BY <1>11 DEF AvisaEspacio
<1>12. CASE AvisaProceso
  BY <1>12 DEF AvisaProceso
<1>13. CASE SinLugar
  BY <1>13 DEF SinLugar
<1>14. CASE ColaVacia
  BY <1>14 DEF ColaVacia
<1>15. ASSUME NEW p \in Procesos, NEW c \in Causas, Finaliza(p, c) PROVE TypeOK'
  BY <1>15 DEF Finaliza
<1>16. ASSUME NEW p \in Procesos, Finalizador(p) PROVE TypeOK'
  <2>1. CASE NotificaMemoria(p)
    BY <2>1 DEF NotificaMemoria
  <2>2. CASE AvisaEspacioLibre(p)
    BY <2>2 DEF AvisaEspacioLibre
  <2>3. CASE AvisaReintento(p)
    BY <2>3 DEF AvisaReintento
  <2>4. CASE AvisaEspacioOtraVez(p)
    BY <2>4 DEF AvisaEspacioOtraVez
  <2>5. QED
    BY <1>16, <2>1, <2>2, <2>3, <2>4 DEF Finalizador
<1>17. CASE UNCHANGED vars
  BY <1>17 DEF vars
<1>18. QED
  BY <1>1, <1>2, <1>3, <1>4, <1>5, <1>6, <1>7, <1>8, <1>9, <1>10, <1>11, <1>12,
     <1>13, <1>14, <1>15, <1>16, <1>17 DEF Next, Creador, Planificador

\* The steps that leave alone everything ColaInv is about.
LEMMA ColaQuieta ==
  ASSUME ColaInv,
         UNCHANGED <<queue_new, pid_generator, candidato>>,
         queue_new \in Seq(Procesos),
         \A p \in Procesos :
            /\ estado[p] = "inexistente" => estado'[p] = "inexistente"
            /\ estado[p] = "new" <=> estado'[p] = "new",
         \/ planificador' = planificador
         \/ planificador' \notin {"pide_memoria", "saca", "a_listos"}
            /\ planificador # "a_listos"
         \/ planificador = "pide_memoria" /\ planificador' = "saca"
  PROVE  ColaInv'
<1>1. \A i \in 1 .. Len(queue_new) : queue_new[i] \in Procesos
  BY ElementOfSeq
<1>2. QED
  BY <1>1 DEF ColaInv

\* ColaInv is kept by every step.
LEMMA PasoCola == TypeOK /\ ColaInv /\ [Next]_vars => ColaInv'
<1> SUFFICES ASSUME TypeOK, ColaInv, [Next]_vars PROVE ColaInv'
  OBVIOUS
<1> USE LargoPlazoAssumption
<1>a. /\ queue_new \in Seq(Procesos)
      /\ estado \in [Procesos -> Estados]
      /\ Len(queue_new) \in Nat
      /\ pid_generator \in 0 .. MaxProcesos
      /\ \A i \in 1 .. Len(queue_new) : queue_new[i] \in Procesos
  BY ElementOfSeq, LenProperties DEF TypeOK
<1>1. ASSUME NEW t \in Tamanios, CreaProceso(t) PROVE ColaInv'
  <2> DEFINE n == Len(queue_new)
  <2>1. /\ Len(queue_new') = n + 1
        /\ \A i \in 1 .. n : queue_new'[i] = queue_new[i]
        /\ queue_new'[n + 1] = pid_generator
        /\ pid_generator \in Procesos
    BY <1>1, <1>a, AppendProperties DEF CreaProceso
  <2>2. UNCHANGED <<planificador, candidato>> /\ pid_generator' = pid_generator + 1
    BY <1>1 DEF CreaProceso
  <2>3. /\ \A p \in Procesos : p # pid_generator => estado'[p] = estado[p]
        /\ estado'[pid_generator] = "new"
    BY <1>1, <1>a, <2>1 DEF CreaProceso
  <2>a. \A i \in 1 .. n + 1 : i \in 1 .. n \/ i = n + 1
    BY <1>a
  <2>b. \A i \in 1 .. n : /\ queue_new[i] \in 0 .. MaxProcesos - 1
                          /\ queue_new[i] < pid_generator
                          /\ estado'[queue_new[i]] = "new"
    BY <1>a, <2>3 DEF ColaInv
  <2>4. \A i, j \in 1 .. n + 1 : i < j => queue_new'[i] < queue_new'[j]
    <3> SUFFICES ASSUME NEW i \in 1 .. n + 1, NEW j \in 1 .. n + 1, i < j
                 PROVE  queue_new'[i] < queue_new'[j]
      OBVIOUS
    <3>1. i \in 1 .. n /\ queue_new'[i] = queue_new[i]
      BY <1>a, <2>1
    <3>2. CASE j = n + 1
      BY <2>1, <2>b, <3>1, <3>2
    <3>3. CASE j \in 1 .. n
      BY <2>1, <3>1, <3>3 DEF ColaInv
    <3>4. QED
      BY <2>a, <3>2, <3>3
  <2>5. \A i \in 1 .. n + 1 : /\ queue_new'[i] < pid_generator'
                              /\ estado'[queue_new'[i]] = "new"
    <3> SUFFICES ASSUME NEW i \in 1 .. n + 1
                 PROVE  queue_new'[i] < pid_generator' /\ estado'[queue_new'[i]] = "new"
      OBVIOUS
    <3>1. CASE i = n + 1
      <4>1. queue_new'[i] = pid_generator
        BY <2>1, <3>1
      <4>2. pid_generator \in Nat /\ pid_generator' = pid_generator + 1
        BY <1>a, <2>2
      <4>3. QED
        BY <2>3, <4>1, <4>2
    <3>2. CASE i \in 1 .. n
      <4>1. queue_new'[i] = queue_new[i]
        BY <2>1, <3>2
      <4>2. pid_generator \in Nat /\ pid_generator' = pid_generator + 1
        BY <1>a, <2>2
      <4>3. queue_new[i] \in Int /\ queue_new[i] < pid_generator /\ estado'[queue_new[i]] = "new"
        BY <2>b, <3>2
      <4>4. QED
        BY <4>1, <4>2, <4>3
    <3>3. QED
      BY <2>a, <3>1, <3>2
  <2>6. \A p \in Procesos : p >= pid_generator' => estado'[p] = "inexistente"
    BY <1>a, <2>2, <2>3 DEF ColaInv
  <2>7. \A p \in Procesos : estado'[p] = "new" =>
          \/ planificador' = "a_listos" /\ p = candidato'
          \/ \E i \in 1 .. n + 1 : queue_new'[i] = p
    <3> SUFFICES ASSUME NEW p \in Procesos, estado'[p] = "new",
                        ~(planificador' = "a_listos" /\ p = candidato')
                 PROVE  \E i \in 1 .. n + 1 : queue_new'[i] = p
      OBVIOUS
    <3>1. CASE p = pid_generator
      BY <1>a, <2>1, <3>1
    <3>2. CASE p # pid_generator
      <4>1. PICK i \in 1 .. n : queue_new[i] = p
        BY <2>2, <2>3, <3>2 DEF ColaInv
      <4>2. i \in 1 .. n + 1 /\ queue_new'[i] = p
        BY <1>a, <2>1, <4>1
      <4>3. QED
        BY <4>2
    <3>3. QED
      BY <3>1, <3>2
  <2>8. planificador' \in {"pide_memoria", "saca"} =>
          queue_new' # <<>> /\ candidato' = queue_new'[1]
    <3> SUFFICES ASSUME planificador \in {"pide_memoria", "saca"}
                 PROVE  queue_new' # <<>> /\ candidato' = queue_new'[1]
      BY <2>2
    <3>1. queue_new # <<>> /\ candidato = queue_new[1]
      BY DEF ColaInv
    <3>2. n \in Nat \ {0}
      BY <1>a, <3>1, EmptySeq
    <3>3. QED
      BY <1>a, <2>1, <2>2, <3>1, <3>2
  <2>9. planificador' = "a_listos" =>
          /\ candidato' \in Procesos
          /\ candidato' < pid_generator'
          /\ estado'[candidato'] = "new"
          /\ \A i \in 1 .. n + 1 : candidato' < queue_new'[i]
    <3> SUFFICES ASSUME planificador = "a_listos"
                 PROVE  /\ candidato \in Procesos
                        /\ candidato < pid_generator + 1
                        /\ estado'[candidato] = "new"
                        /\ \A i \in 1 .. n + 1 : candidato < queue_new'[i]
      BY <2>2
    <3>1. /\ candidato \in Procesos
          /\ candidato < pid_generator
          /\ estado[candidato] = "new"
          /\ \A i \in 1 .. n : candidato < queue_new[i]
      BY DEF ColaInv
    <3>2. \A i \in 1 .. n + 1 : candidato < queue_new'[i]
      BY <2>1, <2>a, <3>1
    <3>3. QED
      BY <1>a, <2>3, <3>1, <3>2
  <2>10. QED
    BY <2>1, <2>4, <2>5, <2>6, <2>7, <2>8, <2>9 DEF ColaInv
<1>2. CASE AvisaProcesoCreado
  BY <1>a, <1>2, ColaQuieta DEF AvisaProcesoCreado
<1>3. CASE EsperaProceso
  BY <1>a, <1>3, ColaQuieta DEF EsperaProceso
<1>4. CASE EsperaEspacio
  BY <1>a, <1>4, ColaQuieta DEF EsperaEspacio
<1>5. CASE MiraCola
  BY <1>a, <1>5, CabezaYResto DEF MiraCola, ColaInv
<1>6. CASE MiraColaVacia
  BY <1>a, <1>6, ColaQuieta DEF MiraColaVacia
<1>7. CASE MemoriaAcepta
  BY <1>a, <1>7, ColaQuieta DEF MemoriaAcepta
<1>8. CASE MemoriaRechaza
  BY <1>a, <1>8 DEF MemoriaRechaza, ColaInv
<1>9. CASE SacaDeNew
  <2> DEFINE n == Len(queue_new)
  <2>1. queue_new # <<>> /\ candidato = queue_new[1]
    BY <1>9 DEF SacaDeNew, ColaInv
  <2>2. /\ n \in Nat \ {0}
        /\ Len(queue_new') = n - 1
        /\ \A i \in 1 .. n - 1 : queue_new'[i] = queue_new[i + 1]
    BY <1>9, <1>a, <2>1, CabezaYResto DEF SacaDeNew
  <2>3. /\ UNCHANGED <<pid_generator, estado, candidato>>
        /\ planificador = "saca" /\ planificador' = "a_listos"
    BY <1>9 DEF SacaDeNew
  <2>a. \A i \in 1 .. n - 1 : /\ i \in 1 .. n
                              /\ i + 1 \in 1 .. n
                              /\ queue_new'[i] = queue_new[i + 1]
    BY <2>2
  <2>4. \A i, j \in 1 .. n - 1 : i < j => queue_new'[i] < queue_new'[j]
    <3> SUFFICES ASSUME NEW i \in 1 .. n - 1, NEW j \in 1 .. n - 1, i < j
                 PROVE  queue_new[i + 1] < queue_new[j + 1]
      BY <2>a
    <3>1. i + 1 \in 1 .. n /\ j + 1 \in 1 .. n /\ i + 1 < j + 1
      BY <2>a
    <3>2. QED
      BY <3>1 DEF ColaInv
  <2>5. \A i \in 1 .. n - 1 : /\ queue_new'[i] < pid_generator'
                              /\ estado'[queue_new'[i]] = "new"
    BY <2>a, <2>3 DEF ColaInv
  <2>6. \A p \in Procesos : estado'[p] = "new" =>
          p = candidato' \/ \E i \in 1 .. n - 1 : queue_new'[i] = p
    <3> SUFFICES ASSUME NEW p \in Procesos, estado[p] = "new", p # candidato
                 PROVE  \E i \in 1 .. n - 1 : queue_new'[i] = p
      BY <2>3
    <3>1. PICK i \in 1 .. n : queue_new[i] = p
      BY <2>3 DEF ColaInv
    <3>2. i - 1 \in 1 .. n - 1 /\ queue_new'[i - 1] = p
      BY <2>1, <2>2, <3>1
    <3>3. QED
      BY <3>2
  <2>7. \A i \in 1 .. n - 1 : candidato' < queue_new'[i]
    <3> SUFFICES ASSUME NEW i \in 1 .. n - 1
                 PROVE  queue_new[1] < queue_new[i + 1]
      BY <2>1, <2>3, <2>a
    <3>1. 1 \in 1 .. n /\ i + 1 \in 1 .. n /\ 1 < i + 1
      BY <2>2, <2>a
    <3>2. QED
      BY <3>1 DEF ColaInv
  <2>8. candidato' \in Procesos /\ candidato' < pid_generator' /\ estado'[candidato'] = "new"
    BY <1>a, <2>1, <2>2, <2>3 DEF ColaInv
  <2>9. QED
    BY <2>2, <2>3, <2>4, <2>5, <2>6, <2>7, <2>8 DEF ColaInv
<1>10. CASE PasaAListos
  <2>1. /\ candidato \in Procesos
        /\ candidato < pid_generator
        /\ \A i \in 1 .. Len(queue_new) : candidato < queue_new[i]
    BY <1>10 DEF PasaAListos, ColaInv
  <2>2. QED
    BY <1>a, <1>10, <2>1 DEF PasaAListos, ColaInv
<1>11. CASE AvisaEspacio
  BY <1>a, <1>11, ColaQuieta DEF AvisaEspacio
<1>12. CASE AvisaProceso
  BY <1>a, <1>12, ColaQuieta DEF AvisaProceso
<1>13. CASE SinLugar
  BY <1>a, <1>13, ColaQuieta DEF SinLugar
<1>14. CASE ColaVacia
  BY <1>a, <1>14, ColaQuieta DEF ColaVacia
<1>15. ASSUME NEW p \in Procesos, NEW c \in Causas, Finaliza(p, c) PROVE ColaInv'
  BY <1>a, <1>15, ColaQuieta DEF Finaliza
<1>16. ASSUME NEW p \in Procesos, Finalizador(p) PROVE ColaInv'
  <2>1. /\ estado[p] \in {"notifica_memoria", "memoria_libre", "aviso_espacio", "aviso_proceso"}
        /\ estado'[p] \notin {"new", "inexistente"}
        /\ \A q \in Procesos \ {p} : estado'[q] = estado[q]
        /\ UNCHANGED <<queue_new, pid_generator, planificador, candidato>>
    BY <1>16, <1>a DEF Finalizador, NotificaMemoria, AvisaEspacioLibre,
                       AvisaReintento, AvisaEspacioOtraVez
  <2>2. QED
    BY <1>a, <2>1, ColaQuieta
<1>17. CASE UNCHANGED vars
  BY <1>a, <1>17, ColaQuieta DEF vars
<1>18. QED
  BY <1>1, <1>2, <1>3, <1>4, <1>5, <1>6, <1>7, <1>8, <1>9, <1>10, <1>11, <1>12,
     <1>13, <1>14, <1>15, <1>16, <1>17 DEF Next, Creador, Planificador

\* The tokens of proceso_nuevo keep covering the queue. Only SacaDeNew
\* shortens the queue, and the planner throws a token away only after having
\* seen it empty.
LEMMA PasoFichas ==
  TypeOK /\ ColaInv /\ FichasCubrenNuevos /\ [Next]_vars => FichasCubrenNuevos'
<1> SUFFICES ASSUME TypeOK, ColaInv, FichasCubrenNuevos, [Next]_vars
             PROVE  FichasCubrenNuevos'
  OBVIOUS
<1> USE DEF FichasCubrenNuevos, FichasEnMano
<1>a. /\ queue_new \in Seq(Procesos)
      /\ Len(queue_new) \in Nat
      /\ proceso_nuevo \in Nat
      /\ creador \in {"libre", "encolado"}
  BY LenProperties DEF TypeOK
<1>1. ASSUME NEW t \in Tamanios, CreaProceso(t) PROVE FichasCubrenNuevos'
  <2>1. Len(queue_new') = Len(queue_new) + 1
    <3>1. pid_generator \in Procesos
      BY <1>1, LargoPlazoAssumption DEF CreaProceso, TypeOK
    <3>2. QED
      BY <1>1, <1>a, <3>1, AppendProperties DEF CreaProceso
  <2>2. QED
    BY <1>1, <1>a, <2>1 DEF CreaProceso
<1>2. CASE AvisaProcesoCreado
  BY <1>a, <1>2 DEF AvisaProcesoCreado
<1>3. CASE EsperaProceso
  BY <1>a, <1>3 DEF EsperaProceso
<1>4. CASE EsperaEspacio
  BY <1>a, <1>4 DEF EsperaEspacio
<1>5. CASE MiraCola
  BY <1>a, <1>5 DEF MiraCola
<1>6. CASE MiraColaVacia
  BY <1>a, <1>6, EmptySeq DEF MiraColaVacia
<1>7. CASE MemoriaAcepta
  BY <1>a, <1>7 DEF MemoriaAcepta
<1>8. CASE MemoriaRechaza
  BY <1>a, <1>8 DEF MemoriaRechaza
<1>9. CASE SacaDeNew
  <2>1. Len(queue_new') = Len(queue_new) - 1
    BY <1>9, <1>a, CabezaYResto DEF SacaDeNew, ColaInv
  <2>2. QED
    BY <1>a, <1>9, <2>1 DEF SacaDeNew
<1>10. CASE PasaAListos
  BY <1>a, <1>10 DEF PasaAListos
<1>11. CASE AvisaEspacio
  BY <1>a, <1>11 DEF AvisaEspacio
<1>12. CASE AvisaProceso
  BY <1>a, <1>12 DEF AvisaProceso
<1>13. CASE SinLugar
  BY <1>a, <1>13 DEF SinLugar
<1>14. CASE ColaVacia
  BY <1>a, <1>14 DEF ColaVacia
<1>15. ASSUME NEW p \in Procesos, NEW c \in Causas, Finaliza(p, c)
       PROVE  FichasCubrenNuevos'
  BY <1>a, <1>15 DEF Finaliza
<1>16. ASSUME NEW p \in Procesos, Finalizador(p) PROVE FichasCubrenNuevos'
  <2>1. CASE NotificaMemoria(p)
    BY <1>a, <2>1 DEF NotificaMemoria
  <2>2. CASE AvisaEspacioLibre(p)
    BY <1>a, <2>2 DEF AvisaEspacioLibre
  <2>3. CASE AvisaReintento(p)
    BY <1>a, <2>3 DEF AvisaReintento
  <2>4. CASE AvisaEspacioOtraVez(p)
    BY <1>a, <2>4 DEF AvisaEspacioOtraVez
  <2>5. QED
    BY <1>16, <2>1, <2>2, <2>3, <2>4 DEF Finalizador
<1>17. CASE UNCHANGED vars
  BY <1>17 DEF vars
<1>18. QED
  BY <1>1, <1>2, <1>3, <1>4, <1>5, <1>6, <1>7, <1>8, <1>9, <1>10, <1>11, <1>12,
     <1>13, <1>14, <1>15, <1>16, <1>17 DEF Next, Creador, Planificador

\* With the head of the queue, its size and the partitions as they were, and
\* no finalizer leaving "memoria_libre", a refusal stays justified.
LEMMA RechazoSigueValido ==
  ASSUME SinAvisoPerdido,
         queue_new # <<>> => queue_new' # <<>> /\ Head(queue_new') = Head(queue_new)
                             /\ tam'[Head(queue_new)] = tam[Head(queue_new)],
         UNCHANGED <<espacio, particion>>,
         TieneEspacio' <=> TieneEspacio,
         \A p \in Procesos : estado[p] = "memoria_libre" => estado'[p] = "memoria_libre"
  PROVE  SinAvisoPerdido'
BY DEF SinAvisoPerdido, Cabe, ParticionesPara

\* No wakeup of espacio_para_proceso is lost.
LEMMA PasoSinAviso ==
  TypeOK /\ ColaInv /\ SinAvisoPerdido /\ [Next]_vars => SinAvisoPerdido'
<1> SUFFICES ASSUME TypeOK, ColaInv, SinAvisoPerdido, [Next]_vars
             PROVE  SinAvisoPerdido'
  OBVIOUS
<1>a. /\ queue_new \in Seq(Procesos)
      /\ estado \in [Procesos -> Estados]
      /\ tam \in [Procesos -> Nat]
      /\ espacio \in Nat
      /\ planificador \in Puntos
  BY DEF TypeOK
<1>1. ASSUME NEW t \in Tamanios, CreaProceso(t) PROVE SinAvisoPerdido'
  <2>1. /\ pid_generator \in Procesos
        /\ estado[pid_generator] = "inexistente"
    BY <1>1, LargoPlazoAssumption DEF CreaProceso, TypeOK, ColaInv
  <2>2. ASSUME queue_new # <<>>
        PROVE  /\ queue_new' # <<>>
               /\ Head(queue_new') = Head(queue_new)
               /\ Head(queue_new) \in Procesos
               /\ Head(queue_new) # pid_generator
    <3>1. Len(queue_new) \in Nat \ {0} /\ Head(queue_new) = queue_new[1]
      BY <1>a, <2>2, CabezaYResto
    <3>2. queue_new[1] < pid_generator
      BY <3>1 DEF ColaInv
    <3>3. queue_new[1] \in Procesos /\ queue_new[1] # pid_generator
      BY <1>a, <2>1, <2>2, <3>1, <3>2, CabezaYResto
    <3>4. queue_new' # <<>> /\ Head(queue_new') = Head(queue_new)
      BY <1>1, <1>a, <2>1, <2>2, AppendProperties, HeadTailAppend DEF CreaProceso
    <3>5. QED
      BY <3>1, <3>3, <3>4
  <2>3. queue_new # <<>> => tam'[Head(queue_new)] = tam[Head(queue_new)]
    BY <1>1, <1>a, <2>2 DEF CreaProceso
  <2>4. /\ UNCHANGED <<espacio, particion, planificador>>
        /\ \A p \in Procesos : estado[p] = "memoria_libre" => estado'[p] = "memoria_libre"
    BY <1>1, <1>a, <2>1 DEF CreaProceso
  <2>5. QED
    BY <2>2, <2>3, <2>4, RechazoSigueValido DEF TieneEspacio
<1>2. CASE AvisaProcesoCreado
  BY <1>2, RechazoSigueValido DEF AvisaProcesoCreado, TieneEspacio
<1>3. CASE EsperaProceso
  BY <1>3, RechazoSigueValido DEF EsperaProceso, TieneEspacio
<1>4. CASE EsperaEspacio
  BY <1>4 DEF EsperaEspacio, SinAvisoPerdido, TieneEspacio
<1>5. CASE MiraCola
  BY <1>5, RechazoSigueValido DEF MiraCola, TieneEspacio
<1>6. CASE MiraColaVacia
  BY <1>6, RechazoSigueValido DEF MiraColaVacia, TieneEspacio
<1>7. CASE MemoriaAcepta
  BY <1>7 DEF MemoriaAcepta, SinAvisoPerdido, TieneEspacio
<1>8. CASE MemoriaRechaza
  <2>1. queue_new # <<>> /\ candidato = Head(queue_new)
    BY <1>8, <1>a, CabezaYResto DEF MemoriaRechaza, ColaInv
  <2>2. QED
    BY <1>8, <2>1 DEF MemoriaRechaza, SinAvisoPerdido, Cabe, ParticionesPara
<1>9. CASE SacaDeNew
  BY <1>9 DEF SacaDeNew, SinAvisoPerdido, TieneEspacio
<1>10. CASE PasaAListos
  BY <1>10 DEF PasaAListos, SinAvisoPerdido, TieneEspacio
<1>11. CASE AvisaEspacio
  BY <1>11, <1>a DEF AvisaEspacio, SinAvisoPerdido
<1>12. CASE AvisaProceso
  BY <1>12, RechazoSigueValido DEF AvisaProceso, TieneEspacio
<1>13. CASE SinLugar
  BY <1>13, RechazoSigueValido DEF SinLugar, TieneEspacio
<1>14. CASE ColaVacia
  BY <1>14, <1>a DEF ColaVacia, SinAvisoPerdido
<1>15. ASSUME NEW p \in Procesos, NEW c \in Causas, Finaliza(p, c)
       PROVE  SinAvisoPerdido'
  BY <1>15, <1>a, RechazoSigueValido DEF Finaliza, TieneEspacio
<1>16. ASSUME NEW p \in Procesos, Finalizador(p) PROVE SinAvisoPerdido'
  <2>1. CASE NotificaMemoria(p)
    <3>1. estado'[p] = "memoria_libre" /\ UNCHANGED <<espacio, planificador, queue_new>>
      BY <2>1, <1>a DEF NotificaMemoria
    <3>2. QED
      BY <3>1 DEF SinAvisoPerdido, TieneEspacio
  <2>2. CASE AvisaEspacioLibre(p)
    BY <1>a, <2>2 DEF AvisaEspacioLibre, SinAvisoPerdido
  <2>3. CASE AvisaReintento(p)
    BY <1>a, <2>3, RechazoSigueValido DEF AvisaReintento, TieneEspacio
  <2>4. CASE AvisaEspacioOtraVez(p)
    BY <1>a, <2>4 DEF AvisaEspacioOtraVez, SinAvisoPerdido
  <2>5. QED
    BY <1>16, <2>1, <2>2, <2>3, <2>4 DEF Finalizador
<1>17. CASE UNCHANGED vars
  BY <1>17, RechazoSigueValido DEF vars, TieneEspacio
<1>18. QED
  BY <1>1, <1>2, <1>3, <1>4, <1>5, <1>6, <1>7, <1>8, <1>9, <1>10, <1>11, <1>12,
     <1>13, <1>14, <1>15, <1>16, <1>17 DEF Next, Creador, Planificador

\* The steps that change neither the partitions nor who is admitted.
LEMMA MemoriaQuieta ==
  ASSUME TypeOK, MemoriaDeLosAdmitidos,
         UNCHANGED particion,
         \A p \in Procesos : Admitido(p)' <=> Admitido(p)
  PROVE  MemoriaDeLosAdmitidos'
<1>1. \A i \in Particiones : particion[i] # Nadie => particion[i] \in Procesos
  BY DEF TypeOK
<1>2. \A i \in Particiones : particion'[i] # Nadie => Admitido(particion[i])'
  <2> SUFFICES ASSUME NEW i \in Particiones, particion'[i] # Nadie
               PROVE  Admitido(particion[i])'
    OBVIOUS
  <2>1. particion'[i] = particion[i] /\ particion[i] \in Procesos
    BY <1>1
  <2>2. Admitido(particion[i])
    BY <2>1 DEF MemoriaDeLosAdmitidos
  <2>3. ASSUME NEW q \in Procesos, q = particion[i] PROVE Admitido(q)'
    BY <2>2, <2>3
  <2>4. QED
    BY <2>1, <2>3 DEF Admitido
<1>3. QED
  BY <1>2 DEF MemoriaDeLosAdmitidos

\* Every step keeps the partitions in the hands of the admitted processes.
LEMMA PasoMemoria ==
  TypeOK /\ ColaInv /\ MemoriaDeLosAdmitidos /\ [Next]_vars
    => MemoriaDeLosAdmitidos'
<1> SUFFICES ASSUME TypeOK, ColaInv, MemoriaDeLosAdmitidos, [Next]_vars
             PROVE  MemoriaDeLosAdmitidos'
  OBVIOUS
<1>a. /\ estado \in [Procesos -> Estados]
      /\ particion \in [Particiones -> Procesos \cup {Nadie}]
      /\ queue_new \in Seq(Procesos)
      /\ planificador \in Puntos
  BY DEF TypeOK
<1>1. ASSUME NEW t \in Tamanios, CreaProceso(t) PROVE MemoriaDeLosAdmitidos'
  <2>1. pid_generator \in Procesos /\ estado[pid_generator] = "inexistente"
    BY <1>1, LargoPlazoAssumption DEF CreaProceso, TypeOK, ColaInv
  <2>2. QED
    BY <1>1, <1>a, <2>1, MemoriaQuieta DEF CreaProceso, Admitido
<1>2. CASE AvisaProcesoCreado
  BY <1>2, MemoriaQuieta DEF AvisaProcesoCreado, Admitido
<1>3. CASE EsperaProceso
  BY <1>3, MemoriaQuieta DEF EsperaProceso, Admitido
<1>4. CASE EsperaEspacio
  BY <1>4, MemoriaQuieta DEF EsperaEspacio, Admitido
<1>5. CASE MiraCola
  BY <1>5, MemoriaQuieta DEF MiraCola, Admitido
<1>6. CASE MiraColaVacia
  BY <1>6, MemoriaQuieta DEF MiraColaVacia, Admitido
<1>7. CASE MemoriaAcepta
  <2>1. /\ queue_new # <<>>
        /\ candidato = queue_new[1]
        /\ Len(queue_new) \in Nat \ {0}
        /\ candidato \in Procesos
    BY <1>7, <1>a, CabezaYResto DEF MemoriaAcepta, ColaInv
  <2>2. estado[candidato] = "new"
    BY <2>1 DEF ColaInv
  <2>3. ~Admitido(candidato)
    BY <1>7, <2>2 DEF Admitido, MemoriaAcepta
  <2>4. \A i \in Particiones : particion[i] # candidato
    BY <2>1, <2>3 DEF MemoriaDeLosAdmitidos
  <2>5. \A p \in Procesos : Admitido(p)' <=> Admitido(p) \/ p = candidato
    BY <1>7, <1>a DEF Admitido, MemoriaAcepta
  <2>6. PICK k \in Particiones : /\ particion[k] = Nadie
                                 /\ particion' = [particion EXCEPT ![k] = candidato]
    BY <1>7 DEF MemoriaAcepta, ParticionesPara
  <2>7. ASSUME NEW i \in Particiones, particion'[i] # Nadie
        PROVE  Admitido(particion[i])'
    <3>1. particion'[i] \in Procesos
      BY <1>a, <2>1, <2>6, <2>7
    <3>2. Admitido(particion'[i]) \/ particion'[i] = candidato
      BY <1>a, <2>6, <2>7 DEF MemoriaDeLosAdmitidos
    <3>3. ASSUME NEW q \in Procesos, q = particion'[i] PROVE Admitido(q)'
      BY <2>5, <3>2, <3>3
    <3>4. QED
      BY <3>1, <3>3 DEF Admitido
  <2>8. ASSUME NEW p \in Procesos, Admitido(p)'
        PROVE  \E i \in Particiones : particion'[i] = p
    <3>1. CASE p = candidato
      BY <1>a, <2>6, <3>1
    <3>2. CASE p # candidato
      <4>1. PICK i \in Particiones : particion[i] = p
        BY <2>5, <2>8, <3>2 DEF MemoriaDeLosAdmitidos
      <4>2. i # k
        BY <2>6, <4>1
      <4>3. QED
        BY <1>a, <2>6, <4>1, <4>2
    <3>3. QED
      BY <3>1, <3>2
  <2>9. \A i, j \in Particiones :
          particion'[i] = particion'[j] /\ particion'[i] # Nadie => i = j
    BY <1>a, <2>4, <2>6 DEF MemoriaDeLosAdmitidos
  <2>10. QED
    BY <2>7, <2>8, <2>9 DEF MemoriaDeLosAdmitidos
<1>8. CASE MemoriaRechaza
  BY <1>8, MemoriaQuieta DEF MemoriaRechaza, Admitido
<1>9. CASE SacaDeNew
  BY <1>9, MemoriaQuieta DEF SacaDeNew, Admitido
<1>10. CASE PasaAListos
  <2>1. candidato \in Procesos
    BY <1>10 DEF PasaAListos, ColaInv
  <2>2. \A p \in Procesos : Admitido(p)' <=> Admitido(p)
    BY <1>10, <1>a, <2>1 DEF PasaAListos, Admitido
  <2>3. QED
    BY <1>10, <2>2, MemoriaQuieta DEF PasaAListos
<1>11. CASE AvisaEspacio
  BY <1>11, MemoriaQuieta DEF AvisaEspacio, Admitido
<1>12. CASE AvisaProceso
  BY <1>12, MemoriaQuieta DEF AvisaProceso, Admitido
<1>13. CASE SinLugar
  BY <1>13, MemoriaQuieta DEF SinLugar, Admitido
<1>14. CASE ColaVacia
  BY <1>14, MemoriaQuieta DEF ColaVacia, Admitido
<1>15. ASSUME NEW p \in Procesos, NEW c \in Causas, Finaliza(p, c)
       PROVE  MemoriaDeLosAdmitidos'
  BY <1>15, <1>a, MemoriaQuieta DEF Finaliza, Admitido
<1>16. ASSUME NEW p \in Procesos, Finalizador(p) PROVE MemoriaDeLosAdmitidos'
  <2>1. CASE NotificaMemoria(p)
    <3>1. PICK k \in Particiones : /\ particion[k] = p
                                   /\ particion' = [particion EXCEPT ![k] = Nadie]
      BY <2>1 DEF NotificaMemoria
    <3>2. \A i \in Particiones \ {k} : particion[i] # p
      BY <3>1 DEF MemoriaDeLosAdmitidos
    <3>3. ~(planificador \in {"saca", "a_listos"} /\ p = candidato)
      <4>1. CASE planificador = "a_listos"
        BY <2>1, <4>1 DEF NotificaMemoria, ColaInv
      <4>2. CASE planificador = "saca"
        <5>1. queue_new # <<>> /\ candidato = queue_new[1]
          BY <4>2 DEF ColaInv
        <5>2. 1 \in 1 .. Len(queue_new)
          BY <1>a, <5>1, CabezaYResto
        <5>3. QED
          BY <2>1, <5>1, <5>2 DEF NotificaMemoria, ColaInv
      <4>3. QED
        BY <4>1, <4>2
    <3>4. \A q \in Procesos : Admitido(q)' <=> Admitido(q) /\ q # p
      BY <2>1, <1>a, <3>3 DEF NotificaMemoria, Admitido
    <3>5. ASSUME NEW i \in Particiones, particion'[i] # Nadie
          PROVE  Admitido(particion[i])'
      <4>1. i # k /\ particion'[i] = particion[i] /\ particion[i] \in Procesos
        BY <1>a, <3>1, <3>5
      <4>2. Admitido(particion[i]) /\ particion[i] # p
        BY <3>2, <4>1, <3>5 DEF MemoriaDeLosAdmitidos
      <4>3. ASSUME NEW q \in Procesos, q = particion'[i] PROVE Admitido(q)'
        BY <3>4, <4>1, <4>2, <4>3
      <4>4. QED
        BY <4>1, <4>3 DEF Admitido
    <3>6. ASSUME NEW q \in Procesos, Admitido(q)'
          PROVE  \E i \in Particiones : particion'[i] = q
      <4>1. q # p /\ Admitido(q)
        BY <3>4, <3>6
      <4>2. PICK i \in Particiones : particion[i] = q
        BY <4>1 DEF MemoriaDeLosAdmitidos
      <4>3. QED
        BY <1>a, <3>1, <4>1, <4>2
    <3>7. \A i, j \in Particiones :
            particion'[i] = particion'[j] /\ particion'[i] # Nadie => i = j
      BY <1>a, <3>1 DEF MemoriaDeLosAdmitidos
    <3>8. QED
      BY <3>5, <3>6, <3>7 DEF MemoriaDeLosAdmitidos
  <2>2. CASE AvisaEspacioLibre(p)
    BY <1>a, <2>2, MemoriaQuieta DEF AvisaEspacioLibre, Admitido
  <2>3. CASE AvisaReintento(p)
    BY <1>a, <2>3, MemoriaQuieta DEF AvisaReintento, Admitido
  <2>4. CASE AvisaEspacioOtraVez(p)
    BY <1>a, <2>4, MemoriaQuieta DEF AvisaEspacioOtraVez, Admitido
  <2>5. QED
    BY <1>16, <2>1, <2>2, <2>3, <2>4 DEF Finalizador
<1>17. CASE UNCHANGED vars
  BY <1>17, MemoriaQuieta DEF vars, Admitido
<1>18. QED
  BY <1>1, <1>2, <1>3, <1>4, <1>5, <1>6, <1>7, <1>8, <1>9, <1>10, <1>11, <1>12,
     <1>13, <1>14, <1>15, <1>16, <1>17 DEF Next, Creador, Planificador

-----------------------------------------------------------------------------
\* Inv is an invariant of the long-term planner.
THEOREM Invariancia == Spec => []Inv
<1>1. Init => Inv
  BY Inicio
<1>2. Inv /\ [Next]_vars => Inv'
  BY PasoTypeOK, PasoCola, PasoFichas, PasoSinAviso, PasoMemoria DEF Inv
<1>3. QED
  BY <1>1, <1>2, PTL DEF Spec

\* Every variable keeps its type; in particular no semaphore goes negative.
THEOREM TipoCorrecto == Spec => []TypeOK
<1>1. Inv => TypeOK
  BY DEF Inv
<1>2. QED
  BY <1>1, Invariancia, PTL

\* The planner never sleeps on proceso_nuevo over a queue nobody announces.
THEOREM SiempreHayFicha == Spec => []FichasCubrenNuevos
<1>1. Inv => FichasCubrenNuevos
  BY DEF Inv
<1>2. QED
  BY <1>1, Invariancia, PTL

\* The planner never sleeps on espacio_para_proceso while the oldest process
\* fits and no finalizer is about to wake it up.
THEOREM NingunAvisoPerdido == Spec => []SinAvisoPerdido
<1>1. Inv => SinAvisoPerdido
  BY DEF Inv
<1>2. QED
  BY <1>1, Invariancia, PTL

\* Memory belongs to the admitted processes, one partition each.
THEOREM CadaAdmitidoSuParticion == Spec => []MemoriaDeLosAdmitidos
<1>1. Inv => MemoriaDeLosAdmitidos
  BY DEF Inv
<1>2. QED
  BY <1>1, Invariancia, PTL

\* Processes enter READY in the order of their creation: the only step that
\* takes one out of NEW takes the one in the planner's hand, which is older
\* than the queue, and the queue holds all the others.
THEOREM NadieSeAdelanta == Spec => OrdenDeAdmision
<1> DEFINE Orden ==
      \A p \in Procesos : estado[p] = "new" /\ estado'[p] # "new" =>
          \A q \in Procesos : q < p => estado[q] # "new"
<1>1. Inv /\ [Next]_vars => [Orden]_vars
  <2> SUFFICES ASSUME Inv, Next,
                      NEW p \in Procesos, estado[p] = "new", estado'[p] # "new",
                      NEW q \in Procesos, q < p, estado[q] = "new"
               PROVE  FALSE
    OBVIOUS
  <2>a. estado \in [Procesos -> Estados] /\ queue_new \in Seq(Procesos) /\ ColaInv
    BY DEF Inv, TypeOK
  <2>1. PasaAListos
    <3>1. ASSUME NEW t \in Tamanios, CreaProceso(t) PROVE FALSE
      <4>1. pid_generator \in Procesos /\ estado[pid_generator] = "inexistente"
        BY <3>1, <2>a, LargoPlazoAssumption DEF CreaProceso, Inv, TypeOK, ColaInv
      <4>2. QED
        BY <2>a, <3>1, <4>1 DEF CreaProceso
    <3>2. ASSUME NEW r \in Procesos, NEW c \in Causas, Finaliza(r, c) PROVE FALSE
      BY <2>a, <3>2 DEF Finaliza
    <3>3. ASSUME NEW r \in Procesos, Finalizador(r) PROVE FALSE
      BY <2>a, <3>3 DEF Finalizador, NotificaMemoria, AvisaEspacioLibre,
                        AvisaReintento, AvisaEspacioOtraVez
    <3>4. CASE AvisaProcesoCreado
      BY <3>4 DEF AvisaProcesoCreado
    <3>5. CASE Planificador /\ ~PasaAListos
      BY <3>5 DEF Planificador, EsperaProceso, EsperaEspacio, MiraCola, MiraColaVacia,
                  MemoriaAcepta, MemoriaRechaza, SacaDeNew, AvisaEspacio,
                  AvisaProceso, SinLugar, ColaVacia
    <3>6. QED
      BY <3>1, <3>2, <3>3, <3>4, <3>5 DEF Next, Creador
  <2>2. p = candidato
    BY <2>a, <2>1 DEF PasaAListos
  <2>3. PICK i \in 1 .. Len(queue_new) : queue_new[i] = q
    BY <2>a, <2>1, <2>2 DEF PasaAListos, ColaInv
  <2>4. candidato < queue_new[i]
    BY <2>a, <2>1 DEF PasaAListos, ColaInv
  <2>5. QED
    BY <2>2, <2>3, <2>4, LargoPlazoAssumption
<1>2. QED
  BY <1>1, Invariancia, PTL DEF Spec, OrdenDeAdmision

-----------------------------------------------------------------------------
\* The steps that change nothing that the abstraction sees.
LEMMA PasoInvisible ==
  ASSUME UNCHANGED <<pid_generator, queue_new, particion, tam>>,
         planificador' = planificador \/ "saca" \notin {planificador, planificador'}
  PROVE  UNCHANGED Admision!vars
BY DEF Admision!vars

\* A step of the planner, of the creator or of a finalizer is a step of the
\* abstract admission or leaves what it shows as it was.
LEMMA PasoDeAdmision == Inv /\ [Next]_vars => [Admision!Next]_(Admision!vars)
<1> SUFFICES ASSUME Inv, [Next]_vars
             PROVE  Admision!Next \/ UNCHANGED Admision!vars
  OBVIOUS
<1>a. queue_new \in Seq(Procesos) /\ ColaInv
  BY DEF Inv, TypeOK
<1>1. ASSUME NEW t \in Tamanios, CreaProceso(t) PROVE Admision!Next
  <2>1. pid_generator \in Procesos
    BY <1>1, LargoPlazoAssumption DEF CreaProceso, Inv, TypeOK
  <2>2. CASE planificador # "saca"
    BY <1>1, <2>2 DEF CreaProceso, Admision!Next, Admision!Llega
  <2>3. CASE planificador = "saca"
    <3>1. queue_new # <<>>
      BY <1>a, <2>3 DEF ColaInv
    <3>2. Tail(queue_new') = Append(Tail(queue_new), pid_generator)
      BY <1>1, <1>a, <2>1, <3>1, HeadTailAppend DEF CreaProceso
    <3>3. Admision!Llega(t)
      BY <1>1, <2>3, <3>2 DEF CreaProceso, Admision!Llega
    <3>4. QED
      BY <3>3 DEF Admision!Next
  <2>4. QED
    BY <2>2, <2>3
<1>2. CASE AvisaProcesoCreado
  BY <1>2, PasoInvisible DEF AvisaProcesoCreado
<1>3. CASE MemoriaAcepta
  <2>1. queue_new # <<>> /\ candidato = Head(queue_new)
    BY <1>3, <1>a, CabezaYResto DEF MemoriaAcepta, ColaInv
  <2>2. Admision!Admite
    BY <1>3, <2>1 DEF MemoriaAcepta, ParticionesPara, Admision!Admite, Admision!Nadie
  <2>3. QED
    BY <2>2 DEF Admision!Next
<1>4. CASE SacaDeNew
  BY <1>4 DEF SacaDeNew, Admision!vars
<1>5. CASE Planificador /\ ~MemoriaAcepta /\ ~SacaDeNew
  BY <1>5, PasoInvisible
     DEF Planificador, EsperaProceso, EsperaEspacio, MiraCola, MiraColaVacia,
         MemoriaRechaza, PasaAListos, AvisaEspacio, AvisaProceso, SinLugar, ColaVacia
<1>6. ASSUME NEW p \in Procesos, NEW c \in Causas, Finaliza(p, c)
      PROVE  UNCHANGED Admision!vars
  BY <1>6, PasoInvisible DEF Finaliza
<1>7. ASSUME NEW p \in Procesos, Finalizador(p)
      PROVE  Admision!Next \/ UNCHANGED Admision!vars
  <2>1. CASE NotificaMemoria(p)
    <3>1. PICK i \in Particiones : /\ particion[i] = p
                                   /\ particion' = [particion EXCEPT ![i] = Nadie]
      BY <2>1 DEF NotificaMemoria
    <3>2. particion[i] # Nadie
      BY <3>1, LargoPlazoAssumption
    <3>3. Admision!Devuelve(i)
      BY <2>1, <3>1, <3>2 DEF NotificaMemoria, Admision!Devuelve, Admision!Nadie
    <3>4. QED
      BY <3>3 DEF Admision!Next
  <2>2. CASE ~NotificaMemoria(p)
    BY <1>7, <2>2, PasoInvisible
       DEF Finalizador, AvisaEspacioLibre, AvisaReintento, AvisaEspacioOtraVez
  <2>3. QED
    BY <2>1, <2>2
<1>8. CASE UNCHANGED vars
  BY <1>8, PasoInvisible DEF vars
<1>9. QED
  BY <1>1, <1>2, <1>3, <1>4, <1>5, <1>6, <1>7, <1>8 DEF Next, Creador

\* The long-term planner implements the abstract admission.
THEOREM ImplementaAdmision == Spec => CumpleAdmision
<1>1. Init => Admision!Init
  BY DEF Init, Admision!Init, Admision!Procesos, Admision!Nadie
<1>2. QED
  BY <1>1, Invariancia, PasoDeAdmision, PTL DEF Spec, CumpleAdmision, Admision!Spec
=============================================================================
