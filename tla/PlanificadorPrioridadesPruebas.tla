------------------- MODULE PlanificadorPrioridadesPruebas -------------------
(***************************************************************************)
(* Proofs about PlanificadorPrioridades, for any threads, processes and    *)
(* priorities: the types, the single owner of the CPU, the accounts of the *)
(* two semaphores that count work, and that each thread is in one place of *)
(* the planner at most.                                                    *)
(***************************************************************************)
EXTENDS PlanificadorPrioridades, RemoverHiloPruebas, FiniteSetTheorems,
        SequenceTheorems, TLAPS

-----------------------------------------------------------------------------
(* The inductive invariant.                                                *)

\* The local variables of C, P and I hold a thread where they are used, and
\* there is a thread on the CPU from the confirmation until I clears it.
Locales ==
    /\ pcC = "agrega" /\ ~caido => hiloC \in Hilos
    /\ pcP = "ejecuta" => hiloP \in Hilos
    /\ pcI \in {"quita_de_listos", "quita_de_colas"} => hiloI \in Hilos
    /\ motivo # "ninguno" /\ pcI # "avisa_cpu" => hilo_en_ejecucion \in Hilos
    /\ pcI # "espera" => motivo # "ninguno"

Inv == TypeOK /\ Locales /\ UnaCPU /\ FichasPorCola /\ FichasParaCola

\* Taking the head of a queue of threads leaves a shorter queue of threads.
LEMMA SacaDeCola ==
    ASSUME NEW q \in Seq(Hilos), q # <<>>
    PROVE  /\ Head(q) \in Hilos /\ Tail(q) \in Seq(Hilos)
           /\ Len(Tail(q)) = Len(q) - 1 /\ Len(q) \in Nat
BY HeadTailProperties, LenProperties

\* Adding a thread to a queue makes it one longer.
LEMMA PoneEnCola ==
    ASSUME NEW q \in Seq(Hilos), NEW h \in Hilos
    PROVE  /\ Append(q, h) \in Seq(Hilos)
           /\ Len(Append(q, h)) = Len(q) + 1 /\ Len(q) \in Nat
BY AppendProperties, LenProperties

\* The initial state.
LEMMA InvInicial == Init => Inv
<1> SUFFICES ASSUME Init PROVE Inv
  OBVIOUS
<1> USE DEF Init
<1>1. <<>> \in Seq(Hilos) /\ Len(<<>>) = 0
  BY EmptySeq
<1>2. TypeOK
  BY <1>1 DEF TypeOK, Estados, Motivos, PuntosC, PuntosP, PuntosI
<1>3. Locales
  BY DEF Locales
<1>4. UnaCPU
  BY DEF UnaCPU, Uno
<1>5. FichasPorCola
  BY FS_EmptySet DEF FichasPorCola, Uno
<1>6. FichasParaCola
  BY <1>1 DEF FichasParaCola, Uno
<1> QED BY <1>2, <1>3, <1>4, <1>5, <1>6 DEF Inv

-----------------------------------------------------------------------------
(* The types and the local variables, action by action.                    *)

\* A push to READY keeps the types.
LEMMA TiposPush ==
    ASSUME Inv, NEW h \in Hilos, PushReady(h),
           avisando' \in Nat, en_syscall' \in BOOLEAN
    PROVE  TypeOK' /\ Locales'
<1>1. queue_ready' \in Seq(Hilos)
  BY PoneEnCola DEF Inv, TypeOK, PushReady
<1>2. estado' \in [Hilos -> Estados]
  BY DEF Inv, TypeOK, PushReady, Estados
<1> QED
  BY <1>1, <1>2
  DEF Inv, TypeOK, Locales, PushReady, cpu, deC, deP, deI

\* Each step keeps the types.
LEMMA Tipos == Inv /\ Next => TypeOK' /\ Locales'
<1> SUFFICES ASSUME Inv, Next PROVE TypeOK' /\ Locales'
  OBVIOUS
<1>1. ASSUME NEW h \in Hilos, AdmiteHilo0(h) \/ CreaHilo(h) \/ Despierta(h)
      PROVE  TypeOK' /\ Locales'
  <2>1. PushReady(h)
    BY <1>1 DEF AdmiteHilo0, CreaHilo, Despierta
  <2>2. avisando' \in Nat
    BY <1>1 DEF AdmiteHilo0, CreaHilo, Despierta, Inv, TypeOK
  <2>3. en_syscall' = en_syscall \/ en_syscall' = TRUE
    BY <1>1, Zenon DEF AdmiteHilo0, CreaHilo, Despierta
  <2>4. en_syscall' \in BOOLEAN
    BY <2>3, Zenon DEF Inv, TypeOK
  <2> QED BY <2>1, <2>2, <2>4, TiposPush
<1> USE PrioridadesAssumption
<1> USE DEF Inv, TypeOK, Locales, listas, cpu, pushers, deC, deP, deI
<1>2. CASE Avisa
  <2>1. CASE AvisaListo
    BY <2>1 DEF AvisaListo
  <2>2. CASE AvisaCreado
    <3>1. en_syscall' \in BOOLEAN
      BY <2>2, Zenon DEF AvisaCreado
    <3>2. para_cola' \in Nat
      BY <2>2 DEF AvisaCreado
    <3> QED BY <2>2, <3>1, <3>2 DEF AvisaCreado
  <2> QED BY <1>2, <2>1, <2>2 DEF Avisa
<1>3. CASE C
  <2> USE DEF PasoC, PuntosC
  <2>1. CASE CEspera
    BY <2>1 DEF CEspera
  <2>2. CASE CToma
    BY <2>2 DEF CToma
  <2>3. CASE CMira
    BY <2>3 DEF CMira
  <2>4. CASE CSaca
    <3>1. CASE queue_ready = <<>>
      BY <2>4, <3>1 DEF CSaca
    <3>2. CASE queue_ready # <<>>
      BY <2>4, <3>2, SacaDeCola DEF CSaca
    <3> QED BY <3>1, <3>2
  <2>5. CASE CAgrega
    <3>1. hiloC \in Hilos /\ Prioridad[hiloC] \in Prioridades
      BY <2>5 DEF CAgrega
    <3>2. colas' \in [Prioridades -> Seq(Hilos)]
      BY <2>5, <3>1, PoneEnCola DEF CAgrega, Encola
    <3> QED BY <2>5, <3>1, <3>2 DEF CAgrega, Encola
  <2>6. CASE CAvisaCola
    BY <2>6 DEF CAvisaCola
  <2>7. CASE CSuelta
    BY <2>7 DEF CSuelta
  <2> QED BY <1>3, <2>1, <2>2, <2>3, <2>4, <2>5, <2>6, <2>7 DEF C
<1>4. CASE P
  <2> USE DEF PasoP, PuntosP
  <2>1. CASE PEspera
    BY <2>1 DEF PEspera
  <2>2. CASE PEsperaCPU
    BY <2>2 DEF PEsperaCPU
  <2>3. CASE PEligeHilo
    <3>1. PICK pr \in Prioridades :
             /\ colas[pr] # <<>> /\ hiloP' = Head(colas[pr])
             /\ colas' = [colas EXCEPT ![pr] = Tail(@)]
      BY <2>3 DEF PEligeHilo
    <3>2. hiloP' \in Hilos /\ Tail(colas[pr]) \in Seq(Hilos)
      BY <3>1, SacaDeCola
    <3>3. colas' \in [Prioridades -> Seq(Hilos)]
      BY <3>1, <3>2
    <3> QED BY <2>3, <3>2, <3>3 DEF PEligeHilo
  <2>4. CASE PNoHayHilo
    BY <2>4 DEF PNoHayHilo
  <2>5. CASE PEjecuta
    BY <2>5 DEF PEjecuta, Estados
  <2>6. CASE PAvisa
    BY <2>6 DEF PAvisa
  <2>7. CASE PDevuelveCPU
    BY <2>7 DEF PDevuelveCPU
  <2> QED BY <1>4, <2>1, <2>2, <2>3, <2>4, <2>5, <2>6, <2>7 DEF P
<1>5. CASE I
  <2> USE DEF PasoI, PuntosI
  <2>1. CASE IToma
    BY <2>1 DEF IToma
  <2>2. CASE IEncola
    <3>1. /\ hilo_en_ejecucion \in Hilos
          /\ Prioridad[hilo_en_ejecucion] \in Prioridades
      BY <2>2 DEF IEncola
    <3>2. colas' \in [Prioridades -> Seq(Hilos)]
      BY <2>2, <3>1, PoneEnCola DEF IEncola, Encola
    <3>5. existe' \subseteq Prioridades
      BY <2>2, <3>1, Zenon DEF IEncola, Encola
    <3>6. nuevos_hilos' = nuevos_hilos \/ nuevos_hilos' = nuevos_hilos + 1
      BY <2>2, Zenon DEF IEncola
    <3>3. existe' \subseteq Prioridades /\ nuevos_hilos' \in Nat
      BY <3>5, <3>6
    <3>4. estado' \in [Hilos -> Estados]
      BY <2>2, <3>1 DEF IEncola, Estados
    <3> QED BY <2>2, <3>2, <3>3, <3>4 DEF IEncola
  <2>3. CASE IBloqueo
    BY <2>3 DEF IBloqueo
  <2>4. CASE IFinProceso
    BY <2>4 DEF IFinProceso
  <2>5. CASE IBusca
    BY <2>5 DEF IBusca
  <2>6. CASE IQuitaDeListos
    BY <2>6, RemueveRotandoTipo DEF IQuitaDeListos
  <2>7. CASE IQuitaDeColas
    <3>1. \A pr \in Prioridades :
             RemueveRotando(colas[pr], {hiloI}) \in Seq(Hilos)
      BY RemueveRotandoTipo
    <3>2. colas' \in [Prioridades -> Seq(Hilos)]
      BY <2>7, <3>1 DEF IQuitaDeColas
    <3> QED BY <2>7, <3>2 DEF IQuitaDeColas, Estados
  <2>8. CASE ILibera
    <3>1. hilo_en_ejecucion \in Hilos /\ Proceso[hilo_en_ejecucion] \in Procesos
      BY <2>8 DEF ILibera
    <3> QED BY <2>8, <3>1 DEF ILibera, Estados
  <2>9. CASE ILimpia
    BY <2>9 DEF ILimpia
  <2>10. CASE IAvisaCPU
    BY <2>10 DEF IAvisaCPU, Motivos
  <2> QED
    BY <1>5, <2>1, <2>2, <2>3, <2>4, <2>5, <2>6, <2>7, <2>8, <2>9, <2>10 DEF I
<1>6. ASSUME NEW m \in Motivos \ {"ninguno"}, CPUConfirma(m)
      PROVE  TypeOK' /\ Locales'
  BY <1>6 DEF CPUConfirma, Motivos, Estados
<1> QED BY <1>1, <1>2, <1>3, <1>4, <1>5, <1>6 DEF Next

-----------------------------------------------------------------------------
(* The owner of the CPU.                                                   *)

\* Only P, I and the end of the wait for the CPU touch its account.
LEMMA CPUQuieta ==
    ASSUME UnaCPU, UNCHANGED cpu,
           pcP' \in {"elige", "ejecuta", "devuelve_cpu"}
             <=> pcP \in {"elige", "ejecuta", "devuelve_cpu"},
           pcI' = "avisa_cpu" <=> pcI = "avisa_cpu"
    PROVE  UnaCPU'
BY DEF UnaCPU, Uno, cpu

\* Each step keeps one owner of the CPU.
LEMMA PasoUnaCPU == Inv /\ Next => UnaCPU'
<1> SUFFICES ASSUME Inv, Next PROVE UnaCPU'
  OBVIOUS
<1>0. UnaCPU /\ Locales /\ TypeOK
  BY DEF Inv
<1>1. ASSUME NEW h \in Hilos, AdmiteHilo0(h) \/ CreaHilo(h) \/ Despierta(h)
      PROVE  UnaCPU'
  BY <1>0, <1>1, CPUQuieta
  DEF AdmiteHilo0, CreaHilo, Despierta, PushReady, deP, deI
<1>2. CASE Avisa
  BY <1>0, <1>2, CPUQuieta DEF Avisa, AvisaListo, AvisaCreado, deP, deI
<1>3. CASE C
  BY <1>0, <1>3, CPUQuieta
  DEF C, CEspera, CToma, CMira, CSaca, CAgrega, CAvisaCola, CSuelta, PasoC,
      deP, deI
<1>4. CASE P
  <2> USE DEF PasoP, deI
  <2>1. CASE PEspera
    BY <1>0, <2>1, CPUQuieta DEF PEspera
  <2>2. CASE PEsperaCPU
    BY <1>0, <2>2 DEF PEsperaCPU, UnaCPU, Uno, TypeOK
  <2>3. CASE PEligeHilo
    BY <1>0, <2>3, CPUQuieta DEF PEligeHilo
  <2>4. CASE PNoHayHilo
    BY <1>0, <2>4, CPUQuieta DEF PNoHayHilo
  <2>5. CASE PEjecuta
    <3>1. hiloP # Nadie
      BY <1>0, <2>5, PrioridadesAssumption DEF PEjecuta, Locales
    <3> QED BY <1>0, <2>5, <3>1 DEF PEjecuta, UnaCPU, Uno, TypeOK
  <2>6. CASE PAvisa
    BY <1>0, <2>6, CPUQuieta DEF PAvisa
  <2>7. CASE PDevuelveCPU
    BY <1>0, <2>7 DEF PDevuelveCPU, UnaCPU, Uno, TypeOK
  <2> QED BY <1>4, <2>1, <2>2, <2>3, <2>4, <2>5, <2>6, <2>7 DEF P
<1>5. CASE I
  <2> USE DEF PasoI, deP
  <2>1. CASE IToma \/ IEncola \/ IBloqueo \/ IFinProceso \/ IQuitaDeListos
                   \/ IQuitaDeColas \/ ILibera
    BY <1>0, <2>1, CPUQuieta
    DEF IToma, IEncola, IBloqueo, IFinProceso, IQuitaDeListos, IQuitaDeColas,
        ILibera
  <2>2. CASE IBusca
    BY <1>0, <2>2, CPUQuieta DEF IBusca
  <2>3. CASE ILimpia
    <3>1. hilo_en_ejecucion # Nadie
      BY <1>0, <2>3, PrioridadesAssumption DEF ILimpia, Locales
    <3> QED BY <1>0, <2>3, <3>1 DEF ILimpia, UnaCPU, Uno, TypeOK
  <2>4. CASE IAvisaCPU
    BY <1>0, <2>4 DEF IAvisaCPU, UnaCPU, Uno, TypeOK
  <2> QED BY <1>5, <2>1, <2>2, <2>3, <2>4 DEF I
<1>6. ASSUME NEW m \in Motivos \ {"ninguno"}, CPUConfirma(m)
      PROVE  UnaCPU'
  BY <1>0, <1>6, CPUQuieta DEF CPUConfirma, deP
<1> QED BY <1>1, <1>2, <1>3, <1>4, <1>5, <1>6 DEF Next

-----------------------------------------------------------------------------
(* One token of nuevos_hilos for each queue.                               *)

\* Steps that leave the queues and their tokens alone.
LEMMA FichasQuietas ==
    ASSUME FichasPorCola, UNCHANGED <<existe, nuevos_hilos>>,
           pcP' \in {"espera_cpu", "elige", "ejecuta", "avisa"}
             <=> pcP \in {"espera_cpu", "elige", "ejecuta", "avisa"},
           pcC' = "avisa_cola" <=> pcC = "avisa_cola"
    PROVE  FichasPorCola'
BY DEF FichasPorCola, Uno

\* Each step keeps a token for each queue.
LEMMA PasoFichasPorCola == Inv /\ Next => FichasPorCola'
<1> SUFFICES ASSUME Inv, Next PROVE FichasPorCola'
  OBVIOUS
<1>0. FichasPorCola /\ TypeOK /\ Locales
  BY DEF Inv
<1>1. IsFiniteSet(existe) /\ Cardinality(existe) \in Nat
  BY <1>0, PrioridadesAssumption, FS_Subset, FS_CardinalityType DEF TypeOK
<1>2. ASSUME NEW h \in Hilos, AdmiteHilo0(h) \/ CreaHilo(h) \/ Despierta(h)
      PROVE  FichasPorCola'
  BY <1>0, <1>2, FichasQuietas
  DEF AdmiteHilo0, CreaHilo, Despierta, PushReady, deC, deP
<1>3. CASE Avisa
  BY <1>0, <1>3, FichasQuietas
  DEF Avisa, AvisaListo, AvisaCreado, listas, deC, deP
<1>4. CASE C
  <2> USE DEF PasoC, deP
  <2>1. CASE CEspera \/ CToma \/ CMira \/ CSaca \/ CSuelta
    BY <1>0, <2>1, FichasQuietas
    DEF CEspera, CToma, CMira, CSaca, CSuelta, listas
  <2>2. CASE CAgrega
    <3>1. existe' = existe \cup {Prioridad[hiloC]}
      BY <2>2 DEF CAgrega, Encola
    <3>2. Cardinality(existe') = IF Prioridad[hiloC] \in existe
                                 THEN Cardinality(existe)
                                 ELSE Cardinality(existe) + 1
      BY <1>1, <3>1, FS_AddElement
    <3> QED BY <1>0, <1>1, <2>2, <3>2 DEF CAgrega, FichasPorCola, Uno, TypeOK
  <2>3. CASE CAvisaCola
    BY <1>0, <1>1, <2>3 DEF CAvisaCola, FichasPorCola, Uno, listas, TypeOK
  <2> QED BY <1>4, <2>1, <2>2, <2>3 DEF C
<1>5. CASE P
  <2> USE DEF PasoP, deC
  <2>1. CASE PEspera
    BY <1>0, <1>1, <2>1 DEF PEspera, FichasPorCola, Uno, TypeOK
  <2>2. CASE PEsperaCPU \/ PEligeHilo \/ PEjecuta \/ PDevuelveCPU
    BY <1>0, <2>2, FichasQuietas
    DEF PEsperaCPU, PEligeHilo, PEjecuta, PDevuelveCPU
  <2>3. CASE PNoHayHilo
    <3>1. existe # {}
      <4>1. Cardinality(existe) # 0
        BY <1>0, <2>3 DEF PNoHayHilo, FichasPorCola, Uno, TypeOK
      <4> QED BY <1>1, <4>1, FS_EmptySet, Zenon
    <3>2. PICK pr \in existe : existe' = existe \ {pr}
      BY <2>3, <3>1 DEF PNoHayHilo, EsMaxima
    <3>3. Cardinality(existe') = Cardinality(existe) - 1
      BY <1>1, <3>2, FS_RemoveElement
    <3> QED BY <1>0, <1>1, <2>3, <3>3 DEF PNoHayHilo, FichasPorCola, Uno,
                                          TypeOK
  <2>4. CASE PAvisa
    BY <1>0, <1>1, <2>4 DEF PAvisa, FichasPorCola, Uno, TypeOK
  <2> QED BY <1>5, <2>1, <2>2, <2>3, <2>4 DEF P
<1>6. CASE I
  <2> USE DEF PasoI, deC, deP
  <2>1. CASE IToma \/ IBloqueo \/ IFinProceso \/ IQuitaDeListos
             \/ IQuitaDeColas \/ ILibera \/ ILimpia \/ IAvisaCPU
    BY <1>0, <2>1, FichasQuietas
    DEF IToma, IBloqueo, IFinProceso, IQuitaDeListos, IQuitaDeColas, ILibera,
        ILimpia, IAvisaCPU, listas
  <2>2. CASE IBusca
    BY <1>0, <2>2, FichasQuietas DEF IBusca, listas
  <2>3. CASE IEncola
    <3>1. existe' = existe \cup {Prioridad[hilo_en_ejecucion]}
      BY <2>3 DEF IEncola, Encola
    <3>2. Cardinality(existe') = IF Prioridad[hilo_en_ejecucion] \in existe
                                 THEN Cardinality(existe)
                                 ELSE Cardinality(existe) + 1
      BY <1>1, <3>1, FS_AddElement
    <3> QED BY <1>0, <1>1, <2>3, <3>2 DEF IEncola, FichasPorCola, Uno, TypeOK
  <2> QED BY <1>6, <2>1, <2>2, <2>3 DEF I
<1>7. ASSUME NEW m \in Motivos \ {"ninguno"}, CPUConfirma(m)
      PROVE  FichasPorCola'
  BY <1>0, <1>7, FichasQuietas DEF CPUConfirma, listas, deC, deP
<1> QED BY <1>2, <1>3, <1>4, <1>5, <1>6, <1>7 DEF Next

-----------------------------------------------------------------------------
(* A token of nuevos_hilos_para_cola for each thread in READY.             *)

\* Steps of P and I that leave READY and its tokens alone.
LEMMA ListosQuietos ==
    ASSUME FichasParaCola, UNCHANGED <<queue_ready, para_cola, pushers>>,
           pcC' \in {"toma", "mira", "saca"} <=> pcC \in {"toma", "mira", "saca"}
    PROVE  FichasParaCola'
<1>1. en_syscall' = en_syscall
  BY Zenon DEF pushers
<1> QED BY <1>1 DEF FichasParaCola, Uno, pushers

\* Each step keeps a token for each thread in READY.
LEMMA PasoFichasParaCola == Inv /\ Next => FichasParaCola'
<1> SUFFICES ASSUME Inv, Next PROVE FichasParaCola'
  OBVIOUS
<1>0. FichasParaCola /\ TypeOK
  BY DEF Inv
<1>1. Len(queue_ready) \in Nat
  BY <1>0, LenProperties DEF TypeOK
<1>2. /\ Uno(en_syscall) \in {0, 1}
      /\ Uno(pcC \in {"toma", "mira", "saca"}) \in {0, 1}
  BY DEF Uno
<1>3. ASSUME NEW h \in Hilos, AdmiteHilo0(h) \/ CreaHilo(h) \/ Despierta(h)
      PROVE  FichasParaCola'
  <2> DEFINE enC == Uno(pcC \in {"toma", "mira", "saca"})
             enCLuego == Uno(pcC' \in {"toma", "mira", "saca"})
             enSyscall == Uno(en_syscall)
             enSyscallLuego == Uno(en_syscall')
  <2>1. Len(queue_ready') = Len(queue_ready) + 1
    BY <1>0, <1>3, PoneEnCola
    DEF AdmiteHilo0, CreaHilo, Despierta, PushReady, TypeOK
  <2>2. UNCHANGED <<para_cola, pcC>>
    BY <1>3 DEF AdmiteHilo0, CreaHilo, Despierta, PushReady, deC
  <2>3. avisando' = avisando + enSyscall + 1 - enSyscallLuego
    <3>1. CASE CreaHilo(h)
      <4>1. Uno(en_syscall) = 0 /\ Uno(en_syscall') = 1
        BY <3>1, Zenon DEF CreaHilo, Uno
      <4> QED BY <1>0, <3>1, <4>1 DEF CreaHilo, TypeOK
    <3>2. CASE AdmiteHilo0(h) \/ Despierta(h)
      <4>1. UNCHANGED en_syscall
        BY <3>2, Zenon DEF AdmiteHilo0, Despierta
      <4>2. Uno(en_syscall') = Uno(en_syscall)
        BY <4>1, Zenon DEF Uno
      <4> QED BY <1>0, <1>2, <3>2, <4>2 DEF AdmiteHilo0, Despierta, TypeOK
    <3> QED BY <1>3, <3>1, <3>2
  <2>4. avisando' \in Nat /\ enSyscallLuego \in {0, 1} /\ enCLuego = enC
    <3>1. avisando' \in Nat
      BY <1>0, <1>3 DEF AdmiteHilo0, CreaHilo, Despierta, TypeOK
    <3>2. Uno(en_syscall') \in {0, 1}
      BY DEF Uno
    <3> QED BY <2>2, <3>1, <3>2
  <2>5. /\ Len(queue_ready) \in Nat /\ para_cola \in Nat /\ avisando \in Nat
        /\ enSyscall \in {0, 1} /\ enC \in {0, 1}
    BY <1>0, <1>1, <1>2 DEF TypeOK
  <2>6. Len(queue_ready) <= para_cola + avisando + enSyscall + enC
    BY <1>0 DEF FichasParaCola
  <2>7. para_cola' = para_cola
    BY <2>2
  <2>8. Len(queue_ready') <= para_cola' + avisando' + enSyscallLuego + enCLuego
    <3> HIDE DEF enC, enCLuego, enSyscall, enSyscallLuego
    <3> QED BY <2>1, <2>3, <2>4, <2>5, <2>6, <2>7
  <2> QED BY <2>8 DEF FichasParaCola
<1>4. CASE Avisa
  <2>1. UNCHANGED <<queue_ready, pcC>>
    BY <1>4 DEF Avisa, AvisaListo, AvisaCreado, listas, deC
  <2>2. para_cola' + avisando' + Uno(en_syscall')
          = para_cola + avisando + Uno(en_syscall)
    <3>1. CASE AvisaListo
      <4>1. Uno(en_syscall') = Uno(en_syscall)
        BY <3>1, Zenon DEF AvisaListo, Uno
      <4> QED BY <1>0, <1>2, <3>1, <4>1 DEF AvisaListo, TypeOK
    <3>2. CASE AvisaCreado
      <4>1. Uno(en_syscall) = 1 /\ Uno(en_syscall') = 0
        BY <3>2, Zenon DEF AvisaCreado, Uno
      <4>2. para_cola' = para_cola + 1 /\ avisando' = avisando
        BY <3>2, Zenon DEF AvisaCreado
      <4>3. para_cola \in Nat /\ avisando \in Nat
        BY <1>0, Zenon DEF TypeOK
      <4> QED BY <4>1, <4>2, <4>3
    <3> QED BY <1>4, <3>1, <3>2 DEF Avisa
  <2> QED BY <1>0, <2>1, <2>2 DEF FichasParaCola
<1>5. CASE C
  <2> USE DEF PasoC, listas
  <2>1. CASE CEspera
    <3>1. Uno(en_syscall') = Uno(en_syscall)
      BY <2>1, Zenon DEF CEspera, pushers, Uno
    <3> QED BY <1>0, <1>1, <1>2, <2>1, <3>1
            DEF CEspera, FichasParaCola, Uno, pushers, TypeOK
  <2>2. CASE CToma \/ CAgrega \/ CAvisaCola \/ CSuelta
    BY <1>0, <2>2, ListosQuietos DEF CToma, CAgrega, CAvisaCola, CSuelta
  <2>3. CASE CMira
    <3>1. CASE queue_ready = <<>>
      <4>1. Len(queue_ready') = 0 /\ UNCHANGED <<para_cola, avisando>>
        BY <2>3, <3>1, EmptySeq DEF CMira, pushers
      <4>2. Uno(en_syscall') \in {0, 1}
              /\ Uno(pcC' \in {"toma", "mira", "saca"}) \in {0, 1}
        BY DEF Uno
      <4> QED BY <1>0, <4>1, <4>2 DEF FichasParaCola, TypeOK
    <3>2. CASE queue_ready # <<>>
      BY <1>0, <2>3, <3>2, ListosQuietos DEF CMira
    <3> QED BY <3>1, <3>2
  <2>4. CASE CSaca
    <3>1. Uno(en_syscall') = Uno(en_syscall)
      BY <2>4, Zenon DEF CSaca, pushers, Uno
    <3>2. CASE queue_ready = <<>>
      <4>1. Len(queue_ready') = 0 /\ UNCHANGED <<para_cola, avisando>>
        BY <2>4, <3>2, EmptySeq DEF CSaca, pushers
      <4>2. Uno(pcC' \in {"toma", "mira", "saca"}) \in {0, 1}
        BY DEF Uno
      <4> QED BY <1>0, <1>2, <3>1, <4>1, <4>2 DEF FichasParaCola, TypeOK
    <3>3. CASE queue_ready # <<>>
      <4>1. /\ Len(queue_ready') = Len(queue_ready) - 1
            /\ UNCHANGED <<para_cola, avisando>>
        BY <1>0, <2>4, <3>3, SacaDeCola DEF CSaca, pushers, TypeOK
      <4>2. /\ Uno(pcC \in {"toma", "mira", "saca"}) = 1
            /\ Uno(pcC' \in {"toma", "mira", "saca"}) = 0
        BY <2>4 DEF CSaca, Uno
      <4> QED BY <1>0, <1>1, <1>2, <3>1, <4>1, <4>2 DEF FichasParaCola, TypeOK
    <3> QED BY <3>2, <3>3
  <2> QED BY <1>5, <2>1, <2>2, <2>3, <2>4 DEF C
<1>6. CASE P
  BY <1>0, <1>6, ListosQuietos
  DEF P, PEspera, PEsperaCPU, PEligeHilo, PNoHayHilo, PEjecuta, PAvisa,
      PDevuelveCPU, PasoP, deC
<1>7. CASE I
  <2> USE DEF PasoI, deC
  <2>1. CASE IToma \/ IEncola \/ IBloqueo \/ IFinProceso \/ IQuitaDeColas
             \/ ILibera \/ ILimpia \/ IAvisaCPU
    BY <1>0, <2>1, ListosQuietos
    DEF IToma, IEncola, IBloqueo, IFinProceso, IQuitaDeColas, ILibera,
        ILimpia, IAvisaCPU, listas
  <2>2. CASE IBusca
    BY <1>0, <2>2, ListosQuietos DEF IBusca, listas
  <2>3. CASE IQuitaDeListos
    <3>1. /\ Len(queue_ready') <= Len(queue_ready)
          /\ Len(queue_ready') \in Nat
      BY <1>0, <2>3, RemueveRotandoTipo, LenProperties
      DEF IQuitaDeListos, TypeOK
    <3>2. /\ UNCHANGED <<para_cola, avisando, pcC>>
          /\ Uno(en_syscall') = Uno(en_syscall)
      BY <2>3, Zenon DEF IQuitaDeListos, pushers, Uno
    <3> QED BY <1>0, <1>1, <1>2, <3>1, <3>2 DEF FichasParaCola, TypeOK
  <2> QED BY <1>7, <2>1, <2>2, <2>3 DEF I
<1>8. ASSUME NEW m \in Motivos \ {"ninguno"}, CPUConfirma(m)
      PROVE  FichasParaCola'
  BY <1>0, <1>8, ListosQuietos DEF CPUConfirma, listas, deC
<1> QED BY <1>3, <1>4, <1>5, <1>6, <1>7, <1>8 DEF Next

-----------------------------------------------------------------------------
(* The theorems.                                                           *)

\* The invariant holds in every reachable state.
THEOREM Invariancia == Spec => []Inv
<1>1. Init => Inv
  BY InvInicial
<1>2. Inv /\ [Next]_vars => Inv'
  <2> SUFFICES ASSUME Inv, [Next]_vars PROVE Inv'
    OBVIOUS
  <2>1. CASE Next
    BY <2>1, Tipos, PasoUnaCPU, PasoFichasPorCola, PasoFichasParaCola DEF Inv
  <2>2. CASE UNCHANGED vars
    <3>1. TypeOK' /\ Locales'
      BY <2>2
      DEF Inv, TypeOK, Locales, vars, listas, cpu, pushers, deC, deP, deI
    <3>2. UnaCPU'
      BY <2>2, CPUQuieta DEF Inv, vars, cpu, deP, deI
    <3>3. FichasPorCola'
      BY <2>2, FichasQuietas DEF Inv, vars, listas, deC, deP
    <3>4. FichasParaCola'
      BY <2>2, ListosQuietos DEF Inv, vars, listas, deC
    <3> QED BY <3>1, <3>2, <3>3, <3>4 DEF Inv
  <2> QED BY <2>1, <2>2
<1> QED BY <1>1, <1>2, PTL DEF Spec

\* Every variable keeps its type, and no semaphore goes below zero.
THEOREM TipoCorrecto == Spec => []TypeOK
<1>1. Inv => TypeOK
  BY DEF Inv
<1> QED BY <1>1, Invariancia, PTL

\* The CPU has one owner: P never dispatches over a running thread.
THEOREM UnSoloHiloEjecuta == Spec => []UnaCPU
<1>1. Inv => UnaCPU
  BY DEF Inv
<1> QED BY <1>1, Invariancia, PTL

\* nuevos_hilos has a token for each queue of colas_prioridad, so P never
\* sleeps over a queue.
THEOREM CadaColaSuFicha == Spec => []FichasPorCola
<1>1. Inv => FichasPorCola
  BY DEF Inv
<1> QED BY <1>1, Invariancia, PTL

\* nuevos_hilos_para_cola has a token for each thread in READY, whatever
\* remover_hilo takes out of the queue.
THEOREM CadaListoSuFicha == Spec => []FichasParaCola
<1>1. Inv => FichasParaCola
  BY DEF Inv
<1> QED BY <1>1, Invariancia, PTL

\* When P looks for the best queue there is one: the branch priority_queue ==
\* NULL of the planners (planificacion.c 147, 181) is dead code.
SiempreHayCola == pcP = "elige" => existe # {}

\* So that branch is never taken.
THEOREM RamaNulaMuerta == Spec => []SiempreHayCola
<1>1. Inv => SiempreHayCola
  <2> SUFFICES ASSUME Inv, pcP = "elige" PROVE existe # {}
    BY DEF SiempreHayCola
  <2>1. IsFiniteSet(existe)
    BY PrioridadesAssumption, FS_Subset DEF Inv, TypeOK
  <2>2. Cardinality(existe) # 0
    BY DEF Inv, TypeOK, FichasPorCola, Uno
  <2> QED BY <2>1, <2>2, FS_EmptySet, Zenon
<1> QED BY <1>1, Invariancia, PTL

-----------------------------------------------------------------------------
(* Each thread in one place: the threads of a queue are of its priority,   *)
(* and the one on the CPU keeps its state until I has looked at the reason. *)

\* agregar_a_cola_prioridad is the only way into the priority queues.
EnSuCola ==
    \A pr \in Prioridades : \A h \in Hilos :
        Veces(h, colas[pr]) # 0 => Prioridad[h] = pr

\* The kernel believes that the thread on the CPU executes until it blocks,
\* exits, or I has taken note of the reason why it stops. The thread that I
\* removes waits in its queue, where P cannot take it: the CPU is not free.
SigueEnExec ==
    /\ (/\ hilo_en_ejecucion # Nadie
        /\ motivo \notin {"bloqueo", "thread_exit"}
        /\ pcI \notin {"limpia", "avisa_cpu"})
          => estado[hilo_en_ejecucion] = "exec"
    /\ pcI = "encola" => motivo = "quantum"
    /\ pcI \in {"busca", "quita_de_listos", "quita_de_colas"}
          => motivo = "fin_proceso"
    /\ pcI \in {"quita_de_listos", "quita_de_colas"}
          => Veces(hiloI, colas[Prioridad[hiloI]]) = 1

InvLugares == UnSoloLugar /\ EnSuCola /\ SigueEnExec

\* A thread is in each place some number of times.
LEMMA LugaresTipo ==
    ASSUME TypeOK, NEW h \in Hilos
    PROVE  /\ Veces(h, queue_ready) \in Nat
           /\ \A pr \in Prioridades : Veces(h, colas[pr]) \in Nat
           /\ Veces(h, colas[Prioridad[h]]) \in Nat
           /\ Uno(hiloC = h) \in {0, 1} /\ Uno(hiloP = h) \in {0, 1}
           /\ Lugares(h) \in Nat
<1>1. Veces(h, queue_ready) \in Nat
  <2>1. queue_ready \in Seq(Hilos)
    BY DEF TypeOK
  <2> QED BY <2>1, VecesTipo
<1>2. ASSUME NEW pr \in Prioridades PROVE Veces(h, colas[pr]) \in Nat
  <2>1. colas[pr] \in Seq(Hilos)
    BY DEF TypeOK
  <2> QED BY <2>1, VecesTipo
<1>3. Prioridad[h] \in Prioridades
  BY PrioridadesAssumption
<1>4. Uno(hiloC = h) \in {0, 1} /\ Uno(hiloP = h) \in {0, 1}
  BY DEF Uno
<1> QED BY <1>1, <1>2, <1>3, <1>4 DEF Lugares

\* A step that adds no thread to a place, and takes out the ones that it makes
\* not ready, keeps each thread in one place.
LEMMA LugaresBajan ==
    ASSUME TypeOK, TypeOK', UnSoloLugar,
           \A h \in Hilos : /\ Lugares(h)' <= Lugares(h)
                            /\ \/ Lugares(h)' = 0
                               \/ estado[h] = "listo" => estado'[h] = "listo"
    PROVE  UnSoloLugar'
<1>1. ASSUME NEW h \in Hilos
      PROVE  Lugares(h)' <= 1 /\ (Lugares(h)' = 1 => estado'[h] = "listo")
  <2>1. Lugares(h) \in Nat
    BY LugaresTipo
  <2>2. Lugares(h)' \in Nat
    <3>1. /\ Veces(h, queue_ready') \in Nat
          /\ Veces(h, colas'[Prioridad[h]]) \in Nat
      <4>1. queue_ready' \in Seq(Hilos) /\ colas'[Prioridad[h]] \in Seq(Hilos)
        BY PrioridadesAssumption DEF TypeOK
      <4> QED BY <4>1, VecesTipo
    <3> QED BY <3>1 DEF Lugares, Uno
  <2>3. Lugares(h) <= 1 /\ (Lugares(h) = 1 => estado[h] = "listo")
    BY DEF UnSoloLugar
  <2> QED BY <2>1, <2>2, <2>3
<1> QED BY <1>1 DEF UnSoloLugar

\* A step that leaves every place alone, and the states of the threads.
LEMMA LugaresQuietos ==
    ASSUME TypeOK, TypeOK', UnSoloLugar, EnSuCola,
           UNCHANGED <<queue_ready, colas, hiloC, hiloP, estado>>
    PROVE  UnSoloLugar' /\ EnSuCola'
<1>1. \A h \in Hilos : Lugares(h)' = Lugares(h)
  BY DEF Lugares, Uno
<1>2. UnSoloLugar'
  BY <1>1 DEF UnSoloLugar
<1>3. EnSuCola'
  BY DEF EnSuCola
<1> QED BY <1>2, <1>3

\* A thread that is not ready is nowhere.
LEMMA SinLugar ==
    ASSUME TypeOK, UnSoloLugar, NEW h \in Hilos, estado[h] # "listo"
    PROVE  /\ Lugares(h) = 0
           /\ Veces(h, queue_ready) = 0 /\ Veces(h, colas[Prioridad[h]]) = 0
           /\ hiloC # h /\ hiloP # h
<1>1. Lugares(h) <= 1 /\ Lugares(h) # 1
  BY DEF UnSoloLugar
<1>2. Lugares(h) = 0
  BY <1>1, LugaresTipo
<1> QED BY <1>2, LugaresTipo DEF Lugares, Uno

\* The thread that a priority queue gets is once more in its own.
LEMMA EncolaEnLaSuya ==
    ASSUME TypeOK, EnSuCola, NEW g \in Hilos, Encola(g)
    PROVE  /\ EnSuCola'
           /\ \A h \in Hilos : Veces(h, colas'[Prioridad[h]])
                = Veces(h, colas[Prioridad[h]]) + Uno(g = h)
<1>1. \A h \in Hilos : Prioridad[h] \in Prioridades
  BY PrioridadesAssumption
<1>2. \A pr \in Prioridades :
        colas[pr] \in Seq(Hilos)
        /\ colas'[pr] = IF pr = Prioridad[g] THEN Append(colas[pr], g)
                        ELSE colas[pr]
  BY <1>1 DEF Encola, TypeOK
<1>3. ASSUME NEW pr \in Prioridades, NEW h \in Hilos
      PROVE  Veces(h, colas'[pr]) =
                Veces(h, colas[pr]) + Uno(pr = Prioridad[g] /\ g = h)
  <2>1. Veces(h, Append(colas[pr], g)) =
           Veces(h, colas[pr]) + (IF g = h THEN 1 ELSE 0)
    BY <1>2, VecesAppend
  <2>2. Veces(h, colas[pr]) \in Nat
    BY LugaresTipo
  <2>3. CASE pr = Prioridad[g]
    BY <1>2, <2>1, <2>3 DEF Uno
  <2>4. CASE pr # Prioridad[g]
    BY <1>2, <2>2, <2>4 DEF Uno
  <2> QED BY <2>3, <2>4
<1>4. EnSuCola'
  <2> SUFFICES ASSUME NEW pr \in Prioridades, NEW h \in Hilos,
                      Veces(h, colas'[pr]) # 0
               PROVE  Prioridad[h] = pr
    BY DEF EnSuCola
  <2>1. CASE pr = Prioridad[g] /\ g = h
    BY <2>1
  <2>2. CASE ~(pr = Prioridad[g] /\ g = h)
    <3>1. Veces(h, colas[pr]) \in Nat
      BY LugaresTipo
    <3>2. Uno(pr = Prioridad[g] /\ g = h) = 0
      BY <2>2 DEF Uno
    <3>3. Veces(h, colas[pr]) # 0
      BY <1>3, <3>1, <3>2
    <3> QED BY <3>3 DEF EnSuCola
  <2> QED BY <2>1, <2>2
<1>5. ASSUME NEW h \in Hilos
      PROVE  Veces(h, colas'[Prioridad[h]])
                = Veces(h, colas[Prioridad[h]]) + Uno(g = h)
  <2>1. Veces(h, colas'[Prioridad[h]]) =
           Veces(h, colas[Prioridad[h]])
             + Uno(Prioridad[h] = Prioridad[g] /\ g = h)
    BY <1>1, <1>3
  <2>2. Uno(Prioridad[h] = Prioridad[g] /\ g = h) = Uno(g = h)
    BY DEF Uno
  <2> QED BY <2>1, <2>2
<1> QED BY <1>4, <1>5

-----------------------------------------------------------------------------
(* The places, action by action.                                           *)

\* A push to READY of a thread that is not ready gives it its only place.
LEMMA PushSinRepetir ==
    ASSUME Inv, TypeOK', InvLugares, NEW h \in Hilos, PushReady(h),
           estado[h] \in {"inexistente", "bloqueado"}
    PROVE  InvLugares'
<1>0. TypeOK /\ UnSoloLugar /\ EnSuCola /\ SigueEnExec
  BY DEF Inv, InvLugares
<1>1. /\ UNCHANGED <<colas, hiloC, hiloP, hilo_en_ejecucion, pcI, hiloI, motivo>>
      /\ queue_ready' = Append(queue_ready, h)
  BY DEF PushReady, cpu, deC, deP, deI
<1>2. /\ \A g \in Hilos : g # h => estado'[g] = estado[g]
      /\ estado'[h] = "listo"
  BY <1>0 DEF PushReady, TypeOK
<1>3. ASSUME NEW g \in Hilos
      PROVE  Lugares(g)' = Lugares(g) + Uno(h = g) /\ Lugares(g) \in Nat
  <2>1. queue_ready \in Seq(Hilos)
    BY <1>0 DEF TypeOK
  <2>2. Veces(g, queue_ready') = Veces(g, queue_ready) + Uno(h = g)
    BY <1>1, <2>1, VecesAppend DEF Uno
  <2>3. Lugares(g)' = Veces(g, queue_ready) + Uno(h = g)
                      + Veces(g, colas[Prioridad[g]])
                      + Uno(hiloC = g) + Uno(hiloP = g)
    BY <1>1, <2>2 DEF Lugares
  <2>4. Uno(h = g) \in {0, 1}
    BY DEF Uno
  <2> QED BY <1>0, <2>3, <2>4, LugaresTipo DEF Lugares
<1>4. UnSoloLugar'
  <2>1. ASSUME NEW g \in Hilos
        PROVE  Lugares(g)' <= 1 /\ (Lugares(g)' = 1 => estado'[g] = "listo")
    <3>1. CASE g = h
      <4>1. Lugares(h) = 0
        BY <1>0, SinLugar
      <4> QED BY <1>2, <1>3, <3>1, <4>1 DEF Uno
    <3>2. CASE g # h
      BY <1>0, <1>2, <1>3, <3>2 DEF Uno, UnSoloLugar
    <3> QED BY <3>1, <3>2
  <2> QED BY <2>1 DEF UnSoloLugar
<1>5. EnSuCola'
  BY <1>0, <1>1 DEF EnSuCola
<1>6. SigueEnExec'
  <2>1. hilo_en_ejecucion \in Hilos \cup {Nadie}
    BY <1>0 DEF TypeOK
  <2> QED BY <1>0, <1>1, <1>2, <2>1 DEF SigueEnExec
<1> QED BY <1>4, <1>5, <1>6 DEF InvLugares

\* Steps of C: it moves a thread from READY to its queue.
LEMMA PasoDeCEnSuLugar ==
    ASSUME Inv, TypeOK', InvLugares, C
    PROVE  InvLugares'
<1>0. TypeOK /\ UnSoloLugar /\ EnSuCola /\ SigueEnExec /\ Locales
  BY DEF Inv, InvLugares
<1>1. UNCHANGED <<hiloP, hilo_en_ejecucion, pcI, hiloI, motivo, estado>>
  BY DEF C, CEspera, CToma, CMira, CSaca, CAgrega, CAvisaCola, CSuelta, PasoC,
         cpu, deP, deI
<1>2. CASE CEspera \/ CToma \/ CMira \/ CAvisaCola \/ CSuelta
  <2>1. UNCHANGED <<queue_ready, colas, hiloC>>
    BY <1>2 DEF CEspera, CToma, CMira, CAvisaCola, CSuelta, listas
  <2>2. UnSoloLugar' /\ EnSuCola'
    BY <1>0, <1>1, <2>1, LugaresQuietos
  <2>3. SigueEnExec'
    BY <1>0, <1>1, <2>1 DEF SigueEnExec
  <2> QED BY <2>2, <2>3 DEF InvLugares
<1>3. CASE CSaca
  <2>1. colas' = colas
    BY <1>3 DEF CSaca
  <2>2. EnSuCola'
    BY <1>0, <2>1 DEF EnSuCola
  <2>3. SigueEnExec'
    BY <1>0, <1>1, <2>1 DEF SigueEnExec
  <2>4. ASSUME NEW h \in Hilos PROVE Lugares(h)' <= Lugares(h)
    <3>1. CASE queue_ready = <<>>
      <4>1. UNCHANGED <<queue_ready, hiloC>>
        BY <1>3, <3>1 DEF CSaca
      <4>2. Lugares(h)' = Lugares(h)
        BY <1>1, <2>1, <4>1 DEF Lugares
      <4> QED BY <1>0, <4>2, LugaresTipo
    <3>2. CASE queue_ready # <<>>
      <4>1. hiloC' = Head(queue_ready) /\ queue_ready' = Tail(queue_ready)
        BY <1>3, <3>2 DEF CSaca
      <4>2. queue_ready \in Seq(Hilos)
        BY <1>0 DEF TypeOK
      <4>3. Veces(h, queue_ready) = Veces(h, queue_ready') + Uno(hiloC' = h)
        BY <3>2, <4>1, <4>2, VecesTail DEF Uno
      <4>4. Veces(h, queue_ready') \in Nat
        BY <3>2, <4>1, <4>2, SacaDeCola, VecesTipo
      <4>5. Lugares(h)' = Veces(h, queue_ready')
                          + Veces(h, colas[Prioridad[h]])
                          + Uno(hiloC' = h) + Uno(hiloP = h)
        BY <1>1, <2>1 DEF Lugares
      <4>6. Uno(hiloC' = h) \in {0, 1}
        BY DEF Uno
      <4> QED BY <1>0, <4>3, <4>4, <4>5, <4>6, LugaresTipo DEF Lugares
    <3> QED BY <3>1, <3>2
  <2>5. UnSoloLugar'
    BY <1>0, <1>1, <2>4, LugaresBajan
  <2> QED BY <2>2, <2>3, <2>5 DEF InvLugares
<1>4. CASE CAgrega
  <2>1. /\ hiloC \in Hilos /\ Encola(hiloC) /\ hiloC' = Nadie
        /\ queue_ready' = queue_ready
    BY <1>0, <1>4 DEF CAgrega, PasoC, Locales
  <2>2. EnSuCola'
    BY <1>0, <2>1, EncolaEnLaSuya
  <2>3. ASSUME NEW h \in Hilos PROVE Lugares(h)' = Lugares(h)
    <3>1. Veces(h, colas'[Prioridad[h]])
            = Veces(h, colas[Prioridad[h]]) + Uno(hiloC = h)
      BY <1>0, <2>1, EncolaEnLaSuya
    <3>2. Uno(hiloC' = h) = 0
      BY <2>1, PrioridadesAssumption DEF Uno
    <3>3. Lugares(h)' = Veces(h, queue_ready)
                        + Veces(h, colas'[Prioridad[h]])
                        + Uno(hiloC' = h) + Uno(hiloP = h)
      BY <1>1, <2>1 DEF Lugares
    <3> QED BY <1>0, <3>1, <3>2, <3>3, LugaresTipo DEF Lugares
  <2>4. UnSoloLugar'
    BY <1>0, <1>1, <2>3 DEF UnSoloLugar
  <2>5. SigueEnExec'
    <3>1. ASSUME pcI \in {"quita_de_listos", "quita_de_colas"}
          PROVE  /\ Veces(hiloI, colas[Prioridad[hiloI]]) = 1
                 /\ Veces(hiloI, colas'[Prioridad[hiloI]]) = 1
      <4>1. hiloI \in Hilos /\ Veces(hiloI, colas[Prioridad[hiloI]]) = 1
        BY <1>0, <3>1 DEF Locales, SigueEnExec
      <4>2. Uno(hiloC = hiloI) = 0
        <5>1. Lugares(hiloI) <= 1
          BY <1>0, <4>1 DEF UnSoloLugar
        <5> QED BY <1>0, <4>1, <5>1, LugaresTipo DEF Lugares
      <4> QED BY <1>0, <2>1, <4>1, <4>2, EncolaEnLaSuya
    <3> QED BY <1>0, <1>1, <3>1 DEF SigueEnExec
  <2> QED BY <2>2, <2>4, <2>5 DEF InvLugares
<1> QED BY <1>2, <1>3, <1>4 DEF C

\* While I removes threads the CPU has an owner, so P is not taking one.
LEMMA POciosaMientrasQuita ==
    ASSUME Inv, pcI \notin {"espera", "avisa_cpu"}
    PROVE  pcP \notin {"elige", "ejecuta"} /\ hilo_en_ejecucion \in Hilos
<1>1. hilo_en_ejecucion \in Hilos
  BY DEF Inv, Locales
<1>2. hilo_en_ejecucion # Nadie
  BY <1>1, PrioridadesAssumption
<1> QED BY <1>1, <1>2 DEF Inv, UnaCPU, Uno, TypeOK

\* Steps of P: it takes a thread from its queue, and sends it to the CPU.
LEMMA PasoDePEnSuLugar ==
    ASSUME Inv, TypeOK', InvLugares, P
    PROVE  InvLugares'
<1>0. TypeOK /\ UnSoloLugar /\ EnSuCola /\ SigueEnExec /\ Locales
  BY DEF Inv, InvLugares
<1>1. UNCHANGED <<queue_ready, hiloC, pcI, hiloI, motivo>>
  BY DEF P, PEspera, PEsperaCPU, PEligeHilo, PNoHayHilo, PEjecuta, PAvisa,
         PDevuelveCPU, PasoP, deC, deI
<1>2. CASE PEspera \/ PEsperaCPU \/ PNoHayHilo \/ PAvisa \/ PDevuelveCPU
  <2>1. UNCHANGED <<colas, hiloP, estado, hilo_en_ejecucion>>
    BY <1>2 DEF PEspera, PEsperaCPU, PNoHayHilo, PAvisa, PDevuelveCPU, cpu
  <2>2. UnSoloLugar' /\ EnSuCola'
    BY <1>0, <1>1, <2>1, LugaresQuietos
  <2>3. SigueEnExec'
    BY <1>0, <1>1, <2>1 DEF SigueEnExec
  <2> QED BY <2>2, <2>3 DEF InvLugares
<1>3. CASE PEligeHilo
  <2>1. PICK pr \in Prioridades :
          /\ colas[pr] # <<>> /\ hiloP' = Head(colas[pr])
          /\ colas' = [colas EXCEPT ![pr] = Tail(@)]
    BY <1>3 DEF PEligeHilo
  <2>2. /\ colas[pr] \in Seq(Hilos)
        /\ colas'[pr] = Tail(colas[pr])
        /\ \A x \in Prioridades : x # pr => colas'[x] = colas[x]
    BY <1>0, <2>1 DEF TypeOK
  <2>3. UNCHANGED <<estado, hilo_en_ejecucion>>
    BY <1>3 DEF PEligeHilo, cpu
  <2>4. hiloP' \in Hilos /\ Tail(colas[pr]) \in Seq(Hilos)
    BY <2>1, <2>2, SacaDeCola
  <2>5. ASSUME NEW h \in Hilos
        PROVE  /\ Veces(h, colas[pr]) = Veces(h, colas'[pr]) + Uno(hiloP' = h)
               /\ Veces(h, colas'[pr]) \in Nat
    <3>1. Veces(h, colas'[pr]) \in Nat
      BY <2>2, <2>4, VecesTipo
    <3> QED BY <2>1, <2>2, <3>1, VecesTail DEF Uno
  <2>6. Prioridad[hiloP'] = pr
    <3>1. Uno(hiloP' = hiloP') = 1
      BY DEF Uno
    <3>2. Veces(hiloP', colas[pr]) # 0
      BY <2>4, <2>5, <3>1
    <3> QED BY <1>0, <2>4, <3>2 DEF EnSuCola
  <2>7. EnSuCola'
    <3> SUFFICES ASSUME NEW x \in Prioridades, NEW h \in Hilos,
                        Veces(h, colas'[x]) # 0
                 PROVE  Prioridad[h] = x
      BY DEF EnSuCola
    <3>1. CASE x = pr
      <4>1. Uno(hiloP' = h) \in {0, 1}
        BY DEF Uno
      <4>2. Veces(h, colas[pr]) # 0
        BY <2>5, <3>1, <4>1
      <4> QED BY <1>0, <3>1, <4>2 DEF EnSuCola
    <3>2. CASE x # pr
      BY <1>0, <2>2, <3>2 DEF EnSuCola
    <3> QED BY <3>1, <3>2
  <2>8. ASSUME NEW h \in Hilos PROVE Lugares(h)' <= Lugares(h)
    <3>1. Lugares(h)' = Veces(h, queue_ready)
                        + Veces(h, colas'[Prioridad[h]])
                        + Uno(hiloC = h) + Uno(hiloP' = h)
      BY <1>1 DEF Lugares
    <3>2. Veces(h, colas'[Prioridad[h]]) + Uno(hiloP' = h)
             = Veces(h, colas[Prioridad[h]])
      <4>1. CASE Prioridad[h] = pr
        BY <2>5, <4>1
      <4>2. CASE Prioridad[h] # pr
        <5>1. Uno(hiloP' = h) = 0
          BY <2>6, <4>2 DEF Uno
        <5>2. Prioridad[h] \in Prioridades
          BY PrioridadesAssumption
        <5> QED BY <1>0, <2>2, <4>2, <5>1, <5>2, LugaresTipo
      <4> QED BY <4>1, <4>2
    <3>3. Uno(hiloP' = h) \in {0, 1} /\ Veces(h, colas'[Prioridad[h]]) \in Nat
      <4>1. colas'[Prioridad[h]] \in Seq(Hilos)
        BY PrioridadesAssumption DEF TypeOK
      <4> QED BY <4>1, VecesTipo DEF Uno
    <3> QED BY <1>0, <3>1, <3>2, <3>3, LugaresTipo DEF Lugares
  <2>9. UnSoloLugar'
    BY <1>0, <2>3, <2>8, LugaresBajan
  <2>10. SigueEnExec'
    <3>1. pcI \in {"espera", "avisa_cpu"}
      BY <1>3, POciosaMientrasQuita DEF PEligeHilo, PasoP
    <3> QED BY <1>0, <1>1, <2>3, <3>1 DEF SigueEnExec
  <2> QED BY <2>7, <2>9, <2>10 DEF InvLugares
<1>4. CASE PEjecuta
  <2>1. /\ hiloP \in Hilos /\ hiloP' = Nadie /\ hilo_en_ejecucion' = hiloP
        /\ colas' = colas
        /\ estado' = [estado EXCEPT ![hiloP] = "exec"]
    BY <1>0, <1>4 DEF PEjecuta, PasoP, Locales
  <2>2. /\ estado'[hiloP] = "exec"
        /\ \A h \in Hilos : h # hiloP => estado'[h] = estado[h]
    BY <1>0, <2>1 DEF TypeOK
  <2>3. EnSuCola'
    BY <1>0, <2>1 DEF EnSuCola
  <2>4. ASSUME NEW h \in Hilos
        PROVE  Lugares(h)' = Lugares(h) - Uno(hiloP = h)
    <3>1. Lugares(h)' = Veces(h, queue_ready) + Veces(h, colas[Prioridad[h]])
                        + Uno(hiloC = h) + Uno(hiloP' = h)
      BY <1>1, <2>1 DEF Lugares
    <3>2. Uno(hiloP' = h) = 0
      BY <2>1, PrioridadesAssumption DEF Uno
    <3> QED BY <1>0, <3>1, <3>2, LugaresTipo DEF Lugares
  <2>5. UnSoloLugar'
    <3>1. ASSUME NEW h \in Hilos
          PROVE  /\ Lugares(h)' <= Lugares(h)
                 /\ \/ Lugares(h)' = 0
                    \/ estado[h] = "listo" => estado'[h] = "listo"
      <4>1. Lugares(h) \in Nat /\ Lugares(h) <= 1
        BY <1>0, LugaresTipo DEF UnSoloLugar
      <4>2. CASE h = hiloP
        <5>1. Uno(hiloP = h) = 1
          BY <4>2 DEF Uno
        <5>2. Lugares(h) = 1
          BY <1>0, <4>1, <5>1, LugaresTipo DEF Lugares
        <5> QED BY <2>4, <5>1, <5>2
      <4>3. CASE h # hiloP
        <5>1. Uno(hiloP = h) = 0
          BY <4>3 DEF Uno
        <5>2. Lugares(h)' = Lugares(h)
          BY <2>4, <4>1, <5>1
        <5> QED BY <2>2, <4>1, <4>3, <5>2
      <4> QED BY <4>2, <4>3
    <3> QED BY <1>0, <3>1, LugaresBajan
  <2>6. SigueEnExec'
    <3>1. pcI \in {"espera", "avisa_cpu"}
      BY <1>4, POciosaMientrasQuita DEF PEjecuta, PasoP
    <3> QED BY <1>1, <2>1, <2>2, <3>1 DEF SigueEnExec
  <2> QED BY <2>3, <2>5, <2>6 DEF InvLugares
<1> QED BY <1>2, <1>3, <1>4 DEF P

\* The CPU stops a thread, which was executing and so is nowhere.
LEMMA PasoDeCPUEnSuLugar ==
    ASSUME Inv, TypeOK', InvLugares, NEW m \in Motivos \ {"ninguno"},
           CPUConfirma(m)
    PROVE  InvLugares'
<1>0. TypeOK /\ UnSoloLugar /\ EnSuCola /\ SigueEnExec /\ Locales
  BY DEF Inv, InvLugares
<1>1. /\ UNCHANGED <<queue_ready, colas, hiloC, hiloP, hilo_en_ejecucion, pcI,
                     hiloI>>
      /\ motivo = "ninguno" /\ motivo' = m
      /\ hilo_en_ejecucion # Nadie
  BY DEF CPUConfirma, listas, cpu, deC, deP
<1>2. pcI = "espera"
  BY <1>0, <1>1 DEF Locales
<1>3. hilo_en_ejecucion \in Hilos /\ estado[hilo_en_ejecucion] = "exec"
  BY <1>0, <1>1, <1>2 DEF TypeOK, SigueEnExec
<1>4. /\ \A h \in Hilos : h # hilo_en_ejecucion => estado'[h] = estado[h]
      /\ m \notin {"bloqueo", "thread_exit"}
           => estado'[hilo_en_ejecucion] = "exec"
  BY <1>0, <1>3 DEF CPUConfirma, TypeOK
<1>5. \A h \in Hilos : Lugares(h)' = Lugares(h)
  BY <1>1 DEF Lugares
<1>6. Lugares(hilo_en_ejecucion) = 0
  BY <1>0, <1>3, SinLugar
<1>7. UnSoloLugar'
  <2>1. ASSUME NEW h \in Hilos
        PROVE  /\ Lugares(h)' <= Lugares(h)
               /\ \/ Lugares(h)' = 0
                  \/ estado[h] = "listo" => estado'[h] = "listo"
    <3>1. Lugares(h) \in Nat
      BY <1>0, LugaresTipo
    <3> QED BY <1>4, <1>5, <1>6, <3>1
  <2> QED BY <1>0, <2>1, LugaresBajan
<1>8. EnSuCola'
  BY <1>0, <1>1 DEF EnSuCola
<1>9. SigueEnExec'
  BY <1>1, <1>2, <1>4 DEF SigueEnExec
<1> QED BY <1>7, <1>8, <1>9 DEF InvLugares

\* Steps of I: it puts a thread back, or takes the ones of a process out.
LEMMA PasoDeIEnSuLugar ==
    ASSUME Inv, TypeOK', InvLugares, I
    PROVE  InvLugares'
<1>0. TypeOK /\ UnSoloLugar /\ EnSuCola /\ SigueEnExec /\ Locales
  BY DEF Inv, InvLugares
<1>1. UNCHANGED <<hiloC, hiloP>>
  <2>1. CASE IBusca
    BY <2>1 DEF IBusca, PasoI, deC, deP
  <2>2. CASE ~IBusca
    BY <2>2 DEF I, IToma, IEncola, IBloqueo, IFinProceso, IQuitaDeListos,
              IQuitaDeColas, ILibera, ILimpia, IAvisaCPU, PasoI, deC, deP
  <2> QED BY <2>1, <2>2
<1>2. CASE IToma \/ IBloqueo \/ IFinProceso \/ ILimpia \/ IAvisaCPU
  <2>1. UNCHANGED <<queue_ready, colas, estado, hiloI>>
    BY <1>2 DEF IToma, IBloqueo, IFinProceso, ILimpia, IAvisaCPU, listas
  <2>2. UnSoloLugar' /\ EnSuCola'
    BY <1>0, <1>1, <2>1, LugaresQuietos
  <2>3. SigueEnExec'
    <3>1. CASE IToma \/ IBloqueo \/ IFinProceso
      BY <1>0, <2>1, <3>1
      DEF IToma, IBloqueo, IFinProceso, PasoI, cpu, SigueEnExec
    <3>2. CASE ILimpia
      BY <3>2 DEF ILimpia, PasoI, SigueEnExec
    <3>3. CASE IAvisaCPU
      <4>1. hilo_en_ejecucion = Nadie
        BY <1>0, <3>3 DEF Inv, IAvisaCPU, PasoI, UnaCPU, Uno, TypeOK
      <4> QED BY <3>3, <4>1 DEF IAvisaCPU, PasoI, SigueEnExec
    <3> QED BY <1>2, <3>1, <3>2, <3>3
  <2> QED BY <2>2, <2>3 DEF InvLugares
<1>3. CASE IEncola
  <2> DEFINE g == hilo_en_ejecucion
  <2>1. /\ g \in Hilos /\ Encola(g) /\ pcI' = "limpia"
        /\ estado' = [estado EXCEPT ![g] = "listo"]
        /\ UNCHANGED <<queue_ready, hilo_en_ejecucion, motivo>>
    BY <1>0, <1>3, POciosaMientrasQuita DEF IEncola, PasoI, cpu
  <2>2. estado[g] = "exec"
    BY <1>0, <1>3, <2>1, PrioridadesAssumption DEF IEncola, PasoI, SigueEnExec
  <2>3. EnSuCola'
    BY <1>0, <2>1, EncolaEnLaSuya
  <2>4. /\ estado'[g] = "listo"
        /\ \A h \in Hilos : h # g => estado'[h] = estado[h]
    BY <1>0, <2>1 DEF TypeOK
  <2> HIDE DEF g
  <2>5. ASSUME NEW h \in Hilos
        PROVE  Lugares(h)' = Lugares(h) + Uno(g = h) /\ Lugares(h) \in Nat
    <3>1. Veces(h, colas'[Prioridad[h]])
            = Veces(h, colas[Prioridad[h]]) + Uno(g = h)
      BY <1>0, <2>1, EncolaEnLaSuya
    <3>2. Lugares(h)' = Veces(h, queue_ready)
                        + Veces(h, colas'[Prioridad[h]])
                        + Uno(hiloC = h) + Uno(hiloP = h)
      BY <1>1, <2>1 DEF Lugares
    <3>3. Uno(g = h) \in {0, 1}
      BY DEF Uno
    <3> QED BY <1>0, <3>1, <3>2, <3>3, LugaresTipo DEF Lugares
  <2>6. UnSoloLugar'
    <3>1. ASSUME NEW h \in Hilos
          PROVE  Lugares(h)' <= 1 /\ (Lugares(h)' = 1 => estado'[h] = "listo")
      <4>1. CASE h = g
        <5>1. Lugares(h) = 0
          BY <1>0, <2>2, <4>1, SinLugar
        <5> QED BY <2>4, <2>5, <4>1, <5>1 DEF Uno
      <4>2. CASE h # g
        BY <1>0, <2>4, <2>5, <4>2 DEF Uno, UnSoloLugar
      <4> QED BY <4>1, <4>2
    <3> QED BY <3>1 DEF UnSoloLugar
  <2>7. SigueEnExec'
    BY <2>1 DEF SigueEnExec
  <2> QED BY <2>3, <2>6, <2>7 DEF InvLugares
<1>4. CASE IBusca
  <2>1. /\ UNCHANGED <<queue_ready, colas, estado, hilo_en_ejecucion, motivo>>
        /\ pcI = "busca"
    BY <1>4 DEF IBusca, PasoI, listas, cpu
  <2>2. UnSoloLugar' /\ EnSuCola'
    BY <1>0, <1>1, <2>1, LugaresQuietos
  <2>3. PICK h \in por_terminar :
          IF EnColas(h) THEN PasoI("busca", "quita_de_listos") /\ hiloI' = h
                        ELSE PasoI("busca", "busca") /\ UNCHANGED hiloI
    BY <1>4 DEF IBusca
  <2>4. h \in Hilos
    BY <1>0 DEF TypeOK
  <2>5. SigueEnExec'
    <3>1. CASE EnColas(h)
      <4>1. hiloI' = h /\ pcI' = "quita_de_listos"
        BY <2>3, <3>1 DEF PasoI
      <4>2. Veces(h, colas[Prioridad[h]]) # 0
        <5>1. colas[Prioridad[h]] \in Seq(Hilos)
          BY <1>0, <2>4, PrioridadesAssumption DEF TypeOK
        <5>2. EnCola(h, colas[Prioridad[h]])
          BY <3>1 DEF EnColas
        <5> QED BY <5>1, <5>2, VecesTipo
      <4>3. Veces(h, colas[Prioridad[h]]) = 1
        <5>1. Lugares(h) <= 1
          BY <1>0, <2>4 DEF UnSoloLugar
        <5> QED BY <1>0, <2>4, <4>2, <5>1, LugaresTipo DEF Lugares
      <4> QED BY <1>0, <2>1, <4>1, <4>3 DEF SigueEnExec
    <3>2. CASE ~EnColas(h)
      <4>1. pcI' = "busca"
        BY <2>3, <3>2 DEF PasoI
      <4> QED BY <1>0, <2>1, <4>1 DEF SigueEnExec
    <3> QED BY <3>1, <3>2
  <2> QED BY <2>2, <2>5 DEF InvLugares
<1>5. CASE IQuitaDeListos
  <2>1. /\ UNCHANGED <<colas, estado, hilo_en_ejecucion, hiloI, motivo>>
        /\ pcI = "quita_de_listos" /\ pcI' = "quita_de_colas"
    BY <1>5 DEF IQuitaDeListos, PasoI, cpu
  <2>2. ASSUME NEW h \in Hilos PROVE Lugares(h)' <= Lugares(h)
    <3>1. Veces(h, queue_ready') <= Veces(h, queue_ready)
      <4>1. queue_ready \in Seq(Hilos)
        BY <1>0 DEF TypeOK
      <4> QED BY <1>5, <4>1, VecesRemueve DEF IQuitaDeListos
    <3>2. Veces(h, queue_ready') \in Nat
      <4>1. queue_ready' \in Seq(Hilos)
        BY DEF TypeOK
      <4> QED BY <4>1, VecesTipo
    <3>3. Lugares(h)' = Veces(h, queue_ready') + Veces(h, colas[Prioridad[h]])
                        + Uno(hiloC = h) + Uno(hiloP = h)
      BY <1>1, <2>1 DEF Lugares
    <3> QED BY <1>0, <3>1, <3>2, <3>3, LugaresTipo DEF Lugares
  <2>3. UnSoloLugar'
    BY <1>0, <2>1, <2>2, LugaresBajan
  <2>4. EnSuCola'
    BY <1>0, <2>1 DEF EnSuCola
  <2>5. SigueEnExec'
    BY <1>0, <2>1 DEF SigueEnExec
  <2> QED BY <2>3, <2>4, <2>5 DEF InvLugares
<1>6. CASE IQuitaDeColas
  <2>1. /\ UNCHANGED <<queue_ready, hilo_en_ejecucion, motivo>>
        /\ pcI = "quita_de_colas" /\ pcI' = "busca"
        /\ hiloI \in Hilos /\ Veces(hiloI, colas[Prioridad[hiloI]]) = 1
        /\ estado' = [estado EXCEPT ![hiloI] = "exit"]
    BY <1>0, <1>6 DEF IQuitaDeColas, PasoI, cpu, Locales, SigueEnExec
  <2>2. \A pr \in Prioridades :
          colas[pr] \in Seq(Hilos)
          /\ colas'[pr] = RemueveRotando(colas[pr], {hiloI})
    BY <1>0, <1>6 DEF IQuitaDeColas, TypeOK
  <2>3. \A h \in Hilos : h # hiloI => estado'[h] = estado[h]
    BY <1>0, <2>1 DEF TypeOK
  <2>4. ASSUME NEW h \in Hilos, NEW pr \in Prioridades
        PROVE  /\ Veces(h, colas'[pr]) <= Veces(h, colas[pr])
               /\ Veces(h, colas'[pr]) \in Nat /\ Veces(h, colas[pr]) \in Nat
    <3>1. colas'[pr] \in Seq(Hilos)
      BY DEF TypeOK
    <3>2. Veces(h, colas'[pr]) \in Nat /\ Veces(h, colas[pr]) \in Nat
      BY <2>2, <3>1, VecesTipo
    <3>3. Veces(h, colas'[pr]) <= Veces(h, colas[pr])
      BY <2>2, VecesRemueve
    <3> QED BY <3>2, <3>3
  <2>5. EnSuCola'
    <3> SUFFICES ASSUME NEW pr \in Prioridades, NEW h \in Hilos,
                        Veces(h, colas'[pr]) # 0
                 PROVE  Prioridad[h] = pr
      BY DEF EnSuCola
    <3>1. Veces(h, colas[pr]) # 0
      BY <2>4
    <3> QED BY <1>0, <3>1 DEF EnSuCola
  <2>6. ASSUME NEW h \in Hilos
        PROVE  /\ Lugares(h)' = Lugares(h) - Veces(h, colas[Prioridad[h]])
                                + Veces(h, colas'[Prioridad[h]])
               /\ Veces(h, colas'[Prioridad[h]])
                    <= Veces(h, colas[Prioridad[h]])
               /\ Veces(h, colas'[Prioridad[h]]) \in Nat
    <3>1. Lugares(h)' = Veces(h, queue_ready) + Veces(h, colas'[Prioridad[h]])
                        + Uno(hiloC = h) + Uno(hiloP = h)
      BY <1>1, <2>1 DEF Lugares
    <3>2. Prioridad[h] \in Prioridades
      BY PrioridadesAssumption
    <3>3. /\ Veces(h, colas'[Prioridad[h]]) <= Veces(h, colas[Prioridad[h]])
          /\ Veces(h, colas'[Prioridad[h]]) \in Nat
      BY <2>4, <3>2
    <3> QED BY <1>0, <3>1, <3>3, LugaresTipo DEF Lugares
  <2>7. Veces(hiloI, colas'[Prioridad[hiloI]]) = 0
    <3>1. Prioridad[hiloI] \in Prioridades
      BY <2>1, PrioridadesAssumption
    <3> QED BY <2>1, <2>2, <3>1, RemueveUnica
  <2>8. UnSoloLugar'
    <3>1. ASSUME NEW h \in Hilos
          PROVE  /\ Lugares(h)' <= Lugares(h)
                 /\ \/ Lugares(h)' = 0
                    \/ estado[h] = "listo" => estado'[h] = "listo"
      <4>1. Lugares(h)' <= Lugares(h)
        BY <1>0, <2>6, LugaresTipo
      <4>2. CASE h = hiloI
        <5>1. Lugares(h) <= 1 /\ Lugares(h) \in Nat
          BY <1>0, LugaresTipo DEF UnSoloLugar
        <5>2. Lugares(h) = 1
          BY <1>0, <2>1, <4>2, <5>1, LugaresTipo DEF Lugares
        <5>3. Lugares(h)' = 0
          BY <2>1, <2>6, <2>7, <4>2, <5>2
        <5> QED BY <4>1, <5>3
      <4>3. CASE h # hiloI
        BY <2>3, <4>1, <4>3
      <4> QED BY <4>2, <4>3
    <3> QED BY <1>0, <3>1, LugaresBajan
  <2>9. SigueEnExec'
    <3>1. hilo_en_ejecucion \in Hilos /\ estado[hilo_en_ejecucion] = "exec"
      <4>1. hilo_en_ejecucion \in Hilos
        BY <2>1, POciosaMientrasQuita
      <4> QED BY <1>0, <2>1, <4>1, PrioridadesAssumption DEF SigueEnExec
    <3>2. hilo_en_ejecucion # hiloI
      BY <1>0, <2>1, <3>1, SinLugar
    <3>3. estado'[hilo_en_ejecucion] = "exec"
      BY <2>3, <3>1, <3>2
    <3> QED BY <1>0, <2>1, <3>3 DEF SigueEnExec
  <2> QED BY <2>5, <2>8, <2>9 DEF InvLugares
<1>7. CASE ILibera
  <2>1. /\ UNCHANGED <<queue_ready, colas, hilo_en_ejecucion, motivo>>
        /\ pcI = "busca" /\ pcI' = "limpia"
        /\ hilo_en_ejecucion \in Hilos
        /\ estado' = [estado EXCEPT ![hilo_en_ejecucion] = "exit"]
    BY <1>0, <1>7, POciosaMientrasQuita DEF ILibera, PasoI, listas, cpu
  <2>2. \A h \in Hilos : h # hilo_en_ejecucion => estado'[h] = estado[h]
    BY <1>0, <2>1 DEF TypeOK
  <2>3. estado[hilo_en_ejecucion] = "exec"
    BY <1>0, <2>1, PrioridadesAssumption DEF SigueEnExec
  <2>4. Lugares(hilo_en_ejecucion) = 0
    BY <1>0, <2>1, <2>3, SinLugar
  <2>5. \A h \in Hilos : Lugares(h)' = Lugares(h)
    BY <1>1, <2>1 DEF Lugares
  <2>6. UnSoloLugar'
    <3>1. ASSUME NEW h \in Hilos
          PROVE  /\ Lugares(h)' <= Lugares(h)
                 /\ \/ Lugares(h)' = 0
                    \/ estado[h] = "listo" => estado'[h] = "listo"
      <4>1. Lugares(h) \in Nat
        BY <1>0, LugaresTipo
      <4> QED BY <2>2, <2>4, <2>5, <4>1
    <3> QED BY <1>0, <3>1, LugaresBajan
  <2>7. EnSuCola'
    BY <1>0, <2>1 DEF EnSuCola
  <2>8. SigueEnExec'
    BY <2>1 DEF SigueEnExec
  <2> QED BY <2>6, <2>7, <2>8 DEF InvLugares
<1> QED BY <1>2, <1>3, <1>4, <1>5, <1>6, <1>7 DEF I

\* Nobody is anywhere at the start.
LEMMA LugaresIniciales == Init => InvLugares
<1> SUFFICES ASSUME Init PROVE InvLugares
  OBVIOUS
<1>1. \A h \in Hilos : Veces(h, <<>>) = 0
  BY VecesVacia
<1>2. \A h \in Hilos : Prioridad[h] \in Prioridades /\ h # Nadie
  BY PrioridadesAssumption
<1>3. \A h \in Hilos : Lugares(h) = 0
  BY <1>1, <1>2 DEF Init, Lugares, Uno
<1>4. UnSoloLugar
  BY <1>3 DEF UnSoloLugar
<1>5. EnSuCola
  BY <1>1 DEF Init, EnSuCola
<1>6. SigueEnExec
  BY DEF Init, SigueEnExec
<1> QED BY <1>4, <1>5, <1>6 DEF InvLugares

\* Each thread stays in one place.
THEOREM InvarianciaLugares == Spec => [](Inv /\ InvLugares)
<1>1. Init => Inv /\ InvLugares
  BY InvInicial, LugaresIniciales
<1>2. Inv /\ Inv' /\ InvLugares /\ [Next]_vars => InvLugares'
  <2> SUFFICES ASSUME Inv, Inv', InvLugares, [Next]_vars PROVE InvLugares'
    OBVIOUS
  <2>0. TypeOK'
    BY DEF Inv
  <2>1. ASSUME NEW h \in Hilos, AdmiteHilo0(h) \/ CreaHilo(h) \/ Despierta(h)
        PROVE  InvLugares'
    <3>1. PushReady(h) /\ estado[h] \in {"inexistente", "bloqueado"}
      BY <2>1 DEF AdmiteHilo0, CreaHilo, Despierta
    <3> QED BY <2>0, <3>1, PushSinRepetir
  <2>2. CASE Avisa \/ UNCHANGED vars
    <3>1. UNCHANGED <<queue_ready, colas, hiloC, hiloP, estado,
                      hilo_en_ejecucion, pcI, hiloI, motivo>>
      BY <2>2 DEF Avisa, AvisaListo, AvisaCreado, vars, listas, cpu, deC, deP,
                  deI
    <3>2. UnSoloLugar' /\ EnSuCola'
      BY <2>0, <3>1, LugaresQuietos DEF Inv, InvLugares
    <3>3. SigueEnExec'
      BY <3>1 DEF InvLugares, SigueEnExec
    <3> QED BY <3>2, <3>3 DEF InvLugares
  <2>3. CASE C
    BY <2>0, <2>3, PasoDeCEnSuLugar
  <2>4. CASE P
    BY <2>0, <2>4, PasoDePEnSuLugar
  <2>5. CASE I
    BY <2>0, <2>5, PasoDeIEnSuLugar
  <2>6. ASSUME NEW m \in Motivos \ {"ninguno"}, CPUConfirma(m)
        PROVE  InvLugares'
    BY <2>0, <2>6, PasoDeCPUEnSuLugar
  <2> QED BY <2>1, <2>2, <2>3, <2>4, <2>5, <2>6 DEF Next
<1> QED BY <1>1, <1>2, Invariancia, PTL DEF Spec

\* A ready thread is in one place only, so it is not dispatched twice for one
\* push; one that is not ready is nowhere.
THEOREM CadaHiloEnUnLugar == Spec => []UnSoloLugar
<1>1. InvLugares => UnSoloLugar
  BY DEF InvLugares
<1> QED BY <1>1, InvarianciaLugares, PTL

=============================================================================
