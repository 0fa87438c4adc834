----------------------- MODULE PlanificadorFIFOPruebas -----------------------
(***************************************************************************)
(* Proofs about PlanificadorFIFO, for any threads, processes, dumps and    *)
(* bound of tokens: the types, the owner of the CPU, the account of        *)
(* nuevos_hilos, the look before the pop, and the refinement of            *)
(* ColaDeListos.                                                           *)
(***************************************************************************)
EXTENDS PlanificadorFIFO, RemoverHiloPruebas, SequenceTheorems, TLAPS

-----------------------------------------------------------------------------
(* The inductive invariant.                                                *)

\* Local variables hold a thread where they are used; there is a thread on
\* the CPU from the confirmation until I clears it; and D(h) finalizes a
\* process only if dumps fail.
Locales ==
    /\ pcP = "ejecuta" => hiloP \in Hilos
    /\ motivo # "ninguno" /\ pcI # "avisa_cpu" => hilo_en_ejecucion \in Hilos
    /\ pcI # "espera" => motivo # "ninguno"
    /\ fin[Nadie].paso # "no" => pcI = "finaliza"
    /\ \A f \in Finalizadores :
         fin[f].paso \in {"quita", "libera"} => fin[f].hilo \in Hilos
    /\ \A h \in Hilos : fin[h].paso # "no" => dumps_fallan

Inv ==
    TypeOK /\ Locales /\ UnaCPU /\ FichasCubrenListos /\ SacaLoQueMiro

\* Taking the head of a queue of threads leaves a shorter queue of threads.
LEMMA SacaDeCola ==
    ASSUME NEW q \in Seq(Hilos), q # <<>>
    PROVE  /\ Head(q) \in Hilos /\ Tail(q) \in Seq(Hilos)
           /\ Len(Tail(q)) = Len(q) - 1 /\ Len(q) \in Nat
BY HeadTailProperties, LenProperties

\* Adding a thread to a queue makes it one longer.
LEMMA PoneEnCola ==
    ASSUME NEW q \in Seq(Hilos), NEW h \in Hilos
    PROVE  /\ Append(q, h) \in Seq(Hilos) /\ Append(q, h) # <<>>
           /\ Len(Append(q, h)) = Len(q) + 1 /\ Len(q) \in Nat
BY AppendProperties, LenProperties

\* Membership is a truth value.
LEMMA PerteneceONo ==
    ASSUME NEW x, NEW S
    PROVE  (x \in S) \in BOOLEAN
OBVIOUS

\* The record of a finalization that looks for its next thread has its type.
LEMMA TipoDeBuscaTras ==
    ASSUME NEW vistos \in SUBSET Hilos
    PROVE  /\ BuscaTras(vistos) \in [paso : {"no", "busca", "quita", "libera"},
                                    vistos : SUBSET Hilos,
                                    hilo : Finalizadores]
           /\ BuscaTras(vistos).paso = "busca"
BY DEF BuscaTras, Finalizadores

\* The initial state.
LEMMA InvInicial == Init => Inv
<1> SUFFICES ASSUME Init PROVE Inv
  OBVIOUS
<1> USE DEF Init
<1>1. <<>> \in Seq(Hilos) /\ Len(<<>>) = 0
  BY EmptySeq
<1>2. TypeOK
  BY <1>1 DEF TypeOK, Estados, Motivos, Finalizadores, Ocioso
<1>3. Locales
  BY DEF Locales, Finalizadores, Ocioso
<1>4. UnaCPU
  BY DEF UnaCPU, Uno
<1>5. FichasCubrenListos
  BY <1>1 DEF FichasCubrenListos, Uno
<1>6. SacaLoQueMiro
  BY DEF SacaLoQueMiro
<1> QED BY <1>2, <1>3, <1>4, <1>5, <1>6 DEF Inv

-----------------------------------------------------------------------------
(* The types and the local variables, action by action.                    *)

\* A push to READY keeps the types.
LEMMA TiposPush ==
    ASSUME Inv, NEW h \in Hilos, PushReady(h),
           avisando' \in Nat, en_syscall' \in BOOLEAN
    PROVE  TypeOK' /\ Locales'
<1>1. queue_ready' \in Seq(Hilos)
  BY PoneEnCola DEF Inv, TypeOK, PushReady
<1>2. estado' \in [Hilos -> Estados]
  BY DEF Inv, TypeOK, PushReady, Estados
<1>3. caido' \in BOOLEAN
  BY Zenon DEF Inv, TypeOK, PushReady
<1> QED
  BY <1>1, <1>2, <1>3
  DEF Inv, TypeOK, Locales, PushReady, cpu, deP, deI, deD, fines

\* The steps of finalizacion_procesos keep the types.
LEMMA TiposFin ==
    ASSUME Inv, NEW f \in Finalizadores, Finaliza(f)
    PROVE  TypeOK' /\ Locales'
<1> USE FIFOAssumption
<1> USE DEF Inv, TypeOK, Locales, cpu, pushers, deP, PasoFin, Finalizadores
<1>1. fin[f].paso # "no" => ProcesoDe(f) \in Procesos
  BY DEF ProcesoDe
<1>2. CASE Busca(f)
  <2>1. PICK h \in Faltan(f) :
          /\ fin' = [fin EXCEPT ![f] =
                      [paso |-> IF EnListas(h) THEN "quita" ELSE "busca",
                       vistos |-> fin[f].vistos \cup {h},
                       hilo |-> IF EnListas(h) THEN h ELSE Nadie]]
          /\ \/ caido' = (ProcesoDe(f) \in muertos)
             \/ LeeLiberados(h) /\ caido' = TRUE
    BY <1>2, Zenon DEF Busca
  <2>2. h \in Hilos
    BY <2>1, Zenon DEF Faltan
  <2> DEFINE r == [paso |-> IF EnListas(h) THEN "quita" ELSE "busca",
                   vistos |-> fin[f].vistos \cup {h},
                   hilo |-> IF EnListas(h) THEN h ELSE Nadie]
  <2>3. /\ r \in [paso : {"no", "busca", "quita", "libera"},
                  vistos : SUBSET Hilos, hilo : Finalizadores]
        /\ r.paso \in {"quita", "libera"} => r.hilo \in Hilos
    BY <2>2
  <2>4. caido' = (ProcesoDe(f) \in muertos) \/ caido' = TRUE
    BY <2>1, Zenon
  <2>5. caido' \in BOOLEAN
    <3>1. CASE caido' = (ProcesoDe(f) \in muertos)
      BY <3>1, PerteneceONo, Zenon
    <3>2. CASE caido' = TRUE
      BY <3>2, Zenon
    <3> QED BY <2>4, <3>1, <3>2, Zenon
  <2>6. fin' = [fin EXCEPT ![f] = r]
    BY <2>1, Zenon
  <2> HIDE DEF r
  <2>7. /\ fin' \in [Finalizadores ->
                        [paso : {"no", "busca", "quita", "libera"},
                         vistos : SUBSET Hilos, hilo : Finalizadores]]
        /\ \A g \in Finalizadores :
             /\ fin'[g].paso \in {"quita", "libera"} => fin'[g].hilo \in Hilos
             /\ fin'[g].paso # "no" => fin[g].paso # "no"
    BY <1>2, <2>3, <2>6 DEF Busca
  <2>8. UNCHANGED <<queue_ready, nuevos_hilos, cpu, estado, dormidos, pushers,
                    deP, deI, dumps_fallan, deD, liberados, muertos>>
    BY <1>2 DEF Busca, deI, deD
  <2> QED BY <2>5, <2>7, <2>8 DEF deI, deD
<1>3. CASE Quita(f)
  <2>1. queue_ready' \in Seq(Hilos)
    BY <1>3, RemueveRotandoTipo DEF Quita
  <2>2. caido' \in BOOLEAN
    BY <1>3, Zenon DEF Quita
  <2> DEFINE r == [fin[f] EXCEPT !.paso = "libera"]
  <2>3. /\ fin' = [fin EXCEPT ![f] = r] /\ fin[f].paso = "quita"
        /\ r.hilo = fin[f].hilo
        /\ r \in [paso : {"no", "busca", "quita", "libera"},
                  vistos : SUBSET Hilos, hilo : Finalizadores]
    <3>1. fin' = [fin EXCEPT ![f] = r] /\ fin[f].paso = "quita"
      BY <1>3, Zenon DEF Quita
    <3>2. fin[f] \in [paso : {"no", "busca", "quita", "libera"},
                      vistos : SUBSET Hilos, hilo : Finalizadores]
      OBVIOUS
    <3> QED BY <3>1, <3>2
  <2> HIDE DEF r
  <2>4. /\ fin' \in [Finalizadores ->
                        [paso : {"no", "busca", "quita", "libera"},
                         vistos : SUBSET Hilos, hilo : Finalizadores]]
        /\ \A g \in Finalizadores :
             /\ fin'[g].paso \in {"quita", "libera"} => fin'[g].hilo \in Hilos
             /\ fin'[g].paso # "no" => fin[g].paso # "no"
    BY <2>3
  <2> QED BY <1>3, <2>1, <2>2, <2>4 DEF Quita
<1>4. CASE Libera(f)
  <2>1. caido' = (fin[f].hilo \in liberados)
    BY <1>4, Zenon DEF Libera
  <2>2. caido' \in BOOLEAN
    BY <2>1, PerteneceONo, Zenon
  <2>3. estado' \in [Hilos -> Estados] /\ liberados' \subseteq Hilos
    BY <1>4 DEF Libera, Estados
  <2>4. fin' = [fin EXCEPT ![f] = BuscaTras(fin[f].vistos)]
    BY <1>4 DEF Libera
  <2>5. fin' \in [Finalizadores -> [paso : {"no", "busca", "quita", "libera"},
                                    vistos : SUBSET Hilos,
                                    hilo : Finalizadores]]
    BY <2>4, TipoDeBuscaTras
  <2>6. \A g \in Finalizadores :
          /\ fin'[g].paso \in {"quita", "libera"} => fin'[g].hilo \in Hilos
          /\ fin'[g].paso # "no" => fin[g].paso # "no"
    BY <1>4, <2>4, TipoDeBuscaTras DEF Libera
  <2> QED BY <1>4, <2>2, <2>3, <2>5, <2>6 DEF Libera
<1>5. CASE Termina(f)
  <2>0. caido' = (ProcesoDe(f) \in muertos)
    BY <1>5, Zenon DEF Termina
  <2>1. caido' \in BOOLEAN
    BY <2>0, PerteneceONo, Zenon
  <2>2. fin' = [fin EXCEPT ![f] = Ocioso]
    BY <1>5 DEF Termina
  <2>3. fin' \in [Finalizadores -> [paso : {"no", "busca", "quita", "libera"},
                                    vistos : SUBSET Hilos,
                                    hilo : Finalizadores]]
    BY <2>2 DEF Ocioso
  <2>4. muertos' \subseteq Procesos
    BY <1>1, <1>5 DEF Termina
  <2>5. \A g \in Finalizadores :
          /\ fin'[g].paso \in {"quita", "libera"} => fin'[g].hilo \in Hilos
          /\ fin'[g].paso # "no" => fin[g].paso # "no" /\ g # f
    BY <2>2 DEF Ocioso
  <2>6. CASE f = Nadie
    BY <1>5, <2>1, <2>3, <2>4, <2>5, <2>6 DEF Termina
  <2>7. CASE f # Nadie
    <3>1. f \in Hilos /\ dump' = [dump EXCEPT ![f] = "fallido"] /\ pcI' = pcI
      BY <1>5, <2>7 DEF Termina
    <3>2. dump' \in [Hilos -> {"no", "espera", "finaliza", "fallido"}]
      BY <3>1
    <3> QED BY <1>5, <2>1, <2>3, <2>4, <2>5, <2>7, <3>1, <3>2 DEF Termina
  <2> QED BY <2>6, <2>7
<1> QED BY <1>2, <1>3, <1>4, <1>5 DEF Finaliza

\* Each step keeps the types.
LEMMA Tipos == Inv /\ Next => TypeOK' /\ Locales'
<1> SUFFICES ASSUME Inv, Next PROVE TypeOK' /\ Locales'
  OBVIOUS
<1>1. ASSUME NEW h \in Hilos, AdmiteHilo0(h) \/ CreaHilo(h) \/ Vuelve(h)
      PROVE  TypeOK' /\ Locales'
  <2>1. PushReady(h)
    BY <1>1 DEF AdmiteHilo0, CreaHilo, Vuelve
  <2>2. avisando' \in Nat
    BY <1>1 DEF AdmiteHilo0, CreaHilo, Vuelve, Inv, TypeOK
  <2>3. en_syscall' = en_syscall \/ en_syscall' = TRUE
    BY <1>1, Zenon DEF AdmiteHilo0, CreaHilo, Vuelve
  <2>4. en_syscall' \in BOOLEAN
    BY <2>3, Zenon DEF Inv, TypeOK
  <2> QED BY <2>1, <2>2, <2>4, TiposPush
<1> USE FIFOAssumption
<1>0. en_syscall \in BOOLEAN /\ caido \in BOOLEAN
  BY Zenon DEF Inv, TypeOK
<1> USE DEF Inv, TypeOK, Locales, cpu, pushers, deP, deI, deD, fines,
            Finalizadores
<1>2. ASSUME NEW h \in Hilos, Despierta(h) PROVE TypeOK' /\ Locales'
  BY <1>0, <1>2 DEF Despierta, Estados
<1>3. CASE Avisa
  <2>1. CASE AvisaListo
    BY <2>1 DEF AvisaListo
  <2>2. CASE AvisaCreado
    <3>1. en_syscall' \in BOOLEAN
      BY <2>2, Zenon DEF AvisaCreado
    <3>2. nuevos_hilos' \in Nat
      BY <2>2 DEF AvisaCreado
    <3> QED BY <2>2, <3>1, <3>2 DEF AvisaCreado
  <2> QED BY <1>3, <2>1, <2>2 DEF Avisa
<1>4. CASE P
  <2> USE DEF PasoP
  <2>1. CASE PEspera
    BY <2>1 DEF PEspera
  <2>2. CASE PEsperaCPU
    BY <2>2 DEF PEsperaCPU
  <2>3. CASE PMira
    BY <2>3 DEF PMira
  <2>4. CASE PSaca
    BY <2>4, SacaDeCola DEF PSaca
  <2>5. CASE PEjecuta
    BY <2>5 DEF PEjecuta, Estados
  <2>6. CASE PCae
    BY <2>6 DEF PCae
  <2>7. CASE PAvisa
    BY <2>7 DEF PAvisa
  <2>8. CASE PDevuelveCPU
    BY <2>8 DEF PDevuelveCPU
  <2> QED BY <1>4, <2>1, <2>2, <2>3, <2>4, <2>5, <2>6, <2>7, <2>8 DEF P
<1>5. CASE I
  <2> USE DEF PasoI
  <2>1. CASE IFinProceso
    <3>0. caido' = (Proceso[hilo_en_ejecucion] \in muertos)
      BY <2>1, Zenon DEF IFinProceso
    <3>1. caido' \in BOOLEAN
      BY <3>0, PerteneceONo, Zenon
    <3>2. fin' = [fin EXCEPT ![Nadie] = BuscaTras({})]
      BY <2>1 DEF IFinProceso
    <3>3. /\ fin' \in [Finalizadores ->
                          [paso : {"no", "busca", "quita", "libera"},
                           vistos : SUBSET Hilos, hilo : Finalizadores]]
          /\ \A g \in Finalizadores :
               /\ fin'[g].paso \in {"quita", "libera"} => fin'[g].hilo \in Hilos
               /\ g # Nadie => fin'[g] = fin[g]
      BY <3>2, TipoDeBuscaTras
    <3> QED BY <2>1, <3>1, <3>3 DEF IFinProceso
  <2>2. CASE IBloqueo
    BY <2>2 DEF IBloqueo
  <2>3. CASE ILimpia
    BY <2>3 DEF ILimpia
  <2>4. CASE IAvisaCPU
    <3>1. bloqueo_por_dump' \in Nat
      BY <2>4 DEF IAvisaCPU
    <3> QED BY <2>4, <3>1 DEF IAvisaCPU, Motivos
  <2>5. CASE Finaliza(Nadie)
    BY <2>5, TiposFin
  <2> QED BY <1>5, <2>1, <2>2, <2>3, <2>4, <2>5 DEF I
<1>6. ASSUME NEW h \in Hilos, D(h) PROVE TypeOK' /\ Locales'
  <2> USE DEF PasoD
  <2>1. CASE DumpBien(h)
    BY <2>1 DEF DumpBien, Estados
  <2>2. CASE DumpMalDelQueEjecuta(h)
    BY <2>2 DEF DumpMalDelQueEjecuta
  <2>3. CASE DumpMal(h)
    <3>0. caido' = (Proceso[h] \in muertos)
      BY <2>3, Zenon DEF DumpMal
    <3>1. caido' \in BOOLEAN
      BY <3>0, PerteneceONo, Zenon
    <3>2. fin' = [fin EXCEPT ![h] = BuscaTras({})]
      BY <2>3 DEF DumpMal
    <3>3. /\ fin' \in [Finalizadores ->
                          [paso : {"no", "busca", "quita", "libera"},
                           vistos : SUBSET Hilos, hilo : Finalizadores]]
          /\ \A g \in Finalizadores :
               /\ fin'[g].paso \in {"quita", "libera"} => fin'[g].hilo \in Hilos
               /\ g # h => fin'[g] = fin[g]
      BY <3>2, TipoDeBuscaTras
    <3>4. dump' \in [Hilos -> {"no", "espera", "finaliza", "fallido"}]
      BY <2>3 DEF DumpMal
    <3>5. bloqueo_por_dump' \in Nat
      BY <2>3 DEF DumpMal
    <3>6. TypeOK'
      BY <2>3, <3>1, <3>3, <3>4, <3>5 DEF DumpMal
    <3>7. dumps_fallan' /\ fin'[Nadie] = fin[Nadie]
      <4>1. dumps_fallan'
        BY <2>3, Zenon DEF DumpMal
      <4> QED BY <3>3, <4>1
    <3>8. UNCHANGED <<pcP, hiloP, pcI, motivo, hilo_en_ejecucion>>
      BY <2>3 DEF DumpMal
    <3>9. Locales'
      BY <3>3, <3>7, <3>8
    <3> QED BY <3>6, <3>9
  <2>4. CASE Finaliza(h)
    BY <2>4, TiposFin
  <2> QED BY <1>6, <2>1, <2>2, <2>3, <2>4 DEF D
<1>7. ASSUME NEW m \in Motivos \ {"ninguno"}, CPUConfirma(m)
      PROVE  TypeOK' /\ Locales'
  <2>1. hilo_en_ejecucion \in Hilos
    BY <1>7 DEF CPUConfirma
  <2>2. estado' \in [Hilos -> Estados]
    BY <1>7, <2>1 DEF CPUConfirma, Estados
  <2>3. dump' \in [Hilos -> {"no", "espera", "finaliza", "fallido"}]
    BY <1>7, <2>1 DEF CPUConfirma
  <2>4. dormidos' \subseteq Hilos
    BY <1>7, <2>1 DEF CPUConfirma
  <2> QED BY <1>7, <2>1, <2>2, <2>3, <2>4 DEF CPUConfirma, Motivos
<1> QED BY <1>1, <1>2, <1>3, <1>4, <1>5, <1>6, <1>7 DEF Next
-----------------------------------------------------------------------------
(* The owner of the CPU.                                                   *)

\* Steps that leave the owner alone.
LEMMA CPUQuieta ==
    ASSUME UnaCPU, UNCHANGED cpu,
           pcP' \in {"mira", "saca", "ejecuta", "devuelve_cpu"}
             <=> pcP \in {"mira", "saca", "ejecuta", "devuelve_cpu"},
           pcI' = "avisa_cpu" <=> pcI = "avisa_cpu"
    PROVE  UnaCPU'
BY DEF UnaCPU, Uno, cpu

\* Each step keeps one owner of the CPU.
LEMMA PasoUnaCPU == Inv /\ Next => UnaCPU'
<1> SUFFICES ASSUME Inv, Next PROVE UnaCPU'
  OBVIOUS
<1>0. UnaCPU /\ Locales /\ TypeOK
  BY DEF Inv
<1>1. ASSUME NEW h \in Hilos,
             AdmiteHilo0(h) \/ CreaHilo(h) \/ Despierta(h) \/ Vuelve(h)
      PROVE  UnaCPU'
  BY <1>0, <1>1, CPUQuieta
  DEF AdmiteHilo0, CreaHilo, Despierta, Vuelve, PushReady, deP, deI
<1>2. CASE Avisa
  BY <1>0, <1>2, CPUQuieta DEF Avisa, AvisaListo, AvisaCreado, deP, deI
<1>3. ASSUME NEW f \in Finalizadores, Finaliza(f) PROVE UnaCPU'
  <2> USE DEF PasoFin, deP
  <2>1. CASE Busca(f)
    BY <1>0, <2>1, CPUQuieta DEF Busca
  <2>2. CASE Quita(f)
    BY <1>0, <2>2, CPUQuieta DEF Quita
  <2>3. CASE Libera(f)
    BY <1>0, <2>3, CPUQuieta DEF Libera
  <2>4. CASE Termina(f)
    <3>1. f = Nadie => pcI = "finaliza" /\ pcI' = "limpia"
      BY <1>0, <2>4 DEF Termina, Locales
    <3>2. f # Nadie => pcI' = pcI
      BY <2>4 DEF Termina
    <3>3. UNCHANGED <<cpu, pcP>>
      BY <2>4 DEF Termina
    <3> QED BY <1>0, <3>1, <3>2, <3>3, CPUQuieta
  <2> QED BY <1>3, <2>1, <2>2, <2>3, <2>4 DEF Finaliza
<1>4. CASE P
  <2> USE DEF PasoP, deI
  <2>1. CASE PEspera \/ PSaca \/ PAvisa \/ PMira
    BY <1>0, <2>1, CPUQuieta DEF PEspera, PSaca, PAvisa, PMira
  <2>2. CASE PEsperaCPU
    BY <1>0, <2>2 DEF PEsperaCPU, UnaCPU, Uno, TypeOK
  <2>3. CASE PEjecuta
    <3>1. hiloP # Nadie
      BY <1>0, <2>3, FIFOAssumption DEF PEjecuta, Locales
    <3>2. hilo_en_ejecucion = Nadie /\ pcI # "avisa_cpu" /\ cpu_libre = 0
      BY <1>0, <2>3 DEF PEjecuta, UnaCPU, Uno, TypeOK
    <3> QED BY <2>3, <3>1, <3>2 DEF PEjecuta, UnaCPU, Uno
  <2>4. CASE PCae
    BY <1>0, <2>4, CPUQuieta DEF PCae, deP
  <2>5. CASE PDevuelveCPU
    BY <1>0, <2>5 DEF PDevuelveCPU, UnaCPU, Uno, TypeOK
  <2> QED BY <1>4, <2>1, <2>2, <2>3, <2>4, <2>5 DEF P
<1>5. CASE I
  <2> USE DEF PasoI, deP
  <2>1. CASE IFinProceso \/ IBloqueo
    BY <1>0, <2>1, CPUQuieta DEF IFinProceso, IBloqueo
  <2>2. CASE ILimpia
    <3>1. hilo_en_ejecucion # Nadie
      BY <1>0, <2>2, FIFOAssumption DEF ILimpia, Locales
    <3> QED BY <1>0, <2>2, <3>1 DEF ILimpia, UnaCPU, Uno, TypeOK
  <2>3. CASE IAvisaCPU
    BY <1>0, <2>3 DEF IAvisaCPU, UnaCPU, Uno, TypeOK
  <2>4. CASE Finaliza(Nadie)
    BY <1>3, <2>4 DEF Finalizadores
  <2> QED BY <1>5, <2>1, <2>2, <2>3, <2>4 DEF I
<1>6. ASSUME NEW h \in Hilos, D(h) PROVE UnaCPU'
  <2>1. CASE DumpBien(h) \/ DumpMalDelQueEjecuta(h) \/ DumpMal(h)
    BY <1>0, <2>1, CPUQuieta
    DEF DumpBien, DumpMalDelQueEjecuta, DumpMal, PasoD, deP, deI
  <2>2. CASE Finaliza(h)
    BY <1>3, <2>2 DEF Finalizadores
  <2> QED BY <1>6, <2>1, <2>2 DEF D
<1>7. ASSUME NEW m \in Motivos \ {"ninguno"}, CPUConfirma(m)
      PROVE  UnaCPU'
  BY <1>0, <1>7, CPUQuieta DEF CPUConfirma, deP
<1> QED BY <1>1, <1>2, <1>4, <1>5, <1>6, <1>7 DEF Next

-----------------------------------------------------------------------------
(* Tokens, and the look before the pop.                                    *)

\* Steps that leave the queue, its tokens and its consumer alone.
LEMMA ColaQuieta ==
    ASSUME FichasCubrenListos, SacaLoQueMiro,
           UNCHANGED <<queue_ready, nuevos_hilos, pushers, dumps_fallan>>,
           pcP' \in {"espera_cpu", "mira", "saca"}
             <=> pcP \in {"espera_cpu", "mira", "saca"},
           pcP' = "saca" => pcP = "saca"
    PROVE  FichasCubrenListos' /\ SacaLoQueMiro'
BY DEF FichasCubrenListos, SacaLoQueMiro, Uno, pushers

\* A thread that is pushed has its token with the one who pushes.
LEMMA ColaCrece ==
    ASSUME Inv, NEW h \in Hilos, PushReady(h),
           \/ avisando' = avisando + 1 /\ en_syscall' = en_syscall
           \/ avisando' = avisando /\ ~en_syscall /\ en_syscall' = TRUE
    PROVE  FichasCubrenListos' /\ SacaLoQueMiro'
<1>1. /\ Len(queue_ready') = Len(queue_ready) + 1 /\ queue_ready' # <<>>
      /\ Len(queue_ready) \in Nat
  BY PoneEnCola DEF Inv, TypeOK, PushReady
<1>2. UNCHANGED <<nuevos_hilos, pcP>>
  BY DEF PushReady, deP
<1>3. Uno(en_syscall') \in 0 .. 1 /\ Uno(en_syscall) \in 0 .. 1
  BY DEF Uno
<1>4. avisando' + Uno(en_syscall') = avisando + Uno(en_syscall) + 1
  BY DEF Uno, Inv, TypeOK
<1>5. FichasCubrenListos'
  <2> DEFINE p == Uno(pcP \in {"espera_cpu", "mira", "saca"})
             a == avisando'
             e == Uno(en_syscall')
             d == Uno(en_syscall)
  <2>1. p \in 0 .. 1 /\ p' = p
    BY <1>2 DEF Uno
  <2>2. nuevos_hilos \in Nat /\ avisando \in Nat /\ a \in Nat
    BY DEF Inv, TypeOK
  <2>3. Len(queue_ready) <= nuevos_hilos + avisando + d + p
    BY DEF Inv, FichasCubrenListos
  <2>4. a + e = avisando + d + 1 /\ e \in 0 .. 1 /\ d \in 0 .. 1
    BY <1>3, <1>4
  <2> HIDE DEF p, a, e, d
  <2>5. Len(queue_ready) + 1 <= nuevos_hilos + a + e + p
    BY <1>1, <2>1, <2>2, <2>3, <2>4
  <2>6. Len(queue_ready') <= nuevos_hilos + a + e + p
    BY <1>1, <2>5
  <2> QED BY <1>2, <2>1, <2>6 DEF FichasCubrenListos, p, a, e
<1> QED BY <1>1, <1>5 DEF SacaLoQueMiro

\* Each step keeps a token for each ready thread, and what P has seen.
LEMMA PasoCola == Inv /\ Next => FichasCubrenListos' /\ SacaLoQueMiro'
<1> SUFFICES ASSUME Inv, Next PROVE FichasCubrenListos' /\ SacaLoQueMiro'
  OBVIOUS
<1>0. FichasCubrenListos /\ SacaLoQueMiro /\ UnaCPU /\ Locales /\ TypeOK
  BY DEF Inv
<1>1. ASSUME NEW h \in Hilos, AdmiteHilo0(h) \/ CreaHilo(h) \/ Vuelve(h)
      PROVE  FichasCubrenListos' /\ SacaLoQueMiro'
  BY <1>1, ColaCrece DEF AdmiteHilo0, CreaHilo, Vuelve
<1>2. ASSUME NEW h \in Hilos, Despierta(h)
      PROVE  FichasCubrenListos' /\ SacaLoQueMiro'
  BY <1>0, <1>2, ColaQuieta DEF Despierta, deP
<1>3. CASE Avisa
  BY <1>0, <1>3
  DEF Avisa, AvisaListo, AvisaCreado, FichasCubrenListos, SacaLoQueMiro, Uno,
      TypeOK, deP
<1>4. ASSUME NEW f \in Finalizadores, Finaliza(f)
      PROVE  FichasCubrenListos' /\ SacaLoQueMiro'
  <2> USE DEF PasoFin, deP
  <2>1. CASE Busca(f) \/ Libera(f) \/ Termina(f)
    BY <1>0, <2>1, ColaQuieta DEF Busca, Libera, Termina
  <2>2. CASE Quita(f)
    <3>1. /\ Len(queue_ready') <= Len(queue_ready)
          /\ queue_ready' \in Seq(Hilos)
      BY <1>0, <2>2, RemueveRotandoTipo DEF Quita, TypeOK
    <3>2. Len(queue_ready) \in Nat /\ Len(queue_ready') \in Nat
      BY <1>0, <3>1, LenProperties DEF TypeOK
    <3>3. UNCHANGED <<nuevos_hilos, avisando, en_syscall, pcP, dumps_fallan>>
      BY <2>2 DEF Quita, pushers
    <3>4. FichasCubrenListos'
      BY <1>0, <3>1, <3>2, <3>3 DEF FichasCubrenListos, Uno, TypeOK
    <3>5. ~dumps_fallan => pcP # "saca"
      <4>1. CASE f = Nadie
        <5>1. hilo_en_ejecucion # Nadie
          BY <1>0, <2>2, <4>1, FIFOAssumption DEF Quita, Locales
        <5> QED BY <1>0, <5>1 DEF UnaCPU, Uno, TypeOK
      <4>2. CASE f \in Hilos
        BY <1>0, <2>2, <4>2, Zenon DEF Quita, Locales
      <4> QED BY <4>1, <4>2 DEF Finalizadores
    <3> QED BY <3>3, <3>4, <3>5 DEF SacaLoQueMiro
  <2> QED BY <1>4, <2>1, <2>2 DEF Finaliza
<1>5. CASE P
  <2> USE DEF PasoP
  <2>1. CASE PEspera
    BY <1>0, <2>1
    DEF PEspera, FichasCubrenListos, SacaLoQueMiro, Uno, TypeOK, pushers
  <2>2. CASE PEsperaCPU \/ PEjecuta \/ PDevuelveCPU
    BY <1>0, <2>2, ColaQuieta DEF PEsperaCPU, PEjecuta, PDevuelveCPU
  <2>3. CASE PMira
    <3>1. Len(queue_ready) \in Nat
          /\ (queue_ready = <<>> => Len(queue_ready) = 0)
      BY <1>0, LenProperties, EmptySeq DEF TypeOK
    <3>2. CASE queue_ready = <<>>
      BY <1>0, <2>3, <3>1, <3>2
      DEF PMira, FichasCubrenListos, SacaLoQueMiro, Uno, TypeOK, pushers
    <3>3. CASE queue_ready # <<>>
      BY <1>0, <2>3, <3>1, <3>3
      DEF PMira, FichasCubrenListos, SacaLoQueMiro, Uno, TypeOK, pushers
    <3> QED BY <3>2, <3>3
  <2>4. CASE PSaca
    <3>1. Len(queue_ready') = Len(queue_ready) - 1 /\ Len(queue_ready) \in Nat
      BY <1>0, <2>4, SacaDeCola DEF PSaca, TypeOK
    <3> QED BY <1>0, <2>4, <3>1
        DEF PSaca, FichasCubrenListos, SacaLoQueMiro, Uno, TypeOK, pushers
  <2>5. CASE PCae
    BY <1>0, <2>5, ColaQuieta DEF PCae, deP
  <2>6. CASE PAvisa
    BY <1>0, <2>6
    DEF PAvisa, FichasCubrenListos, SacaLoQueMiro, Uno, TypeOK, pushers
  <2> QED BY <1>5, <2>1, <2>2, <2>3, <2>4, <2>5, <2>6 DEF P
<1>6. CASE I
  <2>1. CASE IFinProceso \/ IBloqueo \/ ILimpia \/ IAvisaCPU
    BY <1>0, <2>1, ColaQuieta
    DEF IFinProceso, IBloqueo, ILimpia, IAvisaCPU, PasoI, deP
  <2>2. CASE Finaliza(Nadie)
    BY <1>4, <2>2 DEF Finalizadores
  <2> QED BY <1>6, <2>1, <2>2 DEF I
<1>7. ASSUME NEW h \in Hilos, D(h)
      PROVE  FichasCubrenListos' /\ SacaLoQueMiro'
  <2>1. CASE DumpBien(h) \/ DumpMalDelQueEjecuta(h) \/ DumpMal(h)
    BY <1>0, <2>1, ColaQuieta
    DEF DumpBien, DumpMalDelQueEjecuta, DumpMal, PasoD, deP
  <2>2. CASE Finaliza(h)
    BY <1>4, <2>2 DEF Finalizadores
  <2> QED BY <1>7, <2>1, <2>2 DEF D
<1>8. ASSUME NEW m \in Motivos \ {"ninguno"}, CPUConfirma(m)
      PROVE  FichasCubrenListos' /\ SacaLoQueMiro'
  BY <1>0, <1>8, ColaQuieta DEF CPUConfirma, deP
<1> QED BY <1>1, <1>2, <1>3, <1>5, <1>6, <1>7, <1>8 DEF Next

-----------------------------------------------------------------------------
(* The theorems.                                                           *)

\* Stuttering keeps everything.
LEMMA InvQuieta == Inv /\ UNCHANGED vars => Inv'
<1> SUFFICES ASSUME Inv, UNCHANGED vars PROVE Inv'
  OBVIOUS
<1> USE DEF Inv, vars, cpu, pushers, deP, deI, deD, fines
<1>1. TypeOK' /\ Locales'
  BY DEF TypeOK, Locales
<1>2. UnaCPU'
  BY DEF UnaCPU, Uno
<1>3. FichasCubrenListos' /\ SacaLoQueMiro'
  BY DEF FichasCubrenListos, SacaLoQueMiro, Uno
<1> QED BY <1>1, <1>2, <1>3

\* The inductive invariant holds in every state of planificar_fifo_hilos, the
\* reader of interruptions and the dumps.
THEOREM Invariancia == Spec => []Inv
<1>1. Inv /\ [Next]_vars => Inv'
  BY Tipos, PasoUnaCPU, PasoCola, InvQuieta, Zenon DEF Inv
<1> QED BY InvInicial, <1>1, PTL DEF Spec

\* Every variable has its type, and the semaphores are never negative.
THEOREM TipoCorrecto == Spec => []TypeOK
<1>1. Inv => TypeOK
  BY DEF Inv
<1> QED BY Invariancia, <1>1, PTL

\* At most one thread has the CPU or is on its way to it, whatever dumps fail.
THEOREM UnDuenioDeLaCPU == Spec => []UnaCPU
<1>1. Inv => UnaCPU
  BY DEF Inv
<1> QED BY Invariancia, <1>1, PTL

\* No ready thread is without a token that wakes planificar_fifo_hilos up.
THEOREM NingunListoSinFicha == Spec => []FichasCubrenListos
<1>1. Inv => FichasCubrenListos
  BY DEF Inv
<1> QED BY Invariancia, <1>1, PTL

\* planificar_fifo_hilos pops what it saw, if dumps do not fail.
THEOREM SacaUnListo == Spec => []SacaLoQueMiro
<1>1. Inv => SacaLoQueMiro
  BY DEF Inv
<1> QED BY Invariancia, <1>1, PTL
-----------------------------------------------------------------------------
(* The refinement of ColaDeListos.                                         *)

\* A step that the abstract queue does not see, or the fall of the kernel.
LEMMA NoTocaLaCola ==
    ASSUME Inv, ~caido, caido' \in BOOLEAN,
           UNCHANGED <<queue_ready, pcP, hiloP, hilo_en_ejecucion>>
    PROVE  [Cola!Next]_(Cola!vars)
<1>1. CASE caido' = TRUE
  BY <1>1 DEF Cola!Next, Cola!Cae
<1>2. CASE caido' = FALSE
  <2>1. caido = FALSE
    BY Zenon DEF Inv, TypeOK
  <2> QED BY <1>2, <2>1 DEF Cola!vars
<1> QED BY <1>1, <1>2

\* A push is an arrival.
LEMMA PushLlega ==
    ASSUME NEW h \in Hilos, PushReady(h)
    PROVE  Cola!Next
<1>1. Cola!Llega(h) /\ ~caido /\ UNCHANGED caido
  BY DEF PushReady, cpu, deP, Cola!Llega
<1> QED BY <1>1 DEF Cola!Next, Cola!Trabaja

\* remover_hilo is an abstract pruning.
LEMMA QuitaPoda ==
    ASSUME Inv, NEW f \in Finalizadores, Quita(f)
    PROVE  Cola!Next
<1> DEFINE h == fin[f].hilo
           S == IF h \in liberados THEN {}
                ELSE {g \in Hilos \ liberados : Tid[g] = Tid[h]}
           k == Vueltas(queue_ready, S)
<1>1. h \in Hilos
  BY DEF Inv, Locales, Quita, PasoFin
<1>2. queue_ready' = RemueveRotando(queue_ready, S)
  BY Zenon DEF Quita
<1>3. k \in 0 .. Len(queue_ready)
  BY VueltasTipo DEF Inv, TypeOK
<1>4. S \in SUBSET {g \in Hilos : Tid[g] = Tid[h]}
  OBVIOUS
<1>5. UNCHANGED <<pcP, hiloP, hilo_en_ejecucion, caido>> /\ ~caido
  BY DEF Quita, PasoFin, cpu, deP
<1> HIDE DEF h, S
<1>6. queue_ready' = SubSeq(queue_ready, k + 1, Len(queue_ready))
                       \o Quedan(SubSeq(queue_ready, 1, k), S)
  BY <1>2 DEF RemueveRotando
<1> HIDE DEF k
<1>7. \E n \in 0 .. Len(queue_ready),
         T \in SUBSET {g \in Hilos : Tid[g] = Tid[h]} :
           queue_ready' = SubSeq(queue_ready, n + 1, Len(queue_ready))
                            \o Cola!Quedan(SubSeq(queue_ready, 1, n), T)
  <2>1. Cola!Quedan(SubSeq(queue_ready, 1, k), S)
          = Quedan(SubSeq(queue_ready, 1, k), S)
    BY Zenon DEF Cola!Quedan, Quedan, Cola!Conserva, Conserva,
                 Cola!Cardinality, Cardinality
  <2>2. queue_ready' = SubSeq(queue_ready, k + 1, Len(queue_ready))
                         \o Cola!Quedan(SubSeq(queue_ready, 1, k), S)
    BY <1>6, <2>1, Zenon
  <2> QED BY <1>3, <1>4, <2>2, Zenon
<1>8. Cola!Poda(h)
  BY <1>5, <1>7, Zenon DEF Cola!Poda
<1> QED BY <1>1, <1>5, <1>8 DEF Cola!Next, Cola!Trabaja

\* A step of P, of I, of a dump or of a pusher is a step of the abstract
\* queue, or leaves what it shows as it was.
LEMMA PasoDeCola == Inv /\ [Next]_vars => [Cola!Next]_(Cola!vars)
<1> SUFFICES ASSUME Inv, [Next]_vars PROVE [Cola!Next]_(Cola!vars)
  OBVIOUS
<1>0. UnaCPU /\ Locales /\ TypeOK /\ Inv'
  BY Tipos, PasoUnaCPU, PasoCola, InvQuieta, Zenon DEF Inv
<1>a. caido' \in BOOLEAN
  BY <1>0, Zenon DEF Inv, TypeOK
<1>1. ASSUME NEW h \in Hilos, AdmiteHilo0(h) \/ CreaHilo(h) \/ Vuelve(h)
      PROVE  Cola!Next
  BY <1>1, PushLlega DEF AdmiteHilo0, CreaHilo, Vuelve
<1>2. CASE Avisa \/ \E h \in Hilos : Despierta(h)
  BY <1>2 DEF Avisa, AvisaListo, AvisaCreado, Despierta, cpu, deP, Cola!vars
<1>3. ASSUME NEW f \in Finalizadores, Finaliza(f)
      PROVE  [Cola!Next]_(Cola!vars)
  <2>1. CASE Quita(f)
    BY <2>1, QuitaPoda
  <2>2. CASE Busca(f) \/ Libera(f) \/ Termina(f)
    BY <1>a, <2>2, NoTocaLaCola DEF Busca, Libera, Termina, PasoFin, cpu, deP
  <2> QED BY <1>3, <2>1, <2>2 DEF Finaliza
<1>4. CASE P
  <2> USE DEF PasoP, Cola!vars
  <2>1. CASE PEspera \/ PEsperaCPU \/ PMira \/ PAvisa \/ PDevuelveCPU
    BY <2>1 DEF PEspera, PEsperaCPU, PMira, PAvisa, PDevuelveCPU, cpu
  <2>2. CASE PSaca
    <3>1. hilo_en_ejecucion = Nadie
      BY <1>0, <2>2 DEF PSaca, UnaCPU, Uno, TypeOK
    <3>2. Cola!Despacha /\ ~caido /\ UNCHANGED caido
      BY <2>2, <3>1 DEF PSaca, Cola!Despacha
    <3> QED BY <3>2 DEF Cola!Next, Cola!Trabaja
  <2>3. CASE PEjecuta
    BY <2>3 DEF PEjecuta
  <2>4. CASE PCae
    BY <2>4 DEF PCae, Cola!Next, Cola!Cae, cpu, deP
  <2> QED BY <1>4, <2>1, <2>2, <2>3, <2>4 DEF P
<1>5. CASE I
  <2> USE DEF PasoI, deP
  <2>1. CASE IFinProceso \/ IBloqueo \/ IAvisaCPU
    BY <1>a, <2>1, NoTocaLaCola DEF IFinProceso, IBloqueo, IAvisaCPU, cpu
  <2>2. CASE ILimpia
    <3>1. hilo_en_ejecucion # Nadie
      BY <1>0, <2>2, FIFOAssumption DEF ILimpia, Locales
    <3>2. pcP # "ejecuta"
      BY <1>0, <3>1 DEF UnaCPU, Uno, TypeOK
    <3>3. Cola!Deja /\ ~caido /\ UNCHANGED caido
      BY <2>2, <3>1, <3>2 DEF ILimpia, Cola!Deja
    <3> QED BY <3>3 DEF Cola!Next, Cola!Trabaja
  <2>3. CASE Finaliza(Nadie)
    BY <1>3, <2>3 DEF Finalizadores
  <2> QED BY <1>5, <2>1, <2>2, <2>3 DEF I
<1>6. ASSUME NEW h \in Hilos, D(h) PROVE [Cola!Next]_(Cola!vars)
  <2>1. CASE DumpBien(h) \/ DumpMalDelQueEjecuta(h) \/ DumpMal(h)
    BY <1>a, <2>1, NoTocaLaCola
    DEF DumpBien, DumpMalDelQueEjecuta, DumpMal, PasoD, cpu, deP
  <2>2. CASE Finaliza(h)
    BY <1>3, <2>2 DEF Finalizadores
  <2> QED BY <1>6, <2>1, <2>2 DEF D
<1>7. ASSUME NEW m \in Motivos \ {"ninguno"}, CPUConfirma(m)
      PROVE  UNCHANGED Cola!vars
  BY <1>7 DEF CPUConfirma, cpu, deP, Cola!vars
<1>8. CASE UNCHANGED vars
  BY <1>8 DEF vars, cpu, deP, Cola!vars
<1> QED BY <1>1, <1>2, <1>3, <1>4, <1>5, <1>6, <1>7, <1>8 DEF Next

\* The FIFO planner implements the queue of ready threads: the CPU takes the
\* oldest one, and only when it has none, through any dumps and ends of
\* processes and until the kernel falls.
THEOREM ImplementaCola == Spec => CumpleCola
<1>1. Init => Cola!Init
  BY DEF Init, Cola!Init
<1> QED BY <1>1, Invariancia, PasoDeCola, PTL DEF Spec, CumpleCola, Cola!Spec
=============================================================================
