---------------------------- MODULE SocketsPruebas ----------------------------
(***************************************************************************)
(* Proofs about what goes through the sockets.                             *)
(* Of ProtocoloCPU, for any threads, syscalls, quanta and bounds: the      *)
(* types, the token of sem_en_syscall, one confirmation for each dispatch, *)
(* the agreement of CPU and kernel on the thread that executes, the order  *)
(* of what shares the dispatch socket, and that only the notice of the     *)
(* quantum ever finds no thread on the CPU. They need two things of the    *)
(* programs and of memoria: that nobody unlocks a mutex that does not      *)
(* exist, since the CPU does not expect that to block, and that no dump    *)
(* fails while a thread executes, since the end of the process is then     *)
(* asked for with no syscall under way.                                    *)
(* Of Mensajes, for texts of any length and however TCP cuts the streams:  *)
(* no answer of memoria or filesystem is left for another request, and the *)
(* kernel hears of a dump what became of its file. They need nothing.      *)
(***************************************************************************)
EXTENDS ProtocoloCPU, Mensajes, FiniteSetTheorems, FunctionTheorems,
        SequenceTheorems, TLAPS

-----------------------------------------------------------------------------
(* ProtocoloCPU. What the proofs need of the programs and of memoria.      *)

Supuestos == DumpsFallan # "si" /\ "unlock_inexistente" \notin SyscallsUsadas

-----------------------------------------------------------------------------
(* The inductive invariant.                                                *)

\* The answers to syscalls; a segmentation fault is no answer.
Respuesta == Bloqueantes \cup {"sigue"}

\* Only what was sent travels.
Mensajeria ==
    /\ interrupcion \in Seq(Respuesta \cup {"quantum"})
    /\ interrupcion_syscall \in Respuesta

\* S answers while the CPU waits for it, and never otherwise. On dispatch
\* there is one thread, one OK, or nothing.
PideYEspera ==
    \/ /\ pcCPU \notin {"marca", "espera_ok"}
       /\ pedido = <<>> /\ pcS = "espera"
       /\ \/ despacho = <<>>
          \/ despacho = <<hilo_en_ejecucion>> /\ hilo_en_ejecucion \in Hilos
    \/ /\ pcCPU \in {"marca", "espera_ok"}
       /\ pedido = <<>> /\ pcS = "espera" /\ despacho = <<"OK">>
    \/ /\ pcCPU \in {"marca", "espera_ok"}
       /\ \E s \in SyscallsUsadas :
            /\ pedido = <<s>>
            /\ pcCPU = "marca" => s \in Marcadas
            /\ pcCPU = "espera_ok" => (hay_syscall_bloqueante <=> s \in Marcadas)
       /\ despacho = <<>>

\* S has a syscall that the CPU expects to be answered on the interrupt socket.
SinResponder ==
    pedido # <<>> /\ pcS # "confirma" /\ pedido[1] \in Marcadas

\* The CPU is going to wait for that answer.
AvisoEsperado ==
    \/ pcCPU \in {"marca", "espera_aviso"}
    \/ pcCPU \in {"espera_ok", "chequea"} /\ hay_syscall_bloqueante

\* There is an answer, sent or owed, exactly when the CPU waits for one.
UnAviso ==
    /\ Veces(Respuesta, interrupcion) + llego + Uno(SinResponder)
           = Uno(AvisoEsperado)
    /\ hay_syscall_bloqueante =>
           pcCPU \in {"marca", "espera_ok", "chequea", "espera_aviso",
                      "confirma", "confirma_sigue", "baja_syscall"}
    /\ pcCPU = "confirma" => interrupcion_syscall \in Bloqueantes
    /\ pcCPU = "confirma_sigue" => interrupcion_syscall = "sigue"

\* The token of sem_en_syscall. A timer takes it alone.
Comparan == {h \in Hilos : comparando[h] > 0}

UnaFicha ==
    /\ IsFiniteSet(Comparan)
    /\ \A h \in Hilos : comparando[h] <= 1
    /\ sem_en_syscall + Cardinality(Comparan) + Uno(pcS = "atiende")
           + BloqueosEnCurso = 1

\* The instruction cycle has a thread.
ConHilo ==
    pcCPU \notin {"recibe", "baja_segfault", "baja_interrupcion", "suelta"}

\* The thread that executes is on its way to the CPU, in it, or confirmed.
UnHilo ==
    /\ cpu_libre + Uno(hilo_en_ejecucion # Nadie) = 1
    /\ Uno(hilo_en_ejecucion # Nadie)
           = Veces(Hilos, despacho) + Veces(Liberan, confirmacion)
             + Uno(ConHilo)
    /\ ConHilo => hilo_ejecutar = hilo_en_ejecucion

\* The reasons that take the thread out of EXEC before it leaves the CPU.
Sacan == {"bloqueo", "dump"}

\* Answers of the kinds M that I has not seen confirmed yet: BloqueosEnCurso
\* is EnCurso(Bloqueantes).
EnCurso(M) ==
    Veces(M, interrupcion) + Veces(M, confirmacion)
    + (IF interrupcion_syscall \in M THEN llego + Uno(pcCPU = "confirma")
                                     ELSE 0)

\* It is in EXEC unless its syscall has taken it out, and whose dump is under
\* way is blocked.
EnExec ==
    /\ hilo_en_ejecucion # Nadie /\ EnCurso(Sacan) = 0
           => estado[hilo_en_ejecucion] = "exec"
    /\ \A h \in dumps : estado[h] = "bloqueado"

Inv ==
    /\ TypeOK /\ Mensajeria /\ PideYEspera /\ UnAviso /\ UnaFicha /\ UnHilo
    /\ EnExec

-----------------------------------------------------------------------------
(* How many messages of a kind a socket has.                               *)

\* Counts are natural numbers, and a larger set of kinds counts more.
LEMMA VecesNatural ==
    ASSUME NEW T, NEW q \in Seq(T), NEW M, NEW L, M \subseteq L
    PROVE  /\ Veces(M, q) \in Nat /\ Veces(L, q) \in Nat
           /\ Veces(M, q) <= Veces(L, q)
           /\ IsFiniteSet({i \in 1 .. Len(q) : q[i] \in M})
<1> DEFINE Pos(K) == {i \in 1 .. Len(q) : q[i] \in K}
<1>1. Len(q) \in Nat
  BY LenProperties
<1>2. IsFiniteSet(1 .. Len(q))
  BY <1>1, FS_Interval
<1>3. IsFiniteSet(Pos(M)) /\ IsFiniteSet(Pos(L))
  BY <1>2, FS_Subset, Zenon
<1>4. Pos(M) \subseteq Pos(L)
  OBVIOUS
<1>5. Cardinality(Pos(M)) <= Cardinality(Pos(L))
  BY <1>3, <1>4, FS_Subset, Zenon
<1>6. Cardinality(Pos(M)) \in Nat /\ Cardinality(Pos(L)) \in Nat
  BY <1>3, FS_CardinalityType, Zenon
<1> QED BY <1>3, <1>5, <1>6 DEF Veces

\* An empty socket has none.
LEMMA VecesVacia == ASSUME NEW M PROVE Veces(M, <<>>) = 0
<1>1. {i \in 1 .. Len(<<>>) : <<>>[i] \in M} = {}
  BY EmptySeq
<1> QED BY <1>1, FS_EmptySet DEF Veces

\* Sending a message.
LEMMA VecesAppend ==
    ASSUME NEW T, NEW q \in Seq(T), NEW x \in T, NEW M
    PROVE  Veces(M, Append(q, x)) = Veces(M, q) + Uno(x \in M)
<1> DEFINE r == Append(q, x)
           Pos == {i \in 1 .. Len(q) : q[i] \in M}
           Q == {i \in 1 .. Len(r) : r[i] \in M}
<1>1. /\ Len(q) \in Nat /\ Len(r) = Len(q) + 1
      /\ \A i \in 1 .. Len(q) : r[i] = q[i]
      /\ r[Len(q) + 1] = x
  BY AppendProperties, LenProperties
<1>2. IsFiniteSet(Pos) /\ Cardinality(Pos) \in Nat
  BY VecesNatural DEF Veces
<1>3. Q = IF x \in M THEN Pos \cup {Len(q) + 1} ELSE Pos
  <2> HIDE DEF r
  <2> QED BY <1>1
<1>4. Len(q) + 1 \notin Pos
  BY <1>1
<1> HIDE DEF Pos, Q
<1>5. Cardinality(Q) = Cardinality(Pos) + Uno(x \in M)
  <2>1. Cardinality(Pos \cup {Len(q) + 1}) = Cardinality(Pos) + 1
    BY <1>2, <1>4, FS_AddElement, Zenon
  <2>2. CASE x \in M
    BY <1>2, <1>3, <2>1, <2>2 DEF Uno
  <2>3. CASE x \notin M
    BY <1>2, <1>3, <2>3 DEF Uno
  <2> QED BY <2>2, <2>3
<1> QED BY <1>5 DEF Veces, Pos, Q

\* Reading the first one.
LEMMA VecesTail ==
    ASSUME NEW T, NEW q \in Seq(T), q # <<>>, NEW M
    PROVE  /\ q[1] \in T /\ Tail(q) \in Seq(T)
           /\ Veces(M, q) = Uno(q[1] \in M) + Veces(M, Tail(q))
<1> DEFINE r == Tail(q)
           Pos == {i \in 1 .. Len(q) : q[i] \in M}
           Q == {i \in 1 .. Len(r) : r[i] \in M}
           R == {i \in 2 .. Len(q) : q[i] \in M}
<1>1. /\ q[1] \in T /\ r \in Seq(T) /\ Len(q) \in Nat \ {0}
      /\ Len(r) = Len(q) - 1
      /\ \A i \in 1 .. Len(r) : r[i] = q[i + 1]
  BY HeadTailProperties, LenProperties, EmptySeq
<1> HIDE DEF r
<1>2. /\ IsFiniteSet(Pos) /\ Cardinality(Pos) \in Nat
      /\ IsFiniteSet(Q) /\ Cardinality(Q) \in Nat
  BY <1>1, VecesNatural DEF Veces
<1> DEFINE f == [i \in Q |-> i + 1]
<1>3. f \in Bijection(Q, R)
  <2>1. \A i \in Q : f[i] \in R
    BY <1>1
  <2>2. \A i, j \in Q : f[i] = f[j] => i = j
    BY <1>1
  <2>3. \A k \in R : k - 1 \in Q /\ f[k - 1] = k
    BY <1>1
  <2> HIDE DEF Q, R, f
  <2>4. f \in [Q -> R]
    BY <2>1 DEF f
  <2>5. \A k \in R : \E i \in Q : f[i] = k
    BY <2>3
  <2> QED BY <2>2, <2>4, <2>5, Fun_IsBij
<1>4. IsFiniteSet(R) /\ Cardinality(R) = Cardinality(Q)
  BY <1>2, <1>3, FS_Bijection, ZenonT(30) DEF ExistsBijection
<1>5. Pos = (IF q[1] \in M THEN R \cup {1} ELSE R) /\ 1 \notin R
  BY <1>1
<1> HIDE DEF Pos, Q, R
<1>6. Cardinality(Pos) = Cardinality(Q) + Uno(q[1] \in M)
  <2>1. Cardinality(R \cup {1}) = Cardinality(R) + 1
    BY <1>4, <1>5, FS_AddElement, Zenon
  <2>2. CASE q[1] \in M
    BY <1>2, <1>4, <1>5, <2>1, <2>2 DEF Uno
  <2>3. CASE q[1] \notin M
    BY <1>2, <1>4, <1>5, <2>3 DEF Uno
  <2> QED BY <2>2, <2>3
<1>7. Veces(M, q) = Cardinality(Pos) /\ Veces(M, r) = Cardinality(Q)
  BY DEF Veces, Pos, Q
<1>8. Uno(q[1] \in M) \in Nat
  BY DEF Uno
<1> QED BY <1>1, <1>2, <1>6, <1>7, <1>8 DEF r

\* A socket that has one message, and one whose messages are of some kinds.
LEMMA VecesUnitaria == ASSUME NEW x, NEW M PROVE Veces(M, <<x>>) = Uno(x \in M)
<1>1. <<>> \in Seq({x}) /\ Append(<<>>, x) = <<x>>
  BY EmptySeq
<1>2. Veces(M, <<x>>) = Veces(M, <<>>) + Uno(x \in M)
  BY <1>1, VecesAppend
<1>3. Uno(x \in M) \in Nat
  BY DEF Uno
<1> QED BY <1>2, <1>3, VecesVacia

\* Two sets with the same kinds of those that a socket carries count the same.
LEMMA VecesIgual ==
    ASSUME NEW T, NEW q \in Seq(T), NEW M, NEW L,
           \A x \in T : x \in M <=> x \in L
    PROVE  Veces(M, q) = Veces(L, q)
<1>1. \A i \in 1 .. Len(q) : q[i] \in T
  BY ElementOfSeq
<1>2. {i \in 1 .. Len(q) : q[i] \in M} = {i \in 1 .. Len(q) : q[i] \in L}
  BY <1>1
<1> QED BY <1>2 DEF Veces

-----------------------------------------------------------------------------
(* The kinds of messages.                                                  *)

\* Which kinds each reason is of.
LEMMA Clases ==
    /\ \A m \in {"bloqueo", "dump"} :
         /\ m \in Sacan /\ m \in Bloqueantes /\ m \in Respuesta
         /\ m \in Liberan /\ m \in Motivos
    /\ /\ "fin_proceso" \notin Sacan /\ "fin_proceso" \in Bloqueantes
       /\ "fin_proceso" \in Respuesta /\ "fin_proceso" \in Liberan
       /\ "fin_proceso" \in Motivos
    /\ /\ "sigue" \notin Sacan /\ "sigue" \notin Bloqueantes
       /\ "sigue" \in Respuesta /\ "sigue" \notin Liberan /\ "sigue" \in Motivos
    /\ \A m \in {"quantum", "segfault"} :
         /\ m \notin Sacan /\ m \notin Bloqueantes /\ m \notin Respuesta
         /\ m \in Liberan /\ m \in Motivos
    /\ Sacan \subseteq Bloqueantes /\ Bloqueantes \subseteq Liberan
    /\ Bloqueantes \subseteq Respuesta /\ Respuesta \subseteq Motivos
BY DEF Sacan, Bloqueantes, Respuesta, Liberan, Motivos

\* The kernel answers on the interrupt socket only what the CPU expects to
\* block; the answers that block it take the thread out of EXEC, or leave that
\* to the end of the process.
LEMMA RespuestasEsperadas ==
    ASSUME Supuestos, ProtocoloAssumption, NEW s \in SyscallsUsadas,
           NEW r \in Respuestas(s)
    PROVE  /\ s \in Marcadas
           /\ \/ r[1] = "sigue" /\ r[2] = "exec"
              \/ r[1] = "fin_proceso" /\ r[2] = "exec"
              \/ r[1] = "bloqueo" /\ r[2] \in {"bloqueado", "exit"}
              \/ r[1] = "dump" /\ r[2] = "bloqueado"
BY DEF Supuestos, ProtocoloAssumption, TiposSyscall, Marcadas, Respuestas

\* What is counted, what sending adds and what reading takes.
LEMMA Cuentas ==
    ASSUME TypeOK, Mensajeria
    PROVE  /\ Veces(Hilos, despacho) \in Nat
           /\ \A M : /\ Veces(M, interrupcion) \in Nat
                     /\ Veces(M, confirmacion) \in Nat
           /\ \A M : \A x \in Respuesta \cup {"quantum"} :
                Veces(M, Append(interrupcion, x))
                    = Veces(M, interrupcion) + Uno(x \in M)
           /\ \A M : \A x \in Motivos :
                Veces(M, Append(confirmacion, x))
                    = Veces(M, confirmacion) + Uno(x \in M)
           /\ interrupcion # <<>> =>
                /\ interrupcion[1] \in Respuesta \cup {"quantum"}
                /\ Tail(interrupcion) \in Seq(Respuesta \cup {"quantum"})
                /\ \A M : /\ Veces(M, Tail(interrupcion)) \in Nat
                          /\ Veces(M, interrupcion)
                                 = Uno(interrupcion[1] \in M)
                                   + Veces(M, Tail(interrupcion))
           /\ confirmacion # <<>> =>
                /\ confirmacion[1] \in Motivos
                /\ Tail(confirmacion) \in Seq(Motivos)
                /\ \A M : /\ Veces(M, Tail(confirmacion)) \in Nat
                          /\ Veces(M, confirmacion)
                                 = Uno(confirmacion[1] \in M)
                                   + Veces(M, Tail(confirmacion))
<1>1. /\ despacho \in Seq(Hilos \cup {"OK"}) /\ confirmacion \in Seq(Motivos)
      /\ interrupcion \in Seq(Respuesta \cup {"quantum"})
  BY DEF TypeOK, Mensajeria
<1>2. Veces(Hilos, despacho) \in Nat
  BY <1>1, VecesNatural
<1>3. \A M : Veces(M, interrupcion) \in Nat /\ Veces(M, confirmacion) \in Nat
  BY <1>1, VecesNatural
<1>4. \A M : \A x \in Respuesta \cup {"quantum"} :
        Veces(M, Append(interrupcion, x)) = Veces(M, interrupcion) + Uno(x \in M)
  BY <1>1, VecesAppend
<1>5. \A M : \A x \in Motivos :
        Veces(M, Append(confirmacion, x)) = Veces(M, confirmacion) + Uno(x \in M)
  BY <1>1, VecesAppend
<1>6. ASSUME interrupcion # <<>>
      PROVE  /\ interrupcion[1] \in Respuesta \cup {"quantum"}
             /\ Tail(interrupcion) \in Seq(Respuesta \cup {"quantum"})
             /\ \A M : /\ Veces(M, Tail(interrupcion)) \in Nat
                       /\ Veces(M, interrupcion)
                              = Uno(interrupcion[1] \in M)
                                + Veces(M, Tail(interrupcion))
  <2>1. /\ interrupcion[1] \in Respuesta \cup {"quantum"}
        /\ Tail(interrupcion) \in Seq(Respuesta \cup {"quantum"})
        /\ \A M : Veces(M, interrupcion) = Uno(interrupcion[1] \in M)
                                           + Veces(M, Tail(interrupcion))
    BY <1>1, <1>6, VecesTail
  <2>2. \A M : Veces(M, Tail(interrupcion)) \in Nat
    BY <2>1, VecesNatural
  <2> QED BY <2>1, <2>2, Zenon
<1>7. ASSUME confirmacion # <<>>
      PROVE  /\ confirmacion[1] \in Motivos
             /\ Tail(confirmacion) \in Seq(Motivos)
             /\ \A M : /\ Veces(M, Tail(confirmacion)) \in Nat
                       /\ Veces(M, confirmacion)
                              = Uno(confirmacion[1] \in M)
                                + Veces(M, Tail(confirmacion))
  <2>1. /\ confirmacion[1] \in Motivos
        /\ Tail(confirmacion) \in Seq(Motivos)
        /\ \A M : Veces(M, confirmacion) = Uno(confirmacion[1] \in M)
                                           + Veces(M, Tail(confirmacion))
    BY <1>1, <1>7, VecesTail
  <2>2. \A M : Veces(M, Tail(confirmacion)) \in Nat
    BY <2>1, VecesNatural
  <2> QED BY <2>1, <2>2, Zenon
<1> QED BY <1>2, <1>3, <1>4, <1>5, <1>6, <1>7, Zenon

-----------------------------------------------------------------------------
(* Types.                                                                  *)

\* What S has when it answers.
LEMMA SPide ==
    ASSUME Inv, pcS # "espera"
    PROVE  /\ pcCPU \in {"marca", "espera_ok"} /\ despacho = <<>>
           /\ pedido # <<>> /\ Tail(pedido) = <<>>
           /\ pedido[1] \in SyscallsUsadas
           /\ pedido = <<pedido[1]>>
           /\ pcCPU = "marca" => pedido[1] \in Marcadas
           /\ pcCPU = "espera_ok" =>
                  (hay_syscall_bloqueante <=> pedido[1] \in Marcadas)
<1>1. PICK s \in SyscallsUsadas :
        /\ pcCPU \in {"marca", "espera_ok"} /\ despacho = <<>>
        /\ pedido = <<s>>
        /\ pcCPU = "marca" => s \in Marcadas
        /\ pcCPU = "espera_ok" => (hay_syscall_bloqueante <=> s \in Marcadas)
  BY DEF Inv, PideYEspera
<1>2. pedido[1] = s /\ pedido # <<>> /\ Tail(pedido) = <<>>
  BY <1>1
<1> QED BY <1>1, <1>2

\* Each step keeps the types, and what travels is what was sent.
LEMMA PasoDeTipos ==
    ASSUME Supuestos, ProtocoloAssumption, Inv, [Next]_vars
    PROVE  TypeOK' /\ Mensajeria'
<1> USE DEF TypeOK, Mensajeria
<1>a. TypeOK /\ Mensajeria
  BY DEF Inv
<1>b. /\ Nadie \notin Hilos /\ SyscallsUsadas \subseteq TiposSyscall
      /\ {"bloqueado", "listo", "exit", "exec"} \subseteq Estados
  BY DEF ProtocoloAssumption, Estados
<1>1. ASSUME NEW h \in Hilos, PEjecuta(h)
      PROVE  TypeOK' /\ Mensajeria'
  BY <1>a, <1>b, <1>1 DEF PEjecuta, deDump, deCPU, banderas
<1>2. CASE PTemporizador
  BY <1>a, <1>b, <1>2, SMTT(30) DEF PTemporizador, sockets, turno, deDump, deCPU, banderas
<1>3. ASSUME NEW h \in Hilos, TDespierta(h)
      PROVE  TypeOK' /\ Mensajeria'
  <2>1. dormidos[h] \in Nat \ {0} /\ comparando[h] \in Nat
        /\ sem_en_syscall \in Nat \ {0}
    BY <1>a, <1>3, SMTT(30) DEF TDespierta
  <2>2. /\ dormidos' \in [Hilos -> Nat] /\ comparando' \in [Hilos -> Nat]
        /\ sem_en_syscall' \in Nat
    <3>1. dormidos[h] - 1 \in Nat /\ comparando[h] + 1 \in Nat
          /\ sem_en_syscall - 1 \in Nat
      BY <2>1
    <3>2. /\ dormidos' = [dormidos EXCEPT ![h] = dormidos[h] - 1]
          /\ comparando' = [comparando EXCEPT ![h] = comparando[h] + 1]
          /\ sem_en_syscall' = sem_en_syscall - 1
      BY <1>3 DEF TDespierta
    <3> QED BY <1>a, <3>1, <3>2
  <2> QED BY <1>a, <1>3, <2>2
      DEF TDespierta, sockets, turno, deDump, deCPU, banderas
<1>4. ASSUME NEW h \in Hilos, TCompara(h)
      PROVE  TypeOK' /\ Mensajeria'
  <2>1. comparando[h] \in Nat \ {0}
    BY <1>a, <1>4 DEF TCompara
  <2>2. comparando' \in [Hilos -> Nat] /\ sem_en_syscall' \in Nat
        /\ hilo_interrumpido' \in Nat
    BY <1>a, <1>4, <2>1 DEF TCompara
  <2> QED BY <1>a, <1>4, <2>2
      DEF TCompara, sockets, turno, deDump, deCPU, banderas
<1>5. CASE QInforma
  <2>1. "quantum" \in Motivos
    BY Clases
  <2>2. /\ Append(interrupcion, "quantum") \in Seq(Motivos)
        /\ Append(interrupcion, "quantum") \in Seq(Respuesta \cup {"quantum"})
    BY <1>a, <2>1, AppendProperties
  <2>3. /\ interrupcion' \in Seq(Motivos) /\ caido' \in BOOLEAN
        /\ interrupcion' \in Seq(Respuesta \cup {"quantum"})
    BY <1>a, <1>5, <2>2 DEF QInforma
  <2>4. hilo_interrumpido' \in Nat
    BY <1>a, <1>5 DEF QInforma
  <2> QED BY <1>a, <1>5, <2>3, <2>4
      DEF QInforma, turno, deDump, deCPU, banderas
<1>6. CASE SEspera
  BY <1>a, <1>6 DEF SEspera, sockets, turno, quantum, deDump, deCPU, banderas
<1>7. CASE SAtiende
  <2>1. PICK r \in Respuestas(pedido[1]) :
          /\ interrupcion' = Append(interrupcion, r[1])
          /\ estado' = [estado EXCEPT ![hilo_en_ejecucion] = r[2]]
          /\ sem_en_syscall' = IF r[1] = "sigue" THEN sem_en_syscall + 1
                                                 ELSE sem_en_syscall
          /\ dumps' = IF r[1] = "dump"
                       THEN dumps \cup ({hilo_en_ejecucion} \ {Nadie})
                       ELSE dumps
    BY <1>7, Zenon DEF SAtiende
  <2>2. r[1] \in Respuesta /\ r[2] \in Estados
    <3>1. pedido[1] \in SyscallsUsadas
      BY <1>7, SPide DEF SAtiende
    <3> QED BY <3>1, <1>b, RespuestasEsperadas, Clases
  <2>3. r[1] \in Motivos
    BY <2>2, Clases
  <2>4. interrupcion' \in Seq(Respuesta \cup {"quantum"})
        /\ interrupcion' \in Seq(Motivos)
    BY <1>a, <2>1, <2>2, <2>3
  <2>5. estado' \in [Hilos -> Estados]
    BY <1>a, <2>1, <2>2
  <2> QED BY <1>a, <1>7, <2>1, <2>4, <2>5, SMTT(30)
      DEF SAtiende, quantum, deCPU, banderas
<1>8. CASE SCrea
  <2>1. estado' \in [Hilos -> Estados]
    BY <1>a, <1>b, <1>8 DEF SCrea
  <2> QED BY <1>a, <1>8, <2>1
      DEF SCrea, sockets, quantum, deDump, deCPU, banderas
<1>9. CASE SConfirma
  <2>1. Tail(pedido) = <<>>
    BY <1>9, SPide DEF SConfirma
  <2>2. pedido' \in Seq(TiposSyscall) /\ despacho' \in Seq(Hilos \cup {"OK"})
    <3>1. pedido' = <<>> /\ despacho' = Append(despacho, "OK")
      BY <1>9, <2>1 DEF SConfirma
    <3> QED BY <1>a, <3>1, EmptySeq, AppendProperties
  <2> QED BY <1>a, <1>9, <2>2
      DEF SConfirma, turno, quantum, deDump, deCPU, banderas
<1>10. ASSUME NEW m, IRecibe(m)
       PROVE  confirmacion' \in Seq(Motivos)
  BY <1>a, <1>10, Cuentas DEF IRecibe
<1>11. CASE INoBloquea
  BY <1>a, <1>10, <1>11 DEF INoBloquea, IRecibe, turno, quantum, deCPU, banderas
<1>12. CASE IQuantum
  <2>1. confirmacion' \in Seq(Motivos)
    BY <1>10, <1>12 DEF IQuantum
  <2>2. /\ estado' \in [Hilos -> Estados] /\ cpu_libre' \in Nat
        /\ hilo_en_ejecucion' \in Hilos \cup {Nadie} /\ caido' \in BOOLEAN
    <3>1. CASE hilo_en_ejecucion = Nadie
      BY <1>a, <1>12, <3>1 DEF IQuantum, turno
    <3>2. CASE hilo_en_ejecucion # Nadie
      <4>1. /\ estado' = [estado EXCEPT ![hilo_en_ejecucion] = "listo"]
            /\ hilo_en_ejecucion' = Nadie /\ cpu_libre' = cpu_libre + 1
            /\ caido' = caido
        BY <1>12, <3>2 DEF IQuantum
      <4>2. estado \in [Hilos -> Estados] /\ cpu_libre \in Nat
            /\ caido \in BOOLEAN
        BY <1>a
      <4>3. "listo" \in Estados
        BY DEF Estados
      <4>4. estado' \in [Hilos -> Estados]
        BY <4>1, <4>2, <4>3
      <4>5. cpu_libre' \in Nat
        BY <4>1, <4>2
      <4> QED BY <4>1, <4>2, <4>4, <4>5
    <3> QED BY <3>1, <3>2
  <2> QED BY <1>a, <1>12, <2>1, <2>2
      DEF IQuantum, IRecibe, turno, quantum, deCPU, banderas
<1>13. CASE IBloqueo
  BY <1>a, <1>b, <1>10, <1>13, SMTT(30) DEF IBloqueo, IRecibe, turno, quantum, deCPU, banderas
<1>14. CASE IFinProceso
  <2>1. PICK m \in {"fin_proceso", "segfault"} :
          /\ IRecibe(m)
          /\ IF hilo_en_ejecucion = Nadie
             THEN caido' = TRUE /\ UNCHANGED <<turno, sem_en_syscall>>
             ELSE /\ \E G \in SUBSET {h \in Hilos : estado[h] = "listo"} :
                      estado' = [h \in Hilos |->
                          IF h = hilo_en_ejecucion \/ h \in G THEN "exit"
                                                              ELSE estado[h]]
                  /\ hilo_en_ejecucion' = Nadie
                  /\ cpu_libre' = cpu_libre + 1
                  /\ sem_en_syscall' = IF m = "fin_proceso"
                                       THEN sem_en_syscall + 1
                                       ELSE sem_en_syscall
                  /\ UNCHANGED caido
    BY <1>14, Zenon DEF IFinProceso
  <2>2. confirmacion' \in Seq(Motivos)
    BY <1>10, <2>1
  <2>3. estado' \in [Hilos -> Estados]
    BY <1>a, <1>b, <2>1 DEF turno
  <2>4. /\ hilo_en_ejecucion' \in Hilos \cup {Nadie} /\ cpu_libre' \in Nat
        /\ sem_en_syscall' \in Nat /\ caido' \in BOOLEAN
    <3>1. CASE hilo_en_ejecucion = Nadie
      BY <1>a, <2>1, <3>1 DEF turno
    <3>2. CASE hilo_en_ejecucion # Nadie
      BY <1>a, <2>1, <3>2, SMTT(30)
    <3> QED BY <3>1, <3>2
  <2> QED BY <1>a, <1>14, <2>1, <2>2, <2>3, <2>4
      DEF IFinProceso, IRecibe, quantum, deCPU, banderas
<1>15. ASSUME NEW h \in Hilos, Despierta(h)
       PROVE  TypeOK' /\ Mensajeria'
  BY <1>a, <1>b, <1>15 DEF Despierta, sockets, quantum, deDump, deCPU, banderas
<1>16. ASSUME NEW h \in Hilos, DumpTermina(h)
       PROVE  TypeOK' /\ Mensajeria'
  BY <1>a, <1>b, <1>16 DEF DumpTermina, sockets, quantum, deCPU, banderas
<1>17. ASSUME NEW h \in Hilos, DumpFalla(h)
       PROVE  TypeOK' /\ Mensajeria'
  <2>1. PICK G \in SUBSET {g \in Hilos : estado[g] = "listo"} :
          estado' = [g \in Hilos |-> IF g = h \/ g \in G THEN "exit"
                                                         ELSE estado[g]]
    BY <1>17 DEF DumpFalla, Supuestos
  <2>2. estado' \in [Hilos -> Estados]
    BY <1>a, <1>b, <2>1
  <2>3. UNCHANGED interrupcion
    BY <1>17 DEF DumpFalla, Supuestos
  <2> QED BY <1>a, <1>b, <1>17, <2>2, <2>3 DEF DumpFalla, quantum, deCPU, banderas
<1>18. CASE N
  <2>1. /\ interrupcion # <<>> /\ interrupcion' = Tail(interrupcion)
        /\ interrupcion[1] \in Respuesta \cup {"quantum"}
    BY <1>a, <1>18, Cuentas DEF N, NSyscall, NQuantum
  <2>2. interrupcion' \in Seq(Respuesta \cup {"quantum"})
        /\ interrupcion' \in Seq(Motivos)
    BY <1>a, <2>1, Cuentas, HeadTailProperties
  <2>3. /\ interrupcion_syscall' \in Motivos /\ interrupcion_syscall' \in Respuesta
        /\ llego' \in Nat
        /\ hay_syscall_bloqueante' \in BOOLEAN /\ hay_interrupcion' \in BOOLEAN
    <3>1. CASE NSyscall
      <4>1. /\ interrupcion_syscall' = interrupcion[1]
            /\ interrupcion[1] # "quantum" /\ llego' = llego + 1
            /\ hay_syscall_bloqueante' = TRUE
            /\ hay_interrupcion' = hay_interrupcion
        BY <3>1 DEF NSyscall, banderas
      <4>2. interrupcion[1] \in Respuesta /\ Respuesta \subseteq Motivos
        BY <2>1, <4>1, Clases
      <4> QED BY <1>a, <4>1, <4>2
    <3>2. CASE NQuantum
      BY <1>a, <3>2 DEF NQuantum
    <3> QED BY <1>18, <3>1, <3>2 DEF N
  <2> QED BY <1>a, <1>18, <2>2, <2>3
      DEF N, NSyscall, NQuantum, deKernel, turno, quantum, deDump
<1>19. CASE CPU
  <2> USE DEF PasoCPU, PuntosCPU, deKernel, turno, quantum, deDump, banderas
  <2>1. CASE CPURecibe
    <3>1. /\ despacho[1] \in Hilos \cup {"OK"}
          /\ Tail(despacho) \in Seq(Hilos \cup {"OK"})
      BY <1>a, <2>1, VecesTail DEF CPURecibe
    <3> QED BY <1>a, <2>1, <3>1 DEF CPURecibe
  <2>2. CASE CPUInstruccion
    BY <1>a, <2>2 DEF CPUInstruccion
  <2>3. ASSUME NEW s \in SyscallsUsadas, CPUSyscall(s)
        PROVE  TypeOK' /\ Mensajeria'
    BY <1>a, <1>b, <2>3, SMTT(30) DEF CPUSyscall
  <2>4. CASE CPUMarca \/ CPUEsperaAviso \/ CPUBajaSyscall
    <3>1. llego' \in Nat
      BY <1>a, <2>4, SMTT(30) DEF CPUMarca, CPUEsperaAviso, CPUBajaSyscall
    <3>2. pcCPU' \in PuntosCPU
      BY <1>a, <2>4 DEF CPUMarca, CPUEsperaAviso, CPUBajaSyscall, TrasSyscall
    <3> QED BY <1>a, <2>4, <3>1, <3>2
        DEF CPUMarca, CPUEsperaAviso, CPUBajaSyscall
  <2>5. CASE CPURecibeOK
    BY <1>a, <2>5, HeadTailProperties DEF CPURecibeOK
  <2>6. CASE CPUChequea \/ CPUMiraQuantum
    BY <1>a, <2>6 DEF CPUChequea, CPUMiraQuantum, TrasSyscall
  <2>7. CASE CPUConfirma \/ CPUConfirmaSigue
    <3>1. confirmacion' \in Seq(Motivos)
      <4>1. confirmacion' = Append(confirmacion, interrupcion_syscall)
        BY <2>7 DEF CPUConfirma, CPUConfirmaSigue
      <4> QED BY <1>a, <4>1, AppendProperties
    <3> QED BY <1>a, <2>7, <3>1 DEF CPUConfirma, CPUConfirmaSigue
  <2>8. CASE CPUSegfault \/ CPUConfirmaQuantum
    <3>1. confirmacion' \in Seq(Motivos)
      <4>1. "segfault" \in Motivos /\ "quantum" \in Motivos
        BY Clases
      <4>2. \/ confirmacion' = Append(confirmacion, "segfault")
            \/ confirmacion' = Append(confirmacion, "quantum")
        BY <2>8 DEF CPUSegfault, CPUConfirmaQuantum
      <4>3. confirmacion \in Seq(Motivos)
        BY <1>a
      <4> QED BY <4>1, <4>2, <4>3, AppendProperties
    <3> QED BY <1>a, <2>8, <3>1 DEF CPUSegfault, CPUConfirmaQuantum
  <2>9. CASE CPUBajaSegfault \/ CPUBajaInterrupcion \/ CPUSuelta
    BY <1>a, <2>9 DEF CPUBajaSegfault, CPUBajaInterrupcion, CPUSuelta
  <2> QED BY <1>19, <2>1, <2>2, <2>3, <2>4, <2>5, <2>6, <2>7, <2>8, <2>9 DEF CPU
<1>20. CASE UNCHANGED vars
  BY <1>a, <1>20 DEF vars, sockets, deKernel, turno, quantum, deDump, deCPU, banderas
<1> QED
  BY <1>1, <1>2, <1>3, <1>4, <1>5, <1>6, <1>7, <1>8, <1>9, <1>11, <1>12,
     <1>13, <1>14, <1>15, <1>16, <1>17, <1>18, <1>19, <1>20
  DEF Next, P, S, I

-----------------------------------------------------------------------------
(* Where the thread that executes is.                                      *)

\* What cpu_libre, the queues and the control point of the CPU say of it.
LEMMA DondeEsta ==
    ASSUME ProtocoloAssumption, Inv
    PROVE  /\ cpu_libre > 0 =>
                /\ hilo_en_ejecucion = Nadie /\ cpu_libre = 1 /\ ~ConHilo
                /\ Veces(Liberan, confirmacion) = 0 /\ despacho = <<>>
           /\ ConHilo =>
                /\ hilo_en_ejecucion # Nadie /\ cpu_libre = 0
                /\ Veces(Liberan, confirmacion) = 0
                /\ Veces(Hilos, despacho) = 0
           /\ despacho # <<>> /\ ~ConHilo =>
                /\ hilo_en_ejecucion # Nadie /\ cpu_libre = 0
                /\ despacho = <<hilo_en_ejecucion>>
                /\ Veces(Hilos, despacho) = 1
                /\ Veces(Liberan, confirmacion) = 0
<1>1. /\ Veces(Hilos, despacho) \in Nat /\ Veces(Liberan, confirmacion) \in Nat
      /\ cpu_libre \in Nat
  BY Cuentas DEF Inv, TypeOK
<1>2. /\ cpu_libre + Uno(hilo_en_ejecucion # Nadie) = 1
      /\ Uno(hilo_en_ejecucion # Nadie)
             = Veces(Hilos, despacho) + Veces(Liberan, confirmacion)
               + Uno(ConHilo)
  BY DEF Inv, UnHilo
<1>3. ASSUME cpu_libre > 0
      PROVE  /\ hilo_en_ejecucion = Nadie /\ cpu_libre = 1 /\ ~ConHilo
             /\ Veces(Liberan, confirmacion) = 0 /\ Veces(Hilos, despacho) = 0
  BY <1>1, <1>2, <1>3 DEF Uno
<1>4. ASSUME ConHilo
      PROVE  /\ hilo_en_ejecucion # Nadie /\ cpu_libre = 0
             /\ Veces(Liberan, confirmacion) = 0 /\ Veces(Hilos, despacho) = 0
  BY <1>1, <1>2, <1>4 DEF Uno
<1>5. ASSUME despacho # <<>>, ~ConHilo
      PROVE  /\ hilo_en_ejecucion \in Hilos
             /\ despacho = <<hilo_en_ejecucion>>
  BY <1>5 DEF Inv, PideYEspera, ConHilo
<1>6. ASSUME despacho # <<>>, ~ConHilo
      PROVE  /\ Veces(Hilos, despacho) = 1 /\ hilo_en_ejecucion # Nadie
             /\ Veces(Liberan, confirmacion) = 0 /\ cpu_libre = 0
  <2>1. Veces(Hilos, despacho) = 1 /\ hilo_en_ejecucion # Nadie
    BY <1>5, <1>6, VecesUnitaria DEF ProtocoloAssumption, Uno
  <2> QED BY <2>1, <1>1, <1>2, <1>6 DEF Uno
<1>7. cpu_libre > 0 => despacho = <<>>
  BY <1>3, <1>5 DEF ProtocoloAssumption
<1> QED BY <1>3, <1>4, <1>5, <1>6, <1>7

\* When I reads that the CPU has stopped it, it is that thread.
LEMMA Confirmado ==
    ASSUME ProtocoloAssumption, Inv, NEW m \in Liberan, IRecibe(m)
    PROVE  /\ hilo_en_ejecucion # Nadie /\ cpu_libre = 0 /\ ~ConHilo
           /\ despacho = <<>>
           /\ Veces(Liberan, confirmacion) = 1
           /\ Veces(Liberan, confirmacion') = 0
           /\ pedido = <<>> /\ pcS = "espera"
<1>1. /\ confirmacion # <<>> /\ confirmacion[1] = m
      /\ confirmacion' = Tail(confirmacion)
  BY DEF IRecibe
<1>2. /\ Veces(Liberan, confirmacion') \in Nat
      /\ Veces(Liberan, confirmacion) = Uno(m \in Liberan) + Veces(Liberan, confirmacion')
  BY <1>1, Cuentas DEF Inv
<1>3. Uno(m \in Liberan) = 1
  BY DEF Uno
<1>4. /\ Veces(Hilos, despacho) \in Nat /\ cpu_libre \in Nat
      /\ cpu_libre + Uno(hilo_en_ejecucion # Nadie) = 1
      /\ Uno(hilo_en_ejecucion # Nadie)
             = Veces(Hilos, despacho) + Veces(Liberan, confirmacion)
               + Uno(ConHilo)
  BY Cuentas DEF Inv, TypeOK, UnHilo
<1>5. /\ hilo_en_ejecucion # Nadie /\ cpu_libre = 0 /\ ~ConHilo
      /\ Veces(Liberan, confirmacion) = 1 /\ Veces(Liberan, confirmacion') = 0
  BY <1>2, <1>3, <1>4 DEF Uno
<1>6. despacho = <<>>
  BY <1>5, DondeEsta
<1>7. pedido = <<>> /\ pcS = "espera"
  BY <1>5 DEF Inv, PideYEspera, ConHilo
<1> QED BY <1>5, <1>6, <1>7

\* While a syscall may be answered, or while one has been, the CPU waits.
LEMMA Avisado ==
    ASSUME Inv, NSyscall
    PROVE  /\ AvisoEsperado /\ llego = 0 /\ ~SinResponder
           /\ interrupcion[1] \in Respuesta
           /\ Veces(Respuesta, interrupcion) = 1
           /\ Veces(Respuesta, interrupcion') = 0
<1>1. /\ interrupcion # <<>> /\ interrupcion[1] # "quantum"
      /\ interrupcion' = Tail(interrupcion)
  BY DEF NSyscall
<1>2. /\ Veces(Respuesta, interrupcion') \in Nat
      /\ interrupcion[1] \in Respuesta
      /\ Veces(Respuesta, interrupcion)
             = Uno(interrupcion[1] \in Respuesta) + Veces(Respuesta, interrupcion')
  BY <1>1, Cuentas DEF Inv
<1>3. Uno(interrupcion[1] \in Respuesta) = 1
  BY <1>2 DEF Uno
<1>4. /\ llego \in Nat
      /\ Veces(Respuesta, interrupcion) + llego + Uno(SinResponder)
             = Uno(AvisoEsperado)
  BY DEF Inv, TypeOK, UnAviso
<1> QED BY <1>2, <1>3, <1>4 DEF Uno

-----------------------------------------------------------------------------
(* Syscalls and dispatch.                                                  *)

\* Each step keeps requests and answers paired: S answers once, to a CPU that
\* waits.
LEMMA PasoDePideYEspera ==
    ASSUME Supuestos, ProtocoloAssumption, Inv, [Next]_vars
    PROVE  PideYEspera'
<1> DEFINE suyas == <<pcCPU, pedido, pcS, despacho, hilo_en_ejecucion,
                      hay_syscall_bloqueante>>
<1>a. PideYEspera /\ TypeOK
  BY DEF Inv
<1>1. CASE UNCHANGED suyas
  BY <1>a, <1>1 DEF PideYEspera
<1>2. ASSUME NEW h \in Hilos, PEjecuta(h)
      PROVE  PideYEspera'
  <2>1. /\ cpu_libre > 0 /\ hilo_en_ejecucion' = h
        /\ despacho' = Append(despacho, h)
        /\ UNCHANGED <<pcCPU, pedido, pcS>>
    BY <1>2 DEF PEjecuta, deCPU
  <2>2. despacho = <<>> /\ ~ConHilo
    BY <1>a, <2>1, DondeEsta DEF TypeOK
  <2>3. despacho' = <<h>>
    BY <2>1, <2>2
  <2> QED BY <1>a, <2>1, <2>2, <2>3 DEF PideYEspera, ConHilo
<1>3. CASE SEspera
  BY <1>a, <1>3 DEF SEspera, PideYEspera, sockets, turno, deCPU, banderas
<1>4. CASE SAtiende
  BY <1>a, <1>4 DEF SAtiende, PideYEspera, deCPU, banderas
<1>5. CASE SCrea
  BY <1>a, <1>5 DEF SCrea, PideYEspera, sockets, deCPU, banderas
<1>6. CASE SConfirma
  <2>1. /\ pcCPU \in {"marca", "espera_ok"} /\ despacho = <<>>
        /\ Tail(pedido) = <<>>
    BY <1>6, SPide DEF SConfirma
  <2>2. /\ pedido' = <<>> /\ despacho' = <<"OK">> /\ pcS' = "espera"
        /\ pcCPU' = pcCPU
    BY <1>6, <2>1 DEF SConfirma, deCPU
  <2> QED BY <2>1, <2>2 DEF PideYEspera
<1>7. ASSUME NEW m \in Liberan, IRecibe(m)
      PROVE  PideYEspera'
  <2>1. pedido = <<>> /\ pcS = "espera" /\ despacho = <<>> /\ ~ConHilo
    BY <1>7, Confirmado
  <2>2. UNCHANGED <<pcCPU, pedido, pcS, despacho>>
    BY <1>7 DEF IRecibe, deCPU
  <2> QED BY <2>1, <2>2 DEF PideYEspera, ConHilo
<1>8. CASE NSyscall
  <2>1. AvisoEsperado /\ hay_syscall_bloqueante' = TRUE
        /\ UNCHANGED <<pcCPU, pedido, pcS, despacho, hilo_en_ejecucion>>
    BY <1>8, Avisado DEF NSyscall, deKernel, turno
  <2>2. pcCPU = "espera_ok" => hay_syscall_bloqueante
    BY <2>1 DEF AvisoEsperado
  <2> QED BY <1>a, <2>1, <2>2 DEF PideYEspera
<1>9. CASE CPU
  <2>1. UNCHANGED <<pcS, hilo_en_ejecucion>>
    BY <1>9
       DEF CPU, PasoCPU, deKernel, turno, CPURecibe, CPUInstruccion, CPUSyscall,
           CPUMarca, CPURecibeOK, CPUChequea, CPUEsperaAviso, CPUConfirma,
           CPUConfirmaSigue, CPUBajaSyscall, CPUSegfault, CPUBajaSegfault,
           CPUBajaInterrupcion, CPUMiraQuantum, CPUConfirmaQuantum, CPUSuelta
  <2>2. CASE CPURecibe
    <3>1. /\ pcCPU = "recibe" /\ pcCPU' = "ejecuta" /\ despacho # <<>>
          /\ despacho' = Tail(despacho) /\ pedido' = pedido
      BY <2>2 DEF CPURecibe, PasoCPU
    <3>2. pedido = <<>> /\ pcS = "espera" /\ despacho = <<hilo_en_ejecucion>>
      BY <1>a, <3>1 DEF PideYEspera
    <3>3. despacho' = <<>>
      BY <3>1, <3>2
    <3> QED BY <2>1, <3>1, <3>2, <3>3 DEF PideYEspera
  <2>3. ASSUME NEW s \in SyscallsUsadas, CPUSyscall(s)
        PROVE  PideYEspera'
    <3>1. /\ pcCPU = "ejecuta"
          /\ pcCPU' = IF s \in Marcadas THEN "marca" ELSE "espera_ok"
          /\ pedido' = Append(pedido, s)
          /\ UNCHANGED <<despacho, hay_syscall_bloqueante>>
      BY <2>3 DEF CPUSyscall, PasoCPU, banderas
    <3>2. pedido = <<>> /\ pcS = "espera"
      BY <1>a, <3>1 DEF PideYEspera
    <3>3. despacho = <<>>
      <4>1. ConHilo
        BY <3>1 DEF ConHilo
      <4>2. Veces(Hilos, despacho) = 0
        BY <4>1, DondeEsta
      <4>3. ASSUME NEW h \in Hilos, despacho = <<h>> PROVE FALSE
        <5>1. Veces(Hilos, despacho) = 1
          BY <4>3, VecesUnitaria DEF Uno
        <5> QED BY <5>1, <4>2
      <4> QED BY <1>a, <3>1, <4>3 DEF PideYEspera
    <3>4. hay_syscall_bloqueante = FALSE
      BY <1>a, <3>1 DEF Inv, UnAviso, TypeOK
    <3>5. pedido' = <<s>>
      BY <3>1, <3>2
    <3> QED BY <2>1, <3>1, <3>2, <3>3, <3>4, <3>5 DEF PideYEspera
  <2>4. CASE CPUMarca
    BY <1>a, <2>1, <2>4 DEF CPUMarca, PasoCPU, PideYEspera
  <2>5. CASE CPURecibeOK
    <3>1. /\ pcCPU = "espera_ok" /\ pcCPU' = "chequea" /\ despacho # <<>>
          /\ despacho' = Tail(despacho) /\ pedido' = pedido
      BY <2>5 DEF CPURecibeOK, PasoCPU
    <3>2. pedido = <<>> /\ pcS = "espera" /\ despacho = <<"OK">>
      BY <1>a, <3>1 DEF PideYEspera
    <3>3. despacho' = <<>>
      BY <3>1, <3>2
    <3> QED BY <2>1, <3>1, <3>2, <3>3 DEF PideYEspera
  <2>6. ASSUME /\ pcCPU \notin {"marca", "espera_ok"}
               /\ pcCPU' \notin {"marca", "espera_ok"}
               /\ UNCHANGED <<pedido, despacho>>
        PROVE  PideYEspera'
    BY <1>a, <2>1, <2>6 DEF PideYEspera
  <2>7. CASE CPUInstruccion \/ CPUChequea \/ CPUEsperaAviso \/ CPUMiraQuantum
    BY <2>6, <2>7 DEF CPUInstruccion, CPUChequea, CPUEsperaAviso, CPUMiraQuantum,
                      TrasSyscall, PasoCPU
  <2>8. CASE \/ CPUConfirma \/ CPUConfirmaSigue \/ CPUBajaSyscall
             \/ CPUSegfault \/ CPUBajaSegfault \/ CPUBajaInterrupcion
             \/ CPUConfirmaQuantum \/ CPUSuelta
    BY <2>6, <2>8 DEF CPUConfirma, CPUConfirmaSigue, CPUBajaSyscall, TrasSyscall,
         CPUSegfault, CPUBajaSegfault, CPUBajaInterrupcion, CPUConfirmaQuantum,
         CPUSuelta, PasoCPU
  <2> QED BY <1>9, <2>2, <2>3, <2>4, <2>5, <2>7, <2>8 DEF CPU
<1>10. CASE I
  <2>1. CASE INoBloquea
    BY <1>1, <2>1 DEF INoBloquea, IRecibe, turno, deCPU, banderas
  <2>2. CASE IQuantum
    BY <1>7, <2>2, Clases DEF IQuantum
  <2>3. CASE IBloqueo
    BY <1>7, <2>3, Clases DEF IBloqueo
  <2>4. CASE IFinProceso
    BY <1>7, <2>4, Clases DEF IFinProceso
  <2> QED BY <1>10, <2>1, <2>2, <2>3, <2>4 DEF I
<1>11. CASE PTemporizador \/ QInforma \/ NQuantum \/ UNCHANGED vars
  BY <1>1, <1>11 DEF PTemporizador, QInforma, NQuantum, vars, sockets, turno,
                     deKernel, deCPU, banderas
<1>12. ASSUME NEW h \in Hilos,
              \/ TDespierta(h) \/ TCompara(h)
              \/ Despierta(h) \/ DumpTermina(h) \/ DumpFalla(h)
       PROVE  PideYEspera'
  BY <1>1, <1>12 DEF TDespierta, TCompara, Despierta, DumpTermina, DumpFalla,
                     sockets, turno, deCPU, banderas
<1> QED
  BY <1>2, <1>3, <1>4, <1>5, <1>6, <1>8, <1>9, <1>10, <1>11, <1>12
  DEF Next, P, S, N

-----------------------------------------------------------------------------
(* Answers on the interrupt socket.                                        *)

\* Each step keeps one answer on the interrupt socket for each wait for one.
LEMMA PasoDeUnAviso ==
    ASSUME Supuestos, ProtocoloAssumption, Inv, [Next]_vars
    PROVE  UnAviso'
<1> DEFINE suyas == <<interrupcion, llego, pedido, pcS, pcCPU,
                      hay_syscall_bloqueante, interrupcion_syscall>>
<1>a. UnAviso /\ TypeOK /\ Mensajeria /\ Veces(Respuesta, interrupcion) \in Nat
  BY Cuentas DEF Inv
<1>1. CASE UNCHANGED suyas
  BY <1>a, <1>1 DEF UnAviso, SinResponder, AvisoEsperado
<1>2. ASSUME Veces(Respuesta, interrupcion') = Veces(Respuesta, interrupcion),
             SinResponder' <=> SinResponder,
             UNCHANGED <<llego, pcCPU, hay_syscall_bloqueante,
                         interrupcion_syscall>>
      PROVE  UnAviso'
  BY <1>a, <1>2 DEF UnAviso, AvisoEsperado, Uno
<1>3. CASE QInforma
  <2>1. /\ \/ interrupcion' = interrupcion
           \/ interrupcion' = Append(interrupcion, "quantum")
        /\ UNCHANGED <<pedido, pcS, deCPU>>
    BY <1>3 DEF QInforma
  <2>2. Veces(Respuesta, Append(interrupcion, "quantum"))
            = Veces(Respuesta, interrupcion)
    BY <1>a, Cuentas, Clases DEF Uno
  <2> QED BY <1>2, <2>1, <2>2 DEF SinResponder, deCPU, banderas
<1>4. CASE SEspera
  BY <1>2, <1>4 DEF SEspera, SinResponder, sockets, deCPU, banderas
<1>5. CASE SAtiende
  <2>1. PICK r \in Respuestas(pedido[1]) :
          interrupcion' = Append(interrupcion, r[1])
    BY <1>5, Zenon DEF SAtiende
  <2>2. /\ pedido[1] \in SyscallsUsadas /\ pedido # <<>>
    BY <1>5, SPide DEF SAtiende
  <2>3. pedido[1] \in Marcadas /\ r[1] \in Respuesta
    BY <2>2, RespuestasEsperadas, Clases
  <2>4. SinResponder /\ ~SinResponder'
    BY <1>5, <2>2, <2>3 DEF SAtiende, SinResponder
  <2>5. Veces(Respuesta, interrupcion') = Veces(Respuesta, interrupcion) + 1
    BY <1>a, <2>1, <2>3, Cuentas DEF Uno
  <2>6. UNCHANGED <<llego, pcCPU, hay_syscall_bloqueante, interrupcion_syscall>>
    BY <1>5 DEF SAtiende, deCPU, banderas
  <2>7. AvisoEsperado' <=> AvisoEsperado
    BY <2>6 DEF AvisoEsperado
  <2>8. llego \in Nat
    BY <1>a DEF TypeOK
  <2> QED BY <1>a, <2>4, <2>5, <2>6, <2>7, <2>8 DEF UnAviso, Uno
<1>6. CASE SCrea
  <2>1. "crea" \notin Marcadas
    BY DEF Marcadas
  <2>2. ~SinResponder /\ ~SinResponder'
    BY <1>6, <2>1 DEF SCrea, SinResponder, sockets
  <2> QED BY <1>2, <1>6, <2>2 DEF SCrea, sockets, deCPU, banderas
<1>7. CASE SConfirma
  <2>1. pedido' = <<>>
    BY <1>7, SPide DEF SConfirma
  <2>2. ~SinResponder /\ ~SinResponder'
    BY <1>7, <2>1 DEF SConfirma, SinResponder
  <2> QED BY <1>2, <1>7, <2>2 DEF SConfirma, deCPU, banderas
<1>8. CASE NSyscall
  <2>1. /\ AvisoEsperado /\ llego = 0 /\ ~SinResponder
        /\ Veces(Respuesta, interrupcion') = 0
    BY <1>8, Avisado
  <2>2. /\ hay_syscall_bloqueante' = TRUE /\ llego' = llego + 1
        /\ UNCHANGED <<pedido, pcS, pcCPU>>
    BY <1>8 DEF NSyscall, deKernel
  <2>3. AvisoEsperado' /\ ~SinResponder'
    BY <2>1, <2>2 DEF AvisoEsperado, SinResponder
  <2>4. pcCPU' \in {"marca", "espera_aviso", "espera_ok", "chequea"}
    BY <2>1, <2>2 DEF AvisoEsperado
  <2> QED BY <2>1, <2>2, <2>3, <2>4 DEF UnAviso, Uno
<1>9. CASE NQuantum
  <2>1. /\ interrupcion # <<>> /\ interrupcion[1] = "quantum"
        /\ interrupcion' = Tail(interrupcion)
        /\ UNCHANGED <<pedido, pcS, llego, pcCPU, hay_syscall_bloqueante,
                       interrupcion_syscall>>
    BY <1>9 DEF NQuantum, deKernel
  <2>2. Veces(Respuesta, interrupcion') = Veces(Respuesta, interrupcion)
    BY <1>a, <2>1, Cuentas, Clases DEF Uno
  <2> QED BY <1>2, <2>1, <2>2 DEF SinResponder
<1>10. CASE CPU
  <2>1. UNCHANGED <<interrupcion, pcS, interrupcion_syscall>>
    BY <1>10
       DEF CPU, PasoCPU, deKernel, CPURecibe, CPUInstruccion, CPUSyscall,
           CPUMarca, CPURecibeOK, CPUChequea, CPUEsperaAviso, CPUConfirma,
           CPUConfirmaSigue, CPUBajaSyscall, CPUSegfault, CPUBajaSegfault,
           CPUBajaInterrupcion, CPUMiraQuantum, CPUConfirmaQuantum, CPUSuelta,
           banderas
  <2>2. ASSUME NEW s \in SyscallsUsadas, CPUSyscall(s)
        PROVE  UnAviso'
    <3>1. /\ pcCPU = "ejecuta" /\ pedido' = Append(pedido, s)
          /\ pcCPU' = IF s \in Marcadas THEN "marca" ELSE "espera_ok"
          /\ UNCHANGED <<llego, hay_syscall_bloqueante>>
      BY <2>2 DEF CPUSyscall, PasoCPU, banderas
    <3>2. pedido = <<>> /\ pcS = "espera"
      BY <3>1 DEF Inv, PideYEspera
    <3>3. pedido' # <<>> /\ pedido'[1] = s
      BY <3>1, <3>2
    <3>4. ~hay_syscall_bloqueante
      BY <1>a, <3>1 DEF UnAviso
    <3>5. ~AvisoEsperado /\ ~SinResponder
      BY <3>1, <3>2, <3>4 DEF AvisoEsperado, SinResponder
    <3>6. /\ AvisoEsperado' <=> s \in Marcadas
          /\ SinResponder' <=> s \in Marcadas
      BY <2>1, <3>1, <3>2, <3>3, <3>4 DEF AvisoEsperado, SinResponder
    <3>7. llego = 0 /\ Veces(Respuesta, interrupcion) = 0
      BY <1>a, <3>5 DEF UnAviso, Uno, TypeOK
    <3> QED BY <1>a, <2>1, <3>1, <3>4, <3>6, <3>7 DEF UnAviso, Uno
  <2>3. ASSUME pedido' = pedido, llego' = llego,
               AvisoEsperado' <=> AvisoEsperado,
               hay_syscall_bloqueante' =>
                   pcCPU' \in {"marca", "espera_ok", "chequea", "espera_aviso",
                               "confirma", "confirma_sigue", "baja_syscall"},
               pcCPU' \notin {"confirma", "confirma_sigue"}
        PROVE  UnAviso'
    <3>1. SinResponder' <=> SinResponder
      BY <2>1, <2>3 DEF SinResponder
    <3> QED BY <1>a, <2>1, <2>3, <3>1 DEF UnAviso, Uno
  <2>4. CASE CPURecibe \/ CPUInstruccion \/ CPUMarca \/ CPURecibeOK
    <3>1. /\ pedido' = pedido /\ llego' = llego
          /\ pcCPU' \notin {"confirma", "confirma_sigue"}
      BY <2>4 DEF CPURecibe, CPUInstruccion, CPUMarca, CPURecibeOK, PasoCPU,
                  banderas
    <3>2. AvisoEsperado' <=> AvisoEsperado
      BY <1>a, <2>4 DEF CPURecibe, CPUInstruccion, CPUMarca, CPURecibeOK, PasoCPU,
                  banderas, AvisoEsperado, UnAviso
    <3>3. hay_syscall_bloqueante' => pcCPU' \in {"espera_ok", "chequea"}
      BY <1>a, <2>4 DEF CPURecibe, CPUInstruccion, CPUMarca, CPURecibeOK, PasoCPU,
                  banderas, UnAviso
    <3> QED BY <2>3, <3>1, <3>2, <3>3
  <2>5. CASE CPUChequea \/ CPUMiraQuantum \/ CPUConfirma \/ CPUConfirmaSigue
             \/ CPUBajaSyscall
    <3>1. /\ pedido' = pedido /\ llego' = llego
          /\ pcCPU' \notin {"confirma", "confirma_sigue"}
      BY <2>5 DEF CPUChequea, CPUMiraQuantum, CPUConfirma, CPUConfirmaSigue,
                  CPUBajaSyscall, PasoCPU, TrasSyscall, banderas
    <3>2. AvisoEsperado' <=> AvisoEsperado
      BY <1>a, <2>5 DEF CPUChequea, CPUMiraQuantum, CPUConfirma, CPUConfirmaSigue,
                  CPUBajaSyscall, PasoCPU, TrasSyscall, banderas,
                  AvisoEsperado, UnAviso
    <3>3. hay_syscall_bloqueante' => pcCPU' \in {"espera_aviso", "baja_syscall"}
      BY <1>a, <2>5 DEF CPUChequea, CPUMiraQuantum, CPUConfirma, CPUConfirmaSigue,
                  CPUBajaSyscall, PasoCPU, TrasSyscall, banderas, UnAviso
    <3> QED BY <2>3, <3>1, <3>2, <3>3
  <2>6. CASE CPUSegfault \/ CPUBajaSegfault \/ CPUBajaInterrupcion
             \/ CPUConfirmaQuantum \/ CPUSuelta
    <3>1. /\ pedido' = pedido /\ llego' = llego
          /\ pcCPU' \notin {"confirma", "confirma_sigue"}
      BY <2>6 DEF CPUSegfault, CPUBajaSegfault, CPUBajaInterrupcion,
                  CPUConfirmaQuantum, CPUSuelta, PasoCPU, banderas
    <3>2. AvisoEsperado' <=> AvisoEsperado
      BY <1>a, <2>6 DEF CPUSegfault, CPUBajaSegfault, CPUBajaInterrupcion,
                  CPUConfirmaQuantum, CPUSuelta, PasoCPU, banderas,
                  AvisoEsperado, UnAviso
    <3>3. ~hay_syscall_bloqueante'
      BY <1>a, <2>6 DEF CPUSegfault, CPUBajaSegfault, CPUBajaInterrupcion,
                  CPUConfirmaQuantum, CPUSuelta, PasoCPU, banderas, UnAviso
    <3> QED BY <2>3, <3>1, <3>2, <3>3
  <2>7. CASE CPUEsperaAviso
    <3>1. /\ pcCPU = "espera_aviso" /\ llego > 0 /\ llego' = llego - 1
          /\ pcCPU' = IF interrupcion_syscall = "sigue"
                      THEN "confirma_sigue" ELSE "confirma"
          /\ pedido' = pedido
          /\ hay_syscall_bloqueante' = hay_syscall_bloqueante
      BY <2>7 DEF CPUEsperaAviso, PasoCPU
    <3>2. AvisoEsperado /\ ~AvisoEsperado'
      BY <3>1 DEF AvisoEsperado
    <3>3. SinResponder' <=> SinResponder
      BY <2>1, <3>1 DEF SinResponder
    <3>4. pcCPU' = "confirma" => interrupcion_syscall \in Bloqueantes
      BY <1>a, <3>1 DEF Mensajeria, Respuesta
    <3>5. llego \in Nat
      BY <1>a DEF TypeOK
    <3>6. Veces(Respuesta, interrupcion') + llego' + Uno(SinResponder')
              = Uno(AvisoEsperado')
      BY <1>a, <2>1, <3>1, <3>2, <3>3, <3>5 DEF UnAviso, Uno
    <3> QED BY <2>1, <3>1, <3>4, <3>6 DEF UnAviso
  <2> QED BY <1>10, <2>2, <2>4, <2>5, <2>6, <2>7 DEF CPU
<1>11. CASE PTemporizador \/ I \/ UNCHANGED vars
  BY <1>1, <1>11 DEF PTemporizador, I, INoBloquea, IQuantum, IBloqueo,
       IFinProceso, IRecibe, vars, sockets, deKernel, deCPU, banderas
<1>12. ASSUME NEW h \in Hilos,
              \/ PEjecuta(h) \/ TDespierta(h) \/ TCompara(h)
              \/ Despierta(h) \/ DumpTermina(h) \/ DumpFalla(h)
       PROVE  UnAviso'
  BY <1>1, <1>12 DEF PEjecuta, TDespierta, TCompara, Despierta, DumpTermina,
                     DumpFalla, Supuestos, sockets, deCPU, banderas
<1> QED
  BY <1>3, <1>4, <1>5, <1>6, <1>7, <1>8, <1>9, <1>10, <1>11, <1>12
  DEF Next, P, S, N

-----------------------------------------------------------------------------
(* The thread that executes.                                               *)

\* Each step keeps one thread on its way to the CPU, in it, or confirmed.
LEMMA PasoDeUnHilo ==
    ASSUME Supuestos, ProtocoloAssumption, Inv, [Next]_vars
    PROVE  UnHilo'
<1> DEFINE suyas == <<cpu_libre, hilo_en_ejecucion, despacho, confirmacion,
                      pcCPU, hilo_ejecutar>>
<1>a. /\ UnHilo /\ TypeOK /\ Mensajeria
      /\ Veces(Hilos, despacho) \in Nat /\ Veces(Liberan, confirmacion) \in Nat
  BY Cuentas DEF Inv
<1>b. Nadie \notin Hilos /\ "OK" \notin Hilos
  BY DEF ProtocoloAssumption
<1>c. /\ \A h : Veces(Hilos, <<h>>) = Uno(h \in Hilos)
      /\ Veces(Hilos, <<>>) = 0
  BY VecesUnitaria, VecesVacia
<1>1. CASE UNCHANGED suyas
  BY <1>a, <1>1 DEF UnHilo, ConHilo
<1>2. ASSUME NEW h \in Hilos, PEjecuta(h)
      PROVE  UnHilo'
  <2>1. /\ cpu_libre > 0 /\ hilo_en_ejecucion' = h /\ cpu_libre' = cpu_libre - 1
        /\ despacho' = Append(despacho, h)
        /\ UNCHANGED <<confirmacion, pcCPU, hilo_ejecutar>>
    BY <1>2 DEF PEjecuta, deCPU
  <2>2. /\ despacho = <<>> /\ ~ConHilo /\ cpu_libre = 1
        /\ Veces(Liberan, confirmacion) = 0
    BY <1>a, <2>1, DondeEsta DEF TypeOK
  <2>3. Veces(Hilos, despacho') = 1
    BY <1>c, <2>1, <2>2 DEF Uno
  <2>4. ~ConHilo' /\ Veces(Liberan, confirmacion') = 0
    BY <2>1, <2>2 DEF ConHilo
  <2> QED BY <1>b, <2>1, <2>2, <2>3, <2>4 DEF UnHilo, Uno
<1>3. CASE SConfirma
  <2>1. /\ despacho = <<>> /\ despacho' = <<"OK">>
        /\ UNCHANGED <<confirmacion, cpu_libre, hilo_en_ejecucion, pcCPU,
                       hilo_ejecutar>>
    BY <1>3, SPide DEF SConfirma, turno, deCPU
  <2>2. Veces(Hilos, despacho') = 0 /\ Veces(Hilos, despacho) = 0
    BY <1>b, <1>c, <2>1 DEF Uno
  <2> QED BY <1>a, <2>1, <2>2 DEF UnHilo, ConHilo
<1>4. ASSUME NEW m \in Liberan, IRecibe(m), hilo_en_ejecucion' = Nadie,
             cpu_libre' = cpu_libre + 1
      PROVE  UnHilo'
  <2>1. /\ cpu_libre = 0 /\ ~ConHilo /\ despacho = <<>>
        /\ Veces(Liberan, confirmacion') = 0
    BY <1>4, Confirmado
  <2>2. UNCHANGED <<despacho, pcCPU, hilo_ejecutar>>
    BY <1>4 DEF IRecibe, deCPU
  <2>3. ~ConHilo' /\ Veces(Hilos, despacho') = 0
    BY <1>c, <2>1, <2>2 DEF ConHilo
  <2> QED BY <1>4, <2>1, <2>3 DEF UnHilo, Uno
<1>5. CASE I
  <2>1. CASE INoBloquea
    <3>1. /\ confirmacion # <<>> /\ confirmacion[1] = "sigue"
          /\ confirmacion' = Tail(confirmacion)
          /\ UNCHANGED <<cpu_libre, hilo_en_ejecucion, despacho, pcCPU,
                         hilo_ejecutar>>
      BY <2>1 DEF INoBloquea, IRecibe, turno, deCPU
    <3>2. Veces(Liberan, confirmacion') = Veces(Liberan, confirmacion)
      BY <1>a, <3>1, Cuentas, Clases DEF Uno
    <3> QED BY <1>a, <3>1, <3>2 DEF UnHilo, ConHilo
  <2>2. ASSUME NEW m \in Liberan, IRecibe(m) PROVE hilo_en_ejecucion # Nadie
    BY <2>2, Confirmado
  <2>3. CASE IQuantum
    BY <1>4, <2>2, <2>3, Clases DEF IQuantum
  <2>4. CASE IBloqueo
    BY <1>4, <2>4, Clases DEF IBloqueo
  <2>5. CASE IFinProceso
    BY <1>4, <2>2, <2>5, Clases DEF IFinProceso
  <2> QED BY <1>5, <2>1, <2>3, <2>4, <2>5 DEF I
<1>6. CASE CPU
  <2>1. UNCHANGED <<cpu_libre, hilo_en_ejecucion>>
    BY <1>6
       DEF CPU, PasoCPU, deKernel, turno, CPURecibe, CPUInstruccion, CPUSyscall,
           CPUMarca, CPURecibeOK, CPUChequea, CPUEsperaAviso, CPUConfirma,
           CPUConfirmaSigue, CPUBajaSyscall, CPUSegfault, CPUBajaSegfault,
           CPUBajaInterrupcion, CPUMiraQuantum, CPUConfirmaQuantum, CPUSuelta
  <2>2. CASE CPURecibe
    <3>1. /\ pcCPU = "recibe" /\ pcCPU' = "ejecuta" /\ despacho # <<>>
          /\ despacho' = Tail(despacho) /\ confirmacion' = confirmacion
          /\ hilo_ejecutar' = despacho[1]
      BY <2>2 DEF CPURecibe, PasoCPU
    <3>2. ~ConHilo /\ ConHilo'
      BY <3>1 DEF ConHilo
    <3>3. /\ despacho = <<hilo_en_ejecucion>> /\ hilo_en_ejecucion # Nadie
          /\ Veces(Liberan, confirmacion) = 0 /\ cpu_libre = 0
      BY <3>1, <3>2, DondeEsta
    <3>4. despacho' = <<>> /\ hilo_ejecutar' = hilo_en_ejecucion
      BY <3>1, <3>3
    <3> QED BY <1>c, <2>1, <3>1, <3>2, <3>3, <3>4 DEF UnHilo, Uno
  <2>3. CASE CPURecibeOK
    <3>1. /\ pcCPU = "espera_ok" /\ pcCPU' = "chequea" /\ despacho # <<>>
          /\ despacho' = Tail(despacho)
          /\ UNCHANGED <<confirmacion, hilo_ejecutar>>
      BY <2>3 DEF CPURecibeOK, PasoCPU
    <3>2. despacho = <<"OK">>
      BY <3>1 DEF Inv, PideYEspera
    <3>3. Veces(Hilos, despacho') = 0 /\ Veces(Hilos, despacho) = 0
      BY <1>b, <1>c, <3>1, <3>2 DEF Uno
    <3>4. ConHilo /\ ConHilo'
      BY <3>1 DEF ConHilo
    <3> QED BY <1>a, <2>1, <3>1, <3>3, <3>4 DEF UnHilo
  <2>4. ASSUME UNCHANGED <<despacho, confirmacion, hilo_ejecutar>>, ConHilo, ConHilo'
        PROVE  UnHilo'
    BY <1>a, <2>1, <2>4 DEF UnHilo
  <2>5. CASE CPUInstruccion \/ CPUMarca \/ CPUChequea \/ CPUEsperaAviso
             \/ CPUBajaSyscall \/ CPUMiraQuantum
    BY <2>4, <2>5 DEF CPUInstruccion, CPUMarca, CPUChequea, CPUEsperaAviso,
         CPUBajaSyscall, CPUMiraQuantum, TrasSyscall, PasoCPU, ConHilo
  <2>6. ASSUME NEW s \in SyscallsUsadas, CPUSyscall(s)
        PROVE  UnHilo'
    BY <2>4, <2>6 DEF CPUSyscall, PasoCPU, ConHilo
  <2>7. ASSUME UNCHANGED despacho, ConHilo, ~ConHilo',
               NEW m \in Liberan, confirmacion' = Append(confirmacion, m)
        PROVE  UnHilo'
    <3>1. m \in Motivos
      BY <2>7 DEF Liberan
    <3>2. Veces(Liberan, confirmacion') = Veces(Liberan, confirmacion) + 1
      BY <1>a, <2>7, <3>1, Cuentas DEF Uno
    <3> QED BY <1>a, <2>1, <2>7, <3>2 DEF UnHilo, Uno
  <2>8. CASE CPUConfirma
    <3>1. interrupcion_syscall \in Liberan
      BY <2>8, Clases DEF CPUConfirma, PasoCPU, Inv, UnAviso
    <3> QED BY <2>7, <2>8, <3>1 DEF CPUConfirma, PasoCPU, ConHilo
  <2>9. CASE CPUSegfault \/ CPUConfirmaQuantum
    BY <2>7, <2>9, Clases DEF CPUSegfault, CPUConfirmaQuantum, PasoCPU, ConHilo
  <2>10. CASE CPUConfirmaSigue
    <3>1. /\ confirmacion' = Append(confirmacion, "sigue") /\ ConHilo /\ ConHilo'
          /\ UNCHANGED <<despacho, hilo_ejecutar>>
      BY <2>10 DEF CPUConfirmaSigue, PasoCPU, ConHilo, Inv, UnAviso
    <3>2. Veces(Liberan, confirmacion') = Veces(Liberan, confirmacion)
      BY <1>a, <3>1, Cuentas, Clases DEF Uno
    <3> QED BY <1>a, <2>1, <3>1, <3>2 DEF UnHilo
  <2>11. CASE CPUBajaSegfault \/ CPUBajaInterrupcion \/ CPUSuelta
    <3>1. /\ ~ConHilo /\ ~ConHilo' /\ UNCHANGED <<despacho, confirmacion>>
      BY <2>11 DEF CPUBajaSegfault, CPUBajaInterrupcion, CPUSuelta, PasoCPU,
                   ConHilo
    <3> QED BY <1>a, <2>1, <3>1 DEF UnHilo, Uno
  <2> QED BY <1>6, <2>2, <2>3, <2>5, <2>6, <2>8, <2>9, <2>10, <2>11 DEF CPU
<1>7. CASE PTemporizador \/ QInforma \/ N \/ UNCHANGED vars
  BY <1>1, <1>7 DEF PTemporizador, QInforma, N, NSyscall, NQuantum, vars, sockets,
                    turno, deKernel, deCPU
<1>8. CASE SEspera \/ SAtiende \/ SCrea
  BY <1>1, <1>8 DEF SEspera, SAtiende, SCrea, sockets, turno, deCPU
<1>9. ASSUME NEW h \in Hilos,
             \/ TDespierta(h) \/ TCompara(h)
             \/ Despierta(h) \/ DumpTermina(h) \/ DumpFalla(h)
      PROVE  UnHilo'
  BY <1>1, <1>9 DEF TDespierta, TCompara, Despierta, DumpTermina, DumpFalla,
                    sockets, turno, deCPU
<1> QED
  BY <1>2, <1>3, <1>5, <1>6, <1>7, <1>8, <1>9 DEF Next, P, S

-----------------------------------------------------------------------------
(* The token of sem_en_syscall.                                            *)

\* Neither N nor the CPU loses or makes up an answer that blocks, and the end
\* of a quantum is none.
LEMMA EnCursoIgual ==
    ASSUME Inv, NEW M, M \subseteq Bloqueantes, QInforma \/ N \/ CPU
    PROVE  EnCurso(M)' = EnCurso(M)
<1>a. /\ TypeOK /\ Mensajeria /\ UnAviso /\ llego \in Nat
      /\ Veces(M, interrupcion) \in Nat /\ Veces(M, confirmacion) \in Nat
      /\ "quantum" \notin M /\ "segfault" \notin M /\ "sigue" \notin M
  BY Cuentas, Clases DEF Inv, TypeOK
<1>1. CASE QInforma
  <2>1. /\ \/ interrupcion' = interrupcion
           \/ interrupcion' = Append(interrupcion, "quantum")
        /\ UNCHANGED <<confirmacion, pcCPU, llego, interrupcion_syscall>>
    BY <1>1 DEF QInforma, deCPU, banderas
  <2>2. Veces(M, Append(interrupcion, "quantum")) = Veces(M, interrupcion)
    BY <1>a, Cuentas DEF Uno
  <2>3. Veces(M, interrupcion') = Veces(M, interrupcion)
    BY <2>1, <2>2
  <2> QED BY <2>1, <2>3 DEF EnCurso
<1>2. CASE NQuantum
  <2>1. /\ interrupcion # <<>> /\ interrupcion[1] = "quantum"
        /\ interrupcion' = Tail(interrupcion)
        /\ UNCHANGED <<confirmacion, pcCPU, llego, interrupcion_syscall>>
    BY <1>2 DEF NQuantum, deKernel
  <2>2. Veces(M, interrupcion') = Veces(M, interrupcion)
    BY <1>a, <2>1, Cuentas DEF Uno
  <2> QED BY <2>1, <2>2 DEF EnCurso
<1>3. CASE NSyscall
  <2>1. /\ interrupcion # <<>> /\ interrupcion' = Tail(interrupcion)
        /\ interrupcion_syscall' = interrupcion[1] /\ llego' = llego + 1
        /\ UNCHANGED <<confirmacion, pcCPU>>
    BY <1>3 DEF NSyscall, deKernel
  <2>2. llego = 0 /\ pcCPU # "confirma"
    BY <1>3, Avisado DEF AvisoEsperado
  <2>3. /\ Veces(M, interrupcion') \in Nat
        /\ Veces(M, interrupcion) = Uno(interrupcion[1] \in M)
                                    + Veces(M, interrupcion')
    BY <1>a, <2>1, Cuentas
  <2> QED BY <1>a, <2>1, <2>2, <2>3 DEF EnCurso, Uno
<1>4. CASE CPU
  <2>1. UNCHANGED <<interrupcion, interrupcion_syscall>>
    BY <1>4
       DEF CPU, PasoCPU, CPURecibe, CPUInstruccion, CPUSyscall,
           CPUMarca, CPURecibeOK, CPUChequea, CPUEsperaAviso, CPUConfirma,
           CPUConfirmaSigue, CPUBajaSyscall, CPUSegfault, CPUBajaSegfault,
           CPUBajaInterrupcion, CPUMiraQuantum, CPUConfirmaQuantum, CPUSuelta,
           banderas
  <2>2. ASSUME Veces(M, confirmacion') = Veces(M, confirmacion), llego' = llego,
               pcCPU # "confirma", pcCPU' # "confirma"
        PROVE  EnCurso(M)' = EnCurso(M)
    BY <1>a, <2>1, <2>2 DEF EnCurso
  <2>3. CASE CPUEsperaAviso
    <3>1. /\ pcCPU = "espera_aviso" /\ llego > 0 /\ llego' = llego - 1
          /\ pcCPU' = IF interrupcion_syscall = "sigue"
                      THEN "confirma_sigue" ELSE "confirma"
          /\ confirmacion' = confirmacion
      BY <2>3 DEF CPUEsperaAviso, PasoCPU
    <3> QED BY <1>a, <2>1, <3>1 DEF EnCurso, Uno
  <2>4. CASE CPUConfirma
    <3>1. /\ pcCPU = "confirma" /\ pcCPU' = "baja_interrupcion"
          /\ confirmacion' = Append(confirmacion, interrupcion_syscall)
          /\ llego' = llego
      BY <2>4 DEF CPUConfirma, PasoCPU
    <3>2. Veces(M, confirmacion') = Veces(M, confirmacion)
                                    + Uno(interrupcion_syscall \in M)
      BY <1>a, <3>1, Cuentas DEF TypeOK
    <3>3. llego = 0
      BY <1>a, <3>1, Cuentas DEF UnAviso, AvisoEsperado, Uno
    <3> QED BY <1>a, <2>1, <3>1, <3>2, <3>3 DEF EnCurso, Uno
  <2>5. ASSUME NEW m \in Motivos \ M,
               confirmacion' = Append(confirmacion, m)
        PROVE  Veces(M, confirmacion') = Veces(M, confirmacion)
    BY <1>a, <2>5, Cuentas DEF Uno
  <2>6. CASE CPUConfirmaSigue \/ CPUSegfault \/ CPUConfirmaQuantum
    <3>1. \E m \in Motivos \ M : confirmacion' = Append(confirmacion, m)
      BY <1>a, <2>6, Clases
         DEF CPUConfirmaSigue, CPUSegfault, CPUConfirmaQuantum, PasoCPU, UnAviso
    <3> QED BY <2>2, <2>5, <2>6, <3>1 DEF CPUConfirmaSigue, CPUSegfault,
                                     CPUConfirmaQuantum, PasoCPU, banderas
  <2>7. CASE CPURecibe \/ CPUInstruccion \/ (\E s \in SyscallsUsadas : CPUSyscall(s))
             \/ CPUMarca \/ CPURecibeOK \/ CPUChequea
    BY <2>2, <2>7 DEF CPURecibe, CPUInstruccion, CPUSyscall, CPUMarca, CPURecibeOK,
                      CPUChequea, TrasSyscall, PasoCPU, banderas
  <2>8. CASE CPUBajaSyscall \/ CPUBajaSegfault \/ CPUBajaInterrupcion
             \/ CPUMiraQuantum \/ CPUSuelta
    BY <2>2, <2>8 DEF CPUBajaSyscall, CPUBajaSegfault, CPUBajaInterrupcion,
                      CPUMiraQuantum, CPUSuelta, TrasSyscall, PasoCPU, banderas
  <2> QED BY <1>4, <2>3, <2>4, <2>6, <2>7, <2>8 DEF CPU
<1> QED BY <1>1, <1>2, <1>3, <1>4 DEF N

\* A number of blocking answers under way, and what S and I do to it.
LEMMA EnCursoNatural ==
    ASSUME Inv, NEW M, NEW L, M \subseteq L
    PROVE  EnCurso(M) \in Nat /\ EnCurso(L) \in Nat /\ EnCurso(M) <= EnCurso(L)
<1>1. /\ llego \in Nat /\ Uno(pcCPU = "confirma") \in Nat
      /\ interrupcion \in Seq(Motivos) /\ confirmacion \in Seq(Motivos)
  BY DEF Inv, TypeOK, Uno
<1>2. /\ Veces(M, interrupcion) \in Nat /\ Veces(L, interrupcion) \in Nat
      /\ Veces(M, interrupcion) <= Veces(L, interrupcion)
      /\ Veces(M, confirmacion) \in Nat /\ Veces(L, confirmacion) \in Nat
      /\ Veces(M, confirmacion) <= Veces(L, confirmacion)
  BY <1>1, VecesNatural
<1> DEFINE llegado(T) == IF interrupcion_syscall \in T
                         THEN llego + Uno(pcCPU = "confirma") ELSE 0
<1>3. llegado(M) \in Nat /\ llegado(L) \in Nat /\ llegado(M) <= llegado(L)
  <2>1. CASE interrupcion_syscall \in M
    <3>1. /\ llegado(M) = llego + Uno(pcCPU = "confirma")
          /\ llegado(L) = llego + Uno(pcCPU = "confirma")
      BY <2>1
    <3> HIDE DEF llegado
    <3> QED BY <1>1, <3>1
  <2>2. CASE interrupcion_syscall \notin M
    <3>1. llegado(M) = 0
      BY <2>2
    <3>2. llegado(L) = llego + Uno(pcCPU = "confirma") \/ llegado(L) = 0
      OBVIOUS
    <3> HIDE DEF llegado
    <3> QED BY <1>1, <3>1, <3>2
  <2> QED BY <2>1, <2>2
<1>4. \A T : EnCurso(T) = Veces(T, interrupcion) + Veces(T, confirmacion)
                         + llegado(T)
  BY DEF EnCurso
<1> HIDE DEF llegado
<1> QED BY <1>2, <1>3, <1>4

\* Once I has read a confirmation it is no longer under way.
LEMMA EnCursoConfirmado ==
    ASSUME Inv, NEW M, NEW m, IRecibe(m), UNCHANGED deCPU
    PROVE  /\ EnCurso(M) = Uno(m \in M) + EnCurso(M)'
           /\ EnCurso(M)' \in Nat
<1>1. /\ confirmacion # <<>> /\ confirmacion[1] = m
      /\ confirmacion' = Tail(confirmacion)
      /\ UNCHANGED <<interrupcion, pcCPU, llego, interrupcion_syscall>>
  BY DEF IRecibe, deCPU, banderas
<1>2. /\ Veces(M, confirmacion') \in Nat /\ Veces(M, interrupcion) \in Nat
      /\ Veces(M, confirmacion) = Uno(m \in M) + Veces(M, confirmacion')
      /\ llego \in Nat
  BY <1>1, Cuentas DEF Inv, TypeOK
<1>3. Uno(m \in M) \in Nat /\ Uno(pcCPU = "confirma") \in Nat
  BY DEF Uno
<1> QED BY <1>1, <1>2, <1>3 DEF EnCurso

\* An answer of S is under way from then on.
LEMMA EnCursoRespondido ==
    ASSUME Inv, NEW M, NEW r \in Respuesta,
           interrupcion' = Append(interrupcion, r),
           UNCHANGED <<confirmacion, deCPU>>
    PROVE  EnCurso(M)' = EnCurso(M) + Uno(r \in M)
<1>1. UNCHANGED <<confirmacion, pcCPU, llego, interrupcion_syscall>>
  BY DEF deCPU, banderas
<1>2. /\ Veces(M, interrupcion) \in Nat /\ Veces(M, confirmacion) \in Nat
      /\ Veces(M, interrupcion') = Veces(M, interrupcion) + Uno(r \in M)
      /\ llego \in Nat
  BY Cuentas DEF Inv, TypeOK
<1>3. Uno(r \in M) \in Nat /\ Uno(pcCPU = "confirma") \in Nat
  BY DEF Uno
<1> QED BY <1>1, <1>2, <1>3 DEF EnCurso

\* The token, in terms of EnCurso.
LEMMA Ficha ==
    UnaFicha <=>
      /\ IsFiniteSet(Comparan)
      /\ \A h \in Hilos : comparando[h] <= 1
      /\ sem_en_syscall + Cardinality(Comparan) + Uno(pcS = "atiende")
             + EnCurso(Bloqueantes) = 1
BY DEF UnaFicha, EnCurso, BloqueosEnCurso

\* Each step keeps one token of sem_en_syscall, posted, in the hands of a
\* timer or of S, or owed by a syscall that blocks.
LEMMA PasoDeUnaFicha ==
    ASSUME Supuestos, ProtocoloAssumption, Inv, [Next]_vars
    PROVE  UnaFicha'
<1>a. /\ UnaFicha /\ TypeOK /\ Mensajeria
      /\ IsFiniteSet(Comparan) /\ Cardinality(Comparan) \in Nat
      /\ EnCurso(Bloqueantes) \in Nat /\ Uno(pcS = "atiende") \in Nat
      /\ sem_en_syscall \in Nat
      /\ sem_en_syscall + Cardinality(Comparan) + Uno(pcS = "atiende")
             + EnCurso(Bloqueantes) = 1
  <2>1. Inv
    OBVIOUS
  <2>2. UnaFicha /\ TypeOK /\ Mensajeria
    BY DEF Inv
  <2>3. IsFiniteSet(Comparan) /\ Cardinality(Comparan) \in Nat
    BY <2>2, FS_CardinalityType DEF UnaFicha
  <2>4. EnCurso(Bloqueantes) \in Nat
    BY <2>1, EnCursoNatural
  <2>5. Uno(pcS = "atiende") \in Nat /\ sem_en_syscall \in Nat
    BY <2>2 DEF Uno, TypeOK
  <2> QED BY <2>2, <2>3, <2>4, <2>5, Ficha
<1>1. ASSUME comparando' = comparando,
             sem_en_syscall' + Uno(pcS' = "atiende") + EnCurso(Bloqueantes)'
                 = sem_en_syscall + Uno(pcS = "atiende") + EnCurso(Bloqueantes),
             sem_en_syscall' \in Nat, EnCurso(Bloqueantes)' \in Nat
      PROVE  UnaFicha'
  <2>1. Comparan' = Comparan
    BY <1>1 DEF Comparan
  <2>2. \A h \in Hilos : comparando'[h] <= 1
    BY <1>a, <1>1 DEF UnaFicha
  <2>3. Uno(pcS' = "atiende") \in Nat
    BY DEF Uno
  <2>4. sem_en_syscall' + Cardinality(Comparan') + Uno(pcS' = "atiende")
             + EnCurso(Bloqueantes)' = 1
    BY <1>a, <1>1, <2>1, <2>3
  <2>5. IsFiniteSet(Comparan')
    BY <1>a, <2>1
  <2> QED BY <2>2, <2>4, <2>5 DEF UnaFicha, EnCurso, BloqueosEnCurso
<1>2. ASSUME UNCHANGED <<comparando, sem_en_syscall, pcS>>,
             EnCurso(Bloqueantes)' = EnCurso(Bloqueantes)
      PROVE  UnaFicha'
  BY <1>1, <1>2, <1>a
<1>3. ASSUME UNCHANGED <<interrupcion, confirmacion, deCPU>>
      PROVE  EnCurso(Bloqueantes)' = EnCurso(Bloqueantes)
  BY <1>3 DEF EnCurso, deCPU, banderas
<1>4. ASSUME NEW h \in Hilos, TDespierta(h)
      PROVE  UnaFicha'
  <2>1. /\ sem_en_syscall > 0 /\ sem_en_syscall' = sem_en_syscall - 1
        /\ comparando' = [comparando EXCEPT ![h] = @ + 1]
        /\ UNCHANGED <<pcS, interrupcion, confirmacion, deCPU>>
    BY <1>4 DEF TDespierta, sockets
  <2>2. /\ sem_en_syscall = 1 /\ Cardinality(Comparan) = 0
        /\ Uno(pcS = "atiende") = 0 /\ EnCurso(Bloqueantes) = 0
    BY <1>a, <2>1
  <2>3. Comparan = {}
    BY <1>a, <2>2, FS_EmptySet
  <2>4. comparando \in [Hilos -> Nat] /\ \A g \in Hilos : comparando[g] = 0
    <3>1. comparando \in [Hilos -> Nat] /\ \A g \in Hilos : ~(comparando[g] > 0)
      BY <1>a, <2>3 DEF TypeOK, Comparan
    <3> QED BY <3>1
  <2>5. Comparan' = {h} /\ \A g \in Hilos : comparando'[g] <= 1
    BY <2>1, <2>4 DEF Comparan
  <2>6. IsFiniteSet(Comparan') /\ Cardinality(Comparan') = 1
    BY <2>5, FS_Singleton
  <2>7. Uno(pcS' = "atiende") = 0 /\ EnCurso(Bloqueantes)' = 0
    BY <1>3, <2>1, <2>2
  <2>8. sem_en_syscall' = 0
    BY <2>1, <2>2
  <2> QED BY <2>5, <2>6, <2>7, <2>8 DEF UnaFicha, EnCurso, BloqueosEnCurso
<1>5. ASSUME NEW h \in Hilos, TCompara(h)
      PROVE  UnaFicha'
  <2>1. /\ comparando[h] > 0 /\ sem_en_syscall' = sem_en_syscall + 1
        /\ comparando' = [comparando EXCEPT ![h] = @ - 1]
        /\ UNCHANGED <<pcS, interrupcion, confirmacion, deCPU>>
    BY <1>5 DEF TCompara, sockets
  <2>2. comparando \in [Hilos -> Nat] /\ \A g \in Hilos : comparando[g] <= 1
    BY <1>a DEF TypeOK, UnaFicha
  <2>3. h \in Comparan /\ Comparan' = Comparan \ {h}
    BY <2>1, <2>2 DEF Comparan
  <2>4. \A g \in Hilos : comparando'[g] <= 1
    BY <2>1, <2>2
  <2>5. /\ IsFiniteSet(Comparan')
        /\ Cardinality(Comparan') = Cardinality(Comparan) - 1
    BY <1>a, <2>3, FS_RemoveElement
  <2>6. /\ Uno(pcS' = "atiende") = Uno(pcS = "atiende")
        /\ EnCurso(Bloqueantes)' = EnCurso(Bloqueantes)
    BY <1>3, <2>1
  <2>7. sem_en_syscall' + Cardinality(Comparan') + Uno(pcS' = "atiende")
             + EnCurso(Bloqueantes)' = 1
    BY <1>a, <2>1, <2>5, <2>6
  <2> QED BY <2>4, <2>5, <2>7 DEF UnaFicha, EnCurso, BloqueosEnCurso
<1>6. CASE SEspera
  <2>1. /\ pcS = "espera" /\ pcS' = "atiende" /\ sem_en_syscall > 0
        /\ sem_en_syscall' = sem_en_syscall - 1
        /\ UNCHANGED <<comparando, interrupcion, confirmacion, deCPU>>
    BY <1>6 DEF SEspera, sockets, quantum
  <2>2. EnCurso(Bloqueantes)' = EnCurso(Bloqueantes)
    BY <1>3, <2>1
  <2> QED BY <1>1, <1>a, <2>1, <2>2 DEF Uno
<1>7. CASE SAtiende
  <2>1. PICK r \in Respuestas(pedido[1]) :
          /\ interrupcion' = Append(interrupcion, r[1])
          /\ sem_en_syscall' = IF r[1] = "sigue" THEN sem_en_syscall + 1
                                                 ELSE sem_en_syscall
    BY <1>7, Zenon DEF SAtiende
  <2>2. /\ pcS = "atiende" /\ pcS' = "confirma"
        /\ UNCHANGED <<comparando, confirmacion, deCPU>>
    BY <1>7 DEF SAtiende, quantum
  <2>3. pedido[1] \in SyscallsUsadas
    BY <2>2, SPide
  <2>4. r[1] \in Respuesta /\ (r[1] = "sigue" <=> r[1] \notin Bloqueantes)
    BY <2>3, RespuestasEsperadas, Clases
  <2>5. EnCurso(Bloqueantes)' = EnCurso(Bloqueantes) + Uno(r[1] \in Bloqueantes)
    BY <2>1, <2>2, <2>4, EnCursoRespondido
  <2> QED BY <1>1, <1>a, <2>1, <2>2, <2>4, <2>5 DEF Uno
<1>8. CASE SCrea
  <2>1. /\ pcS = "atiende" /\ pcS' = "confirma"
        /\ sem_en_syscall' = sem_en_syscall + 1
        /\ UNCHANGED <<comparando, interrupcion, confirmacion, deCPU>>
    BY <1>8 DEF SCrea, sockets, quantum
  <2>2. EnCurso(Bloqueantes)' = EnCurso(Bloqueantes)
    BY <1>3, <2>1
  <2> QED BY <1>1, <1>a, <2>1, <2>2 DEF Uno
<1>9. CASE SConfirma
  <2>1. /\ pcS = "confirma" /\ pcS' = "espera"
        /\ UNCHANGED <<comparando, sem_en_syscall, interrupcion, confirmacion,
                       deCPU>>
    BY <1>9 DEF SConfirma, quantum
  <2>2. EnCurso(Bloqueantes)' = EnCurso(Bloqueantes)
    BY <1>3, <2>1
  <2> QED BY <1>1, <1>a, <2>1, <2>2 DEF Uno
<1>10. CASE I
  <2>1. ASSUME NEW m, IRecibe(m)
        PROVE  /\ comparando' = comparando /\ pcS' = pcS
               /\ EnCurso(Bloqueantes) = Uno(m \in Bloqueantes)
                                          + EnCurso(Bloqueantes)'
               /\ EnCurso(Bloqueantes)' \in Nat
    BY <2>1, EnCursoConfirmado DEF IRecibe, quantum
  <2>2. ASSUME NEW m \in Liberan, IRecibe(m)
        PROVE  hilo_en_ejecucion # Nadie
    BY <2>2, Confirmado
  <2>3. ASSUME NEW m, IRecibe(m),
               sem_en_syscall' = sem_en_syscall + Uno(m \in Bloqueantes)
        PROVE  UnaFicha'
    <3>1. Uno(m \in Bloqueantes) \in Nat
      BY DEF Uno
    <3> QED BY <1>1, <1>a, <2>1, <2>3, <3>1
  <2>4. CASE INoBloquea
    BY <1>a, <2>3, <2>4, Clases DEF INoBloquea, Uno
  <2>5. CASE IQuantum
    BY <1>a, <2>3, <2>5, Clases DEF IQuantum, Uno
  <2>6. CASE IBloqueo
    BY <2>3, <2>6, Clases DEF IBloqueo, Uno
  <2>7. CASE IFinProceso
    <3>1. PICK m \in {"fin_proceso", "segfault"} :
            /\ IRecibe(m)
            /\ hilo_en_ejecucion # Nadie =>
                   sem_en_syscall' = IF m = "fin_proceso"
                                     THEN sem_en_syscall + 1
                                     ELSE sem_en_syscall
      BY <2>7 DEF IFinProceso
    <3>2. m \in Liberan /\ (m \in Bloqueantes <=> m = "fin_proceso")
      BY <3>1, Clases
    <3>3. hilo_en_ejecucion # Nadie
      BY <2>2, <3>1, <3>2
    <3> QED BY <1>a, <2>3, <3>1, <3>2, <3>3 DEF Uno
  <2> QED BY <1>10, <2>4, <2>5, <2>6, <2>7 DEF I
<1>11. CASE QInforma \/ N \/ CPU
  <2>1. EnCurso(Bloqueantes)' = EnCurso(Bloqueantes)
    BY <1>11, EnCursoIgual
  <2>2. CASE QInforma
    BY <1>2, <2>1, <2>2 DEF QInforma
  <2>3. CASE N
    BY <1>2, <2>1, <2>3 DEF N, NSyscall, NQuantum, deKernel, quantum
  <2>4. CASE CPU
    <3>1. UNCHANGED deKernel
      BY <2>4
         DEF CPU, PasoCPU, CPURecibe, CPUInstruccion, CPUSyscall,
             CPUMarca, CPURecibeOK, CPUChequea, CPUEsperaAviso, CPUConfirma,
             CPUConfirmaSigue, CPUBajaSyscall, CPUSegfault, CPUBajaSegfault,
             CPUBajaInterrupcion, CPUMiraQuantum, CPUConfirmaQuantum, CPUSuelta
    <3> QED BY <1>2, <2>1, <3>1 DEF deKernel, quantum
  <2> QED BY <1>11, <2>2, <2>3, <2>4
<1>12. CASE PTemporizador \/ UNCHANGED vars
  BY <1>2, <1>3, <1>12 DEF PTemporizador, vars, sockets, deKernel, quantum
<1>13. ASSUME NEW h \in Hilos, \/ PEjecuta(h) \/ Despierta(h)
                               \/ DumpTermina(h) \/ DumpFalla(h)
       PROVE  UnaFicha'
  BY <1>2, <1>3, <1>13 DEF PEjecuta, Despierta, DumpTermina, DumpFalla,
                           Supuestos, sockets, quantum
<1> QED
  BY <1>4, <1>5, <1>6, <1>7, <1>8, <1>9, <1>10, <1>11, <1>12, <1>13
  DEF Next, P, S

-----------------------------------------------------------------------------
(* The thread that executes is in EXEC.                                    *)

\* Each step keeps the thread on the CPU in EXEC unless its syscall took it
\* out.
LEMMA PasoDeEnExec ==
    ASSUME Supuestos, ProtocoloAssumption, Inv, [Next]_vars
    PROVE  EnExec'
<1>a. /\ EnExec /\ TypeOK /\ Mensajeria /\ UnAviso /\ estado \in [Hilos -> Estados]
      /\ EnCurso(Sacan) \in Nat /\ EnCurso(Bloqueantes) \in Nat
      /\ EnCurso(Sacan) <= EnCurso(Bloqueantes)
  BY EnCursoNatural, Clases DEF Inv, TypeOK
<1>b. Nadie \notin Hilos
  BY DEF ProtocoloAssumption
<1>1. ASSUME UNCHANGED <<hilo_en_ejecucion, estado, dumps>>,
             EnCurso(Sacan)' = EnCurso(Sacan)
      PROVE  EnExec'
  BY <1>a, <1>1 DEF EnExec
<1>2. ASSUME UNCHANGED <<interrupcion, confirmacion, deCPU>>
      PROVE  EnCurso(Sacan)' = EnCurso(Sacan)
  BY <1>2 DEF EnCurso, deCPU, banderas
<1>3. ASSUME NEW h \in Hilos, PEjecuta(h)
      PROVE  EnExec'
  <2>1. /\ estado[h] = "listo" /\ hilo_en_ejecucion' = h
        /\ estado' = [estado EXCEPT ![h] = "exec"] /\ dumps' = dumps
    BY <1>3 DEF PEjecuta, deDump
  <2>2. estado'[h] = "exec" /\ \A g \in Hilos \ {h} : estado'[g] = estado[g]
    BY <1>a, <2>1
  <2>3. h \notin dumps /\ dumps \subseteq Hilos
    BY <1>a, <2>1 DEF EnExec, TypeOK
  <2> QED BY <1>a, <2>1, <2>2, <2>3 DEF EnExec
\* A thread that leaves a state other than EXEC.
<1>4. ASSUME NEW h \in Hilos, estado[h] # "exec",
             NEW e, estado' = [estado EXCEPT ![h] = e],
             dumps' = dumps \ {h},
             UNCHANGED <<hilo_en_ejecucion, interrupcion, confirmacion, deCPU>>
      PROVE  EnExec'
  <2>1. EnCurso(Sacan)' = EnCurso(Sacan)
    BY <1>2, <1>4
  <2>2. \A g \in Hilos \ {h} : estado'[g] = estado[g]
    BY <1>a, <1>4
  <2>3. dumps \subseteq Hilos /\ hilo_en_ejecucion \in Hilos \cup {Nadie}
    BY <1>a DEF TypeOK
  <2> QED BY <1>a, <1>4, <2>1, <2>2, <2>3 DEF EnExec
<1>5. CASE SAtiende
  <2>1. PICK r \in Respuestas(pedido[1]) :
          /\ interrupcion' = Append(interrupcion, r[1])
          /\ estado' = [estado EXCEPT ![hilo_en_ejecucion] = r[2]]
          /\ dumps' = IF r[1] = "dump"
                       THEN dumps \cup ({hilo_en_ejecucion} \ {Nadie})
                       ELSE dumps
    BY <1>5, Zenon DEF SAtiende
  <2>2. /\ pcS = "atiende"
        /\ UNCHANGED <<hilo_en_ejecucion, confirmacion, deCPU>>
    BY <1>5 DEF SAtiende
  <2>3. /\ pedido[1] \in SyscallsUsadas /\ ConHilo
    BY <2>2, SPide DEF ConHilo
  <2>4. hilo_en_ejecucion \in Hilos
    BY <1>a, <2>3, DondeEsta DEF TypeOK
  <2>5. EnCurso(Bloqueantes) = 0
    <3>1. /\ sem_en_syscall \in Nat /\ Cardinality(Comparan) \in Nat
          /\ Uno(pcS = "atiende") = 1
          /\ sem_en_syscall + Cardinality(Comparan) + Uno(pcS = "atiende")
                 + EnCurso(Bloqueantes) = 1
      BY <1>a, <2>2, Ficha, FS_CardinalityType DEF Inv, UnaFicha, TypeOK, Uno
    <3> QED BY <1>a, <3>1
  <2>6. estado[hilo_en_ejecucion] = "exec" /\ hilo_en_ejecucion \notin dumps
    BY <1>a, <1>b, <2>4, <2>5 DEF EnExec
  <2>7. /\ r[1] \in Respuesta
        /\ r[1] \in Sacan \/ r[2] = "exec"
        /\ r[1] = "dump" => r[2] = "bloqueado"
    BY <2>3, RespuestasEsperadas, Clases
  <2>8. r[1] \in Sacan => EnCurso(Sacan)' # 0
    <3>1. EnCurso(Sacan)' = EnCurso(Sacan) + Uno(r[1] \in Sacan)
      BY <2>1, <2>2, <2>7, EnCursoRespondido
    <3> QED BY <1>a, <3>1 DEF Uno
  <2>9. /\ estado'[hilo_en_ejecucion] = r[2]
        /\ \A g \in Hilos \ {hilo_en_ejecucion} : estado'[g] = estado[g]
    BY <1>a, <2>1, <2>4
  <2>10. \A h \in dumps' : estado'[h] = "bloqueado"
    <3>1. \A h \in dumps : estado'[h] = "bloqueado"
      BY <1>a, <2>6, <2>9 DEF EnExec, TypeOK
    <3> QED BY <2>1, <2>7, <2>9, <3>1
  <2>11. hilo_en_ejecucion' # Nadie /\ EnCurso(Sacan)' = 0
             => estado'[hilo_en_ejecucion'] = "exec"
    BY <2>2, <2>7, <2>8, <2>9
  <2> QED BY <2>10, <2>11 DEF EnExec
<1>6. CASE SCrea
  <2>1. UNCHANGED <<hilo_en_ejecucion, interrupcion, confirmacion, dumps, deCPU>>
    BY <1>6 DEF SCrea, sockets, deDump
  <2>2. CASE UNCHANGED estado
    BY <1>1, <1>2, <2>1, <2>2
  <2>3. ASSUME NEW h \in Hilos, estado[h] = "inexistente",
               estado' = [estado EXCEPT ![h] = "listo"]
        PROVE  EnExec'
    <3>1. dumps' = dumps \ {h}
      BY <1>a, <2>1, <2>3 DEF EnExec
    <3> QED BY <1>4, <2>1, <2>3, <3>1
  <2> QED BY <1>6, <2>2, <2>3 DEF SCrea
<1>7. ASSUME NEW h \in Hilos, Despierta(h)
      PROVE  EnExec'
  BY <1>4, <1>7 DEF Despierta, sockets, deDump
<1>8. ASSUME NEW h \in Hilos, DumpTermina(h)
      PROVE  EnExec'
  <2>1. estado[h] = "bloqueado"
    BY <1>a, <1>8 DEF DumpTermina, EnExec
  <2> QED BY <1>4, <1>8, <2>1 DEF DumpTermina, sockets
<1>9. ASSUME NEW h \in Hilos, DumpFalla(h)
      PROVE  EnExec'
  <2>1. hilo_en_ejecucion = Nadie /\ hilo_en_ejecucion' = hilo_en_ejecucion
        /\ dumps' = dumps \ {h}
    BY <1>9 DEF DumpFalla, Supuestos
  <2>2. PICK G \in SUBSET {g \in Hilos : estado[g] = "listo"} :
          estado' = [g \in Hilos |-> IF g = h \/ g \in G THEN "exit"
                                                         ELSE estado[g]]
    BY <1>9, <2>1 DEF DumpFalla
  <2>3. \A g \in dumps' : estado'[g] = "bloqueado"
    BY <1>a, <2>1, <2>2 DEF EnExec, TypeOK
  <2> QED BY <2>1, <2>3 DEF EnExec
<1>10. CASE I
  <2>1. ASSUME NEW m \in {"quantum", "fin_proceso", "segfault"}, IRecibe(m)
        PROVE  /\ hilo_en_ejecucion \in Hilos \ dumps
               /\ dumps' = dumps
    <3>1. /\ confirmacion # <<>> /\ confirmacion[1] = m
          /\ confirmacion' = Tail(confirmacion) /\ dumps' = dumps
      BY <2>1 DEF IRecibe
    <3>2. m \in Liberan /\ m \notin Sacan /\ Sacan \subseteq Liberan
      BY Clases
    <3>3. /\ hilo_en_ejecucion \in Hilos /\ ~ConHilo
          /\ Veces(Liberan, confirmacion') = 0
      BY <1>a, <2>1, <3>2, Confirmado DEF TypeOK
    <3>4. Veces(Sacan, confirmacion) = 0
      <4>1. Tail(confirmacion) \in Seq(Motivos)
        BY <1>a, <3>1, Cuentas
      <4>2. Veces(Sacan, confirmacion') = 0
        <5>1. /\ Veces(Sacan, Tail(confirmacion)) \in Nat
              /\ Veces(Sacan, Tail(confirmacion))
                     <= Veces(Liberan, Tail(confirmacion))
          BY <3>2, <4>1, VecesNatural
        <5> QED BY <3>1, <3>3, <5>1
      <4>3. Veces(Sacan, confirmacion) = Uno(m \in Sacan) + Veces(Sacan, confirmacion')
        BY <1>a, <3>1, Cuentas
      <4> QED BY <3>2, <4>2, <4>3 DEF Uno
    <3>5. llego = 0 /\ Veces(Respuesta, interrupcion) = 0 /\ pcCPU # "confirma"
      <4>1. ~AvisoEsperado /\ pcCPU # "confirma"
        BY <3>3 DEF ConHilo, AvisoEsperado
      <4>2. llego \in Nat /\ Veces(Respuesta, interrupcion) \in Nat
        BY <1>a, Cuentas DEF TypeOK
      <4> QED BY <1>a, <4>1, <4>2 DEF UnAviso, Uno
    <3>6. Veces(Sacan, interrupcion) = 0
      <4>1. Sacan \subseteq Respuesta /\ interrupcion \in Seq(Motivos)
        BY <1>a, Clases DEF TypeOK
      <4>2. /\ Veces(Sacan, interrupcion) \in Nat
            /\ Veces(Sacan, interrupcion) <= Veces(Respuesta, interrupcion)
        BY <4>1, VecesNatural
      <4> QED BY <3>5, <4>2
    <3>7. EnCurso(Sacan) = 0
      BY <3>4, <3>5, <3>6 DEF EnCurso, Uno
    <3>8. estado[hilo_en_ejecucion] = "exec"
      BY <1>a, <1>b, <3>3, <3>7 DEF EnExec
    <3> QED BY <1>a, <3>1, <3>3, <3>8 DEF EnExec
  <2>2. CASE INoBloquea
    <3>1. /\ IRecibe("sigue") /\ UNCHANGED <<hilo_en_ejecucion, estado>>
      BY <2>2 DEF INoBloquea, turno
    <3>2. dumps' = dumps /\ UNCHANGED deCPU
      BY <3>1 DEF IRecibe
    <3>3. EnCurso(Sacan) = Uno("sigue" \in Sacan) + EnCurso(Sacan)'
          /\ EnCurso(Sacan)' \in Nat
      BY <3>1, <3>2, EnCursoConfirmado
    <3> QED BY <1>1, <3>1, <3>2, <3>3, Clases DEF Uno
  <2>3. CASE IQuantum
    <3>1. hilo_en_ejecucion \in Hilos \ dumps /\ dumps' = dumps
      BY <2>1, <2>3 DEF IQuantum
    <3>2. /\ estado' = [estado EXCEPT ![hilo_en_ejecucion] = "listo"]
          /\ hilo_en_ejecucion' = Nadie
      BY <1>b, <2>3, <3>1 DEF IQuantum
    <3>3. \A h \in dumps : estado'[h] = estado[h]
      BY <1>a, <3>1, <3>2 DEF TypeOK
    <3> QED BY <1>a, <3>1, <3>2, <3>3 DEF EnExec
  <2>4. CASE IBloqueo
    BY <1>a, <2>4 DEF IBloqueo, IRecibe, EnExec
  <2>5. CASE IFinProceso
    <3>1. hilo_en_ejecucion \in Hilos \ dumps /\ dumps' = dumps
      BY <2>1, <2>5 DEF IFinProceso
    <3>2. /\ hilo_en_ejecucion' = Nadie
          /\ \E G \in SUBSET {h \in Hilos : estado[h] = "listo"} :
               estado' = [h \in Hilos |->
                   IF h = hilo_en_ejecucion \/ h \in G THEN "exit"
                                                       ELSE estado[h]]
      BY <1>b, <2>5, <3>1 DEF IFinProceso
    <3>3. \A h \in dumps : estado'[h] = "bloqueado"
      BY <1>a, <3>1, <3>2 DEF EnExec, TypeOK
    <3> QED BY <3>1, <3>2, <3>3 DEF EnExec
  <2> QED BY <1>10, <2>2, <2>3, <2>4, <2>5 DEF I
<1>11. CASE QInforma \/ N \/ CPU
  <2>1. EnCurso(Sacan)' = EnCurso(Sacan)
    BY <1>11, EnCursoIgual, Clases
  <2>2. CASE QInforma
    BY <1>1, <2>1, <2>2 DEF QInforma, turno, deDump
  <2>3. CASE N
    BY <1>1, <2>1, <2>3 DEF N, NSyscall, NQuantum, deKernel, turno, deDump
  <2>4. CASE CPU
    <3>1. UNCHANGED deKernel
      BY <2>4
         DEF CPU, PasoCPU, CPURecibe, CPUInstruccion, CPUSyscall,
             CPUMarca, CPURecibeOK, CPUChequea, CPUEsperaAviso, CPUConfirma,
             CPUConfirmaSigue, CPUBajaSyscall, CPUSegfault, CPUBajaSegfault,
             CPUBajaInterrupcion, CPUMiraQuantum, CPUConfirmaQuantum, CPUSuelta
    <3> QED BY <1>1, <2>1, <3>1 DEF deKernel, turno, deDump
  <2> QED BY <1>11, <2>2, <2>3, <2>4
<1>12. CASE PTemporizador \/ SEspera \/ SConfirma \/ UNCHANGED vars
  BY <1>1, <1>2, <1>12 DEF PTemporizador, SEspera, SConfirma, vars, sockets,
                           deKernel, turno, deDump
<1>13. ASSUME NEW h \in Hilos, TDespierta(h) \/ TCompara(h)
       PROVE  EnExec'
  BY <1>1, <1>2, <1>13 DEF TDespierta, TCompara, sockets, turno, deDump
<1> QED
  BY <1>3, <1>5, <1>6, <1>7, <1>8, <1>9, <1>10, <1>11, <1>12, <1>13
  DEF Next, P, S

-----------------------------------------------------------------------------
(* Theorems.                                                               *)

\* The initial state.
LEMMA InicioInv == ASSUME ProtocoloAssumption, Init PROVE Inv
<1>1. TypeOK /\ Mensajeria
  BY EmptySeq, Clases DEF Init, TypeOK, Mensajeria, ProtocoloAssumption, Estados, PuntosCPU
<1>2. PideYEspera /\ EnExec
  BY DEF Init, PideYEspera, EnExec
<1>3. UnAviso
  BY VecesVacia DEF Init, UnAviso, SinResponder, AvisoEsperado, Uno
<1>4. UnHilo
  BY VecesVacia DEF Init, UnHilo, ConHilo, Uno
<1>5. UnaFicha
  <2>1. Comparan = {}
    BY DEF Init, Comparan
  <2>2. IsFiniteSet(Comparan) /\ Cardinality(Comparan) = 0
    BY <2>1, FS_EmptySet
  <2>3. BloqueosEnCurso = 0
    BY VecesVacia, Clases DEF Init, BloqueosEnCurso
  <2>4. \A h \in Hilos : comparando[h] <= 1
    BY DEF Init
  <2> QED BY <2>2, <2>3, <2>4 DEF Init, UnaFicha, Uno
<1> QED BY <1>1, <1>2, <1>3, <1>4, <1>5 DEF Inv

\* The inductive invariant holds for any threads, quanta and bounds.
THEOREM Invariancia == Supuestos => (Spec => []Inv)
<1> SUFFICES ASSUME Supuestos PROVE Spec => []Inv
  OBVIOUS
<1>1. Init => Inv
  BY ProtocoloAssumption, InicioInv
<1>2. Inv /\ [Next]_vars => Inv'
  <2> SUFFICES ASSUME Inv, [Next]_vars PROVE Inv'
    OBVIOUS
  <2>1. TypeOK' /\ Mensajeria'
    BY ProtocoloAssumption, PasoDeTipos
  <2>2. PideYEspera' /\ UnAviso'
    BY ProtocoloAssumption, PasoDePideYEspera, PasoDeUnAviso
  <2>3. UnHilo' /\ UnaFicha'
    BY ProtocoloAssumption, PasoDeUnHilo, PasoDeUnaFicha
  <2>4. EnExec'
    BY ProtocoloAssumption, PasoDeEnExec
  <2> QED BY <2>1, <2>2, <2>3, <2>4 DEF Inv
<1> QED BY <1>1, <1>2, PTL DEF Spec

\* Every variable of kernel and CPU keeps its type.
THEOREM TipoCorrecto == Supuestos => (Spec => []TypeOK)
<1>1. Inv => TypeOK
  BY DEF Inv
<1> QED BY <1>1, Invariancia, PTL

\* sem_en_syscall is neither lost nor doubled (planificacion.c 336-346 against
\* syscalls.c 364 and interrupciones.c).
THEOREM UnaSolaFicha == Supuestos => (Spec => []UnaFichaDeSyscall)
<1>1. Inv => UnaFichaDeSyscall
  BY DEF Inv, UnaFicha, UnaFichaDeSyscall, Comparan
<1> QED BY <1>1, Invariancia, PTL

\* The CPU confirms once for each dispatch, with whatever reason.
THEOREM UnaConfirmacion == Supuestos => (Spec => []UnaConfirmacionPorDespacho)
<1>1. Inv => UnaConfirmacionPorDespacho
  BY DEF Inv, UnHilo, UnaConfirmacionPorDespacho, ConHilo
<1> QED BY <1>1, Invariancia, PTL

\* The thread that the CPU executes is the one that the kernel believes is
\* executing, in EXEC, and no answer is left for the next syscall.
THEOREM DeAcuerdo == Supuestos => (Spec => []CPUYKernelDeAcuerdo)
<1>1. Inv => CPUYKernelDeAcuerdo
  <2> SUFFICES ASSUME Inv PROVE CPUYKernelDeAcuerdo
    OBVIOUS
  <2>1. ASSUME pcCPU \in {"recibe", "ejecuta"}
        PROVE  llego = 0 /\ Veces(Respuesta, interrupcion) = 0
    <3>1. ~AvisoEsperado
      BY <2>1 DEF AvisoEsperado
    <3>2. llego \in Nat /\ Veces(Respuesta, interrupcion) \in Nat
      BY Cuentas DEF Inv, TypeOK
    <3> QED BY <3>1, <3>2 DEF Inv, UnAviso, Uno
  <2>2. Veces(Motivos \ {"quantum"}, interrupcion) = Veces(Respuesta, interrupcion)
    <3>1. interrupcion \in Seq(Respuesta \cup {"quantum"})
      BY DEF Inv, Mensajeria
    <3>2. \A x \in Respuesta \cup {"quantum"} :
            x \in Motivos \ {"quantum"} <=> x \in Respuesta
      BY Clases
    <3> QED BY <3>1, <3>2, VecesIgual
  <2>3. ASSUME pcCPU = "ejecuta"
        PROVE  hilo_ejecutar = hilo_en_ejecucion /\ estado[hilo_ejecutar] = "exec"
    <3>1. ConHilo
      BY <2>3 DEF ConHilo
    <3>2. /\ hilo_en_ejecucion # Nadie /\ hilo_ejecutar = hilo_en_ejecucion
          /\ Veces(Liberan, confirmacion) = 0
      BY <3>1, ProtocoloAssumption, DondeEsta DEF Inv, UnHilo
    <3>3. Veces(Sacan, confirmacion) = 0
      <4>1. confirmacion \in Seq(Motivos) /\ Sacan \subseteq Liberan
        BY Clases DEF Inv, TypeOK
      <4>2. /\ Veces(Sacan, confirmacion) \in Nat
            /\ Veces(Sacan, confirmacion) <= Veces(Liberan, confirmacion)
        BY <4>1, VecesNatural
      <4> QED BY <3>2, <4>2
    <3>4. Veces(Sacan, interrupcion) = 0
      <4>1. interrupcion \in Seq(Motivos) /\ Sacan \subseteq Respuesta
        BY Clases DEF Inv, TypeOK
      <4>2. /\ Veces(Sacan, interrupcion) \in Nat
            /\ Veces(Sacan, interrupcion) <= Veces(Respuesta, interrupcion)
        BY <4>1, VecesNatural
      <4> QED BY <2>1, <2>3, <4>2
    <3>5. EnCurso(Sacan) = 0
      BY <2>1, <2>3, <3>3, <3>4 DEF EnCurso, Uno
    <3> QED BY <3>2, <3>5 DEF Inv, EnExec
  <2> QED BY <2>1, <2>2, <2>3 DEF CPUYKernelDeAcuerdo, SinAvisosViejos
<1> QED BY <1>1, Invariancia, PTL

\* OK answers and threads share the dispatch socket without a confusion.
THEOREM SinConfusion == Supuestos => (Spec => []DespachoEnOrden)
<1>1. Inv => DespachoEnOrden
  <2> SUFFICES ASSUME Inv PROVE DespachoEnOrden
    OBVIOUS
  <2>1. Nadie \notin Hilos /\ "OK" \notin Hilos
    BY ProtocoloAssumption DEF ProtocoloAssumption
  <2>2. CASE despacho = <<>>
    BY <2>2, VecesVacia DEF DespachoEnOrden
  <2>3. CASE despacho = <<"OK">> /\ pcCPU \in {"marca", "espera_ok"}
    <3>1. Veces(Hilos, despacho) = 0
      BY <2>1, <2>3, VecesUnitaria DEF Uno
    <3> QED BY <2>3, <3>1 DEF DespachoEnOrden
  <2>4. CASE /\ despacho = <<hilo_en_ejecucion>> /\ hilo_en_ejecucion \in Hilos
             /\ pcCPU \notin {"marca", "espera_ok"}
    <3>1. Veces({"OK"}, despacho) = 0
      BY <2>1, <2>4, VecesUnitaria DEF Uno
    <3> QED BY <2>4, <3>1 DEF DespachoEnOrden
  <2> QED BY <2>2, <2>3, <2>4 DEF Inv, PideYEspera
<1> QED BY <1>1, Invariancia, PTL

\* Of all the places where a program reads hilo_en_ejecucion or gives up on
\* the order of the messages, only interrumpir_por_fin_quantum finds NULL.
THEOREM SoloElQuantum == Supuestos => (Spec => SoloElQuantumLeeNulo)
<1> SUFFICES ASSUME Supuestos PROVE Spec => SoloElQuantumLeeNulo
  OBVIOUS
<1>1. Inv /\ [Next]_vars => [~caido /\ caido' => QInforma]_vars
  <2> SUFFICES ASSUME Inv, [Next]_vars, ~caido, caido'
               PROVE  QInforma
    OBVIOUS
  <2>1. CASE SEspera \/ SAtiende
    <3>1. pedido # <<>>
      BY <2>1, SPide DEF SEspera, SAtiende
    <3>2. ConHilo
      BY <3>1 DEF Inv, PideYEspera, ConHilo
    <3>3. hilo_en_ejecucion # Nadie
      BY <3>2, ProtocoloAssumption, DondeEsta
    <3> QED BY <2>1, <3>3 DEF SEspera, SAtiende
  <2>2. CASE I
    <3>1. ASSUME NEW m \in Liberan, IRecibe(m) PROVE hilo_en_ejecucion # Nadie
      BY <3>1, ProtocoloAssumption, Confirmado
    <3> QED BY <2>2, <3>1, Clases DEF I, INoBloquea, IQuantum, IBloqueo, IFinProceso
  <2>3. CASE CPURecibe
    <3>1. /\ pcCPU = "recibe" /\ despacho # <<>> /\ despacho[1] = "OK"
      BY <2>3 DEF CPURecibe, PasoCPU
    <3>2. despacho = <<hilo_en_ejecucion>> /\ hilo_en_ejecucion \in Hilos
      BY <3>1 DEF Inv, PideYEspera
    <3> QED BY <3>1, <3>2, ProtocoloAssumption DEF ProtocoloAssumption
  <2>4. CASE CPURecibeOK
    <3>1. /\ pcCPU = "espera_ok" /\ despacho # <<>> /\ despacho[1] # "OK"
      BY <2>4 DEF CPURecibeOK, PasoCPU
    <3>2. despacho = <<"OK">>
      BY <3>1 DEF Inv, PideYEspera
    <3> QED BY <3>1, <3>2
  <2>5. CASE CPU /\ ~CPURecibe /\ ~CPURecibeOK
    BY <2>5
       DEF CPU, PasoCPU, CPUInstruccion, CPUSyscall, CPUMarca, CPUChequea,
           CPUEsperaAviso, CPUConfirma, CPUConfirmaSigue, CPUBajaSyscall,
           CPUSegfault, CPUBajaSegfault, CPUBajaInterrupcion, CPUMiraQuantum,
           CPUConfirmaQuantum, CPUSuelta
  <2>6. CASE PTemporizador \/ SCrea \/ SConfirma \/ N \/ UNCHANGED vars
    BY <2>6 DEF PTemporizador, SCrea, SConfirma, N, NSyscall, NQuantum, vars
  <2>7. ASSUME NEW h \in Hilos,
               \/ PEjecuta(h) \/ TDespierta(h) \/ TCompara(h)
               \/ Despierta(h) \/ DumpTermina(h) \/ DumpFalla(h)
        PROVE  FALSE
    BY <2>7 DEF PEjecuta, TDespierta, TCompara, Despierta, DumpTermina, DumpFalla
  <2> QED BY <2>1, <2>2, <2>3, <2>4, <2>5, <2>6, <2>7 DEF Next, P, S
<1> QED BY <1>1, Invariancia, PTL DEF Spec, SoloElQuantumLeeNulo

-----------------------------------------------------------------------------
(* Mensajes: the messages of memoria and filesystem. A request or its      *)
(* answer is the only thing on its connection, so that how much each       *)
(* reader takes is what is left of the stream.                             *)

\* What was sent on v and nobody has read.
Pendiente(v) == buffer[v] \o red[v]

EsSecuencia(s) == \E Q : s \in Seq(Q)

Enteras(v) == EsSecuencia(buffer[v]) /\ EsSecuencia(red[v])

Callada(v) == buffer[v] = <<>> /\ red[v] = <<>>

\* Nobody reads v, whatever is there.
Cerrada(v) == lee[v].fase = "nada" /\ buzon[v] = Nada

\* And there is nothing.
Desocupada(v) == Callada(v) /\ Cerrada(v)

\* s is a message op whose stream has n units; without a stream n is 0.
EsTrama(s, op, n) ==
    /\ Len(s) = IF n = 0 THEN 1 ELSE n + 2
    /\ s[1] = <<"op", op, 1>>
    /\ n # 0 => s[2] = <<"num", n, 1>>

\* The message op, of n units, has not been read, or not all of it.
EnCamino(v, op, n) ==
    /\ n \in Nat /\ buzon[v] = Nada /\ Enteras(v)
    /\ \/ lee[v].fase = "op" /\ EsTrama(Pendiente(v), op, n)
       \/ /\ lee[v].fase = "size" /\ lee[v].op = op /\ n # 0
          /\ Len(Pendiente(v)) = n + 1
          /\ Pendiente(v)[1] = <<"num", n, 1>>
       \/ /\ lee[v].fase = "stream" /\ lee[v].op = op /\ n # 0
          /\ lee[v].size = n /\ Len(Pendiente(v)) = n

\* Its reader has it, and reads nothing else.
Leido(v, op) ==
    /\ lee[v].fase = "nada" /\ Callada(v)
    /\ buzon[v] # Nada => buzon[v].op = op

Va(v, op, n) == EnCamino(v, op, n) \/ Leido(v, op)

\* The same of the first message of several, without a stream.
VaPrimero(v, op) ==
    \/ /\ lee[v].fase = "op" /\ buzon[v] = Nada /\ Enteras(v)
       /\ Len(Pendiente(v)) >= 1 /\ Pendiente(v)[1] = <<"op", op, 1>>
    \/ /\ lee[v].fase = "nada"
       /\ buzon[v] # Nada => buzon[v].op = op

\* The reader of v waits for a message, and there is none.
Espera(v) == Callada(v) /\ lee[v].fase = "op" /\ buzon[v] = Nada

\* Requests with their size, and what memoria answers to those of the CPU.
PedidosDe(c) ==
    CASE c = "cpu" -> {<<"GET_CONTEXTO_EJECUCION", 2>>,
                       <<"UPD_CONTEXTO_EJECUCION", 11>>, <<"GET_INSTRUCCION", 3>>,
                       <<"READ_MEM", 3>>, <<"WRITE_MEM", 4>>}
      [] c = "kernel" -> {<<"CREATE_PROCESS", 2 + l>> : l \in Largos}
                         \cup {<<"CREATE_THREAD", 2 + l>> : l \in Largos}
                         \cup {<<"END_PROCESS", 1>>, <<"END_THREAD", 2>>,
                               <<"MEMORY_DUMP", 2>>}
      [] c = "filesystem" -> {<<"WRITE_FILE", 2 * l + 5>> : l \in Largos}

Contestaciones(op) ==
    CASE op = "GET_CONTEXTO_EJECUCION" -> {<<"OK", 11>>}
      [] op = "GET_INSTRUCCION" -> {<<"OK", l>> : l \in Largos} \cup {<<"ERROR", 0>>}
      [] op = "READ_MEM" -> {<<"OK", 1>>}
      [] OTHER -> {<<"OK", 0>>}

\* The greeting of a connection, on its way or accepted.
Saludando(c) ==
    /\ cli[c] = "saluda"
    /\ \/ srv[c] = "saluda" /\ Va(Ida(c), Saludo(c), 0) /\ Espera(Vuelta(c))
       \/ srv[c] = "lee" /\ Espera(Ida(c)) /\ Va(Vuelta(c), "HANDSHAKE_ACCEPTED", 0)

SinPedido(c) ==
    cli[c] = "libre" /\ srv[c] = "lee" /\ Espera(Ida(c)) /\ Desocupada(Vuelta(c))

ConPedido(c) ==
    /\ cli[c] = "espera" /\ srv[c] = "lee" /\ Espera(Vuelta(c))
    /\ \E q \in PedidosDe(c) : q[1] = solicitud[c] /\ Va(Ida(c), q[1], q[2])

\* CPU and memoria.
CPUBien ==
    \/ /\ cli["cpu"] = "cerrado" /\ srv["cpu"] = "cerrado"
       /\ Cerrada(Ida("cpu")) /\ Cerrada(Vuelta("cpu"))
    \/ Saludando("cpu") \/ SinPedido("cpu") \/ ConPedido("cpu")
    \/ /\ cli["cpu"] = "espera" /\ srv["cpu"] = "lee" /\ Espera(Ida("cpu"))
       /\ \E q \in Contestaciones(solicitud["cpu"]) :
            Va(Vuelta("cpu"), q[1], q[2])
    \/ /\ cli["cpu"] = "termino" /\ srv["cpu"] = "lee"
       /\ Espera(Ida("cpu")) /\ Cerrada(Vuelta("cpu"))

\* The connection of memoria with filesystem while the kernel waits for the
\* dump, and escrito so far.
VolcadoBien ==
    \/ ~escrito /\ (Saludando("filesystem") \/ SinPedido("filesystem")
                    \/ ConPedido("filesystem"))
    \/ /\ cli["filesystem"] = "espera" /\ srv["filesystem"] = "confirma"
       /\ lee[Ida("filesystem")].fase = "nada"
       /\ \/ escrito /\ Espera(Vuelta("filesystem"))
          \/ ~escrito /\ VaPrimero(Vuelta("filesystem"), "ERROR")
    \/ /\ cli["filesystem"] = "espera" /\ srv["filesystem"] = "cerrado"
       /\ Cerrada(Ida("filesystem"))
       /\ \E op \in {"OK", "ERROR"} :
            VaPrimero(Vuelta("filesystem"), op) /\ ((op = "OK") = escrito)

\* The same when nobody waits for it: filesystem may still answer OK.
VolcadoAfuera ==
    /\ cli["filesystem"] = "cerrado" /\ Cerrada(Vuelta("filesystem"))
    /\ lee[Ida("filesystem")].fase = "nada"
    /\ \/ srv["filesystem"] = "cerrado" /\ Cerrada(Ida("filesystem"))
       \/ srv["filesystem"] = "confirma"

\* Kernel and memoria.
KernelBien ==
    \/ /\ cli["kernel"] = "cerrado" /\ srv["kernel"] = "cerrado"
       /\ Cerrada(Ida("kernel")) /\ Cerrada(Vuelta("kernel"))
       /\ VolcadoAfuera
    \/ (Saludando("kernel") \/ SinPedido("kernel")) /\ ~escrito /\ VolcadoAfuera
    \/ ConPedido("kernel") /\ solicitud["kernel"] # "END_THREAD"
       /\ ~escrito /\ VolcadoAfuera
    \/ /\ cli["kernel"] = "cerrado" /\ srv["kernel"] = "lee"
       /\ Va(Ida("kernel"), "END_THREAD", 2) /\ Cerrada(Vuelta("kernel"))
       /\ VolcadoAfuera
    \/ /\ cli["kernel"] = "espera" /\ srv["kernel"] = "cerrado"
       /\ Cerrada(Ida("kernel")) /\ VolcadoAfuera
       /\ \E op \in {"OK", "ERROR"} :
            /\ Va(Vuelta("kernel"), op, 0)
            /\ solicitud["kernel"] = "MEMORY_DUMP" => ((op = "OK") = escrito)
    \/ /\ cli["kernel"] = "espera" /\ srv["kernel"] = "vuelca"
       /\ solicitud["kernel"] = "MEMORY_DUMP"
       /\ lee[Ida("kernel")].fase = "nada" /\ Espera(Vuelta("kernel"))
       /\ VolcadoBien

Redes ==
    /\ DOMAIN red = Vias /\ DOMAIN buffer = Vias /\ DOMAIN lee = Vias
    /\ DOMAIN buzon = Vias /\ DOMAIN cli = Conexiones /\ DOMAIN srv = Conexiones
    /\ DOMAIN solicitud = Conexiones /\ escrito \in BOOLEAN

IInvMensajes == Redes /\ CPUBien /\ KernelBien

-----------------------------------------------------------------------------
(* Sequences of units.                                                     *)

LEMMA Pega ==
    ASSUME NEW s, NEW t, EsSecuencia(s), EsSecuencia(t)
    PROVE  /\ EsSecuencia(s \o t) /\ Len(s) \in Nat /\ Len(t) \in Nat
           /\ Len(s \o t) = Len(s) + Len(t)
           /\ \A i \in 1 .. Len(s) : (s \o t)[i] = s[i]
           /\ \A i \in 1 .. Len(t) : (s \o t)[Len(s) + i] = t[i]
<1>1. PICK Q : s \in Seq(Q)
  BY DEF EsSecuencia
<1>2. PICK T : t \in Seq(T)
  BY DEF EsSecuencia
<1> DEFINE U == Q \cup T
<1>3. s \in Seq(U) /\ t \in Seq(U)
  BY <1>1, <1>2, SeqMonotonic
<1> HIDE DEF U
<1>4. /\ s \o t \in Seq(U) /\ Len(s \o t) = Len(s) + Len(t)
      /\ \A i \in 1 .. Len(s) + Len(t) :
           (s \o t)[i] = IF i <= Len(s) THEN s[i] ELSE t[i - Len(s)]
  BY <1>3, ConcatProperties
<1>5. Len(s) \in Nat /\ Len(t) \in Nat
  BY <1>3, LenProperties
<1>6. \A i \in 1 .. Len(s) : (s \o t)[i] = s[i]
  BY <1>4, <1>5
<1>7. ASSUME NEW i \in 1 .. Len(t)
      PROVE  (s \o t)[Len(s) + i] = t[i]
  <2> DEFINE k == Len(s) + i
  <2>1. k \in 1 .. Len(s) + Len(t) /\ ~(k <= Len(s)) /\ k - Len(s) = i
    BY <1>5
  <2> HIDE DEF k
  <2>2. (s \o t)[k] = t[i]
    BY <1>4, <2>1
  <2> QED BY <2>2 DEF k
<1> QED BY <1>4, <1>5, <1>6, <1>7 DEF EsSecuencia

LEMMA Recorte ==
    ASSUME NEW s, EsSecuencia(s), NEW m \in Nat \ {0}, NEW n \in Nat, n <= Len(s)
    PROVE  /\ EsSecuencia(SubSeq(s, m, n))
           /\ Len(SubSeq(s, m, n)) = IF m <= n THEN n - m + 1 ELSE 0
           /\ \A i \in 1 .. n - m + 1 : SubSeq(s, m, n)[i] = s[m + i - 1]
<1>1. PICK Q : s \in Seq(Q)
  BY DEF EsSecuencia
<1>2. m \in Int /\ n \in Int /\ \A i \in m .. n : s[i] \in Q
  BY <1>1
<1>3. /\ SubSeq(s, m, n) \in Seq(Q)
      /\ Len(SubSeq(s, m, n)) = IF m <= n THEN n - m + 1 ELSE 0
      /\ \A i \in 1 .. n - m + 1 : SubSeq(s, m, n)[i] = s[m + i - 1]
  BY <1>2, SubSeqProperties
<1> QED BY <1>3 DEF EsSecuencia

\* What the network moves from red to buffer is still to be read.
LEMMA Viaja ==
    ASSUME NEW b, NEW r, EsSecuencia(b), EsSecuencia(r), NEW n \in 1 .. Len(r)
    PROVE  /\ EsSecuencia(b \o SubSeq(r, 1, n))
           /\ EsSecuencia(SubSeq(r, n + 1, Len(r)))
           /\ (b \o SubSeq(r, 1, n)) \o SubSeq(r, n + 1, Len(r)) = b \o r
<1>1. PICK Q : b \in Seq(Q)
  BY DEF EsSecuencia
<1>2. PICK T : r \in Seq(T)
  BY DEF EsSecuencia
<1> DEFINE U == Q \cup T
           a == SubSeq(r, 1, n)
           c == SubSeq(r, n + 1, Len(r))
<1>3. b \in Seq(U) /\ r \in Seq(U)
  BY <1>1, <1>2, SeqMonotonic
<1>4. Len(r) \in Nat /\ n \in Nat /\ n <= Len(r) /\ n >= 1
  BY <1>3, LenProperties
<1>5. EsSecuencia(a) /\ EsSecuencia(c)
  <2>1. 1 \in Nat \ {0} /\ n + 1 \in Nat \ {0} /\ Len(r) <= Len(r)
    BY <1>4
  <2> QED BY <1>4, <2>1, Recorte
<1>6. a \o c = r
  <2>1. /\ 1 \in 1 .. Len(r) + 1 /\ n \in 1 - 1 .. Len(r)
        /\ Len(r) \in n .. Len(r)
    BY <1>4
  <2>2. a \o c = SubSeq(r, 1, Len(r))
    BY <1>3, <2>1, ConcatAdjacentSubSeq
  <2> QED BY <1>3, <2>2, SubSeqFull
<1>7. PICK V : a \in Seq(V)
  BY <1>5 DEF EsSecuencia
<1>8. PICK W : c \in Seq(W)
  BY <1>5 DEF EsSecuencia
<1> DEFINE X == U \cup V \cup W
<1>9. b \in Seq(X) /\ a \in Seq(X) /\ c \in Seq(X)
  BY <1>3, <1>7, <1>8, SeqMonotonic
<1> HIDE DEF a, c, X
<1>10. (b \o a) \o c = b \o (a \o c)
  BY <1>9, ConcatAssociative, SMTT(60)
<1>11. EsSecuencia(b \o a)
  BY <1>5, Pega
<1> QED BY <1>5, <1>6, <1>10, <1>11 DEF a, c

\* A reader that takes k units.
LEMMA Toma ==
    ASSUME NEW b, NEW r, EsSecuencia(b), EsSecuencia(r), NEW k \in 1 .. Len(b)
    PROVE  /\ EsSecuencia(SubSeq(b, k + 1, Len(b))) /\ Len(b \o r) \in Nat
           /\ Len(SubSeq(b, k + 1, Len(b)) \o r) = Len(b \o r) - k
           /\ \A i \in 1 .. Len(b \o r) - k :
                (SubSeq(b, k + 1, Len(b)) \o r)[i] = (b \o r)[k + i]
<1> DEFINE c == SubSeq(b, k + 1, Len(b))
           s == b \o r
           t == c \o r
<1>1. /\ EsSecuencia(s) /\ Len(b) \in Nat /\ Len(r) \in Nat
      /\ Len(s) = Len(b) + Len(r)
      /\ \A i \in 1 .. Len(b) : s[i] = b[i]
      /\ \A i \in 1 .. Len(r) : s[Len(b) + i] = r[i]
  BY Pega
<1>2. /\ k \in Nat /\ k >= 1 /\ k <= Len(b)
      /\ k + 1 \in Nat \ {0} /\ Len(b) <= Len(b)
  BY <1>1
<1>3. /\ EsSecuencia(c)
      /\ Len(c) = IF k + 1 <= Len(b) THEN Len(b) - (k + 1) + 1 ELSE 0
      /\ \A i \in 1 .. Len(b) - (k + 1) + 1 : c[i] = b[k + 1 + i - 1]
  BY <1>1, <1>2, Recorte
<1>4. Len(c) = Len(b) - k /\ \A i \in 1 .. Len(c) : c[i] = b[k + i]
  <2>1. Len(c) = Len(b) - k
    BY <1>1, <1>2, <1>3
  <2>2. ASSUME NEW i \in 1 .. Len(c) PROVE c[i] = b[k + i]
    <3>1. i \in 1 .. Len(b) - (k + 1) + 1 /\ k + 1 + i - 1 = k + i
      BY <1>1, <1>2, <2>1
    <3> QED BY <1>3, <3>1
  <2> QED BY <2>1, <2>2
<1> HIDE DEF c, s
<1> HIDE DEF t
<1>5. /\ Len(t) = Len(c) + Len(r)
      /\ \A i \in 1 .. Len(c) : t[i] = c[i]
      /\ \A i \in 1 .. Len(r) : t[Len(c) + i] = r[i]
  <2>1. EsSecuencia(c)
    BY <1>3
  <2>2. /\ Len(c \o r) = Len(c) + Len(r)
        /\ \A i \in 1 .. Len(c) : (c \o r)[i] = c[i]
        /\ \A i \in 1 .. Len(r) : (c \o r)[Len(c) + i] = r[i]
    BY <2>1, Pega
  <2> QED BY <2>2 DEF t
<1>6. Len(t) = Len(s) - k
  BY <1>1, <1>2, <1>4, <1>5
<1>7. ASSUME NEW i \in 1 .. Len(s) - k
      PROVE  t[i] = s[k + i]
  <2>1. i \in Nat /\ i >= 1 /\ i <= Len(b) + Len(r) - k
    BY <1>1, <1>2
  <2>2. CASE i <= Len(c)
    <3>1. i \in 1 .. Len(c) /\ k + i \in 1 .. Len(b)
      BY <1>1, <1>2, <1>4, <2>1, <2>2
    <3> QED BY <1>1, <1>4, <1>5, <3>1
  <2>3. CASE ~(i <= Len(c))
    <3> DEFINE j == i - Len(c)
    <3>1. j \in 1 .. Len(r) /\ Len(c) + j = i /\ Len(b) + j = k + i
      BY <1>1, <1>2, <1>4, <2>1, <2>3
    <3> HIDE DEF j
    <3>2. t[Len(c) + j] = r[j] /\ s[Len(b) + j] = r[j]
      BY <1>1, <1>5, <3>1
    <3> QED BY <3>1, <3>2
  <2> QED BY <2>2, <2>3
<1> QED BY <1>1, <1>3, <1>6, <1>7 DEF c, s, t

-----------------------------------------------------------------------------
(* What one send() leaves on a connection, and what the network and the    *)
(* reader do with it.                                                      *)

LEMMA TramaSola ==
    ASSUME NEW p, NEW s, NEW l, p.campos = <<>>
    PROVE  EsSecuencia(Trama(p, s, l)) /\ EsTrama(Trama(p, s, l), p.op, 0)
<1>1. Trama(p, s, l) = <<<<"op", p.op, 1>>>>
  BY Zenon DEF Trama
<1> DEFINE u == <<"op", p.op, 1>>
<1>2. Trama(p, s, l) = <<u>>
  BY <1>1
<1> HIDE DEF u
<1>3. <<u>> \in Seq({u}) /\ Len(<<u>>) = 1 /\ <<u>>[1] = u
  OBVIOUS
<1> QED BY <1>2, <1>3 DEF EsSecuencia, EsTrama, u

LEMMA TramaEntera ==
    ASSUME NEW p, NEW s, NEW l, p.campos # <<>>, p.size \in Nat \ {0}
    PROVE  EsSecuencia(Trama(p, s, l)) /\ EsTrama(Trama(p, s, l), p.op, p.size)
<1> DEFINE n == p.size
           stream == FlattenSeq([k \in DOMAIN p.campos |->
                                    Unidades(p.campos[k], s, l)])
           g == [i \in 1 .. n |-> IF i <= Len(stream) THEN stream[i] ELSE Basura]
           u == <<"op", p.op, 1>>
           w == <<"num", n, 1>>
           h == <<u, w>>
<1>1. Trama(p, s, l) = h \o g
  BY Zenon DEF Trama
<1> HIDE DEF stream
<1>2. EsSecuencia(g) /\ Len(g) = n
  <2> DEFINE V == {g[i] : i \in 1 .. n}
  <2>1. g \in [1 .. n -> V]
    OBVIOUS
  <2> HIDE DEF g, V
  <2>2. g \in Seq(V) /\ n \in Nat
    BY <2>1, SeqDef
  <2>3. DOMAIN g = 1 .. n /\ DOMAIN g = 1 .. Len(g) /\ Len(g) \in Nat
    BY <2>1, <2>2, LenProperties
  <2>4. Len(g) = n
    BY <2>2, <2>3
  <2> QED BY <2>2, <2>4 DEF EsSecuencia
<1> HIDE DEF g, n, u, w
<1>3. EsSecuencia(h) /\ Len(h) = 2 /\ h[1] = u /\ h[2] = w
  <2>1. h \in Seq({u, w}) /\ Len(h) = 2 /\ h[1] = u /\ h[2] = w
    OBVIOUS
  <2> QED BY <2>1 DEF EsSecuencia
<1> HIDE DEF h
<1>4. /\ EsSecuencia(h \o g) /\ Len(h \o g) = Len(h) + Len(g)
      /\ \A i \in 1 .. Len(h) : (h \o g)[i] = h[i]
  <2>1. EsSecuencia(h) /\ EsSecuencia(g)
    BY <1>2, <1>3
  <2> HIDE DEF h, g
  <2> QED BY <2>1, Pega
<1>5. n \in Nat /\ n # 0
  BY DEF n
<1>6. /\ Len(h \o g) = n + 2 /\ (h \o g)[1] = u /\ (h \o g)[2] = w
  BY <1>2, <1>3, <1>4, <1>5
<1> QED BY <1>1, <1>4, <1>5, <1>6 DEF EsTrama, n, u, w

\* The reader of v takes op for what it is, and as long as it is.
Entiende(v, op, n) ==
    /\ Receptor(v, op).campos = <<>> <=> n = 0
    /\ n # 0 => \/ Receptor(v, op).cuanto = "size"
                \/ /\ Receptor(v, op).cuanto = "campos"
                   /\ Len(Receptor(v, op).campos) = n

\* A step leaves v as it was, or goes on with what was on its way.
Queda(v) ==
    /\ \A op, n : Va(v, op, n) /\ Entiende(v, op, n) => Va(v, op, n)'
    /\ \A op : VaPrimero(v, op) /\ Receptor(v, op).campos = <<>>
                 => VaPrimero(v, op)'
    /\ Desocupada(v) => Desocupada(v)'
    /\ Espera(v) => Espera(v)'
    /\ Cerrada(v) => Cerrada(v)'
    /\ lee[v].fase = "nada" => lee'[v].fase = "nada"

LEMMA IgualQueda ==
    ASSUME NEW v, red'[v] = red[v], buffer'[v] = buffer[v], lee'[v] = lee[v],
           buzon'[v] = buzon[v]
    PROVE  Queda(v)
BY DEF Queda, Va, VaPrimero, Desocupada, Espera, Cerrada, Leido, Callada,
       EnCamino, Pendiente, Enteras

LEMMA NadaPendiente ==
    ASSUME NEW b, NEW r, EsSecuencia(b), EsSecuencia(r), Len(b \o r) = 0
    PROVE  b = <<>> /\ r = <<>>
<1>1. Len(b) = 0 /\ Len(r) = 0
  <2>1. Len(b) \in Nat /\ Len(r) \in Nat /\ Len(b \o r) = Len(b) + Len(r)
    BY Pega
  <2> QED BY <2>1
<1>2. \A s : EsSecuencia(s) /\ Len(s) = 0 => s = <<>>
  BY EmptySeq DEF EsSecuencia
<1> QED BY <1>1, <1>2

LEMMA LlegaQueda ==
    ASSUME Redes, NEW v \in Vias, Llega(v)
    PROVE  Queda(v)
<1> DEFINE b == buffer[v]
           r == red[v]
<1>1. r # <<>>
  BY DEF Llega
<1>2. PICK n \in (IF v \in UnSegmento THEN {Len(red[v])} ELSE 1 .. Len(red[v])) :
        /\ buffer' = [buffer EXCEPT ![v] = @ \o SubSeq(red[v], 1, n)]
        /\ red' = [red EXCEPT ![v] = SubSeq(@, n + 1, Len(@))]
  BY DEF Llega
<1>3. buffer'[v] = b \o SubSeq(r, 1, n) /\ red'[v] = SubSeq(r, n + 1, Len(r))
  BY <1>2 DEF Redes
<1>4. lee'[v] = lee[v] /\ buzon'[v] = buzon[v]
  BY DEF Llega
<1> HIDE DEF b, r
<1>5. Enteras(v) => Enteras(v)' /\ Pendiente(v)' = Pendiente(v)
  <2> SUFFICES ASSUME EsSecuencia(b), EsSecuencia(r)
               PROVE  /\ EsSecuencia(buffer'[v]) /\ EsSecuencia(red'[v])
                      /\ buffer'[v] \o red'[v] = b \o r
    BY DEF Enteras, Pendiente, b, r
  <2>1. Len(r) \in Nat /\ Len(r) # 0
    BY <1>1, EmptySeq DEF EsSecuencia
  <2>2. n \in 1 .. Len(r)
    BY <1>2, <2>1 DEF r
  <2>3. /\ EsSecuencia(b \o SubSeq(r, 1, n))
        /\ EsSecuencia(SubSeq(r, n + 1, Len(r)))
        /\ (b \o SubSeq(r, 1, n)) \o SubSeq(r, n + 1, Len(r)) = b \o r
    BY <2>2, Viaja
  <2> QED BY <1>3, <2>3, Zenon
<1>6. ~Callada(v)
  BY <1>1 DEF Callada, r
<1>7. ASSUME NEW op, NEW n1, EnCamino(v, op, n1)
      PROVE  EnCamino(v, op, n1)'
  <2>1. Enteras(v)' /\ Pendiente(v)' = Pendiente(v)
    BY <1>5, <1>7 DEF EnCamino
  <2>2. Pendiente(v) = Pendiente(v)' /\ lee[v] = lee'[v]
    BY <1>4, <2>1
  <2> QED BY <1>4, <1>7, <2>1, <2>2, Zenon DEF EnCamino
<1>8. ASSUME NEW op, VaPrimero(v, op)
      PROVE  VaPrimero(v, op)'
  <2>1. CASE lee[v].fase = "op" /\ Enteras(v)
    <3>1. Enteras(v)' /\ Pendiente(v)' = Pendiente(v)
      BY <1>5, <2>1
    <3> QED BY <1>4, <1>8, <3>1, <2>1 DEF VaPrimero
  <2>2. CASE lee[v].fase = "nada"
    BY <1>4, <1>8, <2>2 DEF VaPrimero
  <2> QED BY <1>8, <2>1, <2>2 DEF VaPrimero
<1>9. \A op, n1 : Va(v, op, n1) => Va(v, op, n1)'
  BY <1>6, <1>7 DEF Va, Leido
<1>10. ~Desocupada(v) /\ ~Espera(v)
  BY <1>6 DEF Desocupada, Espera
<1>11. Cerrada(v) => Cerrada(v)'
  BY <1>4 DEF Cerrada
<1> QED BY <1>4, <1>8, <1>9, <1>10, <1>11 DEF Queda

-----------------------------------------------------------------------------
(* What the reader takes is the message that was on its way.               *)

LEMMA Cabeza ==
    ASSUME NEW b, NEW r, EsSecuencia(b), EsSecuencia(r), b # <<>>
    PROVE  /\ Len(b \o r) >= 1 /\ Len(b \o r) \in Nat /\ (b \o r)[1] = Head(b)
           /\ EsSecuencia(Tail(b))
           /\ Len(Tail(b) \o r) = Len(b \o r) - 1
           /\ \A i \in 1 .. Len(b \o r) - 1 : (Tail(b) \o r)[i] = (b \o r)[1 + i]
<1>1. PICK Q : b \in Seq(Q)
  BY DEF EsSecuencia
<1>2. Len(b) \in Nat /\ Len(b) # 0
  BY <1>1, EmptySeq
<1>3. /\ Len(b \o r) \in Nat /\ Len(b \o r) = Len(b) + Len(r) /\ Len(r) \in Nat
      /\ \A i \in 1 .. Len(b) : (b \o r)[i] = b[i]
  <2>1. Len(b \o r) = Len(b) + Len(r) /\ Len(r) \in Nat
    BY Pega
  <2> QED BY <1>2, <2>1, Pega
<1>4. Tail(b) = SubSeq(b, 1 + 1, Len(b)) /\ Head(b) = b[1]
  <2>1. Tail(b) = SubSeq(b, 2, Len(b)) /\ Head(b) = b[1]
    BY <1>1, <1>2
  <2> QED BY <2>1
<1>5. 1 \in 1 .. Len(b)
  BY <1>2
<1>6. /\ EsSecuencia(SubSeq(b, 1 + 1, Len(b)))
      /\ Len(SubSeq(b, 1 + 1, Len(b)) \o r) = Len(b \o r) - 1
      /\ \A i \in 1 .. Len(b \o r) - 1 :
           (SubSeq(b, 1 + 1, Len(b)) \o r)[i] = (b \o r)[1 + i]
  <2> DEFINE k == 1
  <2>1. k \in 1 .. Len(b)
    BY <1>5
  <2> HIDE DEF k
  <2>2. /\ EsSecuencia(SubSeq(b, k + 1, Len(b)))
        /\ Len(SubSeq(b, k + 1, Len(b)) \o r) = Len(b \o r) - k
        /\ \A i \in 1 .. Len(b \o r) - k :
             (SubSeq(b, k + 1, Len(b)) \o r)[i] = (b \o r)[k + i]
    BY <2>1, Toma, SMTT(60)
  <2> QED BY <2>2 DEF k
<1>7. Len(b \o r) >= 1 /\ (b \o r)[1] = b[1]
  BY <1>2, <1>3, <1>5
<1> QED BY <1>3, <1>4, <1>6, <1>7

LEMMA LeeOpQueda ==
    ASSUME Redes, NEW v \in Vias, LeeOp(v)
    PROVE  Queda(v)
<1> DEFINE b == buffer[v]
           r == red[v]
           u == OpDe(Head(buffer[v]))
<1>1. lee[v].fase = "op" /\ b # <<>>
  BY DEF LeeOp
<1>2. buffer'[v] = Tail(b) /\ red'[v] = r
  BY DEF LeeOp, Redes
<1>3. IF Receptor(v, u).campos = <<>>
      THEN buzon'[v] = [op |-> u, datos |-> [c \in {} |-> <<>>]] /\ lee'[v] = NoLee
      ELSE /\ lee'[v] = [fase |-> "size", op |-> u, size |-> 0]
           /\ buzon'[v] = buzon[v]
  BY DEF LeeOp, Recibido, Redes
<1>4. /\ ~Callada(v) /\ ~Desocupada(v) /\ ~Espera(v) /\ ~Cerrada(v)
      /\ lee[v].fase # "nada"
  BY <1>1 DEF Callada, Desocupada, Espera, Cerrada
<1> HIDE DEF b, r, u
<1>5. Enteras(v) => /\ Pendiente(v)[1] = Head(b) /\ Enteras(v)'
                    /\ Len(Pendiente(v)) \in Nat
                    /\ Len(Pendiente(v)') = Len(Pendiente(v)) - 1
                    /\ \A i \in 1 .. Len(Pendiente(v)) - 1 :
                         Pendiente(v)'[i] = Pendiente(v)[1 + i]
  <2> SUFFICES ASSUME EsSecuencia(b), EsSecuencia(r)
               PROVE  /\ (b \o r)[1] = Head(b) /\ Len(b \o r) \in Nat
                      /\ EsSecuencia(Tail(b)) /\ EsSecuencia(r)
                      /\ Len(Tail(b) \o r) = Len(b \o r) - 1
                      /\ \A i \in 1 .. Len(b \o r) - 1 :
                           (Tail(b) \o r)[i] = (b \o r)[1 + i]
    BY <1>2 DEF Enteras, Pendiente, b, r
  <2> QED BY <1>1, Cabeza
<1>6. ASSUME NEW op, Enteras(v), Pendiente(v)[1] = <<"op", op, 1>>
      PROVE  u = op
  BY <1>5, <1>6 DEF u, b, OpDe
<1>7. ASSUME NEW op, NEW n, Va(v, op, n), Entiende(v, op, n)
      PROVE  Va(v, op, n)'
  <2>1. /\ EnCamino(v, op, n) /\ EsTrama(Pendiente(v), op, n) /\ Enteras(v)
        /\ n \in Nat /\ buzon[v] = Nada
    BY <1>1, <1>7 DEF Va, Leido, EnCamino
  <2>2. u = op
    BY <1>6, <2>1 DEF EsTrama
  <2>3. CASE n = 0
    <3>1. buzon'[v].op = op /\ lee'[v].fase = "nada"
      BY <1>3, <1>7, <2>2, <2>3 DEF Entiende, NoLee
    <3>2. Len(Pendiente(v)) = 1
      BY <2>1, <2>3 DEF EsTrama
    <3>3. Enteras(v)' /\ Len(Pendiente(v)') = 0
      BY <1>5, <2>1, <3>2
    <3>4. /\ EsSecuencia(buffer'[v]) /\ EsSecuencia(red'[v])
          /\ Len(buffer'[v] \o red'[v]) = 0
      BY <3>3 DEF Pendiente, Enteras
    <3>5. buffer'[v] = <<>> /\ red'[v] = <<>>
      BY <3>4, NadaPendiente
    <3> QED BY <3>1, <3>5 DEF Va, Leido, Callada
  <2>4. CASE n # 0
    <3>1. lee'[v].fase = "size" /\ lee'[v].op = op /\ buzon'[v] = Nada
      BY <1>3, <1>7, <2>1, <2>2, <2>4 DEF Entiende
    <3>2. /\ Len(Pendiente(v)) = n + 2 /\ Pendiente(v)[2] = <<"num", n, 1>>
      BY <2>1, <2>4 DEF EsTrama
    <3>3. Len(Pendiente(v)') = n + 1 /\ Enteras(v)'
      BY <1>5, <2>1, <3>2
    <3>4. Pendiente(v)'[1] = <<"num", n, 1>>
      <4>1. 1 \in 1 .. Len(Pendiente(v)) - 1
        BY <2>1, <3>2
      <4> QED BY <1>5, <2>1, <3>2, <4>1
    <3>5. EnCamino(v, op, n)'
      BY <2>1, <2>4, <3>1, <3>3, <3>4 DEF EnCamino
    <3> QED BY <3>5 DEF Va
  <2> QED BY <2>3, <2>4
<1>8. ASSUME NEW op, VaPrimero(v, op), Receptor(v, op).campos = <<>>
      PROVE  VaPrimero(v, op)'
  <2>1. Enteras(v) /\ Pendiente(v)[1] = <<"op", op, 1>>
    BY <1>1, <1>8 DEF VaPrimero
  <2>2. u = op
    BY <1>6, <2>1
  <2>3. buzon'[v].op = op /\ lee'[v].fase = "nada"
    BY <1>3, <1>8, <2>2 DEF NoLee
  <2> QED BY <2>3 DEF VaPrimero
<1> QED BY <1>4, <1>7, <1>8 DEF Queda

LEMMA LeeSizeQueda ==
    ASSUME Redes, NEW v \in Vias, LeeSize(v)
    PROVE  Queda(v)
<1> DEFINE b == buffer[v]
           r == red[v]
<1>1. lee[v].fase = "size" /\ b # <<>>
  BY DEF LeeSize
<1>2. buffer'[v] = Tail(b) /\ red'[v] = r /\ buzon'[v] = buzon[v]
  BY DEF LeeSize, envio, Redes
<1>3. lee'[v] = [fase |-> "stream", op |-> lee[v].op, size |-> NumeroDe(Head(b))]
  BY DEF LeeSize, Redes
<1>4. /\ ~Callada(v) /\ ~Desocupada(v) /\ ~Espera(v) /\ ~Cerrada(v)
      /\ lee[v].fase # "nada"
  BY <1>1 DEF Callada, Desocupada, Espera, Cerrada
<1> HIDE DEF b, r
<1>5. ASSUME NEW op, NEW n, Va(v, op, n)
      PROVE  Va(v, op, n)'
  <2>1. /\ lee[v].op = op /\ n # 0 /\ n \in Nat /\ buzon[v] = Nada /\ Enteras(v)
        /\ Len(Pendiente(v)) = n + 1 /\ Pendiente(v)[1] = <<"num", n, 1>>
    BY <1>1, <1>5 DEF Va, Leido, EnCamino
  <2>2. EsSecuencia(b) /\ EsSecuencia(r)
    BY <2>1 DEF Enteras, b, r
  <2>3. /\ (b \o r)[1] = Head(b) /\ EsSecuencia(Tail(b))
        /\ Len(Tail(b) \o r) = Len(b \o r) - 1
    BY <1>1, <2>2, Cabeza
  <2>4. Head(b) = <<"num", n, 1>> /\ Len(b \o r) = n + 1
    BY <2>1, <2>3 DEF Pendiente, b, r
  <2>5. lee'[v].size = n /\ lee'[v].fase = "stream" /\ lee'[v].op = op
    BY <1>3, <2>1, <2>4 DEF NumeroDe
  <2>6. Len(Pendiente(v)') = n /\ Enteras(v)'
    BY <1>2, <2>1, <2>2, <2>3, <2>4 DEF Enteras, Pendiente
  <2>7. EnCamino(v, op, n)'
    BY <1>2, <2>1, <2>5, <2>6 DEF EnCamino
  <2> QED BY <2>7 DEF Va
<1>6. \A op : ~VaPrimero(v, op)
  BY <1>1 DEF VaPrimero
<1> QED BY <1>4, <1>5, <1>6 DEF Queda

LEMMA LeeStreamQueda ==
    ASSUME Redes, NEW v \in Vias, LeeStream(v)
    PROVE  Queda(v)
<1> DEFINE b == buffer[v]
           r == red[v]
           receptor == Receptor(v, lee[v].op)
           pide == IF receptor.cuanto = "campos" THEN Len(receptor.campos)
                   ELSE lee[v].size
           toma == IF receptor.cuanto = "hay" /\ Len(buffer[v]) < pide
                   THEN Len(buffer[v]) ELSE pide
<1>1. lee[v].fase = "stream" /\ Len(b) >= toma /\ toma > 0
  BY DEF LeeStream
<1>2. buffer'[v] = SubSeq(b, toma + 1, Len(b)) /\ red'[v] = r
  BY DEF LeeStream, Redes
<1>3. buzon'[v].op = lee[v].op /\ lee'[v] = NoLee
  BY DEF LeeStream, Recibido, Redes
<1>4. /\ ~Desocupada(v) /\ ~Espera(v) /\ ~Cerrada(v)
      /\ lee[v].fase # "nada"
  BY <1>1 DEF Desocupada, Espera, Cerrada
<1>5. ASSUME NEW op, NEW n, Va(v, op, n), Entiende(v, op, n)
      PROVE  Va(v, op, n)'
  <2>1. /\ lee[v].op = op /\ n # 0 /\ n \in Nat /\ buzon[v] = Nada /\ Enteras(v)
        /\ Len(Pendiente(v)) = n /\ lee[v].size = n
    BY <1>1, <1>5 DEF Va, Leido, EnCamino
  <2>2. EsSecuencia(b) /\ EsSecuencia(r)
    BY <2>1 DEF Enteras
  <2>3. toma = n
    BY <1>5, <2>1 DEF Entiende
  <2> HIDE DEF b, r, toma
  <2>4. n \in 1 .. Len(b)
    <3>1. Len(b) \in Nat
      BY <2>2, Pega
    <3> QED BY <1>1, <2>1, <2>3, <3>1
  <2>5. /\ EsSecuencia(SubSeq(b, n + 1, Len(b)))
        /\ Len(SubSeq(b, n + 1, Len(b)) \o r) = Len(b \o r) - n
    BY <2>2, <2>4, Toma
  <2>6. Len(b \o r) = n
    BY <2>1 DEF Pendiente, b, r
  <2>7. /\ EsSecuencia(buffer'[v]) /\ EsSecuencia(red'[v])
        /\ Len(buffer'[v] \o red'[v]) = 0
    BY <1>2, <2>1, <2>2, <2>3, <2>5, <2>6
  <2>8. buffer'[v] = <<>> /\ red'[v] = <<>>
    BY <2>7, NadaPendiente
  <2> QED BY <1>3, <2>1, <2>8 DEF Va, Leido, Callada, NoLee
<1>6. \A op : ~VaPrimero(v, op)
  BY <1>1 DEF VaPrimero
<1> QED BY <1>4, <1>5, <1>6 DEF Queda

-----------------------------------------------------------------------------
(* Every reader takes each message of its connection for what it is.       *)

LEMMA LasVias ==
    /\ \A c \in Conexiones : Ida(c) \in Vias /\ Vuelta(c) \in Vias
    /\ \A c, d : Ida(c) # Vuelta(d)
    /\ \A c, d : (Ida(c) = Ida(d) => c = d) /\ (Vuelta(c) = Vuelta(d) => c = d)
    /\ DeRespuesta \subseteq Conexiones
<1>1. \A c \in Conexiones : Ida(c) \in Vias /\ Vuelta(c) \in Vias
  BY DEF Vias, Ida, Vuelta
<1>2. \A c, d : Ida(c) # Vuelta(d)
  BY DEF Ida, Vuelta
<1>3. \A c, d : (Ida(c) = Ida(d) => c = d) /\ (Vuelta(c) = Vuelta(d) => c = d)
  BY DEF Ida, Vuelta
<1>4. DeRespuesta \subseteq Conexiones
  BY DEF DeRespuesta, Conexiones
<1> QED BY <1>1, <1>2, <1>3, <1>4

LEMMA EntiendeSaludo ==
    ASSUME NEW v, NEW op \in Saludos
    PROVE  Entiende(v, op, 0) /\ Receptor(v, op).campos = <<>>
BY DEF Entiende, Receptor, SoloEntero, PorSize

LEMMA SaludoConocido == \A c : Saludo(c) \in Saludos /\ "HANDSHAKE_ACCEPTED" \in Saludos
BY DEF Saludo, Saludos

\* What goes to the kernel, from memoria, and to memoria from filesystem.
LEMMA EntiendeEntero ==
    ASSUME NEW v \in {Vuelta("kernel"), Vuelta("filesystem")},
           NEW op \in {"OK", "ERROR"}
    PROVE  Entiende(v, op, 0) /\ Receptor(v, op).campos = <<>>
<1>1. op \notin Saludos
  BY DEF Saludos
<1>2. v \in Vias /\ \A c : v # Ida(c)
  BY DEF Vias, Conexiones, Ida, Vuelta
<1>3. v # Vuelta("cpu") /\ v # Vuelta("dispatch") /\ v # Vuelta("interrupt")
  BY DEF Vuelta
<1>4. Receptor(v, op) = SoloEntero
  BY <1>1, <1>2, <1>3 DEF Receptor
<1> QED BY <1>4 DEF Entiende, SoloEntero, PorSize

LEMMA EntiendePorSize ==
    ASSUME NEW v, NEW op, NEW n, n # 0,
           \E campos : campos # <<>> /\ Receptor(v, op) = PorSize(campos)
    PROVE  Entiende(v, op, n)
BY DEF Entiende, PorSize

LEMMA EntiendePedido ==
    ASSUME NEW c \in DeRespuesta, NEW q \in PedidosDe(c)
    PROVE  Entiende(Ida(c), q[1], q[2]) /\ q[2] \in Nat \ {0}
<1> USE MensajesAssumption
<1>1. CASE c = "cpu"
  <2>1. q[1] \in {"GET_CONTEXTO_EJECUCION", "UPD_CONTEXTO_EJECUCION",
                  "GET_INSTRUCCION", "READ_MEM", "WRITE_MEM"}
        /\ q[2] \in Nat \ {0}
    BY <1>1 DEF PedidosDe
  <2>2. Receptor(Ida(c), q[1]) = ManejarClienteCPU(q[1])
    BY <1>1, <2>1 DEF Receptor, Saludos, Ida, Vuelta
  <2>3. \E campos : campos # <<>> /\ ManejarClienteCPU(q[1]) = PorSize(campos)
    <3>1. <<"pid", "tid">> # <<>> /\ <<"pid", "tid">> \o Registros # <<>>
          /\ <<"pid", "tid", "pc">> # <<>> /\ <<"pid", "tid", "direccion">> # <<>>
          /\ <<"pid", "tid", "direccion", "valor">> # <<>>
      BY DEF Registros
    <3> QED BY <2>1, <3>1 DEF ManejarClienteCPU, RecibirGetContexto,
            RecibirUpdContexto, RecibirGetInstruccion, RecibirMemoryRead,
            RecibirMemoryWrite
  <2> QED BY <2>1, <2>2, <2>3, EntiendePorSize
<1>2. CASE c = "kernel"
  <2>1. q[1] \in {"CREATE_PROCESS", "CREATE_THREAD", "END_PROCESS", "END_THREAD",
                  "MEMORY_DUMP"}
        /\ q[2] \in Nat \ {0}
    BY <1>2 DEF PedidosDe
  <2>2. Receptor(Ida(c), q[1]) = ManejarClienteKernel(q[1])
    BY <1>2, <2>1 DEF Receptor, Saludos, Ida, Vuelta
  <2>3. \E campos : campos # <<>> /\ ManejarClienteKernel(q[1]) = PorSize(campos)
    <3>1. <<"pid", "tid">> # <<>> /\ <<"pid">> # <<>>
          /\ <<"pid", "tamanio", "path">> # <<>> /\ <<"pid", "tid", "path">> # <<>>
      OBVIOUS
    <3> QED BY <2>1, <3>1 DEF ManejarClienteKernel, RecibirProceso, RecibirId,
            RecibirHilo, RecibirThreadToEnd, RecibirMemoryDump
  <2> QED BY <2>1, <2>2, <2>3, EntiendePorSize
<1>3. CASE c = "filesystem"
  <2>1. q[1] = "WRITE_FILE" /\ q[2] \in Nat \ {0}
    BY <1>3 DEF PedidosDe
  <2>2. Receptor(Ida(c), q[1]) = PorSize(<<"filename", "content">>)
    BY <1>3, <2>1 DEF Receptor, Saludos, Ida, Vuelta
  <2>3. <<"filename", "content">> # <<>>
    OBVIOUS
  <2> QED BY <2>1, <2>2, <2>3, EntiendePorSize
<1> QED BY <1>1, <1>2, <1>3 DEF DeRespuesta

LEMMA EntiendeContestacion ==
    ASSUME NEW q \in Contestaciones(solicitud["cpu"])
    PROVE  Entiende(Vuelta("cpu"), q[1], q[2]) /\ q[1] \in {"OK", "ERROR"}
           /\ q[2] \in Nat
<1> USE MensajesAssumption
<1> DEFINE s == solicitud["cpu"]
           v == Vuelta("cpu")
<1>1. Receptor(v, "OK") = RespuestaDeMemoria("OK")
      /\ Receptor(v, "ERROR") = SoloEntero
  BY DEF Receptor, RespuestaDeMemoria, Saludos, Ida, Vuelta
<1>2. Entiende(v, "ERROR", 0)
  BY <1>1 DEF Entiende, SoloEntero, PorSize
<1> HIDE DEF v
<1>3. CASE s = "GET_CONTEXTO_EJECUCION"
  <2>1. q[1] = "OK" /\ q[2] = 11
    BY <1>3 DEF Contestaciones
  <2>2. Receptor(v, "OK") = RecibirContexto
    BY <1>1, <1>3 DEF RespuestaDeMemoria
  <2>3. Len(Registros \o <<"base", "limite">>) = 11
        /\ Registros \o <<"base", "limite">> # <<>>
    BY DEF Registros
  <2>4. Receptor(v, "OK") = PorCampo(Registros \o <<"base", "limite">>)
    BY <2>2 DEF RecibirContexto
  <2> DEFINE campos == Registros \o <<"base", "limite">>
  <2> HIDE DEF campos
  <2>5. /\ campos # <<>> /\ Len(campos) = 11
        /\ Receptor(v, "OK").campos = campos /\ Receptor(v, "OK").cuanto = "campos"
    BY <2>3, <2>4 DEF PorCampo, campos
  <2>6. Entiende(v, "OK", 11)
    BY <2>5 DEF Entiende
  <2> QED BY <2>1, <2>6 DEF v
<1>4. CASE s = "GET_INSTRUCCION"
  <2>1. q = <<"ERROR", 0>> \/ (q[1] = "OK" /\ q[2] \in Nat \ {0})
    BY <1>4 DEF Contestaciones
  <2>2. Receptor(v, "OK") = RecibirInstruccion
    BY <1>1, <1>4 DEF RespuestaDeMemoria
  <2>3. <<"instruccion">> # <<>>
    OBVIOUS
  <2>4. \A n : n # 0 => Entiende(v, "OK", n)
    BY <2>2, <2>3, EntiendePorSize DEF RecibirInstruccion
  <2> QED BY <1>2, <2>1, <2>4 DEF v
<1>5. CASE s = "READ_MEM"
  <2>1. q[1] = "OK" /\ q[2] = 1
    BY <1>5 DEF Contestaciones
  <2>2. Receptor(v, "OK") = RecibirValor
    BY <1>1, <1>5 DEF RespuestaDeMemoria
  <2>3. <<"valor">> # <<>>
    OBVIOUS
  <2>4. \A n : n # 0 => Entiende(v, "OK", n)
    BY <2>2, <2>3, EntiendePorSize DEF RecibirValor
  <2> QED BY <2>1, <2>4 DEF v
<1>6. CASE s \notin {"GET_CONTEXTO_EJECUCION", "GET_INSTRUCCION", "READ_MEM"}
  <2>1. q[1] = "OK" /\ q[2] = 0
    BY <1>6 DEF Contestaciones
  <2>2. Receptor(v, "OK") = SoloEntero
    BY <1>1, <1>6 DEF RespuestaDeMemoria
  <2> QED BY <2>1, <2>2 DEF Entiende, SoloEntero, PorSize, v
<1> QED BY <1>3, <1>4, <1>5, <1>6

-----------------------------------------------------------------------------
(* While the network and the readers go on, each connection is where its   *)
(* programs left it.                                                       *)

Quieta(c) ==
    /\ Queda(Ida(c)) /\ Queda(Vuelta(c))
    /\ cli'[c] = cli[c] /\ srv'[c] = srv[c] /\ solicitud'[c] = solicitud[c]

LEMMA RedQueda ==
    ASSUME Redes, NEW v \in Vias, Llega(v) \/ Lee(v)
    PROVE  (\A c \in Conexiones : Quieta(c)) /\ escrito' = escrito /\ Redes'
<1>1. Queda(v)
  BY LlegaQueda, LeeOpQueda, LeeSizeQueda, LeeStreamQueda DEF Lee
<1>2. ASSUME NEW w \in Vias, w # v PROVE Queda(w)
  <2>1. red'[w] = red[w] /\ buffer'[w] = buffer[w]
    BY <1>2 DEF Redes, Llega, Lee, LeeOp, LeeSize, LeeStream, envio
  <2>2. lee'[w] = lee[w] /\ buzon'[w] = buzon[w]
    BY <1>2 DEF Redes, Llega, Lee, LeeOp, LeeSize, LeeStream, Recibido, envio
  <2> QED BY <2>1, <2>2, IgualQueda
<1>3. cli' = cli /\ srv' = srv /\ solicitud' = solicitud /\ escrito' = escrito
  BY DEF Llega, Lee, LeeOp, LeeSize, LeeStream
<1>4. Redes'
  <2>1. DOMAIN red' = Vias /\ DOMAIN buffer' = Vias
    BY DEF Redes, Llega, Lee, LeeOp, LeeSize, LeeStream, envio
  <2>2. DOMAIN lee' = Vias /\ DOMAIN buzon' = Vias
    BY DEF Redes, Llega, Lee, LeeOp, LeeSize, LeeStream, Recibido, envio
  <2> QED BY <1>3, <2>1, <2>2 DEF Redes
<1> QED BY <1>1, <1>2, <1>3, <1>4, LasVias DEF Quieta

LEMMA SigueSaludando ==
    ASSUME NEW c, Quieta(c), Saludando(c)
    PROVE  Saludando(c)'
<1> USE DEF Quieta
<1>1. /\ Entiende(Ida(c), Saludo(c), 0)
      /\ Entiende(Vuelta(c), "HANDSHAKE_ACCEPTED", 0)
  BY EntiendeSaludo, SaludoConocido
<1>2. CASE srv[c] = "saluda" /\ Va(Ida(c), Saludo(c), 0) /\ Espera(Vuelta(c))
  <2>1. Va(Ida(c), Saludo(c), 0)' /\ Espera(Vuelta(c))'
    BY <1>1, <1>2 DEF Queda
  <2> QED BY <1>2, <2>1 DEF Saludando
<1>3. CASE srv[c] = "lee" /\ Espera(Ida(c)) /\ Va(Vuelta(c), "HANDSHAKE_ACCEPTED", 0)
  <2>1. Espera(Ida(c))' /\ Va(Vuelta(c), "HANDSHAKE_ACCEPTED", 0)'
    BY <1>1, <1>3 DEF Queda
  <2> QED BY <1>3, <2>1 DEF Saludando
<1> QED BY <1>2, <1>3 DEF Saludando

LEMMA SigueSinPedido ==
    ASSUME NEW c, Quieta(c), SinPedido(c)
    PROVE  SinPedido(c)'
BY DEF Quieta, Queda, SinPedido

LEMMA SigueConPedido ==
    ASSUME NEW c \in DeRespuesta, Quieta(c), ConPedido(c)
    PROVE  ConPedido(c)'
<1> USE DEF Quieta
<1>1. PICK q \in PedidosDe(c) : q[1] = solicitud[c] /\ Va(Ida(c), q[1], q[2])
  BY DEF ConPedido
<1>2. Va(Ida(c), q[1], q[2])'
  BY <1>1, EntiendePedido DEF Queda
<1>3. Espera(Vuelta(c))'
  BY DEF ConPedido, Queda
<1> QED BY <1>1, <1>2, <1>3 DEF ConPedido

LEMMA SigueCPU ==
    ASSUME CPUBien, Quieta("cpu")
    PROVE  CPUBien'
<1> USE DEF Quieta
<1>1. CASE Saludando("cpu") \/ SinPedido("cpu") \/ ConPedido("cpu")
  <2>1. (Saludando("cpu") \/ SinPedido("cpu") \/ ConPedido("cpu"))'
    BY <1>1, SigueSaludando, SigueSinPedido, SigueConPedido DEF DeRespuesta
  <2> QED BY <2>1 DEF CPUBien
<1>2. CASE /\ cli["cpu"] = "cerrado" /\ srv["cpu"] = "cerrado"
           /\ Cerrada(Ida("cpu")) /\ Cerrada(Vuelta("cpu"))
  BY <1>2 DEF Queda, CPUBien
<1>3. CASE /\ cli["cpu"] = "espera" /\ srv["cpu"] = "lee" /\ Espera(Ida("cpu"))
           /\ \E q \in Contestaciones(solicitud["cpu"]) :
                Va(Vuelta("cpu"), q[1], q[2])
  <2>1. PICK q \in Contestaciones(solicitud["cpu"]) :
                Va(Vuelta("cpu"), q[1], q[2])
    BY <1>3
  <2>2. Va(Vuelta("cpu"), q[1], q[2])'
    BY <2>1, EntiendeContestacion DEF Queda
  <2>3. Espera(Ida("cpu"))'
    BY <1>3 DEF Queda
  <2>4. cli'["cpu"] = "espera" /\ srv'["cpu"] = "lee"
    BY <1>3
  <2> QED BY <2>1, <2>2, <2>3, <2>4 DEF CPUBien
<1>4. CASE /\ cli["cpu"] = "termino" /\ srv["cpu"] = "lee"
           /\ Espera(Ida("cpu")) /\ Cerrada(Vuelta("cpu"))
  BY <1>4 DEF Queda, CPUBien
<1> QED BY <1>1, <1>2, <1>3, <1>4 DEF CPUBien

LEMMA SigueAfuera ==
    ASSUME VolcadoAfuera, Quieta("filesystem")
    PROVE  VolcadoAfuera'
BY DEF VolcadoAfuera, Quieta, Queda

LEMMA SigueVolcado ==
    ASSUME VolcadoBien, Quieta("filesystem"), escrito' = escrito
    PROVE  VolcadoBien'
<1> USE DEF Quieta
<1> DEFINE ida == Ida("filesystem")
           vuelta == Vuelta("filesystem")
<1>1. CASE ~escrito /\ (Saludando("filesystem") \/ SinPedido("filesystem")
                        \/ ConPedido("filesystem"))
  <2>1. (Saludando("filesystem") \/ SinPedido("filesystem")
           \/ ConPedido("filesystem"))'
    BY <1>1, SigueSaludando, SigueSinPedido, SigueConPedido DEF DeRespuesta
  <2> QED BY <1>1, <2>1 DEF VolcadoBien
<1>2. ASSUME NEW op \in {"OK", "ERROR"}, VaPrimero(vuelta, op)
      PROVE  VaPrimero(vuelta, op)'
  <2>1. Receptor(vuelta, op).campos = <<>>
    BY EntiendeEntero
  <2> QED BY <1>2, <2>1 DEF Queda
<1>3. CASE /\ cli["filesystem"] = "espera" /\ srv["filesystem"] = "confirma"
           /\ lee[ida].fase = "nada"
           /\ \/ escrito /\ Espera(vuelta)
              \/ ~escrito /\ VaPrimero(vuelta, "ERROR")
  <2>1. lee'[ida].fase = "nada"
    BY <1>3 DEF Queda
  <2>2. (escrito /\ Espera(vuelta)') \/ (~escrito /\ VaPrimero(vuelta, "ERROR")')
    BY <1>2, <1>3 DEF Queda
  <2> QED BY <1>3, <2>1, <2>2 DEF VolcadoBien
<1>4. CASE /\ cli["filesystem"] = "espera" /\ srv["filesystem"] = "cerrado"
           /\ Cerrada(ida)
           /\ \E op \in {"OK", "ERROR"} :
                VaPrimero(vuelta, op) /\ ((op = "OK") = escrito)
  <2>1. PICK op \in {"OK", "ERROR"} : VaPrimero(vuelta, op) /\ ((op = "OK") = escrito)
    BY <1>4
  <2>2. VaPrimero(vuelta, op)'
    BY <1>2, <2>1
  <2>3. Cerrada(ida)'
    BY <1>4 DEF Queda
  <2> QED BY <1>4, <2>1, <2>2, <2>3 DEF VolcadoBien
<1> QED BY <1>1, <1>3, <1>4 DEF VolcadoBien

LEMMA SigueKernel ==
    ASSUME KernelBien, Quieta("kernel"), escrito' = escrito,
           VolcadoAfuera => VolcadoAfuera', VolcadoBien => VolcadoBien'
    PROVE  KernelBien'
<1> USE DEF Quieta
<1> DEFINE ida == Ida("kernel")
           vuelta == Vuelta("kernel")
<1>1. /\ cli'["kernel"] = cli["kernel"] /\ srv'["kernel"] = srv["kernel"]
      /\ solicitud'["kernel"] = solicitud["kernel"]
  OBVIOUS
<1>2. VolcadoAfuera => VolcadoAfuera'
  OBVIOUS
<1>3. VolcadoBien => VolcadoBien'
  OBVIOUS
<1>4. CASE /\ cli["kernel"] = "cerrado" /\ srv["kernel"] = "cerrado"
           /\ Cerrada(ida) /\ Cerrada(vuelta) /\ VolcadoAfuera
  <2>1. Cerrada(ida)' /\ Cerrada(vuelta)'
    BY <1>4 DEF Queda
  <2> QED BY <1>1, <1>2, <1>4, <2>1 DEF KernelBien
<1>5. CASE (Saludando("kernel") \/ SinPedido("kernel")) /\ ~escrito /\ VolcadoAfuera
  <2>1. (Saludando("kernel") \/ SinPedido("kernel"))'
    BY <1>1, <1>5, SigueSaludando, SigueSinPedido
  <2> QED BY <1>2, <1>5, <2>1 DEF KernelBien
<1>6. CASE /\ ConPedido("kernel") /\ solicitud["kernel"] # "END_THREAD"
           /\ ~escrito /\ VolcadoAfuera
  <2>1. ConPedido("kernel")'
    BY <1>1, <1>6, SigueConPedido DEF DeRespuesta
  <2> QED BY <1>1, <1>2, <1>6, <2>1 DEF KernelBien
<1>7. CASE /\ cli["kernel"] = "cerrado" /\ srv["kernel"] = "lee"
           /\ Va(ida, "END_THREAD", 2) /\ Cerrada(vuelta) /\ VolcadoAfuera
  <2>1. <<"END_THREAD", 2>> \in PedidosDe("kernel") /\ "kernel" \in DeRespuesta
    BY DEF PedidosDe, DeRespuesta
  <2>2. Entiende(ida, "END_THREAD", 2)
    BY <2>1, EntiendePedido
  <2>3. Va(ida, "END_THREAD", 2)' /\ Cerrada(vuelta)'
    BY <1>7, <2>2 DEF Queda
  <2> QED BY <1>1, <1>2, <1>7, <2>3 DEF KernelBien
<1>8. CASE /\ cli["kernel"] = "espera" /\ srv["kernel"] = "cerrado"
           /\ Cerrada(ida) /\ VolcadoAfuera
           /\ \E op \in {"OK", "ERROR"} :
                /\ Va(vuelta, op, 0)
                /\ solicitud["kernel"] = "MEMORY_DUMP" => ((op = "OK") = escrito)
  <2>1. PICK op \in {"OK", "ERROR"} :
                /\ Va(vuelta, op, 0)
                /\ solicitud["kernel"] = "MEMORY_DUMP" => ((op = "OK") = escrito)
    BY <1>8
  <2>2. Va(vuelta, op, 0)' /\ Cerrada(ida)'
    BY <1>8, <2>1, EntiendeEntero DEF Queda
  <2> QED BY <1>1, <1>2, <1>8, <2>1, <2>2 DEF KernelBien
<1>9. CASE /\ cli["kernel"] = "espera" /\ srv["kernel"] = "vuelca"
           /\ solicitud["kernel"] = "MEMORY_DUMP"
           /\ lee[ida].fase = "nada" /\ Espera(vuelta) /\ VolcadoBien
  <2>1. lee'[ida].fase = "nada" /\ Espera(vuelta)'
    BY <1>9 DEF Queda
  <2> QED BY <1>1, <1>3, <1>9, <2>1 DEF KernelBien
<1> QED BY <1>4, <1>5, <1>6, <1>7, <1>8, <1>9 DEF KernelBien

-----------------------------------------------------------------------------
(* What is sent on a connection where there was nothing is on its way.     *)

\* A packet without a stream is its code alone.
BienHecho(p) == IF p.campos = <<>> THEN p.size = 0 ELSE p.size \in Nat \ {0}

LEMMA TramaBien ==
    ASSUME NEW p, NEW s, NEW l, BienHecho(p)
    PROVE  /\ EsSecuencia(Trama(p, s, l)) /\ EsTrama(Trama(p, s, l), p.op, p.size)
           /\ Len(Trama(p, s, l)) >= 1 /\ Trama(p, s, l) # <<>>
           /\ <<>> \o Trama(p, s, l) = Trama(p, s, l) /\ p.size \in Nat
<1>1. EsSecuencia(Trama(p, s, l)) /\ EsTrama(Trama(p, s, l), p.op, p.size)
  BY TramaSola, TramaEntera DEF BienHecho
<1>2. p.size \in Nat
  BY DEF BienHecho
<1>3. Len(Trama(p, s, l)) >= 1
  BY <1>1, <1>2 DEF EsTrama
<1>4. PICK Q : Trama(p, s, l) \in Seq(Q)
  BY <1>1 DEF EsSecuencia
<1> DEFINE t == Trama(p, s, l)
<1> HIDE DEF t
<1>5. t \in Seq(Q) /\ Len(t) >= 1
  BY <1>3, <1>4 DEF t
<1>6. t # <<>> /\ <<>> \o t = t
  BY <1>5
<1> QED BY <1>1, <1>2, <1>3, <1>6 DEF t

LEMMA Enviado ==
    ASSUME Redes, NEW v \in Vias, NEW p, NEW l, Manda(v, p, l), BienHecho(p),
           Callada(v), buffer'[v] = buffer[v], buzon'[v] = Nada,
           lee'[v].fase = "op"
    PROVE  EnCamino(v, p.op, p.size)'
<1> DEFINE t == Trama(p, serie[v], l)
<1>1. red'[v] = <<>> \o t
  BY DEF Manda, Redes, Callada
<1>2. /\ EsSecuencia(t) /\ EsTrama(t, p.op, p.size) /\ p.size \in Nat
      /\ <<>> \o t = t
  BY TramaBien
<1>3. buffer'[v] = <<>>
  BY DEF Callada
<1> HIDE DEF t
<1>4. red'[v] = t /\ EsSecuencia(<<>>)
  <2>1. <<>> \in Seq({})
    OBVIOUS
  <2> QED BY <1>1, <1>2, <2>1 DEF EsSecuencia
<1>5. Pendiente(v)' = t /\ Enteras(v)'
  BY <1>2, <1>3, <1>4 DEF Pendiente, Enteras
<1> QED BY <1>2, <1>5 DEF EnCamino

LEMMA EnteroBien ==
    \A op : /\ BienHecho(Entero(op)) /\ Entero(op).op = op
            /\ Entero(op).size = 0 /\ Entero(op).campos = <<>>
BY DEF BienHecho, Entero, Paquete

LEMMA EnteroEnviado ==
    ASSUME Redes, NEW v \in Vias, NEW op, MandaEntero(v, op),
           Callada(v), buffer'[v] = buffer[v], buzon'[v] = Nada,
           lee'[v].fase = "op"
    PROVE  EnCamino(v, op, 0)'
<1> DEFINE p == Entero(op)
<1>1. Manda(v, p, 1) /\ BienHecho(p) /\ p.op = op /\ p.size = 0
  BY EnteroBien DEF MandaEntero
<1> HIDE DEF p
<1> QED BY <1>1, Enviado

\* Behind what was there, it is not the first message.
LEMMA EnviadoDetras ==
    ASSUME Redes, NEW v \in Vias, NEW op, NEW otro, MandaEntero(v, otro),
           VaPrimero(v, op), buffer'[v] = buffer[v], buzon'[v] = buzon[v],
           lee'[v] = lee[v]
    PROVE  VaPrimero(v, op)'
<1>1. CASE lee[v].fase = "nada"
  BY <1>1 DEF VaPrimero
<1>2. CASE lee[v].fase = "op"
  <2> DEFINE b == buffer[v]
             r == red[v]
             t == Trama(Entero(otro), serie[v], 1)
  <2>1. red'[v] = r \o t
    BY DEF MandaEntero, Manda, Redes
  <2>2. EsSecuencia(b) /\ EsSecuencia(r) /\ Len(b \o r) >= 1 /\ (b \o r)[1] = <<"op", op, 1>>
    BY <1>2 DEF VaPrimero, Enteras, Pendiente
  <2>3. EsSecuencia(t)
    BY TramaBien, EnteroBien
  <2> HIDE DEF b, r, t
  <2>4. EsSecuencia(r \o t) /\ EsSecuencia(b \o r)
    BY <2>2, <2>3, Pega
  <2>5. b \o (r \o t) = (b \o r) \o t
    <3>1. PICK B : b \in Seq(B)
      BY <2>2 DEF EsSecuencia
    <3>2. PICK R : r \in Seq(R)
      BY <2>2 DEF EsSecuencia
    <3>3. PICK T : t \in Seq(T)
      BY <2>3 DEF EsSecuencia
    <3> DEFINE U == B \cup R \cup T
    <3>4. b \in Seq(U) /\ r \in Seq(U) /\ t \in Seq(U)
      BY <3>1, <3>2, <3>3, SeqMonotonic
    <3> HIDE DEF U
    <3> QED BY <3>4, ConcatAssociative
  <2> DEFINE s == b \o r
  <2> HIDE DEF s
  <2>6. EsSecuencia(s) /\ Len(s) >= 1 /\ s[1] = <<"op", op, 1>>
    BY <2>2, <2>4 DEF s
  <2>7. Len(s \o t) >= 1 /\ (s \o t)[1] = <<"op", op, 1>>
    <3>1. /\ Len(s) \in Nat /\ Len(t) \in Nat /\ Len(s \o t) = Len(s) + Len(t)
          /\ \A i \in 1 .. Len(s) : (s \o t)[i] = s[i]
      BY <2>3, <2>6, Pega
    <3> QED BY <2>6, <3>1
  <2>8. Pendiente(v)' = s \o t /\ Enteras(v)'
    BY <2>1, <2>2, <2>4, <2>5 DEF Pendiente, Enteras, s, b
  <2> QED BY <1>2, <2>7, <2>8 DEF VaPrimero
<1> QED BY <1>1, <1>2 DEF VaPrimero

\* The greeting of a new connection.
LEMMA Abierta ==
    ASSUME Redes, NEW c \in DeRespuesta, Abre(c), srv'[c] = "saluda",
           buzon' = buzon, Cerrada(Ida(c)), Cerrada(Vuelta(c))
    PROVE  Saludando(c)'
<1> DEFINE t == Trama(Entero(Saludo(c)), 0, 1)
<1>1. Ida(c) \in Vias /\ Vuelta(c) \in Vias /\ Ida(c) # Vuelta(c) /\ c \in Conexiones
  BY LasVias
<1>2. red'[Ida(c)] = t /\ red'[Vuelta(c)] = <<>>
  BY <1>1 DEF Abre, Redes
<1>3. buffer'[Ida(c)] = <<>> /\ buffer'[Vuelta(c)] = <<>>
  BY <1>1 DEF Abre, Redes
<1>4. lee'[Ida(c)].fase = "op" /\ lee'[Vuelta(c)].fase = "op"
  BY <1>1 DEF Abre, Redes, LeeOtro
<1>5. cli'[c] = "saluda"
  BY <1>1 DEF Abre, Redes
<1>6. EsSecuencia(t) /\ EsTrama(t, Saludo(c), 0) /\ <<>> \o t = t
  BY TramaBien, EnteroBien
<1> HIDE DEF t
<1>7. Pendiente(Ida(c))' = t /\ Enteras(Ida(c))'
  <2>1. <<>> \in Seq({})
    OBVIOUS
  <2> QED BY <1>2, <1>3, <1>6, <2>1 DEF Pendiente, Enteras, EsSecuencia
<1>8. Va(Ida(c), Saludo(c), 0)'
  BY <1>4, <1>6, <1>7 DEF Va, EnCamino, Cerrada
<1>9. Espera(Vuelta(c))'
  BY <1>2, <1>3, <1>4 DEF Espera, Callada, Cerrada
<1> QED BY <1>5, <1>8, <1>9 DEF Saludando

LEMMA PaqueteBien ==
    ASSUME NEW op, NEW n \in Nat \ {0}, NEW campos, campos # <<>>
    PROVE  /\ BienHecho(Paquete(op, n, campos))
           /\ Paquete(op, n, campos).op = op /\ Paquete(op, n, campos).size = n
BY DEF BienHecho, Paquete

LEMMA PedidoBien ==
    ASSUME NEW c \in DeRespuesta, NEW l \in Largos, NEW p \in Pedidos(c, l)
    PROVE  <<p.op, p.size>> \in PedidosDe(c) /\ BienHecho(p)
<1> USE MensajesAssumption
<1> DEFINE Hecho(q, op, n) == q.op = op /\ q.size = n /\ BienHecho(q)
<1>1. l \in Nat \ {0} /\ 2 + l \in Nat \ {0}
  OBVIOUS
<1>2. CASE c = "cpu"
  <2>1. /\ Hecho(SolicitarContexto, "GET_CONTEXTO_EJECUCION", 2)
        /\ Hecho(SolicitarInstruccion, "GET_INSTRUCCION", 3)
        /\ Hecho(PedirRead, "READ_MEM", 3) /\ Hecho(PedirEscribir, "WRITE_MEM", 4)
    BY PaqueteBien DEF SolicitarContexto, SolicitarInstruccion, PedirRead, PedirEscribir
  <2>2. Hecho(EnviarContexto, "UPD_CONTEXTO_EJECUCION", 11)
    <3> DEFINE campos == <<"pid", "tid">> \o Registros
    <3>1. campos # <<>>
      BY DEF Registros
    <3>2. EnviarContexto = Paquete("UPD_CONTEXTO_EJECUCION", 11, campos)
      BY DEF EnviarContexto
    <3> HIDE DEF campos
    <3> QED BY <3>1, <3>2, PaqueteBien
  <2>3. p \in {SolicitarContexto, EnviarContexto, SolicitarInstruccion,
               PedirRead, PedirEscribir}
    BY <1>2 DEF Pedidos
  <2>4. \/ Hecho(p, "GET_CONTEXTO_EJECUCION", 2) \/ Hecho(p, "GET_INSTRUCCION", 3)
        \/ Hecho(p, "READ_MEM", 3) \/ Hecho(p, "WRITE_MEM", 4)
        \/ Hecho(p, "UPD_CONTEXTO_EJECUCION", 11)
    BY <2>1, <2>2, <2>3
  <2> QED BY <1>2, <2>4 DEF PedidosDe
<1>3. CASE c = "kernel"
  <2>1. /\ Hecho(EnviarInformacionProceso(l), "CREATE_PROCESS", 2 + l)
        /\ Hecho(EnviarInformacionHilo(l), "CREATE_THREAD", 2 + l)
        /\ Hecho(EnviarPidFinalizar, "END_PROCESS", 1)
        /\ Hecho(EnviarTIDPID("END_THREAD"), "END_THREAD", 2)
        /\ Hecho(EnviarTIDPID("MEMORY_DUMP"), "MEMORY_DUMP", 2)
    <3>1. Hecho(EnviarInformacionProceso(l), "CREATE_PROCESS", 2 + l)
      BY <1>1, PaqueteBien DEF EnviarInformacionProceso
    <3>2. Hecho(EnviarInformacionHilo(l), "CREATE_THREAD", 2 + l)
      BY <1>1, PaqueteBien DEF EnviarInformacionHilo
    <3>3. Hecho(EnviarPidFinalizar, "END_PROCESS", 1)
      BY PaqueteBien DEF EnviarPidFinalizar
    <3>4. \A op : Hecho(EnviarTIDPID(op), op, 2)
      BY PaqueteBien DEF EnviarTIDPID
    <3> QED BY <3>1, <3>2, <3>3, <3>4
  <2>2. p \in {EnviarInformacionProceso(l), EnviarInformacionHilo(l),
               EnviarPidFinalizar, EnviarTIDPID("END_THREAD"),
               EnviarTIDPID("MEMORY_DUMP")}
    BY <1>3 DEF Pedidos
  <2>3. \/ Hecho(p, "CREATE_PROCESS", 2 + l) \/ Hecho(p, "CREATE_THREAD", 2 + l)
        \/ Hecho(p, "END_PROCESS", 1) \/ Hecho(p, "END_THREAD", 2)
        \/ Hecho(p, "MEMORY_DUMP", 2)
    BY <2>1, <2>2
  <2> QED BY <1>3, <2>3 DEF PedidosDe
<1>4. CASE c = "filesystem"
  <2>1. p = EnviarSolicitudMemoryDump(l)
    BY <1>4 DEF Pedidos
  <2>2. Ancho("filename", l) = l /\ Ancho("content", l) = l + 1
    BY DEF Ancho, Textos, Longitudes
  <2>3. l + (l + 1) + 2 * 2 = 2 * l + 5 /\ 2 * l + 5 \in Nat \ {0}
    BY <1>1
  <2> DEFINE campos == <<"len_filename", "filename", "size_content", "content">>
             n == 2 * l + 5
  <2>4. p = Paquete("WRITE_FILE", n, campos) /\ campos # <<>>
    BY <2>1, <2>2, <2>3 DEF EnviarSolicitudMemoryDump
  <2> HIDE DEF campos, n
  <2>5. n \in Nat \ {0}
    BY <2>3 DEF n
  <2>6. Hecho(p, "WRITE_FILE", n)
    BY <2>4, <2>5, PaqueteBien
  <2> QED BY <1>4, <2>6 DEF PedidosDe, n
<1> QED BY <1>2, <1>3, <1>4 DEF DeRespuesta

LEMMA ContestacionBien ==
    ASSUME NEW op, NEW l \in Largos, NEW p \in RespuestasACPU(op, l)
    PROVE  <<p.op, p.size>> \in Contestaciones(op) /\ BienHecho(p)
<1> USE MensajesAssumption
<1> DEFINE Hecho(q, o, n) == q.op = o /\ q.size = n /\ BienHecho(q)
<1>1. Hecho(Entero("OK"), "OK", 0) /\ Hecho(Entero("ERROR"), "ERROR", 0)
  BY EnteroBien
<1>2. Hecho(EnviarInstruccion(l), "OK", l) /\ Hecho(EnviarLecturaOK, "OK", 1)
  BY PaqueteBien DEF EnviarInstruccion, EnviarLecturaOK
<1>3. Hecho(EnviarContextoHilo, "OK", 11)
  <2> DEFINE campos == Registros \o <<"base", "limite">>
  <2>1. campos # <<>>
    BY DEF Registros
  <2>2. EnviarContextoHilo = Paquete("OK", 11, campos)
    BY DEF EnviarContextoHilo
  <2> HIDE DEF campos
  <2> QED BY <2>1, <2>2, PaqueteBien
<1>5. CASE op = "GET_CONTEXTO_EJECUCION"
  BY <1>3, <1>5 DEF RespuestasACPU, Contestaciones
<1>6. CASE op = "GET_INSTRUCCION"
  BY <1>1, <1>2, <1>6 DEF RespuestasACPU, Contestaciones
<1>7. CASE op = "READ_MEM"
  BY <1>2, <1>7 DEF RespuestasACPU, Contestaciones
<1>8. CASE op \notin {"GET_CONTEXTO_EJECUCION", "GET_INSTRUCCION", "READ_MEM"}
  BY <1>1, <1>8 DEF RespuestasACPU, Contestaciones
<1> QED BY <1>5, <1>6, <1>7, <1>8

-----------------------------------------------------------------------------
(* What one program does on its connection does not touch the others.      *)

Igual(d) ==
    /\ \A v \in {Ida(d), Vuelta(d)} :
         /\ red'[v] = red[v] /\ buffer'[v] = buffer[v]
         /\ lee'[v] = lee[v] /\ buzon'[v] = buzon[v]
    /\ cli'[d] = cli[d] /\ srv'[d] = srv[d] /\ solicitud'[d] = solicitud[d]

LEMMA IgualQuieta == \A d : Igual(d) => Quieta(d)
BY IgualQueda DEF Igual, Quieta

LEMMA MandaHace ==
    ASSUME Redes, NEW v, NEW p, NEW l, Manda(v, p, l)
    PROVE  DOMAIN red' = Vias /\ \A w \in Vias : w # v => red'[w] = red[w]
BY DEF Redes, Manda

LEMMA AtendidoHace ==
    ASSUME Redes, NEW v \in Vias, NEW nueva, Atendido(v, nueva)
    PROVE  /\ DOMAIN buzon' = Vias /\ DOMAIN lee' = Vias /\ buffer' = buffer
           /\ \A w \in Vias : w # v => buzon'[w] = buzon[w] /\ lee'[w] = lee[w]
           /\ buzon'[v] = Nada /\ lee'[v] = nueva
BY DEF Redes, Atendido

LEMMA AbreHace ==
    ASSUME Redes, NEW c \in Conexiones, Abre(c)
    PROVE  /\ DOMAIN red' = Vias /\ DOMAIN buffer' = Vias /\ DOMAIN lee' = Vias
           /\ DOMAIN cli' = Conexiones /\ solicitud' = solicitud
           /\ \A w \in Vias : w # Ida(c) /\ w # Vuelta(c) =>
                red'[w] = red[w] /\ buffer'[w] = buffer[w] /\ lee'[w] = lee[w]
           /\ \A d \in Conexiones : d # c => cli'[d] = cli[d]
BY DEF Redes, Abre

\* What is done on the connection c.
DeUna(c) ==
    \/ Conecta(c) \/ ServidorSaluda(c) \/ ClienteSaluda(c) \/ Pide(c) \/ Recibe(c)
    \/ c = "kernel" /\ MemoriaAtiende
    \/ c = "cpu" /\ MemoriaAtiendeCPU
    \/ c = "filesystem" /\ (FSEscribe \/ FSRechaza \/ FSConfirma)
    \/ c = "dispatch" /\ (CPUEjecuta \/ KernelConfirmaSyscall \/ KernelDespacha
                          \/ CPUEnviaSyscall \/ CPUDeja)
    \/ c = "interrupt" /\ (CPUConfirmaInterrupcion \/ CPUDescarta
                           \/ KernelConfirmada \/ KernelInterrumpe)

LEMMA LasDemas ==
    ASSUME Redes, NEW c \in Conexiones, DeUna(c)
    PROVE  Redes' /\ \A d \in Conexiones \ {c} : Quieta(d)
<1>0. /\ Ida(c) \in Vias /\ Vuelta(c) \in Vias
      /\ \A d \in Conexiones \ {c} :
           \A v \in {Ida(d), Vuelta(d)} : v \in Vias /\ v # Ida(c) /\ v # Vuelta(c)
  BY LasVias
<1> DEFINE Fuera(f, g) == \A w \in Vias : w # Ida(c) /\ w # Vuelta(c) => f[w] = g[w]
           Todo == /\ DOMAIN red' = Vias /\ Fuera(red', red)
                   /\ DOMAIN buffer' = Vias /\ Fuera(buffer', buffer)
                   /\ DOMAIN lee' = Vias /\ Fuera(lee', lee)
                   /\ DOMAIN buzon' = Vias /\ Fuera(buzon', buzon)
                   /\ DOMAIN cli' = Conexiones /\ DOMAIN srv' = Conexiones
                   /\ DOMAIN solicitud' = Conexiones
                   /\ \A d \in Conexiones \ {c} :
                        /\ cli'[d] = cli[d] /\ srv'[d] = srv[d]
                        /\ solicitud'[d] = solicitud[d]
                   /\ escrito' \in BOOLEAN
<1>1. ASSUME Conecta(c)
      PROVE  Todo
  BY <1>0, <1>1, AbreHace DEF Conecta, Redes
<1>2. ASSUME ServidorSaluda(c)
      PROVE  Todo
  BY <1>0, <1>2, AtendidoHace, MandaHace DEF ServidorSaluda, MandaEntero, envio, Redes
<1>3. ASSUME ClienteSaluda(c)
      PROVE  Todo
  BY <1>0, <1>3, AtendidoHace DEF ClienteSaluda, envio, Redes
<1>4. ASSUME Pide(c)
      PROVE  Todo
  BY <1>0, <1>4, MandaHace DEF Pide, Redes
<1>5. ASSUME Recibe(c)
      PROVE  Todo
  BY <1>0, <1>5, AtendidoHace DEF Recibe, envio, Redes
<1>6. ASSUME c = "kernel" /\ MemoriaAtiende
      PROVE  Todo
  BY <1>0, <1>6, AtendidoHace, MandaHace DEF MemoriaAtiende, MandaEntero, Redes
<1>7. ASSUME c = "cpu" /\ MemoriaAtiendeCPU
      PROVE  Todo
  BY <1>0, <1>7, AtendidoHace, MandaHace DEF MemoriaAtiendeCPU, Redes
<1>8. ASSUME c = "filesystem" /\ (FSEscribe \/ FSRechaza \/ FSConfirma)
      PROVE  Todo
  <2>1. CASE FSEscribe
    BY <1>0, <1>8, <2>1 DEF FSEscribe, envio, lectura, Redes
  <2>2. CASE FSRechaza
    BY <1>0, <1>8, <2>2, MandaHace DEF FSRechaza, MandaEntero, lectura, Redes
  <2>3. CASE FSConfirma
    BY <1>0, <1>8, <2>3, AtendidoHace, MandaHace DEF FSConfirma, MandaEntero, Redes
  <2> QED BY <1>8, <2>1, <2>2, <2>3
<1>9. ASSUME c = "dispatch" /\ (CPUEjecuta \/ KernelConfirmaSyscall \/ KernelDespacha
                              \/ CPUEnviaSyscall \/ CPUDeja)
      PROVE  Todo
  <2>1. CASE CPUEjecuta
    BY <1>0, <1>9, <2>1, AtendidoHace DEF CPUEjecuta, envio, Redes
  <2>2. CASE KernelConfirmaSyscall
    BY <1>0, <1>9, <2>2, AtendidoHace, MandaHace
       DEF KernelConfirmaSyscall, MandaEntero, Redes
  <2>3. CASE KernelDespacha
    BY <1>0, <1>9, <2>3, MandaHace DEF KernelDespacha, lectura, Redes
  <2>4. CASE CPUEnviaSyscall
    BY <1>0, <1>9, <2>4, MandaHace DEF CPUEnviaSyscall, Redes
  <2>5. CASE CPUDeja
    BY <1>0, <1>9, <2>5 DEF CPUDeja, envio, Redes
  <2> QED BY <1>9, <2>1, <2>2, <2>3, <2>4, <2>5
<1>10. ASSUME c = "interrupt" /\ (CPUConfirmaInterrupcion \/ CPUDescarta
                                \/ KernelConfirmada \/ KernelInterrumpe)
      PROVE  Todo
  <2>1. CASE CPUConfirmaInterrupcion
    BY <1>0, <1>10, <2>1, AtendidoHace, MandaHace DEF CPUConfirmaInterrupcion, Redes
  <2>2. CASE CPUDescarta
    BY <1>0, <1>10, <2>2, AtendidoHace DEF CPUDescarta, envio, Redes
  <2>3. CASE KernelConfirmada
    BY <1>0, <1>10, <2>3, AtendidoHace DEF KernelConfirmada, envio, Redes
  <2>4. CASE KernelInterrumpe
    BY <1>0, <1>10, <2>4, MandaHace DEF KernelInterrumpe, lectura, Redes
  <2> QED BY <1>10, <2>1, <2>2, <2>3, <2>4
<1>11. Todo
  BY <1>1, <1>2, <1>3, <1>4, <1>5, <1>6, <1>7, <1>8, <1>9, <1>10 DEF DeUna
<1>12. \A d \in Conexiones \ {c} : Igual(d)
  BY <1>0, <1>11 DEF Igual
<1> HIDE DEF Todo
<1> QED BY <1>11, <1>12, IgualQuieta DEF Redes, Todo

-----------------------------------------------------------------------------
(* A connection with memoria or filesystem, from its greeting to its       *)
(* request.                                                                *)

LEMMA YaLeido ==
    ASSUME NEW v, NEW op, NEW n, Va(v, op, n), buzon[v] # Nada
    PROVE  Leido(v, op) /\ buzon[v].op = op
BY DEF Va, EnCamino, Leido

LEMMA PasoServidorSaluda ==
    ASSUME Redes, NEW c \in DeRespuesta, ServidorSaluda(c), Saludando(c)
    PROVE  Saludando(c)'
<1>1. Ida(c) \in Vias /\ Vuelta(c) \in Vias /\ Ida(c) # Vuelta(c) /\ c \in Conexiones
  BY LasVias
<1>2. srv[c] = "saluda" /\ buzon[Ida(c)] # Nada /\ Atendido(Ida(c), LeeOtro)
      /\ cli' = cli
  BY DEF ServidorSaluda
<1>3. Va(Ida(c), Saludo(c), 0) /\ Espera(Vuelta(c)) /\ cli[c] = "saluda"
  BY <1>2 DEF Saludando
<1>4. Callada(Ida(c)) /\ buzon[Ida(c)].op = Saludo(c)
  BY <1>2, <1>3, YaLeido DEF Leido
<1>5. MandaEntero(Vuelta(c), "HANDSHAKE_ACCEPTED") /\ srv'[c] = "lee"
  BY <1>1, <1>4 DEF ServidorSaluda, Redes
<1>6. /\ buzon'[Ida(c)] = Nada /\ lee'[Ida(c)] = LeeOtro /\ buffer' = buffer
      /\ buzon'[Vuelta(c)] = buzon[Vuelta(c)] /\ lee'[Vuelta(c)] = lee[Vuelta(c)]
      /\ red'[Ida(c)] = red[Ida(c)]
  BY <1>1, <1>2, <1>5, AtendidoHace, MandaHace DEF MandaEntero
<1>7. Espera(Ida(c))'
  BY <1>4, <1>6 DEF Espera, Callada, LeeOtro
<1>8. Va(Vuelta(c), "HANDSHAKE_ACCEPTED", 0)'
  BY <1>1, <1>3, <1>5, <1>6, EnteroEnviado DEF Espera, Va
<1> QED BY <1>2, <1>3, <1>5, <1>7, <1>8 DEF Saludando

LEMMA PasoClienteSaluda ==
    ASSUME Redes, NEW c \in DeRespuesta, ClienteSaluda(c), Saludando(c)
    PROVE  SinPedido(c)' /\ srv' = srv
<1>1. Ida(c) \in Vias /\ Vuelta(c) \in Vias /\ Ida(c) # Vuelta(c) /\ c \in Conexiones
      /\ c \notin {"dispatch", "interrupt"}
  BY LasVias DEF DeRespuesta
<1>2. buzon[Vuelta(c)] # Nada /\ Atendido(Vuelta(c), NoLee) /\ red' = red /\ srv' = srv
  BY <1>1 DEF ClienteSaluda, envio
<1>3. /\ srv[c] = "lee" /\ Espera(Ida(c))
      /\ Va(Vuelta(c), "HANDSHAKE_ACCEPTED", 0)
  BY <1>2 DEF Saludando, Espera
<1>4. Callada(Vuelta(c)) /\ buzon[Vuelta(c)].op = "HANDSHAKE_ACCEPTED"
  BY <1>2, <1>3, YaLeido DEF Leido
<1>5. cli'[c] = "libre"
  BY <1>1, <1>4 DEF ClienteSaluda, Redes
<1>6. /\ buzon'[Vuelta(c)] = Nada /\ lee'[Vuelta(c)] = NoLee /\ buffer' = buffer
      /\ buzon'[Ida(c)] = buzon[Ida(c)] /\ lee'[Ida(c)] = lee[Ida(c)]
  BY <1>1, <1>2, AtendidoHace
<1>7. Espera(Ida(c))'
  BY <1>2, <1>3, <1>6 DEF Espera, Callada
<1>8. Desocupada(Vuelta(c))'
  BY <1>2, <1>4, <1>6 DEF Desocupada, Callada, Cerrada, NoLee
<1> QED BY <1>2, <1>3, <1>5, <1>7, <1>8 DEF SinPedido

LEMMA PasoPide ==
    ASSUME Redes, NEW c \in DeRespuesta, Pide(c), SinPedido(c)
    PROVE  /\ srv' = srv /\ escrito' = escrito
           /\ IF solicitud'[c] = "END_THREAD"
              THEN /\ c = "kernel" /\ cli'[c] = "cerrado"
                   /\ Va(Ida(c), "END_THREAD", 2)' /\ Cerrada(Vuelta(c))'
              ELSE ConPedido(c)'
<1>1. Ida(c) \in Vias /\ Vuelta(c) \in Vias /\ Ida(c) # Vuelta(c) /\ c \in Conexiones
  BY LasVias
<1>2. PICK l \in Largos : \E p \in Pedidos(c, l) :
        /\ Manda(Ida(c), p, l)
        /\ solicitud' = [solicitud EXCEPT ![c] = p.op]
        /\ cli' = [cli EXCEPT ![c] = IF p.op = "END_THREAD" THEN "cerrado"
                                     ELSE "espera"]
        /\ lee' = [lee EXCEPT ![Vuelta(c)] =
                        IF p.op = "END_THREAD" THEN NoLee ELSE LeeOtro]
  BY DEF Pide
<1>3. PICK p \in Pedidos(c, l) :
        /\ Manda(Ida(c), p, l)
        /\ solicitud' = [solicitud EXCEPT ![c] = p.op]
        /\ cli' = [cli EXCEPT ![c] = IF p.op = "END_THREAD" THEN "cerrado"
                                     ELSE "espera"]
        /\ lee' = [lee EXCEPT ![Vuelta(c)] =
                        IF p.op = "END_THREAD" THEN NoLee ELSE LeeOtro]
  BY <1>2
<1>4. buffer' = buffer /\ buzon' = buzon /\ srv' = srv /\ escrito' = escrito
  BY DEF Pide
<1>5. /\ solicitud'[c] = p.op
      /\ cli'[c] = IF p.op = "END_THREAD" THEN "cerrado" ELSE "espera"
      /\ lee'[Vuelta(c)] = IF p.op = "END_THREAD" THEN NoLee ELSE LeeOtro
      /\ lee'[Ida(c)] = lee[Ida(c)]
      /\ red'[Vuelta(c)] = red[Vuelta(c)]
  BY <1>1, <1>3, MandaHace DEF Redes
<1>6. Espera(Ida(c)) /\ Desocupada(Vuelta(c)) /\ srv[c] = "lee"
  BY DEF SinPedido
<1>7. <<p.op, p.size>> \in PedidosDe(c) /\ BienHecho(p)
  BY PedidoBien
<1>8. Va(Ida(c), p.op, p.size)'
  BY <1>1, <1>3, <1>4, <1>5, <1>6, <1>7, Enviado DEF Espera, Va
<1>9. CASE p.op = "END_THREAD"
  <2>1. c = "kernel" /\ p.size = 2
    BY <1>7, <1>9 DEF PedidosDe, DeRespuesta
  <2>2. Cerrada(Vuelta(c))'
    BY <1>4, <1>5, <1>6, <1>9 DEF Cerrada, Desocupada, NoLee
  <2> QED BY <1>4, <1>5, <1>8, <1>9, <2>1, <2>2
<1>10. CASE p.op # "END_THREAD"
  <2>1. Espera(Vuelta(c))'
    BY <1>4, <1>5, <1>6, <1>10 DEF Espera, Desocupada, Callada, Cerrada, LeeOtro
  <2> DEFINE q == <<p.op, p.size>>
  <2>2. q \in PedidosDe(c) /\ q[1] = solicitud'[c] /\ Va(Ida(c), q[1], q[2])'
    BY <1>5, <1>7, <1>8
  <2> HIDE DEF q
  <2>3. cli'[c] = "espera" /\ srv'[c] = "lee"
    BY <1>4, <1>5, <1>6, <1>10
  <2>4. ConPedido(c)'
    BY <2>1, <2>2, <2>3 DEF ConPedido
  <2> QED BY <1>4, <1>5, <1>10, <2>4
<1> QED BY <1>9, <1>10

-----------------------------------------------------------------------------
(* The CPU's requests to memoria.                                          *)

LEMMA PasoAtiendeCPU ==
    ASSUME Redes, CPUBien, MemoriaAtiendeCPU
    PROVE  CPUBien'
<1> DEFINE ida == Ida("cpu")
           vuelta == Vuelta("cpu")
<1>1. /\ ida \in Vias /\ vuelta \in Vias /\ ida # vuelta
      /\ "cpu" \in Conexiones /\ "cpu" \in DeRespuesta
  BY LasVias DEF DeRespuesta
<1>2. /\ srv["cpu"] = "lee" /\ buzon[ida] # Nada /\ Atendido(ida, LeeOtro)
      /\ cli' = cli /\ srv' = srv /\ solicitud' = solicitud
  BY DEF MemoriaAtiendeCPU
<1>3. ConPedido("cpu")
  BY <1>2 DEF CPUBien, Saludando, SinPedido, Espera
<1>4. PICK q \in PedidosDe("cpu") : q[1] = solicitud["cpu"] /\ Va(ida, q[1], q[2])
  BY <1>3 DEF ConPedido
<1>5. Callada(ida) /\ buzon[ida].op = solicitud["cpu"]
  BY <1>2, <1>4, YaLeido DEF Leido
<1>6. PICK l \in Largos :
        \E p \in RespuestasACPU(solicitud["cpu"], l) : Manda(vuelta, p, l)
  BY <1>5 DEF MemoriaAtiendeCPU
<1>7. PICK p \in RespuestasACPU(solicitud["cpu"], l) : Manda(vuelta, p, l)
  BY <1>6
<1>8. /\ buzon'[ida] = Nada /\ lee'[ida] = LeeOtro /\ buffer' = buffer
      /\ buzon'[vuelta] = buzon[vuelta] /\ lee'[vuelta] = lee[vuelta]
      /\ red'[ida] = red[ida]
  BY <1>1, <1>2, <1>7, AtendidoHace, MandaHace
<1>9. Espera(ida)'
  BY <1>5, <1>8 DEF Espera, Callada, LeeOtro
<1>10. <<p.op, p.size>> \in Contestaciones(solicitud["cpu"]) /\ BienHecho(p)
  BY ContestacionBien
<1>11. cli["cpu"] = "espera" /\ Espera(vuelta)
  BY <1>3 DEF ConPedido
<1>12. Va(vuelta, p.op, p.size)'
  BY <1>1, <1>7, <1>8, <1>10, <1>11, Enviado DEF Espera, Va
<1> DEFINE r == <<p.op, p.size>>
<1>13. r \in Contestaciones(solicitud'["cpu"]) /\ Va(vuelta, r[1], r[2])'
  BY <1>2, <1>10, <1>12
<1> HIDE DEF r, ida, vuelta
<1>14. cli'["cpu"] = "espera" /\ srv'["cpu"] = "lee"
  BY <1>2, <1>11
<1> QED BY <1>9, <1>13, <1>14 DEF CPUBien, ida, vuelta

LEMMA PasoRecibeCPU ==
    ASSUME Redes, CPUBien, Recibe("cpu")
    PROVE  CPUBien'
<1> DEFINE ida == Ida("cpu")
           vuelta == Vuelta("cpu")
<1>1. /\ ida \in Vias /\ vuelta \in Vias /\ ida # vuelta /\ "cpu" \in Conexiones
  BY LasVias DEF DeRespuesta
<1>2. /\ cli["cpu"] = "espera" /\ buzon[vuelta] # Nada /\ Atendido(vuelta, NoLee)
      /\ srv' = srv /\ red' = red
  BY DEF Recibe, envio
<1>3. /\ srv["cpu"] = "lee" /\ Espera(ida)
      /\ \E q \in Contestaciones(solicitud["cpu"]) : Va(vuelta, q[1], q[2])
  BY <1>2 DEF CPUBien, Saludando, SinPedido, ConPedido, Espera
<1>4. PICK q \in Contestaciones(solicitud["cpu"]) : Va(vuelta, q[1], q[2])
  BY <1>3
<1>5. Callada(vuelta)
  BY <1>2, <1>4, YaLeido DEF Leido
<1>6. /\ buzon'[vuelta] = Nada /\ lee'[vuelta] = NoLee /\ buffer' = buffer
      /\ buzon'[ida] = buzon[ida] /\ lee'[ida] = lee[ida]
  BY <1>1, <1>2, AtendidoHace
<1>7. Espera(ida)' /\ Desocupada(vuelta)'
  BY <1>2, <1>3, <1>5, <1>6 DEF Espera, Desocupada, Callada, Cerrada, NoLee
<1>8. cli'["cpu"] \in {"libre", "termino"}
  BY <1>1 DEF Recibe, Redes
<1>9. srv'["cpu"] = "lee" /\ Cerrada(vuelta)'
  BY <1>2, <1>3, <1>7 DEF Desocupada
<1> HIDE DEF ida, vuelta
<1> QED BY <1>7, <1>8, <1>9 DEF CPUBien, SinPedido, ida, vuelta

LEMMA PasoDelCPU ==
    ASSUME Redes, CPUBien, DeUna("cpu")
    PROVE  CPUBien'
<1>0. "cpu" \in DeRespuesta /\ "cpu" \in Conexiones
  BY LasVias DEF DeRespuesta
<1>1. CASE Conecta("cpu")
  <2>1. Abre("cpu") /\ srv'["cpu"] = "saluda" /\ buzon' = buzon
    BY <1>0, <1>1 DEF Conecta, Redes
  <2>2. Cerrada(Ida("cpu")) /\ Cerrada(Vuelta("cpu"))
    BY <2>1 DEF CPUBien, Abre, Saludando, SinPedido, ConPedido
  <2>3. Saludando("cpu")'
    BY <1>0, <2>1, <2>2, Abierta
  <2> QED BY <2>3 DEF CPUBien
<1>2. CASE ServidorSaluda("cpu")
  <2>1. Saludando("cpu")
    BY <1>2 DEF CPUBien, ServidorSaluda, SinPedido, ConPedido
  <2>2. Saludando("cpu")'
    BY <1>0, <1>2, <2>1, PasoServidorSaluda
  <2> QED BY <2>2 DEF CPUBien
<1>3. CASE ClienteSaluda("cpu")
  <2>1. Saludando("cpu")
    BY <1>3 DEF CPUBien, ClienteSaluda, SinPedido, ConPedido
  <2>2. SinPedido("cpu")'
    BY <1>0, <1>3, <2>1, PasoClienteSaluda
  <2> QED BY <2>2 DEF CPUBien
<1>4. CASE Pide("cpu")
  <2>1. SinPedido("cpu")
    BY <1>4 DEF CPUBien, Pide, Saludando, ConPedido
  <2>2. ConPedido("cpu")'
    BY <1>0, <1>4, <2>1, PasoPide
  <2> QED BY <2>2 DEF CPUBien
<1>5. CASE Recibe("cpu")
  BY <1>5, PasoRecibeCPU
<1>6. CASE MemoriaAtiendeCPU
  BY <1>6, PasoAtiendeCPU
<1>7. \/ Conecta("cpu") \/ ServidorSaluda("cpu") \/ ClienteSaluda("cpu")
      \/ Pide("cpu") \/ Recibe("cpu") \/ MemoriaAtiendeCPU
  BY DEF DeUna
<1> QED BY <1>1, <1>2, <1>3, <1>4, <1>5, <1>6, <1>7

-----------------------------------------------------------------------------
(* The kernel's requests to memoria.                                       *)

LEMMA PasoMemoriaAtiende ==
    ASSUME Redes, KernelBien, MemoriaAtiende, Quieta("filesystem")
    PROVE  KernelBien'
<1> DEFINE ida == Ida("kernel")
           vuelta == Vuelta("kernel")
<1>1. /\ ida \in Vias /\ vuelta \in Vias /\ ida # vuelta
      /\ "kernel" \in Conexiones /\ "kernel" \in DeRespuesta
  BY LasVias DEF DeRespuesta
<1>2. PICK op \in (CASE buzon[ida].op = "CREATE_PROCESS" -> {"OK", "ERROR"}
                     [] buzon[ida].op = "MEMORY_DUMP" -> {"ERROR"}
                     [] OTHER -> {"OK"}) : MandaEntero(vuelta, op)
  BY DEF MemoriaAtiende
<1>3. /\ srv["kernel"] = "lee" /\ buzon[ida] # Nada /\ Atendido(ida, NoLee)
      /\ srv'["kernel"] = "cerrado" /\ cli' = cli /\ solicitud' = solicitud
      /\ escrito' = escrito
  BY <1>1 DEF MemoriaAtiende, Redes
<1>4. op \in {"OK", "ERROR"} /\ (buzon[ida].op = "MEMORY_DUMP" => op = "ERROR")
  BY <1>2
<1>5. /\ buzon'[ida] = Nada /\ lee'[ida] = NoLee /\ buffer' = buffer
      /\ buzon'[vuelta] = buzon[vuelta] /\ lee'[vuelta] = lee[vuelta]
  BY <1>1, <1>3, AtendidoHace
<1>6. Cerrada(ida)'
  BY <1>5 DEF Cerrada, NoLee
<1>7. CASE ConPedido("kernel") /\ solicitud["kernel"] # "END_THREAD"
           /\ ~escrito /\ VolcadoAfuera
  <2>1. PICK q \in PedidosDe("kernel") : q[1] = solicitud["kernel"] /\ Va(ida, q[1], q[2])
    BY <1>7 DEF ConPedido
  <2>2. buzon[ida].op = solicitud["kernel"]
    BY <1>3, <2>1, YaLeido
  <2>3. Espera(vuelta) /\ cli["kernel"] = "espera"
    BY <1>7 DEF ConPedido
  <2>4. Va(vuelta, op, 0)'
    BY <1>1, <1>2, <1>5, <2>3, EnteroEnviado DEF Espera, Va
  <2>5. VolcadoAfuera'
    BY <1>7, SigueAfuera
  <2>6. solicitud'["kernel"] = "MEMORY_DUMP" => ((op = "OK") = escrito')
    <3> SUFFICES ASSUME solicitud["kernel"] = "MEMORY_DUMP"
                 PROVE  (op = "OK") = escrito
      BY <1>3
    <3>1. op # "OK"
      BY <1>4, <2>2
    <3>2. escrito = FALSE
      BY <1>7 DEF Redes
    <3> QED BY <3>1, <3>2, Zenon
  <2>7. cli'["kernel"] = "espera" /\ srv'["kernel"] = "cerrado"
    BY <1>3, <2>3
  <2> QED BY <1>4, <1>6, <2>4, <2>5, <2>6, <2>7 DEF KernelBien
<1>8. CASE /\ cli["kernel"] = "cerrado" /\ Cerrada(vuelta) /\ VolcadoAfuera
  <2>1. Cerrada(vuelta)' /\ VolcadoAfuera'
    BY <1>5, <1>8, SigueAfuera DEF Cerrada
  <2> QED BY <1>3, <1>6, <1>8, <2>1 DEF KernelBien
<1> QED BY <1>3, <1>7, <1>8 DEF KernelBien, Saludando, SinPedido, Espera

LEMMA PasoRecibeKernel ==
    ASSUME Redes, KernelBien, Recibe("kernel"), Quieta("filesystem")
    PROVE  KernelBien'
<1> DEFINE ida == Ida("kernel")
           vuelta == Vuelta("kernel")
<1>1. /\ ida \in Vias /\ vuelta \in Vias /\ ida # vuelta /\ "kernel" \in Conexiones
  BY LasVias DEF DeRespuesta
<1>2. /\ cli["kernel"] = "espera" /\ buzon[vuelta] # Nada /\ Atendido(vuelta, NoLee)
      /\ srv' = srv /\ cli'["kernel"] = "cerrado"
  BY <1>1 DEF Recibe, Redes
<1>3. srv["kernel"] = "cerrado" /\ Cerrada(ida) /\ VolcadoAfuera
  BY <1>2 DEF KernelBien, Saludando, SinPedido, ConPedido, Espera
<1>4. /\ buzon'[vuelta] = Nada /\ lee'[vuelta] = NoLee
      /\ buzon'[ida] = buzon[ida] /\ lee'[ida] = lee[ida]
  BY <1>1, <1>2, AtendidoHace
<1>5. Cerrada(ida)' /\ Cerrada(vuelta)'
  BY <1>3, <1>4 DEF Cerrada, NoLee
<1>6. VolcadoAfuera' /\ srv'["kernel"] = "cerrado"
  BY <1>2, <1>3, SigueAfuera
<1> QED BY <1>2, <1>5, <1>6 DEF KernelBien

LEMMA PasoDelKernel ==
    ASSUME Redes, KernelBien, DeUna("kernel"), Quieta("filesystem")
    PROVE  KernelBien'
<1>0. "kernel" \in DeRespuesta /\ "kernel" \in Conexiones
  BY LasVias DEF DeRespuesta
<1>1. CASE Conecta("kernel")
  <2>1. /\ Abre("kernel") /\ srv'["kernel"] = "saluda" /\ buzon' = buzon
        /\ escrito' = FALSE
    BY <1>0, <1>1 DEF Conecta, Redes
  <2>2. Cerrada(Ida("kernel")) /\ Cerrada(Vuelta("kernel")) /\ VolcadoAfuera
    BY <2>1 DEF KernelBien, Abre, Saludando, SinPedido, ConPedido
  <2>3. Saludando("kernel")' /\ VolcadoAfuera'
    BY <1>0, <2>1, <2>2, Abierta, SigueAfuera
  <2> QED BY <2>1, <2>3 DEF KernelBien
<1>2. CASE ServidorSaluda("kernel")
  <2>1. Saludando("kernel") /\ ~escrito /\ VolcadoAfuera
    BY <1>2 DEF KernelBien, ServidorSaluda, SinPedido, ConPedido
  <2>2. Saludando("kernel")' /\ VolcadoAfuera' /\ escrito' = escrito
    BY <1>0, <1>2, <2>1, PasoServidorSaluda, SigueAfuera DEF ServidorSaluda
  <2> QED BY <2>1, <2>2 DEF KernelBien
<1>3. CASE ClienteSaluda("kernel")
  <2>1. Saludando("kernel") /\ ~escrito /\ VolcadoAfuera
    BY <1>3 DEF KernelBien, ClienteSaluda, SinPedido, ConPedido
  <2>2. SinPedido("kernel")' /\ VolcadoAfuera' /\ escrito' = escrito
    BY <1>0, <1>3, <2>1, PasoClienteSaluda, SigueAfuera DEF ClienteSaluda
  <2> QED BY <2>1, <2>2 DEF KernelBien
<1>4. CASE Pide("kernel")
  <2>1. SinPedido("kernel") /\ ~escrito /\ VolcadoAfuera
    BY <1>4 DEF KernelBien, Pide, Saludando, ConPedido
  <2>2. /\ srv' = srv /\ escrito' = escrito
        /\ IF solicitud'["kernel"] = "END_THREAD"
           THEN /\ cli'["kernel"] = "cerrado"
                /\ Va(Ida("kernel"), "END_THREAD", 2)' /\ Cerrada(Vuelta("kernel"))'
           ELSE ConPedido("kernel")'
    BY <1>0, <1>4, <2>1, PasoPide
  <2>3. VolcadoAfuera' /\ srv'["kernel"] = "lee" /\ ~escrito'
    BY <2>1, <2>2, SigueAfuera DEF SinPedido
  <2>4. CASE solicitud'["kernel"] = "END_THREAD"
    BY <2>2, <2>3, <2>4 DEF KernelBien
  <2>5. CASE solicitud'["kernel"] # "END_THREAD"
    BY <2>2, <2>3, <2>5 DEF KernelBien
  <2> QED BY <2>4, <2>5
<1>5. CASE Recibe("kernel")
  BY <1>5, PasoRecibeKernel
<1>6. CASE MemoriaAtiende
  BY <1>6, PasoMemoriaAtiende
<1> QED BY <1>1, <1>2, <1>3, <1>4, <1>5, <1>6 DEF DeUna

-----------------------------------------------------------------------------
(* The dump: memoria and filesystem.                                       *)

LEMMA PasoMemoriaVuelca ==
    ASSUME Redes, KernelBien, MemoriaVuelca
    PROVE  KernelBien' /\ Quieta("cpu") /\ Redes'
<1> DEFINE ida == Ida("kernel")
           vuelta == Vuelta("kernel")
<1>1. /\ \A c \in {"kernel", "cpu", "filesystem"} :
              Ida(c) \in Vias /\ Vuelta(c) \in Vias /\ c \in Conexiones
      /\ \A c \in {"kernel", "cpu"} : \A v \in {Ida(c), Vuelta(c)} :
              v # Ida("filesystem") /\ v # Vuelta("filesystem")
      /\ "filesystem" \in DeRespuesta
  BY LasVias DEF DeRespuesta
<1>2. /\ srv["kernel"] = "lee" /\ buzon[ida] # Nada /\ buzon[ida].op = "MEMORY_DUMP"
      /\ Abre("filesystem") /\ buzon' = buzon /\ escrito' = escrito
      /\ srv'["kernel"] = "vuelca" /\ srv'["filesystem"] = "saluda"
      /\ srv'["cpu"] = srv["cpu"] /\ DOMAIN srv' = Conexiones
  BY <1>1 DEF MemoriaVuelca, Redes
<1>3. /\ DOMAIN red' = Vias /\ DOMAIN buffer' = Vias /\ DOMAIN lee' = Vias
      /\ DOMAIN cli' = Conexiones /\ solicitud' = solicitud
      /\ \A w \in Vias : w # Ida("filesystem") /\ w # Vuelta("filesystem") =>
           red'[w] = red[w] /\ buffer'[w] = buffer[w] /\ lee'[w] = lee[w]
      /\ \A d \in Conexiones : d # "filesystem" => cli'[d] = cli[d]
  BY <1>1, <1>2, AbreHace
<1>4. ASSUME NEW c \in {"kernel", "cpu"}, NEW v \in {Ida(c), Vuelta(c)}
      PROVE  /\ red'[v] = red[v] /\ buffer'[v] = buffer[v]
             /\ lee'[v] = lee[v] /\ buzon'[v] = buzon[v]
  BY <1>1, <1>2, <1>3
<1>5. Quieta("cpu")
  <2>1. Igual("cpu")
    BY <1>1, <1>2, <1>3, <1>4 DEF Igual
  <2> QED BY <2>1, IgualQuieta
<1>6. ConPedido("kernel") /\ ~escrito /\ VolcadoAfuera
  <2>1. ~Espera(ida)
    BY <1>2 DEF Espera
  <2>2. ~Va(ida, "END_THREAD", 2)
    BY <1>2, YaLeido
  <2> QED BY <1>2, <2>1, <2>2 DEF KernelBien, Saludando, SinPedido
<1>7. PICK q \in PedidosDe("kernel") : q[1] = solicitud["kernel"] /\ Va(ida, q[1], q[2])
  BY <1>6 DEF ConPedido
<1>8. Leido(ida, q[1]) /\ q[1] = "MEMORY_DUMP"
  BY <1>2, <1>7, YaLeido
<1>9. lee'[ida].fase = "nada" /\ solicitud'["kernel"] = "MEMORY_DUMP"
  BY <1>3, <1>4, <1>7, <1>8 DEF Leido
<1>10. Espera(vuelta)' /\ cli'["kernel"] = "espera"
  BY <1>1, <1>3, <1>4, <1>6 DEF ConPedido, Espera, Callada
<1>11. Cerrada(Ida("filesystem")) /\ Cerrada(Vuelta("filesystem"))
  BY <1>2, <1>6 DEF VolcadoAfuera, Abre
<1>12. Saludando("filesystem")'
  BY <1>1, <1>2, <1>11, Abierta
<1>13. KernelBien'
  BY <1>2, <1>6, <1>9, <1>10, <1>12 DEF KernelBien, VolcadoBien
<1> QED BY <1>2, <1>3, <1>5, <1>13 DEF Redes

LEMMA PasoMemoriaInforma ==
    ASSUME Redes, KernelBien, MemoriaInforma
    PROVE  KernelBien' /\ Quieta("cpu") /\ Redes'
<1> DEFINE ida == Ida("kernel")
           vuelta == Vuelta("kernel")
           fida == Ida("filesystem")
           fvuelta == Vuelta("filesystem")
<1>1. /\ \A c \in {"kernel", "cpu", "filesystem"} :
              Ida(c) \in Vias /\ Vuelta(c) \in Vias /\ c \in Conexiones
      /\ ida # vuelta /\ ida # fvuelta /\ vuelta # fvuelta /\ fida # fvuelta
      /\ fida # ida
      /\ \A v \in {Ida("cpu"), Vuelta("cpu")} : v # ida /\ v # vuelta /\ v # fvuelta
  BY LasVias DEF DeRespuesta
<1>2. /\ cli["filesystem"] = "espera" /\ buzon[fvuelta] # Nada
      /\ MandaEntero(vuelta, buzon[fvuelta].op)
      /\ buffer' = buffer /\ lee' = lee /\ solicitud' = solicitud
      /\ escrito' = escrito
  BY DEF MemoriaInforma
<1>3. /\ buzon'[fvuelta] = Nada /\ buzon'[ida] = Nada /\ DOMAIN buzon' = Vias
      /\ \A w \in Vias : w # fvuelta /\ w # ida => buzon'[w] = buzon[w]
      /\ DOMAIN cli' = Conexiones /\ DOMAIN srv' = Conexiones
      /\ cli'["filesystem"] = "cerrado" /\ srv'["kernel"] = "cerrado"
      /\ \A d \in Conexiones : d # "filesystem" => cli'[d] = cli[d]
      /\ \A d \in Conexiones : d # "kernel" => srv'[d] = srv[d]
  BY <1>1 DEF MemoriaInforma, Redes
<1>4. DOMAIN red' = Vias /\ \A w \in Vias : w # vuelta => red'[w] = red[w]
  BY <1>2, MandaHace DEF MandaEntero
<1>5. Quieta("cpu")
  <2>1. Igual("cpu")
    BY <1>1, <1>2, <1>3, <1>4 DEF Igual
  <2> QED BY <2>1, IgualQuieta
<1>6. /\ cli["kernel"] = "espera" /\ solicitud["kernel"] = "MEMORY_DUMP"
      /\ lee[ida].fase = "nada" /\ Espera(vuelta) /\ VolcadoBien
  BY <1>2 DEF KernelBien, VolcadoAfuera
<1>7. PICK op \in {"OK", "ERROR"} : VaPrimero(fvuelta, op) /\ ((op = "OK") = escrito)
  <2>1. ~Espera(fvuelta)
    BY <1>2 DEF Espera
  <2>2. CASE ~escrito /\ VaPrimero(fvuelta, "ERROR")
    <3>1. escrito = FALSE
      BY <2>2 DEF Redes
    <3>2. ("ERROR" = "OK") = escrito
      BY <3>1, Zenon
    <3> QED BY <2>2, <3>2
  <2>3. CASE \E op \in {"OK", "ERROR"} :
               VaPrimero(fvuelta, op) /\ ((op = "OK") = escrito)
    BY <2>3
  <2>4. ~Saludando("filesystem") /\ ~SinPedido("filesystem") /\ ~ConPedido("filesystem")
    BY <1>2, <2>1 DEF Saludando, SinPedido, ConPedido
  <2>5. \/ ~escrito /\ VaPrimero(fvuelta, "ERROR")
        \/ \E op \in {"OK", "ERROR"} :
              VaPrimero(fvuelta, op) /\ ((op = "OK") = escrito)
    BY <1>6, <2>1, <2>4, Zenon DEF VolcadoBien
  <2> QED BY <2>2, <2>3, <2>5
<1>8. /\ lee[fida].fase = "nada"
      /\ \/ srv["filesystem"] = "confirma"
         \/ srv["filesystem"] = "cerrado" /\ Cerrada(fida)
  <2>1. ~Espera(fvuelta)
    BY <1>2 DEF Espera
  <2> QED BY <1>2, <1>6, <2>1 DEF VolcadoBien, Saludando, SinPedido, ConPedido, Cerrada
<1>9. lee[fvuelta].fase = "nada" /\ buzon[fvuelta].op = op
  BY <1>2, <1>7 DEF VaPrimero
<1>10. VolcadoAfuera'
  <2>1. Cerrada(fvuelta)'
    BY <1>2, <1>3, <1>9 DEF Cerrada
  <2>2. Cerrada(fida) => Cerrada(fida)'
    BY <1>1, <1>2, <1>3 DEF Cerrada
  <2>3. srv'["filesystem"] = srv["filesystem"]
    BY <1>1, <1>3
  <2> QED BY <1>2, <1>3, <1>8, <2>1, <2>2, <2>3 DEF VolcadoAfuera
<1>11. Va(vuelta, op, 0)'
  <2>1. MandaEntero(vuelta, op)
    BY <1>2, <1>9
  <2>2. Callada(vuelta) /\ buzon'[vuelta] = Nada /\ lee'[vuelta].fase = "op"
    BY <1>1, <1>2, <1>3, <1>6 DEF Espera
  <2> QED BY <1>1, <1>2, <2>1, <2>2, EnteroEnviado DEF Va
<1>12. Cerrada(ida)'
  BY <1>2, <1>3, <1>6 DEF Cerrada
<1>13. cli'["kernel"] = "espera" /\ srv'["kernel"] = "cerrado"
  BY <1>1, <1>3, <1>6
<1>14. solicitud'["kernel"] = "MEMORY_DUMP" => ((op = "OK") = escrito')
  BY <1>2, <1>7
<1> HIDE DEF ida, vuelta, fida, fvuelta
<1>15. KernelBien'
  BY <1>10, <1>11, <1>12, <1>13, <1>14 DEF KernelBien, ida, vuelta
<1> QED BY <1>2, <1>3, <1>4, <1>5, <1>15 DEF Redes

LEMMA PasoFSEscribe ==
    ASSUME Redes, KernelBien, FSEscribe, Quieta("kernel")
    PROVE  KernelBien'
<1> DEFINE fida == Ida("filesystem")
           fvuelta == Vuelta("filesystem")
<1>1. /\ srv["filesystem"] = "lee" /\ buzon[fida] # Nada
      /\ srv'["filesystem"] = "confirma" /\ escrito' = TRUE
      /\ red' = red /\ buffer' = buffer /\ lee' = lee /\ buzon' = buzon
      /\ cli' = cli
  BY DEF FSEscribe, Redes, envio, lectura, Conexiones
<1>2. /\ cli["kernel"] = "espera" /\ srv["kernel"] = "vuelca"
      /\ solicitud["kernel"] = "MEMORY_DUMP" /\ lee[Ida("kernel")].fase = "nada"
      /\ Espera(Vuelta("kernel")) /\ VolcadoBien
  BY <1>1 DEF KernelBien, VolcadoAfuera
<1>3. ConPedido("filesystem")
  BY <1>1, <1>2 DEF VolcadoBien, Saludando, SinPedido, Espera
<1>4. PICK q \in PedidosDe("filesystem") : Va(fida, q[1], q[2])
  BY <1>3 DEF ConPedido
<1>5. lee[fida].fase = "nada"
  BY <1>1, <1>4, YaLeido DEF Leido
<1>6. cli["filesystem"] = "espera" /\ Espera(fvuelta)
  BY <1>3 DEF ConPedido
<1>7. VolcadoBien'
  BY <1>1, <1>5, <1>6 DEF VolcadoBien, Espera, Callada
<1>8. /\ cli'["kernel"] = "espera" /\ srv'["kernel"] = "vuelca"
      /\ solicitud'["kernel"] = "MEMORY_DUMP" /\ lee'[Ida("kernel")].fase = "nada"
      /\ Espera(Vuelta("kernel"))'
  BY <1>1, <1>2 DEF Quieta, Queda
<1> QED BY <1>7, <1>8 DEF KernelBien

LEMMA PasoFSRechaza ==
    ASSUME Redes, KernelBien, FSRechaza, Quieta("kernel")
    PROVE  KernelBien'
<1> DEFINE fida == Ida("filesystem")
           fvuelta == Vuelta("filesystem")
<1>1. /\ srv["filesystem"] = "lee" /\ buzon[fida] # Nada
      /\ srv'["filesystem"] = "confirma" /\ escrito' = escrito
      /\ buffer' = buffer /\ lee' = lee /\ buzon' = buzon /\ cli' = cli
      /\ MandaEntero(fvuelta, "ERROR")
  BY DEF FSRechaza, Redes, lectura, Conexiones
<1>2. ~VolcadoAfuera
  BY <1>1 DEF VolcadoAfuera
<1>3. ASSUME VolcadoBien PROVE VolcadoBien'
  <2>1. ConPedido("filesystem") /\ ~escrito
    BY <1>1, <1>3 DEF VolcadoBien, Saludando, SinPedido, Espera
  <2>2. PICK q \in PedidosDe("filesystem") : Va(fida, q[1], q[2])
    BY <2>1 DEF ConPedido
  <2>3. lee[fida].fase = "nada"
    BY <1>1, <2>2, YaLeido DEF Leido
  <2>4. cli["filesystem"] = "espera" /\ Espera(fvuelta)
    BY <2>1 DEF ConPedido
  <2>5. VaPrimero(fvuelta, "ERROR")'
    <3>1. fvuelta \in Vias
      BY LasVias DEF DeRespuesta
    <3>2. EnCamino(fvuelta, "ERROR", 0)'
      BY <1>1, <2>4, <3>1, EnteroEnviado DEF Espera
    <3>3. lee'[fvuelta].fase = "op"
      BY <1>1, <2>4 DEF Espera
    <3> QED BY <3>2, <3>3 DEF EnCamino, EsTrama, VaPrimero
  <2> QED BY <1>1, <2>1, <2>3, <2>4, <2>5 DEF VolcadoBien
<1> QED BY <1>1, <1>2, <1>3, SigueKernel

LEMMA PasoFSConfirma ==
    ASSUME Redes, KernelBien, FSConfirma, Quieta("kernel")
    PROVE  KernelBien'
<1> DEFINE fida == Ida("filesystem")
           fvuelta == Vuelta("filesystem")
<1>0. fida \in Vias /\ fvuelta \in Vias /\ fida # fvuelta
  BY LasVias DEF DeRespuesta
<1>1. /\ srv["filesystem"] = "confirma" /\ Atendido(fida, NoLee)
      /\ srv'["filesystem"] = "cerrado" /\ escrito' = escrito /\ cli' = cli
      /\ MandaEntero(fvuelta, "OK")
  BY DEF FSConfirma, Redes, Conexiones
<1>2. /\ buzon'[fida] = Nada /\ lee'[fida] = NoLee /\ buffer' = buffer
      /\ buzon'[fvuelta] = buzon[fvuelta] /\ lee'[fvuelta] = lee[fvuelta]
  BY <1>0, <1>1, AtendidoHace
<1>3. Cerrada(fida)'
  BY <1>2 DEF Cerrada, NoLee
<1>4. ASSUME VolcadoAfuera PROVE VolcadoAfuera'
  <2>1. Cerrada(fvuelta)'
    BY <1>2, <1>4 DEF VolcadoAfuera, Cerrada
  <2>2. lee'[fida].fase = "nada" /\ cli'["filesystem"] = "cerrado"
    BY <1>1, <1>2, <1>4 DEF VolcadoAfuera, NoLee
  <2> QED BY <1>1, <1>3, <2>1, <2>2 DEF VolcadoAfuera
<1>5. ASSUME VolcadoBien PROVE VolcadoBien'
  <2>1. /\ cli["filesystem"] = "espera"
        /\ (escrito /\ Espera(fvuelta)) \/ (~escrito /\ VaPrimero(fvuelta, "ERROR"))
    BY <1>1, <1>5 DEF VolcadoBien, Saludando, SinPedido, ConPedido
  <2>2. CASE escrito /\ Espera(fvuelta)
    <3>1. EnCamino(fvuelta, "OK", 0)'
      BY <1>0, <1>1, <1>2, <2>2, EnteroEnviado DEF Espera
    <3>2. lee'[fvuelta].fase = "op"
      BY <1>2, <2>2 DEF Espera
    <3>3. VaPrimero(fvuelta, "OK")'
      BY <3>1, <3>2 DEF EnCamino, EsTrama, VaPrimero
    <3>4. escrito' = TRUE
      BY <1>1, <2>2 DEF Redes
    <3>5. ("OK" = "OK") = escrito'
      BY <3>4, Zenon
    <3> QED BY <1>1, <1>3, <2>1, <3>3, <3>5 DEF VolcadoBien
  <2>3. CASE ~escrito /\ VaPrimero(fvuelta, "ERROR")
    <3>1. VaPrimero(fvuelta, "ERROR")'
      BY <1>0, <1>1, <1>2, <2>3, EnviadoDetras
    <3>2. escrito' = FALSE
      BY <1>1, <2>3 DEF Redes
    <3>3. ("ERROR" = "OK") = escrito'
      BY <3>2, Zenon
    <3> QED BY <1>1, <1>3, <2>1, <3>1, <3>3 DEF VolcadoBien
  <2> QED BY <2>1, <2>2, <2>3
<1> QED BY <1>1, <1>4, <1>5, SigueKernel

LEMMA PasoDelFS ==
    ASSUME Redes, KernelBien, DeUna("filesystem"), Quieta("kernel")
    PROVE  KernelBien'
<1>0. "filesystem" \in DeRespuesta /\ "filesystem" \in Conexiones
  BY LasVias DEF DeRespuesta
<1>1. CASE ServidorSaluda("filesystem")
  <2>1. ~VolcadoAfuera /\ escrito' = escrito
    BY <1>1 DEF VolcadoAfuera, ServidorSaluda
  <2>2. ASSUME VolcadoBien PROVE VolcadoBien'
    <3>1. Saludando("filesystem") /\ ~escrito
      BY <1>1, <2>2 DEF VolcadoBien, ServidorSaluda, SinPedido, ConPedido
    <3>2. Saludando("filesystem")'
      BY <1>0, <1>1, <3>1, PasoServidorSaluda
    <3> QED BY <2>1, <3>1, <3>2 DEF VolcadoBien
  <2> QED BY <2>1, <2>2, SigueKernel
<1>2. CASE ClienteSaluda("filesystem")
  <2>1. ~VolcadoAfuera /\ escrito' = escrito
    BY <1>2 DEF VolcadoAfuera, ClienteSaluda
  <2>2. ASSUME VolcadoBien PROVE VolcadoBien'
    <3>1. Saludando("filesystem") /\ ~escrito
      BY <1>2, <2>2 DEF VolcadoBien, ClienteSaluda, SinPedido, ConPedido
    <3>2. SinPedido("filesystem")'
      BY <1>0, <1>2, <3>1, PasoClienteSaluda
    <3> QED BY <2>1, <3>1, <3>2 DEF VolcadoBien
  <2> QED BY <2>1, <2>2, SigueKernel
<1>3. CASE Pide("filesystem")
  <2>1. ~VolcadoAfuera /\ escrito' = escrito
    BY <1>3 DEF VolcadoAfuera, Pide
  <2>2. ASSUME VolcadoBien PROVE VolcadoBien'
    <3>1. SinPedido("filesystem") /\ ~escrito
      BY <1>3, <2>2 DEF VolcadoBien, Pide, Saludando, ConPedido
    <3>2. ConPedido("filesystem")'
      BY <1>0, <1>3, <3>1, PasoPide
    <3> QED BY <2>1, <3>1, <3>2 DEF VolcadoBien
  <2> QED BY <2>1, <2>2, SigueKernel
<1>4. ~Conecta("filesystem") /\ ~Recibe("filesystem")
  BY DEF Conecta, Recibe
<1>5. CASE FSEscribe \/ FSRechaza \/ FSConfirma
  BY <1>5, PasoFSEscribe, PasoFSRechaza, PasoFSConfirma
<1> QED BY <1>1, <1>2, <1>3, <1>4, <1>5 DEF DeUna

-----------------------------------------------------------------------------
(* Every step.                                                             *)

LEMMA InicioMensajes == InitMensajes => IInvMensajes
<1> SUFFICES ASSUME InitMensajes PROVE IInvMensajes
  OBVIOUS
<1>1. \A c \in Conexiones : Ida(c) \in Vias /\ Vuelta(c) \in Vias
  BY LasVias
<1>2. \A c \in Conexiones : /\ Cerrada(Ida(c)) /\ Cerrada(Vuelta(c))
                            /\ cli[c] = "cerrado" /\ srv[c] = "cerrado"
  BY <1>1 DEF InitMensajes, Cerrada, NoLee
<1>3. Redes
  BY DEF InitMensajes, Redes
<1>4. CPUBien
  BY <1>2 DEF CPUBien, Conexiones
<1>5. VolcadoAfuera
  BY <1>2 DEF VolcadoAfuera, Cerrada, Conexiones
<1>6. KernelBien
  BY <1>2, <1>5 DEF KernelBien, Conexiones
<1> QED BY <1>3, <1>4, <1>6 DEF IInvMensajes

\* Only the connections of the kernel and of filesystem are about a dump.
LEMMA EscritoIgual ==
    ASSUME NEW c \in {"dispatch", "interrupt", "cpu"}, DeUna(c)
    PROVE  escrito' = escrito
BY DEF DeUna, Conecta, ServidorSaluda, ClienteSaluda, Pide, Recibe,
       MemoriaAtiendeCPU, CPUEjecuta, KernelConfirmaSyscall, KernelDespacha,
       CPUEnviaSyscall, CPUDeja, CPUConfirmaInterrupcion, CPUDescarta,
       KernelConfirmada, KernelInterrumpe

LEMMA TodoPaso ==
    ASSUME NextMensajes
    PROVE  \/ \E v \in Vias : Llega(v) \/ Lee(v)
           \/ \E c \in Conexiones : DeUna(c)
           \/ MemoriaVuelca \/ MemoriaInforma
<1>1. ASSUME NEW c \in Conexiones, Servidor(c), ~MemoriaVuelca PROVE DeUna(c)
  BY <1>1 DEF Servidor, DeUna
<1>2. ASSUME NEW c \in Conexiones, Cliente(c), ~MemoriaInforma PROVE DeUna(c)
  BY <1>2 DEF Cliente, DeUna
<1>3. CASE \E c \in Conexiones : Conecta(c) \/ Servidor(c) \/ Cliente(c)
  BY <1>1, <1>2, <1>3 DEF DeUna
<1>4. CASE \E c \in {"cpu", "kernel"} : Pide(c)
  BY <1>4 DEF DeUna, Conexiones
<1>5. CASE KernelDespacha \/ CPUEnviaSyscall \/ CPUDeja
  <2>1. DeUna("dispatch")
    BY <1>5 DEF DeUna
  <2> QED BY <2>1 DEF Conexiones
<1>6. CASE KernelInterrumpe
  <2>1. DeUna("interrupt")
    BY <1>6 DEF DeUna
  <2> QED BY <2>1 DEF Conexiones
<1> QED BY <1>3, <1>4, <1>5, <1>6 DEF NextMensajes

LEMMA PasoMensajes ==
    ASSUME IInvMensajes, [NextMensajes]_varsMensajes
    PROVE  IInvMensajes'
<1>0. /\ Redes /\ CPUBien /\ KernelBien
      /\ "cpu" \in Conexiones /\ "kernel" \in Conexiones /\ "filesystem" \in Conexiones
  BY DEF IInvMensajes, Conexiones
<1>1. CASE UNCHANGED varsMensajes
  <2>1. Redes' /\ escrito' = escrito
    BY <1>0, <1>1 DEF varsMensajes, envio, lectura, Redes
  <2>2. \A c : Igual(c)
    BY <1>1 DEF varsMensajes, envio, lectura, Igual
  <2>3. CPUBien'
    BY <1>0, <2>2, IgualQuieta, SigueCPU
  <2>4. KernelBien'
    BY <1>0, <2>1, <2>2, IgualQuieta, SigueAfuera, SigueVolcado, SigueKernel
  <2> QED BY <2>1, <2>3, <2>4 DEF IInvMensajes
<1>2. CASE \E v \in Vias : Llega(v) \/ Lee(v)
  <2>1. (\A c \in Conexiones : Quieta(c)) /\ escrito' = escrito /\ Redes'
    BY <1>0, <1>2, RedQueda
  <2>2. CPUBien'
    BY <1>0, <2>1, SigueCPU
  <2>3. KernelBien'
    BY <1>0, <2>1, SigueAfuera, SigueVolcado, SigueKernel
  <2> QED BY <2>1, <2>2, <2>3 DEF IInvMensajes
<1>3. CASE \E c \in Conexiones : DeUna(c)
  <2>1. PICK c \in Conexiones : DeUna(c)
    BY <1>3
  <2>2. Redes' /\ \A d \in Conexiones \ {c} : Quieta(d)
    BY <1>0, <2>1, LasDemas
  <2>3. CPUBien'
    <3>1. CASE c = "cpu"
      BY <1>0, <2>1, <3>1, PasoDelCPU
    <3>2. CASE c # "cpu"
      BY <1>0, <2>2, <3>2, SigueCPU
    <3> QED BY <3>1, <3>2
  <2>4. KernelBien'
    <3>1. CASE c = "kernel"
      BY <1>0, <2>1, <2>2, <3>1, PasoDelKernel
    <3>2. CASE c = "filesystem"
      BY <1>0, <2>1, <2>2, <3>2, PasoDelFS
    <3>3. CASE c \in {"dispatch", "interrupt", "cpu"}
      <4>1. Quieta("kernel") /\ Quieta("filesystem") /\ escrito' = escrito
        BY <1>0, <2>1, <2>2, <3>3, EscritoIgual
      <4> QED BY <1>0, <4>1, SigueAfuera, SigueVolcado, SigueKernel
    <3> QED BY <3>1, <3>2, <3>3 DEF Conexiones
  <2> QED BY <2>2, <2>3, <2>4 DEF IInvMensajes
<1>4. CASE MemoriaVuelca \/ MemoriaInforma
  <2>1. KernelBien' /\ Quieta("cpu") /\ Redes'
    BY <1>0, <1>4, PasoMemoriaVuelca, PasoMemoriaInforma
  <2>2. CPUBien'
    BY <1>0, <2>1, SigueCPU
  <2> QED BY <2>1, <2>2 DEF IInvMensajes
<1> QED BY <1>1, <1>2, <1>3, <1>4, TodoPaso

\* On the connections of memoria and filesystem there is one request, or its
\* answer, and nothing else, at every moment.
THEOREM InvarianciaMensajes == SpecMensajes => []IInvMensajes
<1>1. InitMensajes => IInvMensajes
  BY InicioMensajes
<1>2. IInvMensajes /\ [NextMensajes]_varsMensajes => IInvMensajes'
  BY PasoMensajes
<1> QED BY <1>1, <1>2, PTL DEF SpecMensajes

LEMMA SinRestos == IInvMensajes => SoloLoPedido
<1> SUFFICES ASSUME IInvMensajes, NEW c \in DeRespuesta, cli[c] = "libre"
             PROVE  red[Vuelta(c)] = <<>> /\ buffer[Vuelta(c)] = <<>>
  BY DEF SoloLoPedido
<1>1. CASE c = "cpu"
  <2>1. SinPedido("cpu")
    BY <1>1 DEF IInvMensajes, CPUBien, Saludando, ConPedido
  <2> QED BY <1>1, <2>1 DEF SinPedido, Desocupada, Callada
<1>2. CASE c = "kernel"
  <2>1. SinPedido("kernel")
    BY <1>2 DEF IInvMensajes, KernelBien, Saludando, ConPedido
  <2> QED BY <1>2, <2>1 DEF SinPedido, Desocupada, Callada
<1>3. CASE c = "filesystem"
  <2>1. VolcadoBien
    BY <1>3 DEF IInvMensajes, KernelBien, VolcadoAfuera
  <2>2. SinPedido("filesystem")
    BY <1>3, <2>1 DEF VolcadoBien, Saludando, ConPedido
  <2> QED BY <1>3, <2>2 DEF SinPedido, Desocupada, Callada
<1> QED BY <1>1, <1>2, <1>3 DEF DeRespuesta

LEMMA LoQueSeDijo == IInvMensajes => DumpDicho
<1> SUFFICES ASSUME IInvMensajes, cli["kernel"] = "espera",
                    solicitud["kernel"] = "MEMORY_DUMP", buzon[Vuelta("kernel")] # Nada
             PROVE  (buzon[Vuelta("kernel")].op = "OK") = escrito
  BY DEF DumpDicho
<1>1. ~Espera(Vuelta("kernel")) /\ ~ConPedido("kernel")
  BY DEF Espera, ConPedido
<1>2. \E op \in {"OK", "ERROR"} :
        /\ Va(Vuelta("kernel"), op, 0)
        /\ solicitud["kernel"] = "MEMORY_DUMP" => ((op = "OK") = escrito)
  <2>1. cli["kernel"] # "cerrado" /\ ~Saludando("kernel") /\ ~SinPedido("kernel")
    BY DEF Saludando, SinPedido
  <2> QED BY <1>1, <2>1, Zenon DEF IInvMensajes, KernelBien
<1>3. PICK op \in {"OK", "ERROR"} :
        Va(Vuelta("kernel"), op, 0) /\ ((op = "OK") = escrito)
  BY <1>2
<1>4. buzon[Vuelta("kernel")].op = op
  BY <1>3, YaLeido
<1> QED BY <1>3, <1>4

\* No answer is left on a connection for the next request to take.
THEOREM SiempreSoloLoPedido == SpecMensajes => []SoloLoPedido
BY InvarianciaMensajes, SinRestos, PTL

\* What the kernel hears of a dump is what became of the file.
THEOREM SiempreDumpDicho == SpecMensajes => []DumpDicho
BY InvarianciaMensajes, LoQueSeDijo, PTL
=============================================================================
