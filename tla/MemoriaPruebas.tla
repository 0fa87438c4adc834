---------------------------- MODULE MemoriaPruebas ---------------------------
(***************************************************************************)
(* Proofs about the two parts of memoria, that have no state in common.    *)
(* Contextos, for any threads, processes, programs and width of the        *)
(* registers: a context for each thread that lives, the program counter    *)
(* inside of the program, the addresses of the MMU, and that each thread   *)
(* runs as in EjecucionAislada. MemoriaParticiones, for any processes,     *)
(* sizes and configuration: the tiling, the search of each algorithm, the  *)
(* dumps, and that the list is as MemoriaContigua.                         *)
(***************************************************************************)
EXTENDS Contextos, MemoriaParticiones, RemoverHiloPruebas, FiniteSetTheorems,
        SequenceTheorems, TLAPS

-----------------------------------------------------------------------------
(* Arrays of contexts in which no thread is repeated.                      *)

Contexto ==
    [hilo : Hilos, ax : 0 .. Modulo - 1, pc : Nat, instrucciones : Programas]

\* Where h is in an array, and what the searches find.
Con(l, h) == {i \in 1 .. Len(l) : l[i].hilo = h}

De(l, h) == l[CHOOSE i \in Con(l, h) : \A j \in Con(l, h) : i <= j]

Unicos(l) == \A i, j \in 1 .. Len(l) : l[i].hilo = l[j].hilo => i = j

\* A search finds the only context of the thread.
LEMMA DeUnico ==
    ASSUME NEW l \in Seq(Contexto), Unicos(l), NEW i \in 1 .. Len(l)
    PROVE  Con(l, l[i].hilo) = {i} /\ De(l, l[i].hilo) = l[i]
<1>1. Con(l, l[i].hilo) = {i}
  BY DEF Con, Unicos
<1>2. (CHOOSE x \in {i} : \A j \in {i} : x <= j) = i
  <2>1. i \in Int
    BY LenProperties
  <2>2. \E x \in {i} : \A j \in {i} : x <= j
    BY <2>1
  <2> QED BY <2>2
<1> QED BY <1>1, <1>2 DEF De

\* If the thread has one.
LEMMA DeTipo ==
    ASSUME NEW l \in Seq(Contexto), Unicos(l), NEW h, Con(l, h) # {}
    PROVE  \E i \in 1 .. Len(l) :
             /\ Con(l, h) = {i} /\ l[i].hilo = h
             /\ De(l, h) = l[i] /\ l[i] \in Contexto
<1>1. PICK i \in 1 .. Len(l) : l[i].hilo = h
  BY DEF Con
<1>2. l[i] \in Contexto
  BY ElementOfSeq
<1> QED BY <1>1, <1>2, DeUnico

\* A new thread gets a context, and the others keep theirs.
LEMMA ConUnoMas ==
    ASSUME NEW l \in Seq(Contexto), Unicos(l),
           NEW c \in Contexto, Con(l, c.hilo) = {}
    PROVE  /\ Append(l, c) \in Seq(Contexto) /\ Unicos(Append(l, c))
           /\ Con(Append(l, c), c.hilo) # {} /\ De(Append(l, c), c.hilo) = c
           /\ \A h : h # c.hilo =>
                /\ Con(Append(l, c), h) = {} <=> Con(l, h) = {}
                /\ Con(l, h) # {} => De(Append(l, c), h) = De(l, h)
<1> DEFINE r == Append(l, c)
           n == Len(l) + 1
<1>1. /\ r \in Seq(Contexto) /\ Len(r) = n /\ Len(l) \in Nat
      /\ \A i \in 1 .. Len(l) : r[i] = l[i]
      /\ r[n] = c
  BY AppendProperties, LenProperties
<1> HIDE DEF r
<1>2. \A i \in 1 .. Len(l) : l[i].hilo # c.hilo
  BY DEF Con
<1>3. Unicos(r)
  <2> SUFFICES ASSUME NEW i \in 1 .. n, NEW j \in 1 .. n,
                      r[i].hilo = r[j].hilo
               PROVE  i = j
    BY <1>1 DEF Unicos
  <2>1. CASE i \in 1 .. Len(l) /\ j \in 1 .. Len(l)
    BY <1>1, <2>1 DEF Unicos
  <2>2. CASE i \in 1 .. Len(l) /\ j = n
    BY <1>1, <1>2, <2>2
  <2>3. CASE i = n /\ j \in 1 .. Len(l)
    BY <1>1, <1>2, <2>3
  <2>4. CASE i = n /\ j = n
    BY <2>4
  <2> QED BY <1>1, <2>1, <2>2, <2>3, <2>4
<1>4. n \in 1 .. Len(r)
  BY <1>1
<1>5. Con(r, c.hilo) = {n} /\ De(r, c.hilo) = c
  BY <1>1, <1>3, <1>4, DeUnico
<1>6. ASSUME NEW h, h # c.hilo
      PROVE  Con(r, h) = Con(l, h) /\ (Con(l, h) # {} => De(r, h) = De(l, h))
  <2>1. Con(r, h) = Con(l, h)
    BY <1>1, <1>6 DEF Con
  <2>2. ASSUME Con(l, h) # {} PROVE De(r, h) = De(l, h)
    <3>1. PICK i \in 1 .. Len(l) : l[i].hilo = h /\ De(l, h) = l[i]
      BY <2>2, DeTipo
    <3>2. i \in 1 .. Len(r) /\ r[i] = l[i]
      BY <1>1
    <3> QED BY <1>1, <1>3, <3>1, <3>2, DeUnico
  <2> QED BY <2>1, <2>2
<1> QED BY <1>1, <1>3, <1>5, <1>6 DEF r

\* An array with the contexts at some positions of another: the threads that
\* are still there have the same context.
LEMMA ConMenos ==
    ASSUME NEW l \in Seq(Contexto), Unicos(l), NEW r \in Seq(Contexto),
           NEW K \in SUBSET (1 .. Len(l)),
           \E f \in [1 .. Len(r) -> K] :
             /\ \A i, j \in 1 .. Len(r) : f[i] = f[j] => i = j
             /\ \A i \in 1 .. Len(r) : r[i] = l[f[i]]
             /\ \A k \in K : \E i \in 1 .. Len(r) : f[i] = k
    PROVE  /\ Unicos(r)
           /\ \A h : Con(r, h) # {} => Con(l, h) # {} /\ De(r, h) = De(l, h)
<1>0. PICK f \in [1 .. Len(r) -> K] :
        /\ \A i, j \in 1 .. Len(r) : f[i] = f[j] => i = j
        /\ \A i \in 1 .. Len(r) : r[i] = l[f[i]]
        /\ \A k \in K : \E i \in 1 .. Len(r) : f[i] = k
  OBVIOUS
<1>1. \A i \in 1 .. Len(r) :
        f[i] \in K /\ f[i] \in 1 .. Len(l) /\ r[i] = l[f[i]]
  BY <1>0
<1>2. Unicos(r)
  <2> SUFFICES ASSUME NEW i \in 1 .. Len(r), NEW j \in 1 .. Len(r),
                      r[i].hilo = r[j].hilo
               PROVE  i = j
    BY DEF Unicos
  <2>1. f[i] \in 1 .. Len(l) /\ f[j] \in 1 .. Len(l)
    BY <1>1
  <2>2. l[f[i]].hilo = l[f[j]].hilo
    BY <1>1
  <2>3. \A a, b \in 1 .. Len(l) : l[a].hilo = l[b].hilo => a = b
    BY DEF Unicos
  <2>4. f[i] = f[j]
    BY <2>1, <2>2, <2>3
  <2> QED BY <1>0, <2>4
<1>3. ASSUME NEW h, Con(r, h) # {}
      PROVE  Con(l, h) # {} /\ De(r, h) = De(l, h)
  <2>1. PICK i \in 1 .. Len(r) : r[i].hilo = h /\ De(r, h) = r[i]
    BY <1>2, <1>3, DeTipo
  <2>2. f[i] \in 1 .. Len(l) /\ l[f[i]].hilo = h /\ r[i] = l[f[i]]
    BY <1>1, <2>1
  <2>3. Con(l, h) = {f[i]} /\ De(l, h) = l[f[i]]
    BY <2>2, DeUnico
  <2> QED BY <2>1, <2>2, <2>3
<1> QED BY <1>2, <1>3

\* Taking one out of the array.
LEMMA ConUnoMenos ==
    ASSUME NEW l \in Seq(Contexto), Unicos(l), NEW p \in 1 .. Len(l)
    PROVE  /\ RemoveAt(l, p) \in Seq(Contexto) /\ Unicos(RemoveAt(l, p))
           /\ \A h : Con(RemoveAt(l, p), h) # {} =>
                Con(l, h) # {} /\ De(RemoveAt(l, p), h) = De(l, h)
           /\ \A h : h # l[p].hilo /\ Con(l, h) # {} =>
                Con(RemoveAt(l, p), h) # {}
<1> DEFINE r == RemoveAt(l, p)
           antes == SubSeq(l, 1, p - 1)
           luego == SubSeq(l, p + 1, Len(l))
           K == (1 .. Len(l)) \ {p}
           f == [i \in 1 .. Len(r) |-> IF i < p THEN i ELSE i + 1]
<1>1. Len(l) \in Nat
  BY LenProperties
<1>2. /\ antes \in Seq(Contexto) /\ Len(antes) = p - 1
      /\ \A i \in 1 .. p - 1 : antes[i] = l[i]
  BY <1>1, SubSeqProperties
<1>3. /\ luego \in Seq(Contexto) /\ Len(luego) = Len(l) - p
      /\ \A i \in 1 .. Len(luego) : luego[i] = l[p + i]
  BY <1>1, SubSeqProperties
<1>4. r = antes \o luego
  BY DEF RemoveAt
<1> HIDE DEF antes, luego, r
<1>5. r \in Seq(Contexto) /\ Len(r) = Len(antes) + Len(luego)
  BY <1>2, <1>3, <1>4, ConcatProperties
<1>6. \A i \in 1 .. Len(antes) + Len(luego) :
        r[i] = IF i <= Len(antes) THEN antes[i] ELSE luego[i - Len(antes)]
  BY <1>2, <1>3, <1>4, ConcatProperties
<1>7. \A i \in 1 .. Len(r) :
        /\ f[i] = IF i < p THEN i ELSE i + 1
        /\ f[i] \in K /\ r[i] = l[f[i]]
  <2> TAKE i \in 1 .. Len(r)
  <2>1. Len(r) = Len(l) - 1
    BY <1>1, <1>2, <1>3, <1>5
  <2>2. CASE i < p
    <3>1. i \in 1 .. p - 1 /\ i <= Len(antes) /\ f[i] = i
      BY <1>2, <2>1, <2>2
    <3>2. r[i] = antes[i]
      BY <1>5, <1>6, <3>1
    <3> QED BY <1>1, <1>2, <2>1, <2>2, <3>1, <3>2
  <2>3. CASE ~(i < p)
    <3>1. /\ ~(i <= Len(antes)) /\ f[i] = i + 1
          /\ i - Len(antes) \in 1 .. Len(luego)
          /\ p + (i - Len(antes)) = i + 1
      BY <1>1, <1>2, <1>3, <2>1, <2>3
    <3>2. r[i] = luego[i - Len(antes)]
      BY <1>5, <1>6, <3>1
    <3>3. r[i] = l[i + 1]
      BY <1>3, <3>1, <3>2
    <3> QED BY <1>1, <2>1, <2>3, <3>1, <3>3
  <2> QED BY <2>2, <2>3
<1>8. f \in [1 .. Len(r) -> K]
  <2>1. \A i \in 1 .. Len(r) : (IF i < p THEN i ELSE i + 1) \in K
    BY <1>7
  <2> HIDE DEF K
  <2> QED BY <2>1
<1>9. \A k \in K : \E i \in 1 .. Len(r) : f[i] = k
  <2> TAKE k \in K
  <2>1. Len(r) = Len(l) - 1
    BY <1>1, <1>2, <1>3, <1>5
  <2>2. CASE k < p
    <3>1. k \in 1 .. Len(r)
      BY <1>1, <2>1, <2>2
    <3> QED BY <1>7, <2>2, <3>1
  <2>3. CASE ~(k < p)
    <3>1. k - 1 \in 1 .. Len(r) /\ ~(k - 1 < p) /\ (k - 1) + 1 = k
      BY <1>1, <2>1, <2>3
    <3>2. f[k - 1] = (k - 1) + 1
      BY <1>7, <3>1
    <3> QED BY <3>1, <3>2
  <2> QED BY <2>2, <2>3
<1>10. \A i, j \in 1 .. Len(r) : f[i] = f[j] => i = j
  BY <1>7
<1>11. /\ Unicos(r)
       /\ \A h : Con(r, h) # {} => Con(l, h) # {} /\ De(r, h) = De(l, h)
       /\ \A k \in K : \A h : l[k].hilo = h => Con(r, h) # {}
  <2>1. K \in SUBSET (1 .. Len(l)) /\ \A i \in 1 .. Len(r) : r[i] = l[f[i]]
    BY <1>7
  <2>2. \A k \in K : \E i \in 1 .. Len(r) : f[i] = k
    BY <1>9
  <2>3. r \in Seq(Contexto) /\ f \in [1 .. Len(r) -> K]
    BY <1>5, <1>8
  <2> HIDE DEF f
  <2>4. \E g \in [1 .. Len(r) -> K] :
          /\ \A i, j \in 1 .. Len(r) : g[i] = g[j] => i = j
          /\ \A i \in 1 .. Len(r) : r[i] = l[g[i]]
          /\ \A k \in K : \E i \in 1 .. Len(r) : g[i] = k
    BY <1>10, <2>1, <2>2, <2>3
  <2>5. K \in SUBSET (1 .. Len(l))
    BY <2>1
  <2> HIDE DEF K
  <2>6. Unicos(r)
    BY <2>3, <2>4, <2>5, ConMenos
  <2>7. \A h : Con(r, h) # {} => Con(l, h) # {} /\ De(r, h) = De(l, h)
    BY <2>3, <2>4, <2>5, ConMenos
  <2>8. ASSUME NEW k \in K, NEW h, l[k].hilo = h PROVE Con(r, h) # {}
    <3>1. PICK i \in 1 .. Len(r) : f[i] = k
      BY <2>2
    <3>2. r[i] = l[k]
      BY <2>1, <3>1
    <3> QED BY <2>8, <3>2 DEF Con
  <2> QED BY <2>6, <2>7, <2>8
<1>12. \A h : h # l[p].hilo /\ Con(l, h) # {} => Con(r, h) # {}
  <2> TAKE h
  <2> HAVE h # l[p].hilo /\ Con(l, h) # {}
  <2>1. PICK i \in 1 .. Len(l) : l[i].hilo = h
    BY DEF Con
  <2>2. i \in K
    BY <2>1
  <2> HIDE DEF K
  <2> QED BY <1>11, <2>1, <2>2
<1> QED BY <1>5, <1>11, <1>12 DEF r

\* Storing the registers of a thread.
LEMMA ConOtro ==
    ASSUME NEW l \in Seq(Contexto), Unicos(l), NEW p \in 1 .. Len(l),
           NEW h, l[p].hilo = h,
           NEW r \in Seq(Contexto), Len(r) = Len(l), r[p].hilo = h,
           \A i \in 1 .. Len(l) : i # p => r[i] = l[i]
    PROVE  /\ Unicos(r) /\ De(r, h) = r[p]
           /\ \A g : Con(r, g) = Con(l, g)
           /\ \A g : g # h /\ Con(l, g) # {} => De(r, g) = De(l, g)
<1>1. \A i \in 1 .. Len(l) : r[i].hilo = l[i].hilo
  OBVIOUS
<1>2. Unicos(r)
  BY <1>1 DEF Unicos
<1>3. \A g : Con(r, g) = Con(l, g)
  BY <1>1 DEF Con
<1>4. De(r, h) = r[p]
  <2>1. p \in 1 .. Len(r)
    OBVIOUS
  <2> QED BY <1>2, <2>1, DeUnico
<1>5. ASSUME NEW g, g # h, Con(l, g) # {} PROVE De(r, g) = De(l, g)
  <2>1. PICK i \in 1 .. Len(l) : l[i].hilo = g /\ De(l, g) = l[i]
    BY <1>5, DeTipo
  <2>2. i \in 1 .. Len(r) /\ r[i] = l[i]
    BY <1>5, <2>1
  <2> QED BY <1>2, <2>1, <2>2, DeUnico
<1> QED BY <1>2, <1>3, <1>4, <1>5

\* The two assignments that store them.
ConRegistros(l, p, a, b) == [l EXCEPT ![p].ax = a, ![p].pc = b]

\* They leave the other contexts as they were.
LEMMA Actualizada ==
    ASSUME NEW l \in Seq(Contexto), NEW p \in 1 .. Len(l),
           NEW a \in 0 .. Modulo - 1, NEW b \in Nat
    PROVE  /\ ConRegistros(l, p, a, b) \in Seq(Contexto)
           /\ Len(ConRegistros(l, p, a, b)) = Len(l)
           /\ ConRegistros(l, p, a, b)[p] =
                [hilo |-> l[p].hilo, ax |-> a, pc |-> b,
                 instrucciones |-> l[p].instrucciones]
           /\ \A i \in 1 .. Len(l) : i # p =>
                ConRegistros(l, p, a, b)[i] = l[i]
<1> DEFINE d == l[p]
           e == [hilo |-> d.hilo, ax |-> a, pc |-> d.pc,
                 instrucciones |-> d.instrucciones]
           c == [hilo |-> d.hilo, ax |-> a, pc |-> b,
                 instrucciones |-> d.instrucciones]
           s == [l EXCEPT ![p] = e]
           r == [s EXCEPT ![p] = c]
<1>1. d \in Contexto /\ p \in DOMAIN l
  BY ElementOfSeq, LenProperties
<1>2. d = [hilo |-> d.hilo, ax |-> d.ax, pc |-> d.pc,
           instrucciones |-> d.instrucciones]
  BY <1>1 DEF Contexto
<1>3. e \in Contexto /\ c \in Contexto
  BY <1>1 DEF Contexto
<1>4. [d EXCEPT !.ax = a] = e
  <2> HIDE DEF d
  <2> QED BY <1>2
<1>5. [e EXCEPT !.pc = b] = c
  OBVIOUS
<1>6. /\ s \in Seq(Contexto) /\ Len(s) = Len(l) /\ s[p] = e
      /\ \A i \in 1 .. Len(l) : i # p => s[i] = l[i]
  <2> HIDE DEF e
  <2> QED BY <1>3, ExceptSeq
<1>7. /\ r \in Seq(Contexto) /\ Len(r) = Len(l) /\ r[p] = c
      /\ \A i \in 1 .. Len(l) : i # p => r[i] = l[i]
  <2> HIDE DEF c, s
  <2>1. /\ r \in Seq(Contexto) /\ Len(r) = Len(s) /\ r[p] = c
        /\ \A i \in 1 .. Len(s) : i # p => r[i] = s[i]
    BY <1>3, <1>6, ExceptSeq
  <2> QED BY <1>6, <2>1
<1>8. [l EXCEPT ![p].ax = a] = s
  <2> HIDE DEF e
  <2> QED BY <1>1, <1>4
<1>9. [[l EXCEPT ![p].ax = a] EXCEPT ![p].pc = b] = r
  <2>1. p \in DOMAIN s
    BY <1>1
  <2> HIDE DEF e, c, s
  <2> QED BY <1>5, <1>6, <1>8, <2>1
<1>10. ConRegistros(l, p, a, b) = r
  BY <1>9 DEF ConRegistros
<1> HIDE DEF r
<1> QED BY <1>7, <1>10

-----------------------------------------------------------------------------
(* The inductive invariant.                                                *)

Tiene(h) == Con(lista_hilos, h) # {}

Suyo(h) == De(lista_hilos, h)

\* Which threads have a context. The ones that end keep theirs for a while.
Existentes ==
    /\ \A h \in Hilos :
         /\ Tiene(h) => estado[h] # "inexistente" /\ h \notin creando
         /\ Vivo(h) => Tiene(h)
    /\ \A h \in creando : estado[h] # "inexistente"
    /\ \A h \in terminando : estado[h] = "fin"

\* The thread in the CPU, which may have woken up or ended already.
Turno ==
    /\ pcCPU = "recibe" <=> hilo_ejecutar = Nadie
    /\ pcCPU \in {"recibe", "pide", "ejecuta", "espera_ok"} =>
         motivo = "ninguno"
    /\ pcCPU \in {"guarda", "confirma"} => motivo # "ninguno"
    /\ pcCPU # "recibe" => /\ estado[hilo_ejecutar] # "inexistente"
                           /\ motivo # "bloqueo" =>
                                estado[hilo_ejecutar] = "exec"
    /\ pcCPU # "espera_ok" => creando = {}
    /\ hilo_ejecutar \notin creando

\* Memoria has what the CPU took until it stores what the CPU has.
Acabando(h) ==
    h = hilo_ejecutar /\ pcCPU = "confirma" /\ motivo = "fin_proceso"

Contador ==
    /\ \A h \in Hilos : Vivo(h) /\ ~Acabando(h) =>
         Suyo(h).pc < Len(Suyo(h).instrucciones)
    /\ /\ pcCPU \notin {"recibe", "pide"} /\ motivo # "fin_proceso"
       /\ Vivo(hilo_ejecutar)
       => contexto.pc < Len(Suyo(hilo_ejecutar).instrucciones)

\* A process ends after an instruction that ends processes.
Ultima ==
    motivo = "fin_proceso" =>
        LET i == Suyo(hilo_ejecutar).instrucciones
        IN  /\ contexto.pc \in 1 .. Len(i)
            /\ i[contexto.pc].op \in {"mem", "process_exit"}

Guardada ==
    pcCPU = "confirma" /\ Tiene(hilo_ejecutar) =>
        /\ Suyo(hilo_ejecutar).ax = contexto.ax
        /\ Suyo(hilo_ejecutar).pc = contexto.pc

Marco ==
    pcCPU \notin {"recibe", "pide"} =>
        /\ contexto.base = Particion(hilo_ejecutar).base
        /\ contexto.limite = Particion(hilo_ejecutar).limite

IInv ==
    /\ TypeOK /\ Unicos(lista_hilos) /\ Existentes /\ Turno
    /\ Contador /\ Ultima /\ Guardada /\ Marco

-----------------------------------------------------------------------------
(* What the actions find and leave.                                        *)

\* What the model's searches find is what De finds.
LEMMA Buscado ==
    ASSUME NEW h
    PROVE  Posiciones(h) = Con(lista_hilos, h) /\ Guardado(h) = Suyo(h)
  BY DEF Posiciones, Con, Guardado, Posicion, Suyo, De

\* Until its last instruction a program has another one, and jumps to one.
LEMMA Programa ==
    ASSUME NEW i \in Programas, NEW k \in 0 .. Len(i) - 1
    PROVE  /\ Len(i) \in Nat \ {0}
           /\ i[k + 1].op \in Operaciones
           /\ i[k + 1].op \notin Salidas => k + 1 < Len(i)
           /\ i[k + 1].op = "jnz" => i[k + 1].a \in 0 .. Len(i) - 1
           /\ i[k + 1].op \in {"set", "sum"} =>
                i[k + 1].v \in 0 .. Modulo - 1
<1>1. /\ Len(i) \in Nat \ {0} /\ i[Len(i)].op \in Salidas
      /\ \A j \in 1 .. Len(i) :
           /\ i[j].op \in Operaciones
           /\ i[j].op = "jnz" => i[j].a \in 0 .. Len(i) - 1
           /\ i[j].op \in {"set", "sum"} => i[j].v \in 0 .. Modulo - 1
  BY ContextosAssumption DEF Last
<1>2. k + 1 \in 1 .. Len(i) /\ (k + 1 # Len(i) => k + 1 < Len(i))
  BY <1>1
<1> QED BY <1>1, <1>2

\* The context of a thread that has one.
LEMMA SuyoTipo ==
    ASSUME IInv, NEW h \in Hilos, Tiene(h)
    PROVE  /\ Suyo(h) \in Contexto
           /\ Suyo(h).hilo = h /\ Suyo(h).ax \in 0 .. Modulo - 1
           /\ Suyo(h).pc \in Nat /\ Suyo(h).instrucciones \in Programas
<1>1. lista_hilos \in Seq(Contexto) /\ Unicos(lista_hilos)
  BY DEF IInv, TypeOK, Contexto
<1>2. Suyo(h) \in Contexto /\ Suyo(h).hilo = h
  BY <1>1, DeTipo DEF Tiene, Suyo
<1> QED BY <1>2 DEF Contexto

\* A thread that has no context gets one.
LEMMA CreaContextoDeja ==
    ASSUME IInv, NEW h \in Hilos, NEW i \in Programas, ~Tiene(h),
           CreaContexto(h, i)
    PROVE  /\ lista_hilos' \in Seq(Contexto) /\ Unicos(lista_hilos')
           /\ Tiene(h)'
           /\ Suyo(h)' = [hilo |-> h, ax |-> 0, pc |-> 0, instrucciones |-> i]
           /\ \A g : g # h => /\ Tiene(g)' <=> Tiene(g)
                              /\ Tiene(g) => Suyo(g)' = Suyo(g)
<1> DEFINE c == [hilo |-> h, ax |-> 0, pc |-> 0, instrucciones |-> i]
<1>1. lista_hilos \in Seq(Contexto) /\ Unicos(lista_hilos)
  BY DEF IInv, TypeOK, Contexto
<1>2. c \in Contexto /\ c.hilo = h
  BY ContextosAssumption DEF Contexto
<1>3. lista_hilos' = Append(lista_hilos, c)
  BY DEF CreaContexto
<1> HIDE DEF c
<1>4. Con(lista_hilos, c.hilo) = {}
  BY <1>2 DEF Tiene
<1>5. /\ Append(lista_hilos, c) \in Seq(Contexto)
      /\ Unicos(Append(lista_hilos, c))
      /\ Con(Append(lista_hilos, c), c.hilo) # {}
      /\ De(Append(lista_hilos, c), c.hilo) = c
      /\ \A g : g # c.hilo =>
           /\ Con(Append(lista_hilos, c), g) = {} <=> Con(lista_hilos, g) = {}
           /\ Con(lista_hilos, g) # {} =>
                De(Append(lista_hilos, c), g) = De(lista_hilos, g)
  BY <1>1, <1>2, <1>4, ConUnoMas
<1> QED BY <1>2, <1>3, <1>5 DEF Tiene, Suyo, c

\* END_THREAD takes at most the context of its thread.
LEMMA FinalizaHiloDeja ==
    ASSUME IInv, NEW h \in Hilos, FinalizaHilo(h)
    PROVE  /\ lista_hilos' \in Seq(Contexto) /\ Unicos(lista_hilos')
           /\ \A g : /\ Tiene(g)' => Tiene(g) /\ Suyo(g)' = Suyo(g)
                     /\ g # h /\ Tiene(g) => Tiene(g)'
<1>1. lista_hilos \in Seq(Contexto) /\ Unicos(lista_hilos)
  BY DEF IInv, TypeOK, Contexto
<1>2. CASE Posiciones(h) = {}
  <2>1. lista_hilos' = lista_hilos
    BY <1>2 DEF FinalizaHilo
  <2> QED BY <1>1, <2>1 DEF Tiene, Suyo
<1>3. CASE Posiciones(h) # {}
  <2> DEFINE p == Posicion(h)
  <2>1. lista_hilos' = RemoveAt(lista_hilos, p)
    BY <1>3 DEF FinalizaHilo
  <2>2. p \in 1 .. Len(lista_hilos) /\ lista_hilos[p].hilo = h
    <3>1. Con(lista_hilos, h) # {}
      BY <1>3, Buscado
    <3>2. PICK i \in 1 .. Len(lista_hilos) :
            Con(lista_hilos, h) = {i} /\ lista_hilos[i].hilo = h
      BY <1>1, <3>1, DeTipo
    <3>3. (CHOOSE x \in {i} : \A j \in {i} : x <= j) = i
      <4>1. i \in Int
        BY <1>1, LenProperties
      <4>2. \E x \in {i} : \A j \in {i} : x <= j
        BY <4>1
      <4> QED BY <4>2
    <3>4. p = i
      BY <3>2, <3>3, Buscado DEF Posicion
    <3> QED BY <3>2, <3>4
  <2> HIDE DEF p
  <2>3. /\ lista_hilos' \in Seq(Contexto) /\ Unicos(lista_hilos')
        /\ \A g : Con(lista_hilos', g) # {} =>
             /\ Con(lista_hilos, g) # {}
             /\ De(lista_hilos', g) = De(lista_hilos, g)
        /\ \A g : g # h /\ Con(lista_hilos, g) # {} =>
             Con(lista_hilos', g) # {}
    BY <1>1, <2>1, <2>2, ConUnoMenos
  <2> QED BY <2>3 DEF Tiene, Suyo
<1> QED BY <1>2, <1>3

\* The end of p takes contexts of p only, if not all.
LEMMA SinHilosDeDeja ==
    ASSUME IInv, NEW p, lista_hilos' = SinHilosDe(p)
    PROVE  /\ lista_hilos' \in Seq(Contexto) /\ Unicos(lista_hilos')
           /\ \A g : /\ Tiene(g)' => Tiene(g) /\ Suyo(g)' = Suyo(g)
                     /\ Proceso[g] # p /\ Tiene(g) => Tiene(g)'
<1> DEFINE l == lista_hilos
           deP == {i \in 1 .. Len(l) : Proceso[l[i].hilo] = p}
           quitados == {i \in deP : \E j \in 0 .. i - 1 :
                           /\ j \notin deP /\ j + 1 .. i \subseteq deP
                           /\ (i - j) % 2 = 1}
           K == (1 .. Len(l)) \ quitados
           r == Conserva(l, K)
<1>1. l \in Seq(Contexto) /\ Unicos(l)
  BY DEF IInv, TypeOK, Contexto
<1>2. lista_hilos' = r
  BY DEF SinHilosDe
<1>3. quitados \subseteq deP /\ K \in SUBSET (1 .. Len(l))
  OBVIOUS
<1> HIDE DEF quitados, K, r
<1>4. r \in Seq(Contexto)
  BY <1>1, <1>3, ConservaTipo DEF r
<1>5. \E f \in [1 .. Len(r) -> K] :
        /\ \A i, j \in 1 .. Len(r) : f[i] = f[j] => i = j
        /\ \A i \in 1 .. Len(r) : r[i] = l[f[i]]
        /\ \A k \in K : \E i \in 1 .. Len(r) : f[i] = k
  BY <1>1, <1>3, ConservaElige DEF r
<1> HIDE DEF l
<1>6. /\ Unicos(r)
      /\ \A g : Con(r, g) # {} => Con(l, g) # {} /\ De(r, g) = De(l, g)
      /\ \A k \in K : \A g : l[k].hilo = g => Con(r, g) # {}
  <2>1. Unicos(r)
    BY <1>1, <1>3, <1>4, <1>5, ConMenos
  <2>2. \A g : Con(r, g) # {} => Con(l, g) # {} /\ De(r, g) = De(l, g)
    BY <1>1, <1>3, <1>4, <1>5, ConMenos
  <2>3. ASSUME NEW k \in K, NEW g, l[k].hilo = g PROVE Con(r, g) # {}
    BY <1>5, <2>3 DEF Con
  <2> QED BY <2>1, <2>2, <2>3
<1>7. ASSUME NEW g, Proceso[g] # p, Con(l, g) # {} PROVE Con(r, g) # {}
  <2>1. PICK i \in 1 .. Len(l) : l[i].hilo = g
    BY <1>7 DEF Con
  <2>2. i \in K
    BY <1>3, <1>7, <2>1 DEF K
  <2> QED BY <1>6, <2>1, <2>2
<1> QED BY <1>2, <1>4, <1>6, <1>7 DEF Tiene, Suyo, l

\* The CPU stores the registers of its thread, which keeps its program.
LEMMA GuardaDeja ==
    ASSUME IInv, Guarda
    PROVE  /\ lista_hilos' \in Seq(Contexto) /\ Unicos(lista_hilos')
           /\ \A g : /\ Tiene(g)' <=> Tiene(g)
                     /\ g # hilo_ejecutar /\ Tiene(g) => Suyo(g)' = Suyo(g)
           /\ Tiene(hilo_ejecutar) =>
                Suyo(hilo_ejecutar)' = [hilo |-> hilo_ejecutar,
                    ax |-> contexto.ax, pc |-> contexto.pc,
                    instrucciones |-> Suyo(hilo_ejecutar).instrucciones]
<1>1. lista_hilos \in Seq(Contexto) /\ Unicos(lista_hilos)
  BY DEF IInv, TypeOK, Contexto
<1>2. CASE Posiciones(hilo_ejecutar) = {}
  <2>1. lista_hilos' = lista_hilos /\ ~Tiene(hilo_ejecutar)
    BY <1>2, Buscado DEF Guarda, Tiene
  <2> QED BY <1>1, <2>1 DEF Tiene, Suyo
<1>3. CASE Posiciones(hilo_ejecutar) # {}
  <2> DEFINE h == hilo_ejecutar
             p == Posicion(h)
             c == [hilo |-> h, ax |-> contexto.ax, pc |-> contexto.pc,
                   instrucciones |-> Suyo(h).instrucciones]
  <2>1. Con(lista_hilos, h) # {}
    BY <1>3, Buscado
  <2>2. PICK i \in 1 .. Len(lista_hilos) :
          /\ Con(lista_hilos, h) = {i} /\ lista_hilos[i].hilo = h
          /\ De(lista_hilos, h) = lista_hilos[i]
          /\ lista_hilos[i] \in Contexto
    BY <1>1, <2>1, DeTipo
  <2>3. (CHOOSE x \in {i} : \A j \in {i} : x <= j) = i
    <3>1. i \in Int
      BY <1>1, LenProperties
    <3>2. \E x \in {i} : \A j \in {i} : x <= j
      BY <3>1
    <3> QED BY <3>2
  <2>4. p = i
    BY <2>2, <2>3, Buscado DEF Posicion
  <2>5. lista_hilos' = ConRegistros(lista_hilos, i, contexto.ax, contexto.pc)
    BY <1>3, <2>4 DEF Guarda, ConRegistros
  <2>6. /\ lista_hilos' \in Seq(Contexto)
        /\ Len(lista_hilos') = Len(lista_hilos) /\ lista_hilos'[i] = c
        /\ \A j \in 1 .. Len(lista_hilos) :
             j # i => lista_hilos'[j] = lista_hilos[j]
    <3>1. Suyo(h) = lista_hilos[i]
      BY <2>2 DEF Suyo
    <3>2. contexto.ax \in 0 .. Modulo - 1 /\ contexto.pc \in Nat
      BY DEF IInv, TypeOK
    <3>3. c = [hilo |-> lista_hilos[i].hilo, ax |-> contexto.ax,
               pc |-> contexto.pc,
               instrucciones |-> lista_hilos[i].instrucciones]
      BY <2>2, <3>1
    <3> HIDE DEF c
    <3> QED BY <1>1, <2>2, <2>5, <3>2, <3>3, Actualizada
  <2>7. lista_hilos'[i].hilo = h
    BY <2>6
  <2>8. /\ Unicos(lista_hilos') /\ De(lista_hilos', h) = lista_hilos'[i]
        /\ \A g : Con(lista_hilos', g) = Con(lista_hilos, g)
        /\ \A g : g # h /\ Con(lista_hilos, g) # {} =>
             De(lista_hilos', g) = De(lista_hilos, g)
    BY <1>1, <2>2, <2>6, <2>7, ConOtro
  <2>9. Suyo(h)' = c
    BY <2>6, <2>8 DEF Suyo, Guarda
  <2> HIDE DEF c
  <2>10. ASSUME NEW g
         PROVE  /\ Tiene(g)' <=> Tiene(g)
                /\ g # h /\ Tiene(g) => Suyo(g)' = Suyo(g)
    BY <2>8 DEF Tiene, Suyo
  <2> QED BY <2>6, <2>8, <2>9, <2>10 DEF c
<1> QED BY <1>2, <1>3

\* What the thread that executes an instruction has.
LEMMA EjecutaSabe ==
    ASSUME IInv, pcCPU = "ejecuta"
    PROVE  /\ hilo_ejecutar \in Hilos /\ motivo = "ninguno"
           /\ estado[hilo_ejecutar] = "exec"
           /\ Vivo(hilo_ejecutar) /\ Tiene(hilo_ejecutar)
           /\ Posiciones(hilo_ejecutar) # {}
           /\ Suyo(hilo_ejecutar).instrucciones \in Programas
           /\ contexto.pc \in
                0 .. Len(Suyo(hilo_ejecutar).instrucciones) - 1
           /\ Instruccion =
                Suyo(hilo_ejecutar).instrucciones[contexto.pc + 1]
<1> DEFINE h == hilo_ejecutar
<1>1. /\ h \in Hilos /\ motivo = "ninguno"
      /\ estado[h] = "exec" /\ h \notin creando
  BY DEF IInv, TypeOK, Turno
<1>2. Vivo(h) /\ Tiene(h)
  BY <1>1 DEF IInv, Existentes, Vivo
<1>3. Suyo(h).instrucciones \in Programas
  BY <1>1, <1>2, SuyoTipo
<1>4. Len(Suyo(h).instrucciones) \in Nat
  BY <1>3, ContextosAssumption
<1>5. contexto.pc \in Nat /\ contexto.pc < Len(Suyo(h).instrucciones)
  BY <1>1, <1>2 DEF IInv, TypeOK, Contador
<1>6. Posiciones(h) # {}
  BY <1>2, Buscado DEF Tiene
<1>7. Instruccion = Suyo(h).instrucciones[contexto.pc + 1]
  BY Buscado DEF Instruccion
<1> QED BY <1>1, <1>2, <1>3, <1>4, <1>5, <1>6, <1>7

-----------------------------------------------------------------------------
(* Every action preserves it.                                              *)

\* Before the first process memoria has no context.
LEMMA Inicio ==
    Init => IInv
<1> SUFFICES ASSUME Init PROVE IInv
  OBVIOUS
<1>1. TypeOK
  BY ContextosAssumption, EmptySeq DEF Init, TypeOK, SinContexto
<1>2. Len(lista_hilos) = 0 /\ lista_hilos = <<>>
  BY EmptySeq DEF Init
<1>3. Unicos(lista_hilos) /\ \A h : ~Tiene(h)
  BY <1>2 DEF Unicos, Tiene, Con
<1>4. Existentes
  BY <1>3 DEF Init, Existentes, Vivo
<1>5. Turno /\ Marco /\ Ultima /\ Guardada
  BY ContextosAssumption DEF Init, Turno, Marco, Ultima, Guardada
<1>6. Contador
  BY DEF Init, Contador, Vivo
<1> QED BY <1>1, <1>3, <1>4, <1>5, <1>6 DEF IInv

\* The conjuncts about the CPU, when it does nothing and its thread keeps
\* what it has in memoria.
LEMMA CPUQuieta ==
    ASSUME IInv, TypeOK', Existentes', Turno', UNCHANGED cpu,
           \A g \in Hilos : Tiene(g)' /\ Tiene(g) => Suyo(g)' = Suyo(g),
           \A g \in Hilos : Vivo(g)' =>
               Vivo(g) \/ Suyo(g)'.pc < Len(Suyo(g)'.instrucciones),
           pcCPU # "recibe" =>
               /\ Tiene(hilo_ejecutar)' => Tiene(hilo_ejecutar)
               /\ Vivo(hilo_ejecutar)' => Vivo(hilo_ejecutar)
    PROVE  Contador' /\ Ultima' /\ Guardada' /\ Marco'
<1> DEFINE h == hilo_ejecutar
<1>1. UNCHANGED <<pcCPU, hilo_ejecutar, contexto, motivo>>
  BY DEF cpu
<1>2. Existentes /\ Turno /\ Contador /\ Ultima /\ Guardada /\ Marco
  BY DEF IInv
<1>3. pcCPU # "recibe" => h \in Hilos
  BY <1>1 DEF IInv, TypeOK, Turno
<1>4. \A g \in Hilos : Vivo(g)' /\ Vivo(g) =>
        Tiene(g) /\ Tiene(g)' /\ Suyo(g)' = Suyo(g)
  BY <1>2 DEF Existentes
<1>5. pcCPU # "recibe" /\ Tiene(h)' => Tiene(h) /\ Suyo(h)' = Suyo(h)
  BY <1>1, <1>3
<1>6. \A g \in Hilos : Vivo(g)' /\ ~Acabando(g)' =>
        Suyo(g)'.pc < Len(Suyo(g)'.instrucciones)
  <2> TAKE g \in Hilos
  <2> HAVE Vivo(g)' /\ ~Acabando(g)'
  <2>1. CASE Vivo(g)
    <3>1. ~Acabando(g)
      BY <1>1 DEF Acabando
    <3>2. Suyo(g).pc < Len(Suyo(g).instrucciones)
      BY <1>2, <2>1, <3>1 DEF Contador
    <3> QED BY <1>4, <2>1, <3>2
  <2> QED BY <2>1
<1>7. pcCPU \notin {"recibe", "pide"} /\ motivo # "fin_proceso" /\ Vivo(h)' =>
        contexto.pc < Len(Suyo(h)'.instrucciones)
  BY <1>1, <1>2, <1>3, <1>4 DEF Contador
<1>8. Contador'
  BY <1>1, <1>6, <1>7 DEF Contador
<1>9. Ultima'
  <2>1. ASSUME motivo = "fin_proceso" PROVE Suyo(h)' = Suyo(h)
    <3>1. pcCPU # "recibe" /\ estado[h]' = "exec" /\ h \notin creando'
      BY <1>1, <1>2, <2>1 DEF Turno
    <3>2. Tiene(h)'
      BY <1>1, <1>3, <3>1 DEF Existentes, Vivo
    <3> QED BY <1>5, <3>1, <3>2
  <2> QED BY <1>1, <1>2, <2>1 DEF Ultima
<1>10. Guardada'
  BY <1>1, <1>2, <1>5 DEF Guardada
<1>11. Marco'
  BY <1>1, <1>2 DEF Marco, Particion
<1> QED BY <1>8, <1>9, <1>10, <1>11

\* A new context, for a thread that was not there yet.
LEMMA CreaProcesoConserva ==
    ASSUME IInv, NEW h \in Hilos, CreaProceso(h)
    PROVE  IInv'
<1>1. PICK i \in Programas : CreaContexto(h, i)
  BY DEF CreaProceso
<1>2. /\ estado[h] = "inexistente" /\ estado' = [estado EXCEPT ![h] = "listo"]
      /\ UNCHANGED <<creando, terminando, pcCPU, hilo_ejecutar, contexto,
                     motivo>>
  BY DEF CreaProceso, cpu
<1>3. ~Tiene(h) /\ h \notin creando /\ ~Vivo(h)
  BY <1>2 DEF IInv, Existentes, Vivo
<1>4. /\ lista_hilos' \in Seq(Contexto) /\ Unicos(lista_hilos')
      /\ Tiene(h)'
      /\ Suyo(h)' = [hilo |-> h, ax |-> 0, pc |-> 0, instrucciones |-> i]
      /\ \A g : g # h => /\ Tiene(g)' <=> Tiene(g)
                         /\ Tiene(g) => Suyo(g)' = Suyo(g)
  BY <1>1, <1>3, CreaContextoDeja
<1>5. TypeOK /\ Existentes /\ Turno
  BY DEF IInv
<1>6. TypeOK'
  BY <1>2, <1>4, <1>5 DEF TypeOK, Contexto
<1>7. /\ estado'[h] = "listo"
      /\ \A g \in Hilos : g # h => estado'[g] = estado[g]
  BY <1>2, <1>5 DEF TypeOK
<1>8. Vivo(h)' /\ \A g \in Hilos : g # h => (Vivo(g)' <=> Vivo(g))
  BY <1>2, <1>3, <1>7 DEF Vivo
<1>9. Existentes'
  BY <1>2, <1>3, <1>4, <1>5, <1>7, <1>8 DEF Existentes, TypeOK
<1>10. pcCPU # "recibe" => /\ hilo_ejecutar \in Hilos /\ hilo_ejecutar # h
                           /\ estado'[hilo_ejecutar] = estado[hilo_ejecutar]
  BY <1>2, <1>5, <1>7 DEF Turno, TypeOK
<1>11. Turno'
  BY <1>2, <1>5, <1>10 DEF Turno
<1>12. pcCPU # "recibe" =>
         /\ Tiene(hilo_ejecutar)' => Tiene(hilo_ejecutar)
         /\ Vivo(hilo_ejecutar)' => Vivo(hilo_ejecutar)
  BY <1>2, <1>4, <1>8, <1>10
<1>13. Suyo(h)'.pc < Len(Suyo(h)'.instrucciones)
  <2>1. Len(i) \in Nat \ {0} /\ Suyo(h)'.pc = 0 /\ Suyo(h)'.instrucciones = i
    BY <1>4, ContextosAssumption
  <2> QED BY <2>1
<1>14. /\ \A g \in Hilos : Tiene(g)' /\ Tiene(g) => Suyo(g)' = Suyo(g)
       /\ \A g \in Hilos : Vivo(g)' =>
            Vivo(g) \/ Suyo(g)'.pc < Len(Suyo(g)'.instrucciones)
  BY <1>3, <1>4, <1>8, <1>13
<1>15. UNCHANGED cpu
  BY <1>2 DEF cpu
<1>16. Contador' /\ Ultima' /\ Guardada' /\ Marco'
  BY <1>6, <1>9, <1>11, <1>12, <1>14, <1>15, CPUQuieta
<1> QED BY <1>4, <1>6, <1>9, <1>11, <1>16 DEF IInv

\* A new context, for a thread that is in READY and had none.
LEMMA CreaHiloConserva ==
    ASSUME IInv, NEW h \in Hilos, CreaHilo(h)
    PROVE  IInv'
<1>1. PICK i \in Programas : CreaContexto(h, i)
  BY DEF CreaHilo
<1>2. /\ h \in creando /\ creando' = creando \ {h}
      /\ UNCHANGED <<estado, terminando, pcCPU, hilo_ejecutar, contexto,
                     motivo>>
  BY DEF CreaHilo, cpu
<1>3. ~Tiene(h) /\ ~Vivo(h) /\ estado[h] # "inexistente"
  BY <1>2 DEF IInv, Existentes, Vivo
<1>4. /\ lista_hilos' \in Seq(Contexto) /\ Unicos(lista_hilos')
      /\ Tiene(h)'
      /\ Suyo(h)' = [hilo |-> h, ax |-> 0, pc |-> 0, instrucciones |-> i]
      /\ \A g : g # h => /\ Tiene(g)' <=> Tiene(g)
                         /\ Tiene(g) => Suyo(g)' = Suyo(g)
  BY <1>1, <1>3, CreaContextoDeja
<1>5. TypeOK /\ Existentes /\ Turno
  BY DEF IInv
<1>6. TypeOK'
  BY <1>2, <1>4, <1>5 DEF TypeOK, Contexto
<1>7. \A g \in Hilos : g # h => (Vivo(g)' <=> Vivo(g))
  BY <1>2 DEF Vivo
<1>8. Existentes'
  BY <1>2, <1>3, <1>4, <1>5, <1>7 DEF Existentes, TypeOK
<1>9. Turno'
  BY <1>2, <1>5 DEF Turno
<1>10. hilo_ejecutar # h
  BY <1>2, <1>5 DEF Turno
<1>11. pcCPU # "recibe" =>
         /\ Tiene(hilo_ejecutar)' => Tiene(hilo_ejecutar)
         /\ Vivo(hilo_ejecutar)' => Vivo(hilo_ejecutar)
  <2>1. pcCPU # "recibe" => hilo_ejecutar \in Hilos
    BY <1>5 DEF Turno, TypeOK
  <2> QED BY <1>2, <1>4, <1>7, <1>10, <2>1
<1>12. Suyo(h)'.pc < Len(Suyo(h)'.instrucciones)
  <2>1. Len(i) \in Nat \ {0} /\ Suyo(h)'.pc = 0 /\ Suyo(h)'.instrucciones = i
    BY <1>4, ContextosAssumption
  <2> QED BY <2>1
<1>13. /\ \A g \in Hilos : Tiene(g)' /\ Tiene(g) => Suyo(g)' = Suyo(g)
       /\ \A g \in Hilos : Vivo(g)' =>
            Vivo(g) \/ Suyo(g)'.pc < Len(Suyo(g)'.instrucciones)
  BY <1>3, <1>4, <1>7, <1>12
<1>14. UNCHANGED cpu
  BY <1>2 DEF cpu
<1>15. Contador' /\ Ultima' /\ Guardada' /\ Marco'
  BY <1>6, <1>8, <1>9, <1>11, <1>13, <1>14, CPUQuieta
<1> QED BY <1>4, <1>6, <1>8, <1>9, <1>15 DEF IInv

\* The context of a thread that has ended.
LEMMA FinalizaHiloConserva ==
    ASSUME IInv, NEW h \in Hilos, FinalizaHilo(h)
    PROVE  IInv'
<1>1. /\ h \in terminando /\ terminando' = terminando \ {h}
      /\ UNCHANGED <<estado, creando, pcCPU, hilo_ejecutar, contexto, motivo>>
  BY DEF FinalizaHilo, cpu
<1>2. /\ lista_hilos' \in Seq(Contexto) /\ Unicos(lista_hilos')
      /\ \A g : /\ Tiene(g)' => Tiene(g) /\ Suyo(g)' = Suyo(g)
                /\ g # h /\ Tiene(g) => Tiene(g)'
  BY FinalizaHiloDeja
<1>3. TypeOK /\ Existentes /\ Turno
  BY DEF IInv
<1>4. TypeOK'
  BY <1>1, <1>2, <1>3 DEF TypeOK, Contexto
<1>5. \A g \in Hilos : Vivo(g)' <=> Vivo(g)
  BY <1>1 DEF Vivo
<1>6. ~Vivo(h)
  BY <1>1, <1>3 DEF Existentes, Vivo
<1>7. Existentes'
  BY <1>1, <1>2, <1>3, <1>5, <1>6 DEF Existentes
<1>8. Turno'
  BY <1>1, <1>3 DEF Turno
<1>9. pcCPU # "recibe" =>
        /\ Tiene(hilo_ejecutar)' => Tiene(hilo_ejecutar)
        /\ Vivo(hilo_ejecutar)' => Vivo(hilo_ejecutar)
  <2>1. pcCPU # "recibe" => hilo_ejecutar \in Hilos
    BY <1>3 DEF Turno, TypeOK
  <2> QED BY <1>1, <1>2, <1>5, <2>1
<1>10. /\ \A g \in Hilos : Tiene(g)' /\ Tiene(g) => Suyo(g)' = Suyo(g)
       /\ \A g \in Hilos : Vivo(g)' =>
            Vivo(g) \/ Suyo(g)'.pc < Len(Suyo(g)'.instrucciones)
  BY <1>2, <1>5
<1>11. UNCHANGED cpu
  BY <1>1 DEF cpu
<1>12. Contador' /\ Ultima' /\ Guardada' /\ Marco'
  BY <1>4, <1>7, <1>8, <1>9, <1>10, <1>11, CPUQuieta
<1> QED BY <1>2, <1>4, <1>7, <1>8, <1>12 DEF IInv

\* A thread that wakes up was alive.
LEMMA DespiertaConserva ==
    ASSUME IInv, NEW h \in Hilos, Despierta(h)
    PROVE  IInv'
<1>1. /\ estado[h] = "bloqueado" /\ estado' = [estado EXCEPT ![h] = "listo"]
      /\ UNCHANGED <<lista_hilos, creando, terminando, pcCPU, hilo_ejecutar,
                     contexto, motivo>>
  BY DEF Despierta, cpu
<1>2. \A g : (Tiene(g)' <=> Tiene(g)) /\ Suyo(g)' = Suyo(g)
  BY <1>1 DEF Tiene, Suyo
<1>3. TypeOK /\ Existentes /\ Turno /\ Unicos(lista_hilos)
  BY DEF IInv
<1>4. TypeOK'
  BY <1>1, <1>3 DEF TypeOK
<1>5. /\ estado'[h] = "listo"
      /\ \A g \in Hilos : g # h => estado'[g] = estado[g]
  BY <1>1, <1>3 DEF TypeOK
<1>6. \A g \in Hilos : Vivo(g)' <=> Vivo(g)
  BY <1>1, <1>5 DEF Vivo
<1>7. Existentes'
  BY <1>1, <1>2, <1>3, <1>5, <1>6 DEF Existentes, TypeOK
<1>8. pcCPU # "recibe" => hilo_ejecutar \in Hilos
  BY <1>3 DEF Turno, TypeOK
<1>9. Turno'
  BY <1>1, <1>3, <1>5, <1>8 DEF Turno
<1>10. pcCPU # "recibe" =>
         /\ Tiene(hilo_ejecutar)' => Tiene(hilo_ejecutar)
         /\ Vivo(hilo_ejecutar)' => Vivo(hilo_ejecutar)
  BY <1>1, <1>2, <1>6, <1>8
<1>11. UNCHANGED cpu
  BY <1>1 DEF cpu
<1>12. Contador' /\ Ultima' /\ Guardada' /\ Marco'
  BY <1>2, <1>4, <1>6, <1>7, <1>9, <1>10, <1>11, CPUQuieta
<1> QED BY <1>1, <1>3, <1>4, <1>7, <1>9, <1>12 DEF IInv

\* The conjuncts about the CPU after an instruction.
LEMMA TrasInstruccion ==
    ASSUME IInv, pcCPU = "ejecuta", TypeOK', Existentes', Turno',
           UNCHANGED <<lista_hilos, hilo_ejecutar>>,
           pcCPU' \in {"chequea", "espera_ok"},
           contexto'.base = contexto.base, contexto'.limite = contexto.limite,
           \A g \in Hilos : Vivo(g)' => Vivo(g),
           LET i == Suyo(hilo_ejecutar).instrucciones
           IN  IF motivo' = "fin_proceso"
               THEN /\ contexto'.pc \in 1 .. Len(i)
                    /\ i[contexto'.pc].op \in {"mem", "process_exit"}
               ELSE Vivo(hilo_ejecutar)' => contexto'.pc < Len(i)
    PROVE  Contador' /\ Ultima' /\ Guardada' /\ Marco'
<1>1. \A g : (Tiene(g)' <=> Tiene(g)) /\ Suyo(g)' = Suyo(g)
  BY DEF Tiene, Suyo
<1>2. Contador /\ Marco
  BY DEF IInv
<1>3. \A g \in Hilos : Vivo(g)' => Suyo(g)'.pc < Len(Suyo(g)'.instrucciones)
  BY <1>1, <1>2 DEF Contador, Acabando
<1>4. Contador'
  BY <1>1, <1>3 DEF Contador
<1>5. Ultima'
  BY <1>1 DEF Ultima
<1>6. Guardada' /\ Marco'
  BY <1>2 DEF Guardada, Marco, Particion
<1> QED BY <1>4, <1>5, <1>6

\* What an instruction does to the CPU.
LEMMA EjecutaDeja ==
    ASSUME IInv, NEW op, NEW ax \in 0 .. Modulo - 1, NEW pc \in Nat,
           NEW hasta, Ejecuta(op, ax, pc, hasta)
    PROVE  /\ pcCPU = "ejecuta" /\ pcCPU' = hasta /\ Instruccion.op = op
           /\ UNCHANGED <<lista_hilos, creando, hilo_ejecutar>>
           /\ contexto' = [ax |-> ax, pc |-> pc, base |-> contexto.base,
                           limite |-> contexto.limite]
           /\ contexto' \in [ax : 0 .. Modulo - 1, pc : Nat, base : Nat,
                             limite : Nat]
<1>1. contexto \in [ax : 0 .. Modulo - 1, pc : Nat, base : Nat, limite : Nat]
  BY DEF IInv, TypeOK
<1>2. contexto' = [contexto EXCEPT !.ax = ax, !.pc = pc]
  BY DEF Ejecuta
<1>3. contexto' = [ax |-> ax, pc |-> pc, base |-> contexto.base,
                   limite |-> contexto.limite]
  BY <1>1, <1>2
<1> QED BY <1>1, <1>3 DEF Ejecuta

\* Instructions that only move the registers.
LEMMA SigueConserva ==
    ASSUME IInv, NEW op, NEW ax \in 0 .. Modulo - 1,
           NEW pc \in 0 .. Len(Suyo(hilo_ejecutar).instrucciones) - 1,
           Ejecuta(op, ax, pc, "chequea"),
           UNCHANGED <<estado, terminando, motivo>>
    PROVE  IInv'
<1>1. pcCPU = "ejecuta" /\ pcCPU' = "chequea"
  BY DEF Ejecuta
<1>2. motivo = "ninguno" /\ Suyo(hilo_ejecutar).instrucciones \in Programas
  BY <1>1, EjecutaSabe
<1>3. Len(Suyo(hilo_ejecutar).instrucciones) \in Nat
  BY <1>2, ContextosAssumption
<1>4. pc \in Nat /\ pc < Len(Suyo(hilo_ejecutar).instrucciones)
  BY <1>3
<1>5. /\ UNCHANGED <<lista_hilos, creando, hilo_ejecutar>>
      /\ contexto' = [ax |-> ax, pc |-> pc, base |-> contexto.base,
                      limite |-> contexto.limite]
      /\ contexto' \in [ax : 0 .. Modulo - 1, pc : Nat, base : Nat,
                        limite : Nat]
  BY <1>4, EjecutaDeja
<1>6. TypeOK /\ Existentes /\ Turno /\ Unicos(lista_hilos)
  BY DEF IInv
<1>7. TypeOK'
  BY <1>1, <1>5, <1>6 DEF TypeOK
<1>8. \A g : (Tiene(g)' <=> Tiene(g)) /\ (Vivo(g)' <=> Vivo(g))
  BY <1>5 DEF Tiene, Vivo
<1>9. Existentes'
  BY <1>5, <1>6, <1>8 DEF Existentes
<1>10. Turno'
  BY <1>1, <1>2, <1>5, <1>6 DEF Turno
<1>11. Contador' /\ Ultima' /\ Guardada' /\ Marco'
  BY <1>1, <1>2, <1>4, <1>5, <1>7, <1>8, <1>9, <1>10, TrasInstruccion
<1> QED BY <1>5, <1>6, <1>7, <1>9, <1>10, <1>11 DEF IInv

\* What a sum leaves fits in a register.
LEMMA SumaEnRegistro ==
    ASSUME NEW a \in Int PROVE a % Modulo \in 0 .. Modulo - 1
  BY ContextosAssumption

\* SET, SUM, JNZ and the memory instructions with a valid address.
LEMMA SigueConservaUsos ==
    ASSUME IInv, Set \/ Sum \/ Jnz \/ Mem
    PROVE  IInv'
<1> DEFINE i == Suyo(hilo_ejecutar).instrucciones
<1>1. pcCPU = "ejecuta" /\ Instruccion.op \in {"set", "sum", "jnz", "mem"}
  BY DEF Set, Sum, Jnz, Mem, Ejecuta
<1>2. /\ i \in Programas /\ contexto.pc \in 0 .. Len(i) - 1
      /\ Instruccion = i[contexto.pc + 1]
  BY <1>1, EjecutaSabe
<1>3. /\ Len(i) \in Nat \ {0}
      /\ i[contexto.pc + 1].op \notin Salidas => contexto.pc + 1 < Len(i)
      /\ i[contexto.pc + 1].op = "jnz" =>
           i[contexto.pc + 1].a \in 0 .. Len(i) - 1
      /\ i[contexto.pc + 1].op \in {"set", "sum"} =>
           i[contexto.pc + 1].v \in 0 .. Modulo - 1
  BY <1>2, Programa
<1> HIDE DEF i
<1>4. /\ Siguiente \in 0 .. Len(i) - 1
      /\ Instruccion.op = "jnz" => Instruccion.a \in 0 .. Len(i) - 1
      /\ Instruccion.op \in {"set", "sum"} => Instruccion.v \in 0 .. Modulo - 1
  <2>1. i[contexto.pc + 1].op \notin Salidas
    BY <1>1, <1>2 DEF Salidas
  <2> QED BY <1>2, <1>3, <2>1 DEF Siguiente
<1>5. contexto.ax \in 0 .. Modulo - 1
  BY DEF IInv, TypeOK
<1>6. CASE Set
  <2>1. Instruccion.v \in 0 .. Modulo - 1
    BY <1>4, <1>6 DEF Set, Ejecuta
  <2> QED BY <1>4, <1>6, <2>1, SigueConserva DEF Set, i
<1>7. CASE Sum
  <2>1. (contexto.ax + Instruccion.v) % Modulo \in 0 .. Modulo - 1
    <3>1. Instruccion.v \in 0 .. Modulo - 1
      BY <1>4, <1>7 DEF Sum, Ejecuta
    <3>2. contexto.ax + Instruccion.v \in Int
      BY <1>5, <3>1, ContextosAssumption
    <3> QED BY <3>2, SumaEnRegistro
  <2> QED BY <1>4, <1>7, <2>1, SigueConserva DEF Sum, i
<1>8. CASE Jnz
  <2> DEFINE pc == IF contexto.ax # 0 THEN Instruccion.a ELSE Siguiente
  <2>1. pc \in 0 .. Len(i) - 1
    BY <1>4, <1>8 DEF Jnz, Ejecuta
  <2>2. Ejecuta("jnz", contexto.ax, pc, "chequea")
    BY <1>8 DEF Jnz
  <2> HIDE DEF pc
  <2> QED BY <1>5, <1>8, <2>1, <2>2, SigueConserva DEF Jnz, i
<1>9. CASE Mem
  <2>1. PICK v \in 0 .. Modulo - 1 : Ejecuta("mem", v, Siguiente, "chequea")
    BY <1>9 DEF Mem
  <2> QED BY <1>4, <1>9, <2>1, SigueConserva DEF Mem, i
<1> QED BY <1>6, <1>7, <1>8, <1>9

\* An instruction that ends the process.
LEMMA AcabaConserva ==
    ASSUME IInv, NEW op \in {"mem", "process_exit"},
           Ejecuta(op, contexto.ax, Siguiente, "chequea"),
           motivo' = "fin_proceso", UNCHANGED <<estado, terminando>>
    PROVE  IInv'
<1> DEFINE i == Suyo(hilo_ejecutar).instrucciones
<1>1. pcCPU = "ejecuta" /\ pcCPU' = "chequea" /\ Instruccion.op = op
  BY DEF Ejecuta
<1>2. /\ i \in Programas /\ contexto.pc \in 0 .. Len(i) - 1
      /\ Instruccion = i[contexto.pc + 1] /\ motivo = "ninguno"
      /\ estado[hilo_ejecutar] = "exec"
  BY <1>1, EjecutaSabe
<1>3. Len(i) \in Nat
  BY <1>2, ContextosAssumption
<1> HIDE DEF i
<1>4. Siguiente \in Nat /\ Siguiente \in 1 .. Len(i) /\ i[Siguiente].op = op
  BY <1>1, <1>2, <1>3 DEF Siguiente
<1>5. contexto.ax \in 0 .. Modulo - 1
  BY DEF IInv, TypeOK
<1>6. /\ UNCHANGED <<lista_hilos, creando, hilo_ejecutar>>
      /\ contexto' = [ax |-> contexto.ax, pc |-> Siguiente,
                      base |-> contexto.base, limite |-> contexto.limite]
      /\ contexto' \in [ax : 0 .. Modulo - 1, pc : Nat, base : Nat,
                        limite : Nat]
  BY <1>4, <1>5, EjecutaDeja
<1>7. TypeOK /\ Existentes /\ Turno /\ Unicos(lista_hilos)
  BY DEF IInv
<1>8. TypeOK'
  BY <1>1, <1>6, <1>7 DEF TypeOK
<1>9. \A g : (Tiene(g)' <=> Tiene(g)) /\ (Vivo(g)' <=> Vivo(g))
  BY <1>6 DEF Tiene, Vivo
<1>10. Existentes'
  BY <1>6, <1>7, <1>9 DEF Existentes
<1>11. Turno'
  BY <1>1, <1>2, <1>6, <1>7 DEF Turno
<1>12. Contador' /\ Ultima' /\ Guardada' /\ Marco'
  <2>1. /\ contexto'.pc \in 1 .. Len(i)
        /\ i[contexto'.pc].op \in {"mem", "process_exit"}
    BY <1>4, <1>6
  <2> QED BY <1>1, <1>6, <1>8, <1>9, <1>10, <1>11, <2>1, TrasInstruccion
          DEF i
<1> QED BY <1>6, <1>7, <1>8, <1>10, <1>11, <1>12 DEF IInv

\* The thread goes to blocked.
LEMMA IOConserva ==
    ASSUME IInv, IO
    PROVE  IInv'
<1> DEFINE i == Suyo(hilo_ejecutar).instrucciones
           h == hilo_ejecutar
<1>1. /\ pcCPU = "ejecuta" /\ pcCPU' = "chequea" /\ Instruccion.op = "io"
      /\ estado' = [estado EXCEPT ![h] = "bloqueado"] /\ motivo' = "bloqueo"
      /\ UNCHANGED terminando
  BY DEF IO, Ejecuta
<1>2. /\ i \in Programas /\ contexto.pc \in 0 .. Len(i) - 1
      /\ Instruccion = i[contexto.pc + 1] /\ motivo = "ninguno"
      /\ estado[h] = "exec" /\ h \in Hilos /\ Vivo(h)
  BY <1>1, EjecutaSabe
<1>3. Len(i) \in Nat /\ Siguiente < Len(i)
  <2>1. i[contexto.pc + 1].op \notin Salidas
    BY <1>1, <1>2 DEF Salidas
  <2> QED BY <1>2, <2>1, Programa DEF Siguiente
<1>4. Siguiente \in Nat /\ contexto.ax \in 0 .. Modulo - 1
  BY DEF IInv, TypeOK, Siguiente
<1> HIDE DEF i
<1>5. /\ UNCHANGED <<lista_hilos, creando, hilo_ejecutar>>
      /\ contexto' = [ax |-> contexto.ax, pc |-> Siguiente,
                      base |-> contexto.base, limite |-> contexto.limite]
      /\ contexto' \in [ax : 0 .. Modulo - 1, pc : Nat, base : Nat,
                        limite : Nat]
  BY <1>4, EjecutaDeja DEF IO
<1>6. TypeOK /\ Existentes /\ Turno /\ Unicos(lista_hilos)
  BY DEF IInv
<1>7. TypeOK'
  BY <1>1, <1>5, <1>6 DEF TypeOK
<1>8. /\ estado'[h] = "bloqueado"
      /\ \A g \in Hilos : g # h => estado'[g] = estado[g]
  BY <1>1, <1>2, <1>6 DEF TypeOK
<1>9. \A g : Tiene(g)' <=> Tiene(g)
  BY <1>5 DEF Tiene
<1>10. \A g \in Hilos : Vivo(g)' <=> Vivo(g)
  BY <1>2, <1>5, <1>8 DEF Vivo
<1>11. Existentes'
  BY <1>1, <1>2, <1>5, <1>6, <1>8, <1>9, <1>10 DEF Existentes, TypeOK
<1>12. Turno'
  BY <1>1, <1>2, <1>5, <1>6, <1>8 DEF Turno
<1>13. Contador' /\ Ultima' /\ Guardada' /\ Marco'
  <2>1. contexto'.pc < Len(i)
    BY <1>3, <1>5
  <2> QED BY <1>1, <1>5, <1>7, <1>10, <1>11, <1>12, <2>1, TrasInstruccion
          DEF i
<1> QED BY <1>5, <1>6, <1>7, <1>11, <1>12, <1>13 DEF IInv

\* The thread ends, and its context will go.
LEMMA ThreadExitConserva ==
    ASSUME IInv, ThreadExit
    PROVE  IInv'
<1> DEFINE h == hilo_ejecutar
<1>1. /\ pcCPU = "ejecuta" /\ pcCPU' = "chequea"
      /\ estado' = [estado EXCEPT ![h] = "fin"] /\ motivo' = "bloqueo"
      /\ terminando' = terminando \cup {h}
  BY DEF ThreadExit, Ejecuta
<1>2. motivo = "ninguno" /\ h \in Hilos
  BY <1>1, EjecutaSabe
<1>3. Siguiente \in Nat /\ contexto.ax \in 0 .. Modulo - 1
  BY DEF IInv, TypeOK, Siguiente
<1>4. /\ UNCHANGED <<lista_hilos, creando, hilo_ejecutar>>
      /\ contexto' = [ax |-> contexto.ax, pc |-> Siguiente,
                      base |-> contexto.base, limite |-> contexto.limite]
      /\ contexto' \in [ax : 0 .. Modulo - 1, pc : Nat, base : Nat,
                        limite : Nat]
  BY <1>3, EjecutaDeja DEF ThreadExit
<1>5. TypeOK /\ Existentes /\ Turno /\ Unicos(lista_hilos)
  BY DEF IInv
<1>6. TypeOK'
  BY <1>1, <1>2, <1>4, <1>5 DEF TypeOK
<1>7. /\ estado'[h] = "fin"
      /\ \A g \in Hilos : g # h => estado'[g] = estado[g]
  BY <1>1, <1>2, <1>5 DEF TypeOK
<1>8. \A g : Tiene(g)' <=> Tiene(g)
  BY <1>4 DEF Tiene
<1>9. ~Vivo(h)' /\ \A g \in Hilos : Vivo(g)' => Vivo(g)
  BY <1>2, <1>4, <1>7 DEF Vivo
<1>10. Existentes'
  BY <1>1, <1>2, <1>4, <1>5, <1>7, <1>8, <1>9 DEF Existentes, TypeOK
<1>11. Turno'
  BY <1>1, <1>2, <1>4, <1>5, <1>7 DEF Turno
<1>12. Contador' /\ Ultima' /\ Guardada' /\ Marco'
  <2>1. ~Vivo(hilo_ejecutar)'
    BY <1>4, <1>9
  <2> QED BY <1>1, <1>4, <1>6, <1>9, <1>10, <1>11, <2>1, TrasInstruccion
<1> QED BY <1>4, <1>5, <1>6, <1>10, <1>11, <1>12 DEF IInv

\* A new thread in READY, whose context memoria has to create.
LEMMA CreaYEsperaConserva ==
    ASSUME IInv, CreaYEspera
    PROVE  IInv'
<1> DEFINE i == Suyo(hilo_ejecutar).instrucciones
           h == hilo_ejecutar
<1>1. /\ pcCPU = "ejecuta" /\ pcCPU' = "espera_ok"
      /\ Instruccion.op = "thread_create"
      /\ contexto' = [contexto EXCEPT !.pc = Siguiente]
      /\ UNCHANGED <<lista_hilos, terminando, hilo_ejecutar, motivo>>
  BY DEF CreaYEspera, ThreadCreate
<1>2. /\ i \in Programas /\ contexto.pc \in 0 .. Len(i) - 1
      /\ Instruccion = i[contexto.pc + 1] /\ motivo = "ninguno"
      /\ estado[h] = "exec" /\ h \in Hilos /\ Vivo(h)
  BY <1>1, EjecutaSabe
<1>3. Len(i) \in Nat /\ Siguiente < Len(i)
  <2>1. i[contexto.pc + 1].op \notin Salidas
    BY <1>1, <1>2 DEF Salidas
  <2> QED BY <1>2, <2>1, Programa DEF Siguiente
<1> HIDE DEF i
<1>4. TypeOK /\ Existentes /\ Turno /\ Unicos(lista_hilos)
  BY DEF IInv
<1>5. /\ contexto' \in [ax : 0 .. Modulo - 1, pc : Nat, base : Nat,
                        limite : Nat]
      /\ contexto'.pc = Siguiente /\ contexto'.base = contexto.base
      /\ contexto'.limite = contexto.limite
  BY <1>1, <1>4 DEF TypeOK, Siguiente
<1>6. creando = {}
  BY <1>1, <1>4 DEF Turno
<1>7. \/ UNCHANGED <<estado, creando>>
      \/ \E g \in Hilos : /\ estado[g] = "inexistente"
                          /\ estado' = [estado EXCEPT ![g] = "listo"]
                          /\ creando' = creando \cup {g}
  BY DEF CreaYEspera, ThreadCreate, Hermanos
<1>8. \A g : Tiene(g)' <=> Tiene(g)
  BY <1>1 DEF Tiene
<1>9. TypeOK'
  BY <1>1, <1>4, <1>5, <1>7 DEF TypeOK
<1>10. /\ \A g \in Hilos : Vivo(g)' <=> Vivo(g)
       /\ Existentes' /\ Turno'
  <2>1. CASE UNCHANGED <<estado, creando>>
    <3>1. \A g : Vivo(g)' <=> Vivo(g)
      BY <2>1 DEF Vivo
    <3> QED BY <1>1, <1>2, <1>4, <1>8, <2>1, <3>1 DEF Existentes, Turno
  <2>2. ASSUME NEW g \in Hilos, estado[g] = "inexistente",
               estado' = [estado EXCEPT ![g] = "listo"],
               creando' = creando \cup {g}
        PROVE  /\ \A f \in Hilos : Vivo(f)' <=> Vivo(f)
               /\ Existentes' /\ Turno'
    <3>1. /\ estado'[g] = "listo" /\ g # h /\ ~Tiene(g)
          /\ \A f \in Hilos : f # g => estado'[f] = estado[f]
      BY <1>2, <1>4, <2>2 DEF TypeOK, Existentes
    <3>2. \A f \in Hilos : Vivo(f)' <=> Vivo(f)
      BY <2>2, <3>1 DEF Vivo
    <3>3. Existentes'
      BY <1>1, <1>4, <1>8, <2>2, <3>1, <3>2 DEF Existentes, TypeOK
    <3>4. Turno'
      BY <1>1, <1>2, <1>4, <1>6, <2>2, <3>1 DEF Turno
    <3> QED BY <3>2, <3>3, <3>4
  <2> QED BY <1>7, <2>1, <2>2
<1>11. Contador' /\ Ultima' /\ Guardada' /\ Marco'
  <2>1. contexto'.pc < Len(i) /\ motivo' # "fin_proceso"
    BY <1>1, <1>2, <1>3, <1>5
  <2> QED BY <1>1, <1>5, <1>9, <1>10, <2>1, TrasInstruccion DEF i
<1> QED BY <1>1, <1>4, <1>9, <1>10, <1>11 DEF IInv

\* check_interrupt, and the answer of memoria to the creation of a thread.
LEMMA ChequeaConserva ==
    ASSUME IInv, Chequea \/ RecibeOK
    PROVE  IInv'
<1>1. /\ UNCHANGED <<lista_hilos, estado, creando, terminando, hilo_ejecutar,
                     contexto>>
      /\ pcCPU \in {"chequea", "espera_ok"}
      /\ pcCPU' \in {"chequea", "ejecuta", "guarda"}
      /\ pcCPU = "espera_ok" => creando = {} /\ pcCPU' = "chequea"
      /\ pcCPU = "chequea" => pcCPU' # "chequea"
      /\ motivo' \in {motivo, "quantum"}
      /\ motivo' # motivo => motivo = "ninguno" /\ pcCPU' = "guarda"
      /\ pcCPU' = "ejecuta" => motivo' = "ninguno"
      /\ pcCPU' = "guarda" => motivo' # "ninguno"
  BY DEF Chequea, RecibeOK, kernel
<1>2. \A g : /\ Tiene(g)' <=> Tiene(g)
             /\ Suyo(g)' = Suyo(g) /\ (Vivo(g)' <=> Vivo(g))
  BY <1>1 DEF Tiene, Suyo, Vivo
<1>3. /\ TypeOK /\ Existentes /\ Turno /\ Unicos(lista_hilos)
      /\ Contador /\ Ultima /\ Guardada /\ Marco
  BY DEF IInv
<1>4. TypeOK'
  BY <1>1, <1>3 DEF TypeOK
<1>5. Existentes'
  BY <1>1, <1>2, <1>3 DEF Existentes
<1>6. Turno'
  BY <1>1, <1>3 DEF Turno
<1>7. Contador'
  BY <1>1, <1>2, <1>3 DEF Contador, Acabando
<1>8. Ultima'
  BY <1>1, <1>2, <1>3 DEF Ultima
<1>9. Guardada' /\ Marco'
  BY <1>1, <1>3 DEF Guardada, Marco, Particion
<1> QED BY <1>1, <1>3, <1>4, <1>5, <1>6, <1>7, <1>8, <1>9 DEF IInv

\* From here on memoria has the registers that the CPU had.
LEMMA GuardaConserva ==
    ASSUME IInv, Guarda
    PROVE  IInv'
<1> DEFINE h == hilo_ejecutar
<1>1. /\ UNCHANGED <<estado, creando, terminando, hilo_ejecutar, contexto,
                     motivo>>
      /\ pcCPU = "guarda" /\ pcCPU' = "confirma"
  BY DEF Guarda, kernel
<1>2. /\ lista_hilos' \in Seq(Contexto) /\ Unicos(lista_hilos')
      /\ \A g : /\ Tiene(g)' <=> Tiene(g)
                /\ g # h /\ Tiene(g) => Suyo(g)' = Suyo(g)
      /\ Tiene(h) =>
           Suyo(h)' = [hilo |-> h, ax |-> contexto.ax, pc |-> contexto.pc,
                       instrucciones |-> Suyo(h).instrucciones]
  BY GuardaDeja
<1>3. /\ TypeOK /\ Existentes /\ Turno
      /\ Contador /\ Ultima /\ Guardada /\ Marco
  BY DEF IInv
<1>4. TypeOK'
  BY <1>1, <1>2, <1>3 DEF TypeOK, Contexto
<1>5. \A g : Vivo(g)' <=> Vivo(g)
  BY <1>1 DEF Vivo
<1>6. Existentes'
  BY <1>1, <1>2, <1>3, <1>5 DEF Existentes
<1>7. Turno'
  BY <1>1, <1>3 DEF Turno
<1>8. h \in Hilos
  BY <1>1, <1>3 DEF Turno, TypeOK
<1>9. Tiene(h) => /\ Suyo(h)'.ax = contexto.ax /\ Suyo(h)'.pc = contexto.pc
                  /\ Suyo(h)'.instrucciones = Suyo(h).instrucciones
  BY <1>2
<1>10. ASSUME NEW g \in Hilos, Vivo(g), ~Acabando(g)'
       PROVE  Suyo(g)'.pc < Len(Suyo(g)'.instrucciones)
  <2>1. Tiene(g)
    BY <1>3, <1>10 DEF Existentes
  <2>2. CASE g # h
    <3>1. Suyo(g).pc < Len(Suyo(g).instrucciones)
      BY <1>1, <1>3, <1>10, <2>2 DEF Contador, Acabando
    <3> QED BY <1>2, <2>1, <2>2, <3>1
  <2>3. CASE g = h
    <3>1. motivo # "fin_proceso"
      BY <1>1, <1>10, <2>3 DEF Acabando
    <3>2. contexto.pc < Len(Suyo(h).instrucciones)
      BY <1>1, <1>3, <1>10, <2>3, <3>1 DEF Contador
    <3>3. Suyo(g)' = Suyo(h)'
      BY <1>1, <2>3
    <3> QED BY <1>9, <2>1, <2>3, <3>2, <3>3
  <2> QED BY <2>2, <2>3
<1>11. motivo # "fin_proceso" /\ Vivo(h) =>
         contexto.pc < Len(Suyo(h)'.instrucciones)
  <2>1. Vivo(h) => Tiene(h)
    BY <1>3, <1>8 DEF Existentes
  <2>2. motivo # "fin_proceso" /\ Vivo(h) =>
          contexto.pc < Len(Suyo(h).instrucciones)
    BY <1>1, <1>3 DEF Contador
  <2> QED BY <1>9, <2>1, <2>2
<1>12. Contador'
  BY <1>1, <1>5, <1>10, <1>11 DEF Contador
<1>13. Ultima'
  <2>1. ASSUME motivo = "fin_proceso"
        PROVE  Suyo(h)'.instrucciones = Suyo(h).instrucciones
    <3>1. estado[h] = "exec" /\ h \notin creando
      BY <1>1, <1>3, <2>1 DEF Turno
    <3>2. Tiene(h)
      BY <1>3, <1>8, <3>1 DEF Existentes, Vivo
    <3> QED BY <1>9, <3>2
  <2> QED BY <1>1, <1>3, <2>1 DEF Ultima
<1>14. Guardada' /\ Marco'
  BY <1>1, <1>2, <1>3, <1>9 DEF Guardada, Marco, Particion
<1> QED BY <1>2, <1>4, <1>6, <1>7, <1>12, <1>13, <1>14 DEF IInv

\* The CPU gets what memoria has.
LEMMA PideContextoConserva ==
    ASSUME IInv, PideContexto
    PROVE  IInv'
<1> DEFINE h == hilo_ejecutar
<1>1. /\ UNCHANGED <<lista_hilos, estado, creando, terminando, hilo_ejecutar,
                     motivo>>
      /\ pcCPU = "pide" /\ pcCPU' = "ejecuta" /\ Tiene(h)
      /\ contexto' = [ax |-> Suyo(h).ax, pc |-> Suyo(h).pc,
                      base |-> Particion(h).base,
                      limite |-> Particion(h).limite]
  BY Buscado DEF PideContexto, kernel, Tiene
<1>2. \A g : /\ Tiene(g)' <=> Tiene(g)
             /\ Suyo(g)' = Suyo(g) /\ (Vivo(g)' <=> Vivo(g))
  BY <1>1 DEF Tiene, Suyo, Vivo
<1>3. /\ TypeOK /\ Existentes /\ Turno /\ Unicos(lista_hilos)
      /\ Contador /\ Ultima /\ Guardada /\ Marco
  BY DEF IInv
<1>4. h \in Hilos
  BY <1>1, <1>3 DEF Turno, TypeOK
<1>5. Suyo(h).ax \in 0 .. Modulo - 1 /\ Suyo(h).pc \in Nat
  BY <1>1, <1>4, SuyoTipo
<1>6. Particion(h).base \in Nat /\ Particion(h).limite \in Nat
  BY <1>4, ContextosAssumption DEF Particion
<1>7. contexto' \in [ax : 0 .. Modulo - 1, pc : Nat, base : Nat, limite : Nat]
  BY <1>1, <1>5, <1>6
<1>8. TypeOK'
  BY <1>1, <1>3, <1>7 DEF TypeOK
<1>9. Existentes'
  BY <1>1, <1>2, <1>3 DEF Existentes
<1>10. Turno' /\ motivo = "ninguno"
  BY <1>1, <1>3 DEF Turno
<1>11. contexto'.pc = Suyo(h).pc
  BY <1>1
<1>12. \A g \in Hilos : Vivo(g) => Suyo(g).pc < Len(Suyo(g).instrucciones)
  BY <1>1, <1>3 DEF Contador, Acabando
<1>13. Contador'
  BY <1>1, <1>2, <1>4, <1>11, <1>12 DEF Contador
<1>14. Ultima' /\ Guardada'
  BY <1>1, <1>10 DEF Ultima, Guardada
<1>15. Marco'
  BY <1>1 DEF Marco, Particion
<1> QED BY <1>1, <1>3, <1>8, <1>9, <1>10, <1>13, <1>14, <1>15 DEF IInv

\* Only a thread of READY, which is alive, gets the CPU.
LEMMA DespachaConserva ==
    ASSUME IInv, NEW h \in Hilos, Despacha(h)
    PROVE  IInv'
<1>1. /\ pcCPU = "recibe" /\ pcCPU' = "pide" /\ estado[h] = "listo"
      /\ estado' = [estado EXCEPT ![h] = "exec"]
      /\ hilo_ejecutar = Nadie /\ hilo_ejecutar' = h
      /\ UNCHANGED <<lista_hilos, creando, terminando, contexto, motivo>>
  BY DEF Despacha
<1>2. /\ TypeOK /\ Existentes /\ Turno /\ Unicos(lista_hilos)
      /\ Contador /\ Ultima
  BY DEF IInv
<1>3. TypeOK'
  BY <1>1, <1>2 DEF TypeOK
<1>4. /\ estado'[h] = "exec"
      /\ \A g \in Hilos : g # h => estado'[g] = estado[g]
  BY <1>1, <1>2 DEF TypeOK
<1>5. \A g \in Hilos : /\ Tiene(g)' <=> Tiene(g)
                       /\ Suyo(g)' = Suyo(g) /\ (Vivo(g)' <=> Vivo(g))
  BY <1>1, <1>4 DEF Tiene, Suyo, Vivo
<1>6. Existentes'
  BY <1>1, <1>2, <1>4, <1>5 DEF Existentes, TypeOK
<1>7. creando = {} /\ motivo = "ninguno" /\ h # Nadie
  BY <1>1, <1>2, ContextosAssumption DEF Turno
<1>8. Turno'
  BY <1>1, <1>4, <1>7 DEF Turno
<1>9. Contador'
  BY <1>1, <1>2, <1>5 DEF Contador, Acabando
<1>10. Ultima' /\ Guardada' /\ Marco'
  BY <1>1, <1>7 DEF Ultima, Guardada, Marco
<1> QED BY <1>1, <1>2, <1>3, <1>6, <1>8, <1>9, <1>10 DEF IInv

\* The CPU is free: what is left is what memoria has.
LEMMA SueltaConserva ==
    ASSUME IInv, FinDeQuantum \/ FinPorBloqueo
    PROVE  IInv'
<1> DEFINE h == hilo_ejecutar
<1>1. /\ pcCPU = "confirma" /\ pcCPU' = "recibe" /\ hilo_ejecutar' = Nadie
      /\ contexto' = SinContexto /\ motivo' = "ninguno"
      /\ motivo # "fin_proceso"
      /\ UNCHANGED <<lista_hilos, creando, terminando>>
      /\ \/ UNCHANGED estado
         \/ motivo = "quantum" /\ estado' = [estado EXCEPT ![h] = "listo"]
  BY DEF FinDeQuantum, FinPorBloqueo, SueltaCPU
<1>2. /\ TypeOK /\ Existentes /\ Turno /\ Unicos(lista_hilos) /\ Contador
  BY DEF IInv
<1>3. h \in Hilos
  BY <1>1, <1>2 DEF Turno, TypeOK
<1>4. \A g \in Hilos :
        \/ estado'[g] = estado[g]
        \/ estado[g] = "exec" /\ estado'[g] = "listo"
  BY <1>1, <1>2, <1>3 DEF TypeOK, Turno
<1>5. SinContexto \in [ax : 0 .. Modulo - 1, pc : Nat, base : Nat,
                       limite : Nat]
  BY ContextosAssumption DEF SinContexto
<1>6. TypeOK'
  BY <1>1, <1>2, <1>5 DEF TypeOK
<1>7. \A g \in Hilos : /\ Tiene(g)' <=> Tiene(g)
                       /\ Suyo(g)' = Suyo(g) /\ (Vivo(g)' <=> Vivo(g))
  BY <1>1, <1>4 DEF Tiene, Suyo, Vivo
<1>8. Existentes'
  BY <1>1, <1>2, <1>4, <1>7 DEF Existentes, TypeOK
<1>9. Turno'
  BY <1>1, <1>2 DEF Turno
<1>10. Contador'
  BY <1>1, <1>2, <1>7 DEF Contador, Acabando
<1>11. Ultima' /\ Guardada' /\ Marco'
  BY <1>1 DEF Ultima, Guardada, Marco
<1> QED BY <1>1, <1>2, <1>6, <1>8, <1>9, <1>10, <1>11 DEF IInv

\* Contexts go with the process; those of the other threads stay.
LEMMA FinProcesoConserva ==
    ASSUME IInv, FinProceso
    PROVE  IInv'
<1> DEFINE h == hilo_ejecutar
           p == Proceso[h]
<1>1. /\ pcCPU = "confirma" /\ pcCPU' = "recibe" /\ hilo_ejecutar' = Nadie
      /\ contexto' = SinContexto
      /\ motivo = "fin_proceso" /\ motivo' = "ninguno"
      /\ UNCHANGED <<creando, terminando>>
      /\ lista_hilos' = SinHilosDe(p)
      /\ estado' = [g \in Hilos |-> IF Proceso[g] = p THEN "fin"
                                    ELSE estado[g]]
  BY DEF FinProceso, SueltaCPU
<1>2. /\ lista_hilos' \in Seq(Contexto) /\ Unicos(lista_hilos')
      /\ \A g : /\ Tiene(g)' => Tiene(g) /\ Suyo(g)' = Suyo(g)
                /\ Proceso[g] # p /\ Tiene(g) => Tiene(g)'
  BY <1>1, SinHilosDeDeja
<1>3. TypeOK /\ Existentes /\ Turno /\ Contador
  BY DEF IInv
<1>4. SinContexto \in [ax : 0 .. Modulo - 1, pc : Nat, base : Nat,
                       limite : Nat]
  BY ContextosAssumption DEF SinContexto
<1>5. \A g \in Hilos : /\ Proceso[g] = p => estado'[g] = "fin"
                       /\ Proceso[g] # p => estado'[g] = estado[g]
  BY <1>1
<1>6. TypeOK'
  BY <1>1, <1>2, <1>3, <1>4 DEF TypeOK, Contexto
<1>7. \A g \in Hilos : Vivo(g)' <=> Vivo(g) /\ Proceso[g] # p
  BY <1>1, <1>5 DEF Vivo
<1>8. Existentes'
  BY <1>1, <1>2, <1>3, <1>5, <1>7 DEF Existentes, TypeOK
<1>9. Turno'
  BY <1>1, <1>3 DEF Turno
<1>10. Contador'
  <2> SUFFICES ASSUME NEW g \in Hilos, Vivo(g)'
               PROVE  Suyo(g)'.pc < Len(Suyo(g)'.instrucciones)
    BY <1>1 DEF Contador
  <2>1. Vivo(g) /\ g # h /\ Tiene(g)
    BY <1>3, <1>7 DEF Existentes
  <2>2. Suyo(g)' = Suyo(g)
    BY <1>2, <1>7, <2>1
  <2>3. ~Acabando(g)
    BY <2>1 DEF Acabando
  <2> QED BY <1>3, <2>1, <2>2, <2>3 DEF Contador
<1>11. Ultima' /\ Guardada' /\ Marco'
  BY <1>1 DEF Ultima, Guardada, Marco
<1> QED BY <1>2, <1>6, <1>8, <1>9, <1>10, <1>11 DEF IInv

\* Nor does a step that changes nothing.
LEMMA NadaConserva ==
    ASSUME IInv, UNCHANGED vars
    PROVE  IInv'
<1>1. UNCHANGED <<lista_hilos, estado, creando, terminando, pcCPU,
                  hilo_ejecutar, contexto, motivo>>
  BY DEF vars, kernel, cpu
<1>2. \A g : /\ Tiene(g)' <=> Tiene(g)
             /\ Suyo(g)' = Suyo(g) /\ (Vivo(g)' <=> Vivo(g))
  BY <1>1 DEF Tiene, Suyo, Vivo
<1>3. TypeOK' /\ Existentes' /\ Turno'
  BY <1>1, <1>2 DEF IInv, TypeOK, Existentes, Turno
<1>4. Contador' /\ Ultima'
  BY <1>1, <1>2 DEF IInv, Contador, Ultima, Acabando
<1>5. Guardada' /\ Marco'
  BY <1>1, <1>2 DEF IInv, Guardada, Marco, Particion
<1> QED BY <1>1, <1>3, <1>4, <1>5 DEF IInv

\* Every action, together.
LEMMA Paso ==
    IInv /\ [Next]_vars => IInv'
<1> SUFFICES ASSUME IInv, [Next]_vars PROVE IInv'
  OBVIOUS
<1>1. CASE Memoria
  BY <1>1, CreaHiloConserva, FinalizaHiloConserva DEF Memoria
<1>2. CASE Kernel
  BY <1>2, CreaProcesoConserva, DespachaConserva, DespiertaConserva,
     SueltaConserva, FinProcesoConserva DEF Kernel
<1>3. ASSUME CPU PROVE IInv'
  <2>1. CASE PideContexto \/ Guarda \/ Chequea \/ RecibeOK
    BY <2>1, PideContextoConserva, GuardaConserva, ChequeaConserva
  <2>2. CASE Set \/ Sum \/ Jnz \/ Mem
    BY <2>2, SigueConservaUsos
  <2>3. CASE MemInvalida
    BY <2>3, AcabaConserva DEF MemInvalida
  <2>4. CASE ProcessExit
    BY <2>4, AcabaConserva DEF ProcessExit
  <2>5. CASE IO \/ ThreadExit \/ CreaYEspera
    BY <2>5, IOConserva, ThreadExitConserva, CreaYEsperaConserva
  <2> QED BY <1>3, <2>1, <2>2, <2>3, <2>4, <2>5 DEF CPU
<1>4. CASE UNCHANGED vars
  BY <1>4, NadaConserva
<1> QED BY <1>1, <1>2, <1>3, <1>4 DEF Next

-----------------------------------------------------------------------------
(* What the runs check, for every instance.                                *)

\* The invariant of the CPU, the kernel and memoria.
THEOREM Invariancia ==
    Spec => []IInv
<1>1. Init => IInv
  BY Inicio
<1>2. IInv /\ [Next]_vars => IInv'
  BY Paso
<1> QED BY <1>1, <1>2, PTL DEF Spec

\* Every variable keeps its type, the registers their width.
THEOREM TipoCorrecto ==
    Spec => []TypeOK
<1>1. IInv => TypeOK
  BY DEF IInv
<1> QED BY <1>1, Invariancia, PTL

\* A thread that lives has one context in memoria, however many threads and
\* processes have come and gone.
THEOREM UnContextoPorHilo ==
    Spec => []CadaVivoSuContexto
<1>1. IInv => CadaVivoSuContexto
  <2> SUFFICES ASSUME IInv, NEW h \in Hilos, Vivo(h)
               PROVE  \E i \in Posiciones(h) : Posiciones(h) = {i}
    BY DEF CadaVivoSuContexto
  <2>1. lista_hilos \in Seq(Contexto) /\ Unicos(lista_hilos)
    BY DEF IInv, TypeOK, Contexto
  <2>2. Con(lista_hilos, h) # {}
    BY DEF IInv, Existentes, Tiene
  <2>3. PICK i \in 1 .. Len(lista_hilos) : Con(lista_hilos, h) = {i}
    BY <2>1, <2>2, DeTipo
  <2> QED BY <2>3, Buscado
<1> QED BY <1>1, Invariancia, PTL

\* When the CPU asks for a context or for an instruction there is one.
THEOREM SiempreLoEncuentra ==
    Spec => []EncuentraContexto
<1>1. IInv => EncuentraContexto
  <2> SUFFICES ASSUME IInv PROVE EncuentraContexto
    OBVIOUS
  <2> DEFINE h == hilo_ejecutar
  <2>1. ASSUME pcCPU \in {"pide", "ejecuta"}
        PROVE  h \in Hilos /\ Vivo(h) /\ Tiene(h) /\ Posiciones(h) # {}
    <3>1. h \in Hilos /\ estado[h] = "exec" /\ h \notin creando
      BY <2>1 DEF IInv, TypeOK, Turno
    <3>2. Vivo(h) /\ Tiene(h)
      BY <3>1 DEF IInv, Existentes, Vivo
    <3> QED BY <3>1, <3>2, Buscado DEF Tiene
  <2>2. ASSUME pcCPU = "ejecuta"
        PROVE  /\ contexto.pc < Len(Guardado(h).instrucciones)
               /\ Guardado(h).pc < Len(Guardado(h).instrucciones)
    <3>1. motivo = "ninguno"
      BY <2>2 DEF IInv, Turno
    <3>2. /\ contexto.pc < Len(Suyo(h).instrucciones)
          /\ Suyo(h).pc < Len(Suyo(h).instrucciones)
      BY <2>1, <2>2, <3>1 DEF IInv, Contador, Acabando
    <3> QED BY <3>2, Buscado
  <2> QED BY <2>1, <2>2 DEF EncuentraContexto
<1> QED BY <1>1, Invariancia, PTL

\* An address that goes round falls below the partition.
LEMMA Vuelta ==
    ASSUME NEW b \in Nat, NEW t \in Nat, NEW d \in 0 .. Modulo - 1,
           b + t < Modulo - 1
    PROVE  LET fisica == (d + b) % Modulo
           IN  /\ b <= fisica /\ fisica <= b + t <=> d <= t
               /\ d <= t => fisica = b + d
<1>1. Modulo \in Nat \ {0}
  BY ContextosAssumption
<1>2. CASE d + b < Modulo
  <2>1. (d + b) % Modulo = d + b
    BY <1>1, <1>2
  <2> QED BY <1>1, <2>1
<1>3. CASE d + b >= Modulo
  <2>1. (d + b) % Modulo = d + b - Modulo
    BY <1>1, <1>3
  <2> QED BY <1>1, <1>3, <2>1
<1> QED BY <1>1, <1>2, <1>3

\* The MMU takes the addresses of the partition of the thread and one more,
\* the limit, which is outside of it (mmu.c 25 compares with <=); none of those
\* that go round the width of a register.
THEOREM HastaElLimite ==
    Spec => [](DireccionExacta /\ AceptaHastaElLimite)
<1>1. IInv => DireccionExacta
  <2> SUFFICES ASSUME IInv, pcCPU = "ejecuta", NEW d \in 0 .. Modulo - 1
               PROVE  Traduce(d) =
                        IF d <= Tamanio[Proceso[hilo_ejecutar]]
                        THEN Base[Proceso[hilo_ejecutar]] + d ELSE Error
    BY DEF DireccionExacta
  <2> DEFINE b == Base[Proceso[hilo_ejecutar]]
             t == Tamanio[Proceso[hilo_ejecutar]]
             fisica == (d + b) % Modulo
  <2>1. hilo_ejecutar \in Hilos
    BY EjecutaSabe
  <2>2. b \in Nat /\ t \in Nat /\ b + t < Modulo - 1
    BY <2>1, ContextosAssumption
  <2>3. contexto.base = b /\ contexto.limite = b + t
    BY DEF IInv, Marco, Particion
  <2> HIDE DEF b, t
  <2>4. /\ b <= fisica /\ fisica <= b + t <=> d <= t
        /\ d <= t => fisica = b + d
    BY <2>2, Vuelta
  <2>5. fisica \in Int /\ fisica = (d + contexto.base) % Modulo
    BY <2>2, <2>3, ContextosAssumption
  <2> HIDE DEF fisica
  <2>6. Traduce(d) = IF b <= fisica /\ fisica <= b + t THEN fisica ELSE Error
    BY <2>2, <2>3, <2>5 DEF Traduce, EsValida
  <2> QED BY <2>4, <2>6 DEF b, t
<1>2. IInv /\ DireccionExacta => AceptaHastaElLimite
  <2> SUFFICES ASSUME IInv, DireccionExacta, pcCPU = "ejecuta"
               PROVE  Aceptadas = BytesDe(Proceso[hilo_ejecutar])
                                \cup {LimiteDe(Proceso[hilo_ejecutar])}
    BY DEF AceptaHastaElLimite
  <2> DEFINE p == Proceso[hilo_ejecutar]
             b == Base[p]
             t == Tamanio[p]
  <2>1. b \in Nat /\ t \in Nat /\ Modulo \in Nat /\ b + t < Error
    BY EjecutaSabe, ContextosAssumption DEF Error
  <2>2. \A d \in 0 .. Modulo - 1 : Traduce(d) = IF d <= t THEN b + d ELSE Error
    BY DEF DireccionExacta
  <2>3. BytesDe(p) \cup {LimiteDe(p)} = b .. b + t
    BY <2>1 DEF BytesDe, LimiteDe
  <2> HIDE DEF p, b, t
  <2>4. ASSUME NEW f \in Aceptadas
        PROVE  f \in b .. b + t
    <3>1. PICK d \in 0 .. Modulo - 1 : f = Traduce(d) /\ f # Error
      BY <2>4 DEF Aceptadas
    <3> QED BY <3>1, <2>1, <2>2
  <2>5. ASSUME NEW f \in b .. b + t
        PROVE  f \in Aceptadas
    <3>1. /\ f - b \in 0 .. Modulo - 1 /\ f - b <= t
          /\ b + (f - b) = f /\ f # Error
      BY <2>1, <2>5 DEF Error
    <3>2. Traduce(f - b) = f
      BY <3>1, <2>2
    <3> QED BY <3>1, <3>2 DEF Aceptadas
  <2> QED BY <2>3, <2>4, <2>5 DEF p
<1> QED BY <1>1, <1>2, Invariancia, PTL

-----------------------------------------------------------------------------
(* Each thread runs as in EjecucionAislada: what it sees of its program and *)
(* of its registers.                                                       *)

Prog(h) == IF Vivo(h) THEN Suyo(h).instrucciones ELSE <<>>

Reg(h) ==
    IF ~Vivo(h) THEN [ax |-> 0, pc |-> 0]
    ELSE IF EnCPU(h) THEN [ax |-> contexto.ax, pc |-> contexto.pc]
    ELSE [ax |-> Suyo(h).ax, pc |-> Suyo(h).pc]

programas ==
    [h \in Hilos |-> IF Vive(h) THEN Guardado(h).instrucciones ELSE <<>>]

registros ==
    [h \in Hilos |->
        IF ~Vive(h) THEN [ax |-> 0, pc |-> 0]
        ELSE IF EnCPU(h) THEN [ax |-> contexto.ax, pc |-> contexto.pc]
        ELSE [ax |-> Guardado(h).ax, pc |-> Guardado(h).pc]]

\* What the programs see, in terms of the contexts.
LEMMA Vista ==
    ASSUME IInv
    PROVE  /\ programas = [h \in Hilos |-> Prog(h)]
           /\ registros = [h \in Hilos |-> Reg(h)]
<1>1. \A h : Guardado(h) = Suyo(h)
  BY Buscado
<1>2. \A h \in Hilos : Vive(h) <=> Vivo(h)
  BY Buscado DEF Vive, IInv, Existentes, Tiene
<1>3. programas = [h \in Hilos |-> Prog(h)]
  BY <1>1, <1>2 DEF programas, Prog
<1>4. registros = [h \in Hilos |-> Reg(h)]
  BY <1>1, <1>2 DEF registros, Reg
<1> QED BY <1>3, <1>4

\* And after a step.
LEMMA VistaLuego ==
    ASSUME IInv'
    PROVE  /\ programas' = [h \in Hilos |-> Prog(h)']
           /\ registros' = [h \in Hilos |-> Reg(h)']
<1>1. \A h : Guardado(h)' = Suyo(h)' /\ Posiciones(h)' = Con(lista_hilos', h)
  BY DEF Posiciones, Con, Guardado, Posicion, Suyo, De
<1>2. \A h \in Hilos : Vive(h)' <=> Vivo(h)'
  BY <1>1 DEF Vive, IInv, Existentes, Tiene
<1>3. programas' = [h \in Hilos |-> Prog(h)']
  BY <1>1, <1>2 DEF programas, Prog
<1>4. registros' = [h \in Hilos |-> Reg(h)']
  BY <1>1, <1>2 DEF registros, Reg
<1> QED BY <1>3, <1>4

\* The steps that no program sees.
LEMMA NadieLoVe ==
    ASSUME IInv, IInv',
           \A g \in Hilos : Vivo(g)' <=> Vivo(g),
           \A g \in Hilos : Vivo(g) =>
               Prog(g)' = Prog(g) /\ Reg(g)' = Reg(g)
    PROVE  UNCHANGED Aislada!vars
<1>1. \A g \in Hilos : Prog(g)' = Prog(g) /\ Reg(g)' = Reg(g)
  BY DEF Prog, Reg
<1>2. programas' = programas /\ registros' = registros
  BY <1>1, Vista, VistaLuego
<1> QED BY <1>2 DEF Aislada!vars, programas, registros

\* The first step of a thread.
LEMMA SeVeEmpieza ==
    ASSUME IInv, IInv', NEW h \in Hilos, NEW i \in Programas,
           ~Vivo(h), Prog(h)' = i, Reg(h)' = [ax |-> 0, pc |-> 0],
           \A g \in Hilos : g # h => Prog(g)' = Prog(g) /\ Reg(g)' = Reg(g)
    PROVE  Aislada!Empieza(h, i)
<1>1. Prog(h) = <<>> /\ Reg(h)' = Reg(h)
  BY DEF Prog, Reg
<1>2. programas' = [programas EXCEPT ![h] = i] /\ registros' = registros
  BY <1>1, Vista, VistaLuego
<1>3. programas[h] = <<>>
  BY <1>1, Vista
<1> QED BY <1>2, <1>3 DEF Aislada!Empieza, programas, registros

\* An instruction.
LEMMA SeVeAvanza ==
    ASSUME IInv, IInv', pcCPU = "ejecuta", NEW ax, NEW pc,
           UNCHANGED hilo_ejecutar,
           Reg(hilo_ejecutar)' = [ax |-> ax, pc |-> pc],
           \A g \in Hilos : Prog(g)' = Prog(g),
           \A g \in Hilos : g # hilo_ejecutar => Reg(g)' = Reg(g),
           pc = IF Instruccion.op = "jnz" /\ contexto.ax # 0
                THEN Instruccion.a ELSE contexto.pc + 1,
           \/ Instruccion.op = "set" /\ ax = Instruccion.v
           \/ Instruccion.op = "sum"
              /\ ax = (contexto.ax + Instruccion.v) % Modulo
           \/ Instruccion.op = "mem" /\ ax \in 0 .. Modulo - 1
           \/ Instruccion.op \notin {"set", "sum", "mem"} /\ ax = contexto.ax
    PROVE  Aislada!Avanza(hilo_ejecutar)
<1> DEFINE h == hilo_ejecutar
<1>1. /\ h \in Hilos /\ Vivo(h) /\ Suyo(h).instrucciones \in Programas
      /\ contexto.pc \in 0 .. Len(Suyo(h).instrucciones) - 1
      /\ Instruccion = Suyo(h).instrucciones[contexto.pc + 1]
  BY EjecutaSabe
<1>2. /\ programas[h] = Suyo(h).instrucciones
      /\ registros[h] = [ax |-> contexto.ax, pc |-> contexto.pc]
  BY <1>1, Vista DEF Prog, Reg, EnCPU
<1>3. programas' = programas
  BY Vista, VistaLuego
<1>4. registros' = [registros EXCEPT ![h] = [ax |-> ax, pc |-> pc]]
  <2>1. \A g \in Hilos : Reg(g)' = IF g = h THEN [ax |-> ax, pc |-> pc]
                                  ELSE Reg(g)
    OBVIOUS
  <2> QED BY <1>1, <2>1, Vista, VistaLuego
<1>5. Len(Suyo(h).instrucciones) \in Nat \ {0}
      /\ Suyo(h).instrucciones # <<>>
  BY <1>1, ContextosAssumption, EmptySeq
<1>6. programas[h] # <<>> /\ registros[h].pc < Len(programas[h])
  BY <1>1, <1>2, <1>5
<1>7. Aislada!Instruccion(h) = Instruccion
  BY <1>1, <1>2 DEF Aislada!Instruccion, programas, registros
<1>8. Aislada!Saltos(h) = pc
  BY <1>2, <1>7 DEF Aislada!Saltos, registros
<1>9. ax \in Aislada!Registros(h)
  BY <1>2, <1>7 DEF Aislada!Registros, registros
<1> QED BY <1>3, <1>4, <1>6, <1>8, <1>9
        DEF Aislada!Avanza, programas, registros

\* Instructions leave every program, and the registers of the other threads.
LEMMA SeVeInstruccion ==
    ASSUME IInv, IInv', pcCPU = "ejecuta", NEW ax, NEW pc,
           UNCHANGED <<lista_hilos, hilo_ejecutar>>,
           pcCPU' \in {"chequea", "espera_ok"},
           contexto'.ax = ax, contexto'.pc = pc,
           \A g \in Hilos : Vivo(g)' <=> Vivo(g),
           pc = IF Instruccion.op = "jnz" /\ contexto.ax # 0
                THEN Instruccion.a ELSE contexto.pc + 1,
           \/ Instruccion.op = "set" /\ ax = Instruccion.v
           \/ Instruccion.op = "sum"
              /\ ax = (contexto.ax + Instruccion.v) % Modulo
           \/ Instruccion.op = "mem" /\ ax \in 0 .. Modulo - 1
           \/ Instruccion.op \notin {"set", "sum", "mem"} /\ ax = contexto.ax
    PROVE  Aislada!Next
<1> DEFINE h == hilo_ejecutar
<1>1. h \in Hilos /\ Vivo(h)
  BY EjecutaSabe
<1>2. \A g : Suyo(g)' = Suyo(g)
  BY DEF Suyo
<1>3. \A g \in Hilos : Prog(g)' = Prog(g)
  BY <1>2 DEF Prog
<1>4. \A g \in Hilos : g # h => Reg(g)' = Reg(g)
  BY <1>2 DEF Reg, EnCPU
<1>5. Reg(h)' = [ax |-> ax, pc |-> pc]
  <2>1. Vivo(h)'
    BY <1>1
  <2> QED BY <2>1 DEF Reg, EnCPU
<1>6. Aislada!Avanza(h)
  BY <1>3, <1>4, <1>5, SeVeAvanza
<1> QED BY <1>1, <1>6 DEF Aislada!Next

\* An instruction that leaves the thread in EXEC.
LEMMA PasosDeInstruccion ==
    ASSUME IInv, IInv', Set \/ Sum \/ Jnz \/ Mem \/ MemInvalida \/ ProcessExit
    PROVE  Aislada!Next
<1>1. contexto \in [ax : 0 .. Modulo - 1, pc : Nat, base : Nat, limite : Nat]
  BY DEF IInv, TypeOK
<1>2. ASSUME NEW op, NEW ax, NEW pc, Ejecuta(op, ax, pc, "chequea"),
             UNCHANGED estado,
             pc = IF op = "jnz" /\ contexto.ax # 0
                  THEN Instruccion.a ELSE contexto.pc + 1,
             \/ op = "set" /\ ax = Instruccion.v
             \/ op = "sum" /\ ax = (contexto.ax + Instruccion.v) % Modulo
             \/ op = "mem" /\ ax \in 0 .. Modulo - 1
             \/ op \notin {"set", "sum", "mem"} /\ ax = contexto.ax
      PROVE  Aislada!Next
  <2>1. /\ pcCPU = "ejecuta" /\ pcCPU' = "chequea" /\ Instruccion.op = op
        /\ UNCHANGED <<lista_hilos, creando, hilo_ejecutar>>
        /\ contexto' = [contexto EXCEPT !.ax = ax, !.pc = pc]
    BY <1>2 DEF Ejecuta
  <2>2. contexto'.ax = ax /\ contexto'.pc = pc
    BY <1>1, <2>1
  <2>3. \A g \in Hilos : Vivo(g)' <=> Vivo(g)
    BY <1>2, <2>1 DEF Vivo
  <2> QED BY <1>2, <2>1, <2>2, <2>3, SeVeInstruccion
<1>3. Siguiente = contexto.pc + 1
  BY DEF Siguiente
<1>4. CASE Set
  BY <1>2, <1>3, <1>4 DEF Set
<1>5. CASE Sum
  BY <1>2, <1>3, <1>5 DEF Sum
<1>6. CASE Jnz
  <2> DEFINE pc == IF contexto.ax # 0 THEN Instruccion.a ELSE Siguiente
  <2>1. pc = IF "jnz" = "jnz" /\ contexto.ax # 0
             THEN Instruccion.a ELSE contexto.pc + 1
    BY <1>3
  <2>2. Ejecuta("jnz", contexto.ax, pc, "chequea") /\ UNCHANGED estado
    BY <1>6 DEF Jnz
  <2> HIDE DEF pc
  <2> QED BY <1>2, <2>1, <2>2
<1>7. CASE Mem
  <2>1. PICK v \in 0 .. Modulo - 1 : Ejecuta("mem", v, Siguiente, "chequea")
    BY <1>7 DEF Mem
  <2> QED BY <1>2, <1>3, <1>7, <2>1 DEF Mem
<1>8. CASE MemInvalida
  <2>1. contexto.ax \in 0 .. Modulo - 1
    BY <1>1
  <2> QED BY <1>2, <1>3, <1>8, <2>1 DEF MemInvalida
<1>9. CASE ProcessExit
  BY <1>2, <1>3, <1>9 DEF ProcessExit
<1> QED BY <1>4, <1>5, <1>6, <1>7, <1>8, <1>9

\* The thread that blocks, or creates another one, is as alive as before, and
\* so is the new one until it has a context.
LEMMA PasosQueSiguen ==
    ASSUME IInv, IInv', IO \/ CreaYEspera
    PROVE  Aislada!Next
<1> DEFINE h == hilo_ejecutar
<1>1. contexto \in [ax : 0 .. Modulo - 1, pc : Nat, base : Nat, limite : Nat]
      /\ estado \in [Hilos -> {"inexistente", "listo", "exec", "bloqueado",
                               "fin"}]
  BY DEF IInv, TypeOK
<1>2. Siguiente = contexto.pc + 1 /\ Siguiente \in Nat
  BY <1>1 DEF Siguiente
<1>3. CASE IO
  <2>1. /\ pcCPU = "ejecuta" /\ pcCPU' = "chequea" /\ Instruccion.op = "io"
        /\ UNCHANGED <<lista_hilos, creando, hilo_ejecutar>>
        /\ contexto' = [contexto EXCEPT !.ax = contexto.ax, !.pc = Siguiente]
        /\ estado' = [estado EXCEPT ![h] = "bloqueado"]
    BY <1>3 DEF IO, Ejecuta
  <2>2. contexto'.ax = contexto.ax /\ contexto'.pc = Siguiente
    BY <1>1, <2>1
  <2>3. h \in Hilos /\ estado[h] = "exec"
    BY <2>1, EjecutaSabe
  <2>4. \A g \in Hilos : Vivo(g)' <=> Vivo(g)
    BY <1>1, <2>1, <2>3 DEF Vivo
  <2> QED BY <1>2, <2>1, <2>2, <2>4, SeVeInstruccion
<1>4. CASE CreaYEspera
  <2>1. /\ pcCPU = "ejecuta" /\ pcCPU' = "espera_ok"
        /\ Instruccion.op = "thread_create"
        /\ UNCHANGED <<lista_hilos, hilo_ejecutar>>
        /\ contexto' = [contexto EXCEPT !.pc = Siguiente]
    BY <1>4 DEF CreaYEspera, ThreadCreate
  <2>2. contexto'.ax = contexto.ax /\ contexto'.pc = Siguiente
    BY <1>1, <2>1
  <2>3. \/ UNCHANGED <<estado, creando>>
        \/ \E g \in Hilos : /\ estado[g] = "inexistente"
                            /\ estado' = [estado EXCEPT ![g] = "listo"]
                            /\ creando' = creando \cup {g}
    BY <1>4 DEF CreaYEspera, ThreadCreate, Hermanos
  <2>4. \A g \in Hilos : Vivo(g)' <=> Vivo(g)
    BY <1>1, <2>3 DEF Vivo
  <2> QED BY <1>2, <2>1, <2>2, <2>4, SeVeInstruccion
<1> QED BY <1>3, <1>4

\* The end of a thread, and of the threads of a process.
LEMMA SeVeTermina ==
    ASSUME IInv, IInv', NEW S,
           \A g \in Hilos : Vivo(g)' <=> Vivo(g) /\ g \notin S,
           \A g \in Hilos : Vivo(g)' =>
               Prog(g)' = Prog(g) /\ Reg(g)' = Reg(g)
    PROVE  Aislada!Termina(S)
<1>1. \A g \in Hilos : /\ Prog(g)' = IF g \in S THEN <<>> ELSE Prog(g)
                       /\ Reg(g)' = IF g \in S THEN [ax |-> 0, pc |-> 0]
                                    ELSE Reg(g)
  BY DEF Prog, Reg
<1>2. /\ programas' = [g \in Hilos |-> IF g \in S THEN <<>> ELSE programas[g]]
      /\ registros' = [g \in Hilos |-> IF g \in S THEN [ax |-> 0, pc |-> 0]
                                       ELSE registros[g]]
  BY <1>1, Vista, VistaLuego
<1> QED BY <1>2 DEF Aislada!Termina, Aislada!Cero, programas, registros

\* THREAD_EXIT ends the thread at once for its program.
LEMMA PasoDeThreadExit ==
    ASSUME IInv, IInv', ThreadExit
    PROVE  Aislada!Next
<1> DEFINE h == hilo_ejecutar
<1>1. /\ pcCPU = "ejecuta" /\ pcCPU' = "chequea"
      /\ Instruccion.op = "thread_exit"
      /\ UNCHANGED <<lista_hilos, creando, hilo_ejecutar>>
      /\ estado' = [estado EXCEPT ![h] = "fin"]
  BY DEF ThreadExit, Ejecuta
<1>2. /\ h \in Hilos /\ Vivo(h) /\ Suyo(h).instrucciones \in Programas
      /\ contexto.pc \in 0 .. Len(Suyo(h).instrucciones) - 1
      /\ Instruccion = Suyo(h).instrucciones[contexto.pc + 1]
  BY <1>1, EjecutaSabe
<1>3. \A g \in Hilos : Vivo(g)' <=> Vivo(g) /\ g \notin {h}
  BY <1>1, <1>2 DEF Vivo, IInv, TypeOK
<1>4. \A g \in Hilos : Vivo(g)' => Prog(g)' = Prog(g) /\ Reg(g)' = Reg(g)
  BY <1>1, <1>3 DEF Prog, Reg, Suyo, EnCPU
<1>5. Aislada!Termina({h})
  BY <1>3, <1>4, SeVeTermina
<1>6. /\ programas[h] = Suyo(h).instrucciones
      /\ registros[h] = [ax |-> contexto.ax, pc |-> contexto.pc]
  BY <1>1, <1>2, Vista DEF Prog, Reg, EnCPU
<1>7. Len(Suyo(h).instrucciones) \in Nat \ {0}
      /\ Suyo(h).instrucciones # <<>>
  BY <1>2, ContextosAssumption, EmptySeq
<1>8. programas[h] # <<>> /\ registros[h].pc < Len(programas[h])
  BY <1>2, <1>6, <1>7
<1>9. Aislada!Instruccion(h) = Instruccion
  BY <1>2, <1>6 DEF Aislada!Instruccion, programas, registros
<1>10. Aislada!Sale(h)
  BY <1>1, <1>5, <1>8, <1>9 DEF Aislada!Sale, programas, registros
<1> QED BY <1>2, <1>10 DEF Aislada!Next

\* The end of a process ends its threads, and no other.
LEMMA PasoDeFinProceso ==
    ASSUME IInv, IInv', FinProceso
    PROVE  Aislada!Next
<1> DEFINE h == hilo_ejecutar
           S == {g \in Hilos : Proceso[g] = Proceso[h]}
<1>1. /\ pcCPU = "confirma" /\ pcCPU' = "recibe" /\ motivo = "fin_proceso"
      /\ UNCHANGED creando
      /\ lista_hilos' = SinHilosDe(Proceso[h])
      /\ estado' = [g \in Hilos |-> IF Proceso[g] = Proceso[h] THEN "fin"
                                    ELSE estado[g]]
  BY DEF FinProceso, SueltaCPU
<1>2. \A g \in Hilos : Vivo(g)' <=> Vivo(g) /\ g \notin S
  BY <1>1 DEF Vivo
<1>3. /\ h \in Hilos /\ estado[h] = "exec" /\ h \notin creando
      /\ contexto.pc \in 1 .. Len(Suyo(h).instrucciones)
      /\ Suyo(h).instrucciones[contexto.pc].op \in {"mem", "process_exit"}
  BY <1>1 DEF IInv, TypeOK, Turno, Ultima
<1>4. Vivo(h) /\ Tiene(h)
  BY <1>3 DEF Vivo, IInv, Existentes
<1>5. \A g \in Hilos : Vivo(g)' => Tiene(g)'
  BY DEF IInv, Existentes
<1>6. \A g : Tiene(g)' => Suyo(g)' = Suyo(g)
  BY <1>1, SinHilosDeDeja
<1>7. \A g \in Hilos : Vivo(g)' => g # h /\ Vivo(g) /\ Suyo(g)' = Suyo(g)
  BY <1>2, <1>5, <1>6
<1>8. \A g \in Hilos : Vivo(g)' => Prog(g)' = Prog(g) /\ Reg(g)' = Reg(g)
  BY <1>1, <1>7 DEF Prog, Reg, EnCPU
<1>9. Aislada!Termina(S)
  <2> HIDE DEF S
  <2> QED BY <1>2, <1>8, SeVeTermina
<1>10. /\ programas[h] = Suyo(h).instrucciones
       /\ registros[h] = [ax |-> contexto.ax, pc |-> contexto.pc]
  BY <1>1, <1>3, <1>4, Vista DEF Prog, Reg, EnCPU
<1>11. Suyo(h).instrucciones \in Programas
  BY <1>3, <1>4, SuyoTipo
<1>12. Len(Suyo(h).instrucciones) \in Nat \ {0}
      /\ Suyo(h).instrucciones # <<>>
  BY <1>11, ContextosAssumption, EmptySeq
<1>13. /\ programas[h] # <<>> /\ registros[h].pc > 0
       /\ programas[h][registros[h].pc].op \in {"process_exit", "mem"}
  BY <1>3, <1>10, <1>12
<1>14. Aislada!SaleProceso(h)
  BY <1>9, <1>13 DEF Aislada!SaleProceso, programas, registros
<1> QED BY <1>3, <1>14 DEF Aislada!Next

\* The dispatch, the store and the return of the CPU move registers between
\* the CPU and memoria, and no program sees it.
LEMMA PasosInvisibles ==
    ASSUME IInv, IInv',
           \/ PideContexto \/ RecibeOK \/ Chequea \/ Guarda
           \/ FinDeQuantum \/ FinPorBloqueo \/ UNCHANGED vars
           \/ \E g \in Hilos : Despacha(g) \/ Despierta(g) \/ FinalizaHilo(g)
    PROVE  UNCHANGED Aislada!vars
<1> DEFINE h == hilo_ejecutar
<1>1. /\ estado \in [Hilos -> {"inexistente", "listo", "exec", "bloqueado",
                               "fin"}]
      /\ pcCPU = "recibe" <=> h = Nadie
      /\ pcCPU # "recibe" => h \in Hilos
      /\ \A g \in Hilos : Vivo(g) => Tiene(g)
      /\ \A g \in terminando : ~Vivo(g)
  BY DEF IInv, TypeOK, Turno, Existentes, Vivo
<1>2. CASE PideContexto
  <2>1. /\ UNCHANGED <<lista_hilos, estado, creando, hilo_ejecutar>>
        /\ pcCPU = "pide" /\ pcCPU' = "ejecuta"
        /\ contexto' = [ax |-> Suyo(h).ax, pc |-> Suyo(h).pc,
                        base |-> Particion(h).base,
                        limite |-> Particion(h).limite]
    BY <1>2, Buscado DEF PideContexto, kernel
  <2>2. contexto'.ax = Suyo(h).ax /\ contexto'.pc = Suyo(h).pc
    BY <2>1
  <2>3. \A g \in Hilos : /\ Vivo(g)' <=> Vivo(g)
                         /\ Prog(g)' = Prog(g) /\ Reg(g)' = Reg(g)
    BY <2>1, <2>2 DEF Vivo, Prog, Reg, Suyo, EnCPU
  <2> QED BY <2>3, NadieLoVe
<1>3. CASE RecibeOK \/ Chequea
  <2>1. /\ UNCHANGED <<lista_hilos, estado, creando, hilo_ejecutar, contexto>>
        /\ pcCPU \notin {"recibe", "pide"} /\ pcCPU' \notin {"recibe", "pide"}
    BY <1>3 DEF RecibeOK, Chequea, kernel
  <2>2. \A g \in Hilos : /\ Vivo(g)' <=> Vivo(g)
                         /\ Prog(g)' = Prog(g) /\ Reg(g)' = Reg(g)
    BY <2>1 DEF Vivo, Prog, Reg, Suyo, EnCPU
  <2> QED BY <2>2, NadieLoVe
<1>4. CASE Guarda
  <2>1. /\ UNCHANGED <<estado, creando, hilo_ejecutar, contexto>>
        /\ pcCPU = "guarda" /\ pcCPU' = "confirma"
    BY <1>4 DEF Guarda, kernel
  <2>2. \A g \in Hilos : Vivo(g)' <=> Vivo(g)
    BY <2>1 DEF Vivo
  <2>3. /\ \A g : g # h /\ Tiene(g) => Suyo(g)' = Suyo(g)
        /\ Tiene(h) =>
             Suyo(h)' = [hilo |-> h, ax |-> contexto.ax, pc |-> contexto.pc,
                         instrucciones |-> Suyo(h).instrucciones]
    BY <1>4, GuardaDeja
  <2>4. Tiene(h) => Suyo(h)'.instrucciones = Suyo(h).instrucciones
    BY <2>3
  <2>5. \A g \in Hilos : Vivo(g) =>
          Suyo(g)'.instrucciones = Suyo(g).instrucciones
    <3> TAKE g \in Hilos
    <3> HAVE Vivo(g)
    <3>1. CASE g = h
      <4>1. Suyo(g)' = Suyo(h)'
        BY <2>1, <3>1
      <4> QED BY <1>1, <2>4, <3>1, <4>1
    <3>2. CASE g # h
      BY <1>1, <2>3, <3>2
    <3> QED BY <3>1, <3>2
  <2>6. \A g \in Hilos : Vivo(g) /\ g # h => Suyo(g)' = Suyo(g)
    BY <1>1, <2>3
  <2>7. \A g \in Hilos : Vivo(g) => Prog(g)' = Prog(g) /\ Reg(g)' = Reg(g)
    BY <2>1, <2>2, <2>5, <2>6 DEF Prog, Reg, EnCPU
  <2> QED BY <2>2, <2>7, NadieLoVe
<1>5. CASE FinDeQuantum \/ FinPorBloqueo
  <2>1. /\ pcCPU = "confirma" /\ pcCPU' = "recibe"
        /\ UNCHANGED <<lista_hilos, creando>>
        /\ \/ UNCHANGED estado
           \/ motivo = "quantum" /\ estado' = [estado EXCEPT ![h] = "listo"]
    BY <1>5 DEF FinDeQuantum, FinPorBloqueo, SueltaCPU
  <2>2. motivo = "quantum" => estado[h] = "exec"
    BY <2>1 DEF IInv, Turno
  <2>3. \A g \in Hilos : Vivo(g)' <=> Vivo(g)
    BY <1>1, <2>1, <2>2 DEF Vivo
  <2>4. Vivo(h) => Suyo(h).ax = contexto.ax /\ Suyo(h).pc = contexto.pc
    BY <1>1, <2>1 DEF IInv, Guardada
  <2>5. \A g : Suyo(g)' = Suyo(g)
    BY <2>1 DEF Suyo
  <2>6. \A g \in Hilos : Vivo(g) => Prog(g)' = Prog(g) /\ Reg(g)' = Reg(g)
    BY <2>1, <2>3, <2>4, <2>5 DEF Prog, Reg, EnCPU
  <2> QED BY <2>3, <2>6, NadieLoVe
<1>6. CASE UNCHANGED vars
  <2>1. UNCHANGED <<lista_hilos, estado, creando, hilo_ejecutar, contexto,
                    pcCPU>>
    BY <1>6 DEF vars, kernel, cpu
  <2>2. \A g \in Hilos : /\ Vivo(g)' <=> Vivo(g)
                         /\ Prog(g)' = Prog(g) /\ Reg(g)' = Reg(g)
    BY <2>1 DEF Vivo, Prog, Reg, Suyo, EnCPU
  <2> QED BY <2>2, NadieLoVe
<1>7. ASSUME NEW f \in Hilos, Despacha(f) PROVE UNCHANGED Aislada!vars
  <2>1. /\ pcCPU = "recibe" /\ pcCPU' = "pide" /\ estado[f] = "listo"
        /\ estado' = [estado EXCEPT ![f] = "exec"]
        /\ UNCHANGED <<lista_hilos, creando>>
    BY <1>7 DEF Despacha
  <2>2. \A g \in Hilos : Vivo(g)' <=> Vivo(g)
    BY <1>1, <2>1 DEF Vivo
  <2>3. \A g \in Hilos : Vivo(g) => Prog(g)' = Prog(g) /\ Reg(g)' = Reg(g)
    BY <2>1, <2>2 DEF Prog, Reg, Suyo, EnCPU
  <2> QED BY <2>2, <2>3, NadieLoVe
<1>8. ASSUME NEW f \in Hilos, Despierta(f) PROVE UNCHANGED Aislada!vars
  <2>1. /\ estado[f] = "bloqueado" /\ estado' = [estado EXCEPT ![f] = "listo"]
        /\ UNCHANGED <<lista_hilos, creando, pcCPU, hilo_ejecutar, contexto>>
    BY <1>8 DEF Despierta, cpu
  <2>2. \A g \in Hilos : Vivo(g)' <=> Vivo(g)
    BY <1>1, <2>1 DEF Vivo
  <2>3. \A g \in Hilos : Vivo(g) => Prog(g)' = Prog(g) /\ Reg(g)' = Reg(g)
    BY <2>1, <2>2 DEF Prog, Reg, Suyo, EnCPU
  <2> QED BY <2>2, <2>3, NadieLoVe
<1>9. ASSUME NEW f \in Hilos, FinalizaHilo(f) PROVE UNCHANGED Aislada!vars
  <2>1. /\ f \in terminando
        /\ UNCHANGED <<estado, creando, pcCPU, hilo_ejecutar, contexto>>
    BY <1>9 DEF FinalizaHilo, cpu
  <2>2. \A g : /\ Tiene(g)' => Suyo(g)' = Suyo(g)
               /\ g # f /\ Tiene(g) => Tiene(g)'
    BY <1>9, FinalizaHiloDeja
  <2>3. \A g \in Hilos : Vivo(g)' <=> Vivo(g)
    BY <2>1 DEF Vivo
  <2>4. \A g \in Hilos : Vivo(g) => Suyo(g)' = Suyo(g)
    BY <1>1, <2>1, <2>2
  <2>5. \A g \in Hilos : Vivo(g) => Prog(g)' = Prog(g) /\ Reg(g)' = Reg(g)
    BY <2>1, <2>3, <2>4 DEF Prog, Reg, EnCPU
  <2> QED BY <2>3, <2>5, NadieLoVe
<1> QED BY <1>2, <1>3, <1>4, <1>5, <1>6, <1>7, <1>8, <1>9

\* The creation of a context: the thread begins, unless its process ended
\* meanwhile.
LEMMA PasosDeCreacion ==
    ASSUME IInv, IInv', NEW h \in Hilos, CreaProceso(h) \/ CreaHilo(h)
    PROVE  [Aislada!Next]_(Aislada!vars)
<1>1. PICK i \in Programas : CreaContexto(h, i)
  BY DEF CreaProceso, CreaHilo
<1>2. /\ UNCHANGED <<pcCPU, hilo_ejecutar, contexto>>
      /\ h \notin creando'
      /\ \A g \in Hilos : g # h => (g \in creando' <=> g \in creando)
      /\ \A g \in Hilos : g # h => estado'[g] = estado[g]
      /\ ~Tiene(h) /\ ~Vivo(h)
  BY DEF CreaProceso, CreaHilo, cpu, IInv, TypeOK, Existentes, Vivo
<1>3. /\ Suyo(h)' = [hilo |-> h, ax |-> 0, pc |-> 0, instrucciones |-> i]
      /\ \A g : g # h /\ Tiene(g) => Suyo(g)' = Suyo(g)
  BY <1>1, <1>2, CreaContextoDeja
<1>4. \A g \in Hilos : g # h => (Vivo(g)' <=> Vivo(g))
  BY <1>2 DEF Vivo
<1>5. \A g \in Hilos : g # h => Prog(g)' = Prog(g) /\ Reg(g)' = Reg(g)
  <2> TAKE g \in Hilos
  <2> HAVE g # h
  <2>1. Vivo(g) => Suyo(g)' = Suyo(g)
    BY <1>3 DEF IInv, Existentes
  <2> QED BY <1>2, <1>4, <2>1 DEF Prog, Reg, EnCPU
<1>6. CASE ~Vivo(h)'
  <2>1. \A g \in Hilos : Vivo(g)' <=> Vivo(g)
    BY <1>2, <1>4, <1>6
  <2>2. \A g \in Hilos : Vivo(g) => Prog(g)' = Prog(g) /\ Reg(g)' = Reg(g)
    BY <1>2, <1>5
  <2> QED BY <2>1, <2>2, NadieLoVe
<1>7. CASE Vivo(h)'
  <2>1. ~EnCPU(h)'
    <3>1. ASSUME hilo_ejecutar = h, pcCPU \notin {"recibe", "pide"}
          PROVE  estado[h] # "inexistente" /\ h \notin creando
      BY <3>1 DEF IInv, Turno
    <3> QED BY <1>2, <3>1 DEF EnCPU, CreaProceso, CreaHilo
  <2>2. Prog(h)' = i
    BY <1>3, <1>7 DEF Prog
  <2>3. Reg(h)' = [ax |-> 0, pc |-> 0]
    BY <1>3, <1>7, <2>1 DEF Reg
  <2>4. Aislada!Empieza(h, i)
    BY <1>2, <1>5, <2>2, <2>3, SeVeEmpieza
  <2> QED BY <2>4 DEF Aislada!Next
<1> QED BY <1>6, <1>7

\* Each step is one of EjecucionAislada, or none.
LEMMA PasoAislado ==
    ASSUME IInv, IInv', [Next]_vars
    PROVE  [Aislada!Next]_(Aislada!vars)
<1>1. CASE Memoria
  BY <1>1, PasosDeCreacion, PasosInvisibles DEF Memoria
<1>2. CASE Kernel
  BY <1>2, PasosDeCreacion, PasosInvisibles, PasoDeFinProceso DEF Kernel
<1>3. CASE CPU
  BY <1>3, PasosDeInstruccion, PasosQueSiguen, PasoDeThreadExit,
     PasosInvisibles DEF CPU
<1>4. CASE UNCHANGED vars
  BY <1>4, PasosInvisibles
<1> QED BY <1>1, <1>2, <1>3, <1>4 DEF Next

\* Each thread runs its program as if it had a CPU of its own.
THEOREM CadaUnoComoSolo ==
    Spec => CumpleAislada
<1>1. Init => Aislada!Init
  <2> SUFFICES ASSUME Init PROVE Aislada!Init
    OBVIOUS
  <2>1. \A h \in Hilos : ~Vive(h)
    BY DEF Init, Vive, Vivo
  <2> QED BY <2>1 DEF Aislada!Init, Aislada!Cero
<1>2. IInv /\ IInv' /\ [Next]_vars => [Aislada!Next]_(Aislada!vars)
  BY PasoAislado
<1> QED BY <1>1, <1>2, Invariancia, PTL DEF Spec, CumpleAislada, Aislada!Spec

-----------------------------------------------------------------------------
(* The partitions of the user memory, beside the contexts and with no      *)
(* state in common. Induction over a list, and the functions of its loops. *)

\* What holds of 0, and of k when it holds of k - 1, holds up to n.
LEMMA Induccion ==
    ASSUME NEW n \in Nat, NEW S, 0 \in S,
           \A k \in 1 .. n : k - 1 \in S => k \in S
    PROVE  \A k \in 0 .. n : k \in S
<1> SUFFICES ASSUME NEW x \in 0 .. n, x \notin S PROVE FALSE
  OBVIOUS
<1> DEFINE T == {k \in Nat : k <= n /\ k \notin S}
<1>1. x \in T
  OBVIOUS
<1>2. PICK m \in T : \A t \in T : m <= t
  <2> HIDE DEF T
  <2>1. T \in SUBSET Nat /\ T # {}
    BY <1>1 DEF T
  <2> QED BY <2>1, HayMinimo
<1>3. m # 0 /\ m \in 1 .. n
  BY <1>2
<1>4. m - 1 \in S
  BY <1>2, <1>3
<1> QED BY <1>2, <1>3, <1>4

\* What a loop over n elements defines: from v0, the value after k of them is
\* g[k] of the value after k - 1.
Recorre(f, n, v0, g) ==
    f[0] = v0 /\ \A k \in 1 .. n : f[k] = g[k][f[k - 1]]

LEMMA HayRecorrido ==
    ASSUME NEW n \in Nat, NEW V, NEW v0 \in V,
           NEW g \in [1 .. n -> [V -> V]]
    PROVE  \E f \in [0 .. n -> V] : Recorre(f, n, v0, g)
<1> DEFINE Parcial(m, f) ==
             f[0] = v0 /\ \A k \in 1 .. m : f[k] = g[k][f[k - 1]]
           S == {m \in 0 .. n : \E f \in [0 .. n -> V] : Parcial(m, f)}
<1>1. 0 \in S
  <2> DEFINE f == [k \in 0 .. n |-> v0]
  <2>1. f \in [0 .. n -> V] /\ f[0] = v0
    OBVIOUS
  <2> HIDE DEF f
  <2>2. Parcial(0, f)
    BY <2>1
  <2> QED BY <2>1, <2>2
<1>2. ASSUME NEW m \in 1 .. n, m - 1 \in S PROVE m \in S
  <2>1. PICK f \in [0 .. n -> V] : Parcial(m - 1, f)
    BY <1>2
  <2> DEFINE h == [f EXCEPT ![m] = g[m][f[m - 1]]]
  <2>2. m - 1 \in 0 .. n /\ f[m - 1] \in V
    OBVIOUS
  <2>3. g[m] \in [V -> V]
    OBVIOUS
  <2>4. g[m][f[m - 1]] \in V
    BY <2>2, <2>3
  <2>5. h \in [0 .. n -> V] /\ h[0] = v0 /\ h[m] = g[m][f[m - 1]]
    BY <2>1, <2>4
  <2>6. \A k \in 0 .. n : k # m => h[k] = f[k]
    OBVIOUS
  <2> HIDE DEF h
  <2>7. ASSUME NEW k \in 1 .. m PROVE h[k] = g[k][h[k - 1]]
    <3>1. k - 1 \in 0 .. n /\ k - 1 # m /\ k \in 0 .. n
      OBVIOUS
    <3>2. h[k - 1] = f[k - 1]
      BY <2>6, <3>1
    <3>3. CASE k = m
      BY <2>5, <3>2, <3>3
    <3>4. CASE k # m
      <4>1. k \in 1 .. m - 1
        BY <3>4
      <4>2. h[k] = f[k] /\ f[k] = g[k][f[k - 1]]
        BY <2>1, <2>6, <3>1, <3>4, <4>1
      <4> QED BY <3>2, <4>2
    <3> QED BY <3>3, <3>4
  <2>8. Parcial(m, h) /\ h \in [0 .. n -> V] /\ m \in 0 .. n
    BY <2>5, <2>7
  <2> HIDE DEF Parcial
  <2> QED BY <2>8
<1>3. n \in S
  <2> HIDE DEF S
  <2>1. \A k \in 0 .. n : k \in S
    BY <1>1, <1>2, Induccion
  <2> QED BY <2>1
<1>4. PICK f \in [0 .. n -> V] : Parcial(n, f)
  BY <1>3
<1> QED BY <1>4 DEF Recorre

-----------------------------------------------------------------------------
(* Lists of partitions that follow one another.                            *)

Celda == [inicio : Nat, tamanio : Nat, pid : Pids \cup {SinPid}]

FinDe(q) == q.inicio + q.tamanio

Cubre(q, b) == q.inicio <= b /\ b < FinDe(q)

Seguidas(l) == \A i \in 1 .. Len(l) - 1 : l[i + 1].inicio = FinDe(l[i])

\* Byte b is of x by the first n partitions of l.
EsDe(l, n, b, x) == \E i \in 1 .. n : Cubre(l[i], b) /\ l[i].pid = x

\* No two free partitions touch.
SinHuecosJuntos(l) ==
    \A i \in 1 .. Len(l) - 1 : ~(l[i].pid = SinPid /\ l[i + 1].pid = SinPid)

\* A process has one partition at most.
UnaPorProceso(l) ==
    \A i, j \in 1 .. Len(l) :
        l[i].pid = l[j].pid /\ l[i].pid # SinPid => i = j

Positivas(l) == \A i \in 1 .. Len(l) : l[i].tamanio > 0

Ordenada(l) ==
    /\ l \in Seq(Celda) /\ l # <<>>
    /\ l[1].inicio = 0
    /\ Seguidas(l)

LEMMA CeldaTipo ==
    ASSUME NEW l \in Seq(Celda), NEW i \in 1 .. Len(l)
    PROVE  /\ l[i] \in Celda /\ l[i].inicio \in Nat /\ l[i].tamanio \in Nat
           /\ l[i].pid \in Pids \cup {SinPid} /\ FinDe(l[i]) \in Nat
           /\ Len(l) \in Nat
<1>1. l[i] \in Celda
  OBVIOUS
<1> QED BY <1>1 DEF Celda, FinDe

\* A partition that comes later begins after.
LEMMA EnOrden ==
    ASSUME NEW l \in Seq(Celda), Seguidas(l),
           NEW i \in 1 .. Len(l), NEW j \in 1 .. Len(l), i < j
    PROVE  FinDe(l[i]) <= l[j].inicio
<1> DEFINE S == {k \in 0 .. Len(l) : i < k => FinDe(l[i]) <= l[k].inicio}
<1>1. Len(l) \in Nat /\ 0 \in S
  OBVIOUS
<1>2. ASSUME NEW k \in 1 .. Len(l), k - 1 \in S PROVE k \in S
  <2>1. SUFFICES ASSUME i < k PROVE FinDe(l[i]) <= l[k].inicio
    OBVIOUS
  <2>2. k - 1 \in 1 .. Len(l) - 1
    BY <2>1
  <2>3. l[k - 1 + 1].inicio = FinDe(l[k - 1])
    BY <2>2 DEF Seguidas
  <2>4. l[k].inicio = FinDe(l[k - 1])
    BY <2>3
  <2>5. k - 1 \in 1 .. Len(l) /\ FinDe(l[i]) \in Nat /\ l[k - 1].inicio \in Nat
        /\ l[k - 1].tamanio \in Nat
    BY <2>2, CeldaTipo
  <2>6. CASE i = k - 1
    BY <2>4, <2>5, <2>6
  <2>7. CASE i # k - 1
    <3>1. FinDe(l[i]) <= l[k - 1].inicio
      BY <1>2, <2>1, <2>7
    <3> QED BY <2>4, <2>5, <3>1 DEF FinDe
  <2> QED BY <2>6, <2>7
<1>3. \A k \in 0 .. Len(l) : k \in S
  <2> HIDE DEF S
  <2> QED BY <1>1, <1>2, Induccion
<1> QED BY <1>3

\* No partition goes past the end of the last one.
LEMMA HastaElFinal ==
    ASSUME NEW l \in Seq(Celda), Seguidas(l), NEW i \in 1 .. Len(l)
    PROVE  FinDe(l[i]) <= FinDe(l[Len(l)])
<1>1. Len(l) \in 1 .. Len(l)
  OBVIOUS
<1>2. l[Len(l)].inicio \in Nat /\ l[Len(l)].tamanio \in Nat /\ FinDe(l[i]) \in Nat
  BY <1>1, CeldaTipo
<1>3. CASE i = Len(l)
  BY <1>2, <1>3
<1>4. CASE i # Len(l)
  <2>1. FinDe(l[i]) <= l[Len(l)].inicio
    BY <1>1, <1>4, EnOrden
  <2> QED BY <1>2, <2>1 DEF FinDe
<1> QED BY <1>3, <1>4

\* A byte is in one partition at most, and in one when there is one further on.
LEMMA UnaSola ==
    ASSUME NEW l \in Seq(Celda), Seguidas(l), NEW b \in Nat,
           NEW i \in 1 .. Len(l), NEW j \in 1 .. Len(l),
           Cubre(l[i], b), Cubre(l[j], b)
    PROVE  i = j
<1>1. /\ l[i].inicio \in Nat /\ l[j].inicio \in Nat
      /\ FinDe(l[i]) \in Nat /\ FinDe(l[j]) \in Nat
  BY CeldaTipo
<1>2. CASE i < j
  BY <1>1, <1>2, EnOrden DEF Cubre
<1>3. CASE j < i
  BY <1>1, <1>3, EnOrden DEF Cubre
<1> QED BY <1>2, <1>3

LEMMA AlgunaCubre ==
    ASSUME NEW l, Ordenada(l), NEW b \in Nat, b < FinDe(l[Len(l)])
    PROVE  \E i \in 1 .. Len(l) : Cubre(l[i], b)
<1> DEFINE T == {k \in 1 .. Len(l) : b < FinDe(l[k])}
<1>1. l \in Seq(Celda) /\ Len(l) \in Nat /\ Len(l) >= 1
  BY DEF Ordenada
<1>2. T \in SUBSET Nat /\ Len(l) \in T
  BY <1>1
<1>3. PICK m \in T : \A t \in T : m <= t
  <2> HIDE DEF T
  <2> QED BY <1>2, HayMinimo
<1>4. CASE m = 1
  BY <1>3, <1>4 DEF Ordenada, Cubre
<1>5. CASE m # 1
  <2>1. m - 1 \in 1 .. Len(l) - 1 /\ m - 1 \in 1 .. Len(l)
    BY <1>1, <1>5
  <2>2. l[m - 1 + 1].inicio = FinDe(l[m - 1])
    BY <2>1 DEF Ordenada, Seguidas
  <2>3. FinDe(l[m - 1]) \in Nat
    BY <1>1, <2>1, CeldaTipo
  <2>4. m - 1 \notin T
    BY <1>3
  <2>5. l[m].inicio <= b
    BY <2>1, <2>2, <2>3, <2>4
  <2> QED BY <2>5 DEF Cubre
<1> QED BY <1>4, <1>5

-----------------------------------------------------------------------------
(* What the loops of the model compute.                                    *)

\* The ends of the fixed partitions.
LEMMA HastaTipo ==
    /\ Hasta \in [0 .. Len(Particiones) -> Nat] /\ Hasta[0] = 0
    /\ \A i \in 1 .. Len(Particiones) : Hasta[i] = Hasta[i - 1] + Particiones[i]
<1> DEFINE n == Len(Particiones)
           cuerpo(f) == [i \in 0 .. n |-> IF i = 0 THEN 0
                                          ELSE f[i - 1] + Particiones[i]]
           g == [k \in 1 .. n |-> [v \in Nat |-> v + Particiones[k]]]
<1>1. n \in Nat /\ \A i \in 1 .. n : Particiones[i] \in Nat
  BY ParticionesAssumption DEF Configurada
<1>2. g \in [1 .. n -> [Nat -> Nat]]
  BY <1>1
<1>3. \E f \in [0 .. n -> Nat] : Recorre(f, n, 0, g)
  <2>1. 0 \in Nat
    OBVIOUS
  <2> HIDE DEF g, n
  <2> QED BY <1>1, <1>2, <2>1, HayRecorrido
<1>4. PICK f \in [0 .. n -> Nat] : Recorre(f, n, 0, g)
  BY <1>3
<1>5. f = cuerpo(f)
  <2>1. ASSUME NEW k \in 1 .. n PROVE f[k] = f[k - 1] + Particiones[k]
    <3>1. k - 1 \in 0 .. n /\ f[k - 1] \in Nat
      BY <1>1
    <3>3. g[k][f[k - 1]] = f[k - 1] + Particiones[k]
      BY <3>1
    <3> QED BY <1>4, <3>3 DEF Recorre
  <2>2. \A k \in 0 .. n : k # 0 => k \in 1 .. n
    BY <1>1
  <2> HIDE DEF g, n
  <2> QED BY <1>4, <2>1, <2>2 DEF Recorre
<1>6. Hasta = CHOOSE h : h = cuerpo(h)
  BY DEF Hasta
<1>7. Hasta = cuerpo(Hasta)
  <2> HIDE DEF cuerpo
  <2> QED BY <1>5, <1>6
<1>8. Hasta[0] = 0
  BY <1>1, <1>7
<1>9. ASSUME NEW i \in 1 .. n PROVE Hasta[i] = Hasta[i - 1] + Particiones[i]
  BY <1>1, <1>7
<1>10. ASSUME NEW i \in 0 .. n PROVE Hasta[i] \in Nat
  <2> DEFINE S == {k \in 0 .. n : Hasta[k] \in Nat}
  <2>1. 0 \in S
    BY <1>1, <1>8
  <2>2. \A k \in 1 .. n : k - 1 \in S => k \in S
    BY <1>1, <1>9
  <2> HIDE DEF S
  <2>3. \A k \in 0 .. n : k \in S
    BY <1>1, <2>1, <2>2, Induccion
  <2> QED BY <2>3 DEF S
<1>11. Hasta = [i \in 0 .. n |-> Hasta[i]]
  BY <1>7
<1>12. Hasta \in [0 .. n -> Nat]
  <2> HIDE DEF n
  <2> QED BY <1>10, <1>11
<1> QED BY <1>8, <1>9, <1>12

\* The k first partitions leave found the first of the preferred ones.
MejorDe(k, e, t) ==
    /\ e \in 0 .. k
    /\ e = 0 => \A j \in 1 .. k : ~Alcanza(j, t)
    /\ e # 0 => /\ Alcanza(e, t)
                /\ \A j \in 1 .. k : Alcanza(j, t) =>
                     /\ ~Mejora(e, j)
                     /\ j < e => algoritmo # "FIRST_FIT" /\ Mejora(j, e)

Algoritmos == {"FIRST_FIT", "BEST_FIT", "WORST_FIT"}

LEMMA MiraMejora ==
    ASSUME lista \in Seq(Celda), algoritmo \in Algoritmos,
           NEW t \in Nat, NEW k \in 1 .. Len(lista), NEW e,
           MejorDe(k - 1, e, t)
    PROVE  MejorDe(k, Mira(e, k, t), t)
<1>1. Len(lista) \in Nat /\ e \in 0 .. k - 1 /\ k \in Nat
  BY DEF MejorDe
<1>2. \A i \in 1 .. Len(lista) : lista[i].tamanio \in Nat
  BY CeldaTipo
<1>3. CASE ~(Alcanza(k, t) /\ (e = 0 \/ Mejora(e, k)))
  <2>1. Mira(e, k, t) = e
    BY <1>3 DEF Mira
  <2>2. CASE e = 0
    <3>1. ~Alcanza(k, t)
      BY <1>3, <2>2
    <3>2. \A j \in 1 .. k - 1 : ~Alcanza(j, t)
      BY <2>2 DEF MejorDe
    <3>3. \A j \in 1 .. k : ~Alcanza(j, t)
      BY <1>1, <3>1, <3>2
    <3> QED BY <1>1, <2>1, <2>2, <3>3 DEF MejorDe
  <2>3. CASE e # 0
    <3>1. Alcanza(k, t) => ~Mejora(e, k)
      BY <1>3
    <3>2. /\ Alcanza(e, t)
          /\ \A j \in 1 .. k - 1 : Alcanza(j, t) =>
               /\ ~Mejora(e, j)
               /\ j < e => algoritmo # "FIRST_FIT" /\ Mejora(j, e)
      BY <2>3 DEF MejorDe
    <3>3. \A j \in 1 .. k : Alcanza(j, t) =>
               /\ ~Mejora(e, j)
               /\ j < e => algoritmo # "FIRST_FIT" /\ Mejora(j, e)
      BY <1>1, <3>1, <3>2
    <3> QED BY <1>1, <2>1, <2>3, <3>2, <3>3 DEF MejorDe
  <2> QED BY <2>2, <2>3
<1>4. CASE Alcanza(k, t) /\ (e = 0 \/ Mejora(e, k))
  <2>1. Mira(e, k, t) = k
    BY <1>4 DEF Mira
  <2>2. ~Mejora(k, k)
    <3>1. lista[k].tamanio \in Nat
      BY <1>2
    <3>2. ~(lista[k].tamanio < lista[k].tamanio)
      BY <3>1
    <3>3. ~(lista[k].tamanio > lista[k].tamanio)
      BY <3>1
    <3>4. CASE algoritmo = "FIRST_FIT"
      BY <3>4 DEF Mejora
    <3>5. CASE algoritmo = "BEST_FIT"
      BY <3>2, <3>5 DEF Mejora
    <3>6. CASE algoritmo = "WORST_FIT"
      BY <3>3, <3>6 DEF Mejora
    <3> QED BY <3>4, <3>5, <3>6 DEF Algoritmos
  <2>3. ASSUME NEW j \in 1 .. k - 1, Alcanza(j, t)
        PROVE  ~Mejora(k, j) /\ algoritmo # "FIRST_FIT" /\ Mejora(j, k)
    <3>1. e # 0 /\ Mejora(e, k) /\ e \in 1 .. Len(lista) /\ j \in 1 .. Len(lista)
      BY <1>1, <1>4, <2>3 DEF MejorDe
    <3>2. ~Mejora(e, j)
      BY <2>3, <3>1 DEF MejorDe
    <3>3. /\ lista[e].tamanio \in Nat /\ lista[j].tamanio \in Nat
          /\ lista[k].tamanio \in Nat
      BY <1>2, <3>1
    <3>4. CASE algoritmo = "FIRST_FIT"
      BY <3>1, <3>4 DEF Mejora
    <3>5. CASE algoritmo = "BEST_FIT"
      BY <3>1, <3>2, <3>3, <3>5 DEF Mejora
    <3>6. CASE algoritmo = "WORST_FIT"
      BY <3>1, <3>2, <3>3, <3>6 DEF Mejora
    <3> QED BY <3>4, <3>5, <3>6 DEF Algoritmos
  <2>4. \A j \in 1 .. k : Alcanza(j, t) =>
               /\ ~Mejora(k, j)
               /\ j < k => algoritmo # "FIRST_FIT" /\ Mejora(j, k)
    <3> TAKE j \in 1 .. k
    <3>1. CASE j = k
      BY <1>1, <2>2, <3>1
    <3>2. CASE j # k
      <4>1. j \in 1 .. k - 1
        BY <1>1, <3>2
      <4> QED BY <2>3, <4>1
    <3> QED BY <3>1, <3>2
  <2> QED BY <1>1, <1>4, <2>1, <2>4 DEF MejorDe
<1> QED BY <1>3, <1>4

\* choose_algorithm_partition finds it.
LEMMA EligeMejor ==
    ASSUME lista \in Seq(Celda), algoritmo \in Algoritmos, NEW t \in Nat
    PROVE  MejorDe(Len(lista), Elige(t), t)
<1> DEFINE n == Len(lista)
           cuerpo(f) == [k \in 0 .. n |-> IF k = 0 THEN 0
                                          ELSE Mira(f[k - 1], k, t)]
           g == [k \in 1 .. n |-> [i \in 0 .. n |-> Mira(i, k, t)]]
           elegida == CHOOSE f : f = cuerpo(f)
<1>1. n \in Nat
  OBVIOUS
<1>2. g \in [1 .. n -> [0 .. n -> 0 .. n]]
  <2>1. ASSUME NEW k \in 1 .. n, NEW i \in 0 .. n PROVE Mira(i, k, t) \in 0 .. n
    BY <1>1 DEF Mira
  <2> QED BY <2>1
<1>3. \E f \in [0 .. n -> 0 .. n] : Recorre(f, n, 0, g)
  <2>1. 0 \in 0 .. n
    BY <1>1
  <2> HIDE DEF g, n
  <2> QED BY <1>1, <1>2, <2>1, HayRecorrido
<1>4. PICK f \in [0 .. n -> 0 .. n] : Recorre(f, n, 0, g)
  BY <1>3
<1>5. f = cuerpo(f)
  <2>1. ASSUME NEW k \in 1 .. n PROVE f[k] = Mira(f[k - 1], k, t)
    <3>1. k - 1 \in 0 .. n /\ f[k - 1] \in 0 .. n
      BY <1>1
    <3>2. g[k][f[k - 1]] = Mira(f[k - 1], k, t)
      BY <3>1
    <3> QED BY <1>4, <3>2 DEF Recorre
  <2>2. \A k \in 0 .. n : k # 0 => k \in 1 .. n
    BY <1>1
  <2> HIDE DEF g, n
  <2> QED BY <1>4, <2>1, <2>2 DEF Recorre
<1>6. elegida = cuerpo(elegida)
  <2> HIDE DEF cuerpo
  <2> QED BY <1>5
<1>7. Elige(t) = elegida[n]
  BY DEF Elige
<1> HIDE DEF elegida
<1> DEFINE S == {k \in 0 .. n : MejorDe(k, elegida[k], t)}
<1>8. 0 \in S
  <2>1. elegida[0] = 0
    BY <1>1, <1>6
  <2> QED BY <1>1, <2>1 DEF MejorDe
<1>9. ASSUME NEW k \in 1 .. n, k - 1 \in S PROVE k \in S
  <2>1. elegida[k] = Mira(elegida[k - 1], k, t)
    BY <1>1, <1>6
  <2> QED BY <1>9, <2>1, MiraMejora
<1>10. n \in S
  <2> HIDE DEF S, n
  <2>1. \A k \in 0 .. n : k \in S
    BY <1>1, <1>8, <1>9, Induccion
  <2> QED BY <1>1, <2>1
<1> QED BY <1>7, <1>10

\* So the partition chosen is the first of those that its algorithm prefers.
LEMMA EligeAjuste ==
    ASSUME lista \in Seq(Celda), algoritmo \in Algoritmos, Tamanios \subseteq Nat
    PROVE  AjusteElegido
<1> SUFFICES ASSUME NEW t \in Tamanios
             PROVE  LET alcanzan == {i \in 1 .. Len(lista) : Alcanza(i, t)}
                        preferidas ==
                          CASE algoritmo = "FIRST_FIT" -> alcanzan
                            [] algoritmo = "BEST_FIT" ->
                                 {i \in alcanzan : \A j \in alcanzan :
                                      lista[i].tamanio <= lista[j].tamanio}
                            [] algoritmo = "WORST_FIT" ->
                                 {i \in alcanzan : \A j \in alcanzan :
                                      lista[i].tamanio >= lista[j].tamanio}
                    IN  IF alcanzan = {} THEN Elige(t) = 0
                        ELSE /\ Elige(t) \in preferidas
                             /\ \A j \in preferidas : Elige(t) <= j
  BY DEF AjusteElegido
<1> DEFINE alcanzan == {i \in 1 .. Len(lista) : Alcanza(i, t)}
           e == Elige(t)
<1>1. MejorDe(Len(lista), e, t) /\ Len(lista) \in Nat
  BY EligeMejor
<1>2. \A i \in alcanzan : lista[i].tamanio \in Nat /\ i \in Nat
  BY CeldaTipo
<1> HIDE DEF e
<1>3. CASE e = 0
  <2>1. alcanzan = {}
    BY <1>1, <1>3 DEF MejorDe
  <2> QED BY <1>3, <2>1 DEF e
<1>4. CASE e # 0
  <2>1. e \in alcanzan
    BY <1>1, <1>4 DEF MejorDe
  <2>2. \A j \in alcanzan :
          ~Mejora(e, j) /\ (j < e => algoritmo # "FIRST_FIT" /\ Mejora(j, e))
    BY <1>1, <1>4 DEF MejorDe
  <2>3. lista[e].tamanio \in Nat /\ e \in Nat
    BY <1>2, <2>1
  <2> HIDE DEF alcanzan
  <2>4. CASE algoritmo = "FIRST_FIT"
    <3>1. \A j \in alcanzan : e <= j
      BY <1>2, <2>2, <2>3, <2>4
    <3> QED BY <2>1, <2>4, <3>1 DEF e, alcanzan
  <2>5. CASE algoritmo = "BEST_FIT"
    <3> DEFINE mejores == {i \in alcanzan : \A j \in alcanzan :
                             lista[i].tamanio <= lista[j].tamanio}
    <3>1. \A j \in alcanzan : lista[e].tamanio <= lista[j].tamanio
      BY <1>2, <2>2, <2>3, <2>5 DEF Mejora
    <3>2. e \in mejores
      BY <2>1, <3>1
    <3>3. ASSUME NEW j \in mejores PROVE e <= j
      <4>1. j \in alcanzan /\ lista[j].tamanio <= lista[e].tamanio
        BY <2>1
      <4>2. j < e => lista[e].tamanio < lista[j].tamanio
        BY <2>2, <2>5, <4>1 DEF Mejora
      <4> QED BY <1>2, <2>3, <4>1, <4>2
    <3> QED BY <2>1, <2>5, <3>2, <3>3 DEF e, alcanzan
  <2>6. CASE algoritmo = "WORST_FIT"
    <3> DEFINE mejores == {i \in alcanzan : \A j \in alcanzan :
                             lista[i].tamanio >= lista[j].tamanio}
    <3>1. \A j \in alcanzan : lista[e].tamanio >= lista[j].tamanio
      BY <1>2, <2>2, <2>3, <2>6 DEF Mejora
    <3>2. e \in mejores
      BY <2>1, <3>1
    <3>3. ASSUME NEW j \in mejores PROVE e <= j
      <4>1. j \in alcanzan /\ lista[j].tamanio >= lista[e].tamanio
        BY <2>1
      <4>2. j < e => lista[e].tamanio > lista[j].tamanio
        BY <2>2, <2>6, <4>1 DEF Mejora
      <4> QED BY <1>2, <2>3, <4>1, <4>2
    <3> QED BY <2>1, <2>6, <3>2, <3>3 DEF e, alcanzan
  <2> QED BY <2>4, <2>5, <2>6 DEF Algoritmos
<1> QED BY <1>3, <1>4

-----------------------------------------------------------------------------
(* consolidar_particiones.                                                 *)

\* h is what the k first partitions of l become.
Unida(l, k, h) ==
    /\ h \in Seq(Celda)
    /\ k = 0 => h = <<>>
    /\ k > 0 => /\ h # <<>>
                /\ h[1].inicio = l[1].inicio
                /\ FinDe(h[Len(h)]) = FinDe(l[k])
    /\ Seguidas(h) /\ SinHuecosJuntos(h) /\ UnaPorProceso(h)
    /\ \A i \in 1 .. Len(h) : h[i].pid # SinPid => \E j \in 1 .. k : h[i] = l[j]
    /\ Positivas(l) => Positivas(h)
    /\ \A b \in Nat, x \in Pids \cup {SinPid} :
         EsDe(h, Len(h), b, x) <=> EsDe(l, k, b, x)

LEMMA EsDeUnoMas ==
    ASSUME NEW l, NEW k \in Nat \ {0}, NEW b, NEW x
    PROVE  EsDe(l, k, b, x) <=>
             EsDe(l, k - 1, b, x) \/ (Cubre(l[k], b) /\ l[k].pid = x)
<1>1. \A i : i \in 1 .. k <=> i \in 1 .. k - 1 \/ i = k
  OBVIOUS
<1> QED BY <1>1 DEF EsDe

LEMMA JuntaAgrega ==
    ASSUME NEW l \in Seq(Celda), Seguidas(l), UnaPorProceso(l),
           NEW k \in 1 .. Len(l), NEW h, Unida(l, k - 1, h),
           h = <<>> \/ ~Libre(Last(h)) \/ ~Libre(l[k])
    PROVE  Unida(l, k, Append(h, l[k]))
<1> DEFINE q == l[k]
           n == Len(h)
           r == Append(h, q)
<1>1. h \in Seq(Celda) /\ n \in Nat /\ q \in Celda /\ k \in Nat /\ Len(l) \in Nat
  BY DEF Unida
<1>2. r \in Seq(Celda) /\ Len(r) = n + 1 /\ r[n + 1] = q
      /\ \A i \in 1 .. n : r[i] = h[i]
  BY <1>1
<1>3. h # <<>> => n > 0 /\ k - 1 > 0
  BY <1>1 DEF Unida
<1>4. h = <<>> => k = 1 /\ n = 0
  BY <1>1 DEF Unida
<1>5. h # <<>> => q.inicio = FinDe(h[n])
  <2> HAVE h # <<>>
  <2>1. k - 1 \in 1 .. Len(l) - 1 /\ k - 1 + 1 = k
    BY <1>1, <1>3
  <2>2. l[k - 1 + 1].inicio = FinDe(l[k - 1])
    BY <2>1 DEF Seguidas
  <2> QED BY <1>3, <2>1, <2>2 DEF Unida
<1> HIDE DEF r, q, n
<1>6. r # <<>> /\ r[1].inicio = l[1].inicio /\ FinDe(r[Len(r)]) = FinDe(l[k])
  <2>1. r # <<>> /\ FinDe(r[Len(r)]) = FinDe(l[k])
    BY <1>1, <1>2 DEF q
  <2>2. r[1].inicio = l[1].inicio
    <3>1. CASE h = <<>>
      BY <1>2, <1>4, <3>1 DEF q
    <3>2. CASE h # <<>>
      BY <1>1, <1>2, <1>3, <3>2 DEF Unida
    <3> QED BY <3>1, <3>2
  <2> QED BY <2>1, <2>2
<1>7. Seguidas(r) /\ SinHuecosJuntos(r)
  <2> SUFFICES ASSUME NEW i \in 1 .. Len(r) - 1
               PROVE  /\ r[i + 1].inicio = FinDe(r[i])
                      /\ ~(r[i].pid = SinPid /\ r[i + 1].pid = SinPid)
    BY DEF Seguidas, SinHuecosJuntos
  <2>1. i \in 1 .. n
    BY <1>1, <1>2
  <2>2. CASE i = n
    <3>1. n > 0 /\ h # <<>>
      BY <1>1, <1>4, <2>1
    <3>2. r[i] = h[n] /\ r[i + 1] = q
      BY <1>2, <2>1, <2>2
    <3>3. ~(h[n].pid = SinPid /\ q.pid = SinPid)
      BY <3>1 DEF Libre, Last, q, n
    <3> QED BY <1>5, <3>1, <3>2, <3>3
  <2>3. CASE i # n
    <3>1. i \in 1 .. n - 1 /\ i + 1 \in 1 .. n
      BY <1>1, <2>1, <2>3
    <3>2. r[i] = h[i] /\ r[i + 1] = h[i + 1]
      BY <1>2, <2>1, <3>1
    <3>3. Seguidas(h) /\ SinHuecosJuntos(h)
      BY DEF Unida
    <3> QED BY <3>1, <3>2, <3>3 DEF Seguidas, SinHuecosJuntos, n
  <2> QED BY <2>2, <2>3
<1>8. \A i \in 1 .. n : h[i].pid # SinPid => \E j \in 1 .. k - 1 : h[i] = l[j]
  BY DEF Unida, n
<1>9. UnaPorProceso(r)
  <2>1. ASSUME NEW i \in 1 .. n, h[i].pid # SinPid PROVE h[i].pid # q.pid
    <3>1. PICK j \in 1 .. k - 1 : h[i] = l[j]
      BY <1>8, <2>1
    <3>2. j \in 1 .. Len(l) /\ j # k
      BY <1>1, <3>1
    <3> QED BY <2>1, <3>1, <3>2 DEF UnaPorProceso, q
  <2> SUFFICES ASSUME NEW i \in 1 .. Len(r), NEW j \in 1 .. Len(r),
                      r[i].pid = r[j].pid, r[i].pid # SinPid
               PROVE  i = j
    BY DEF UnaPorProceso
  <2>2. (i \in 1 .. n \/ i = n + 1) /\ (j \in 1 .. n \/ j = n + 1)
    BY <1>1, <1>2
  <2>3. CASE i \in 1 .. n /\ j \in 1 .. n
    <3>1. UnaPorProceso(h)
      BY DEF Unida
    <3> QED BY <1>2, <2>3, <3>1 DEF UnaPorProceso, n
  <2>4. CASE i \in 1 .. n /\ j = n + 1
    BY <1>2, <2>1, <2>4
  <2>5. CASE i = n + 1 /\ j \in 1 .. n
    BY <1>2, <2>1, <2>5
  <2> QED BY <2>2, <2>3, <2>4, <2>5
<1>10. ASSUME NEW i \in 1 .. Len(r), r[i].pid # SinPid
       PROVE  \E j \in 1 .. k : r[i] = l[j]
  <2>1. CASE i = n + 1
    BY <1>1, <1>2, <2>1 DEF q
  <2>2. CASE i # n + 1
    <3>1. i \in 1 .. n /\ r[i] = h[i]
      BY <1>1, <1>2, <2>2
    <3>2. PICK j \in 1 .. k - 1 : h[i] = l[j]
      BY <1>8, <1>10, <3>1
    <3> QED BY <1>1, <3>1, <3>2
  <2> QED BY <2>1, <2>2
<1>11. Positivas(l) => Positivas(r)
  <2> HAVE Positivas(l)
  <2>1. Positivas(h) /\ q.tamanio > 0
    BY DEF Unida, Positivas, q
  <2> SUFFICES ASSUME NEW i \in 1 .. Len(r) PROVE r[i].tamanio > 0
    BY DEF Positivas
  <2>2. i \in 1 .. n \/ i = n + 1
    BY <1>1, <1>2
  <2> QED BY <1>2, <2>1, <2>2 DEF Positivas, n
<1>12. ASSUME NEW b \in Nat, NEW x \in Pids \cup {SinPid}
       PROVE  EsDe(r, Len(r), b, x) <=> EsDe(l, k, b, x)
  <2>1. EsDe(l, k, b, x) <=> EsDe(l, k - 1, b, x) \/ (Cubre(q, b) /\ q.pid = x)
    BY <1>1, EsDeUnoMas DEF q
  <2>2. EsDe(l, k - 1, b, x) <=> EsDe(h, n, b, x)
    BY DEF Unida, n
  <2>3. EsDe(r, n, b, x) <=> EsDe(h, n, b, x)
    BY <1>2 DEF EsDe
  <2>4. n + 1 \in Nat \ {0} /\ n + 1 - 1 = n
    BY <1>1
  <2>5. EsDe(r, n + 1, b, x) <=> EsDe(r, n, b, x) \/ (Cubre(q, b) /\ q.pid = x)
    <3> DEFINE m == n + 1
    <3>1. m \in Nat \ {0} /\ m - 1 = n
      BY <1>1
    <3>2. r[m] = q
      BY <1>2
    <3> HIDE DEF m
    <3>3. EsDe(r, m, b, x) <=>
            EsDe(r, m - 1, b, x) \/ (Cubre(r[m], b) /\ r[m].pid = x)
      BY <3>1, EsDeUnoMas
    <3> QED BY <3>1, <3>2, <3>3 DEF m
  <2> QED BY <1>2, <2>1, <2>2, <2>3, <2>5
<1>13. Unida(l, k, r)
  BY <1>1, <1>2, <1>6, <1>7, <1>9, <1>10, <1>11, <1>12 DEF Unida
<1> QED BY <1>13 DEF r, q

LEMMA CeldaPartes ==
    ASSUME NEW c \in Celda
    PROVE  /\ c.inicio \in Nat /\ c.tamanio \in Nat
           /\ FinDe(c) \in Nat /\ FinDe(c) = c.inicio + c.tamanio
<1>1. c.inicio \in Nat /\ c.tamanio \in Nat
  BY DEF Celda
<1> QED BY <1>1 DEF FinDe

LEMMA SumaDeTamanios ==
    ASSUME NEW c \in Celda, NEW d \in Celda
    PROVE  c.tamanio + d.tamanio \in Nat
<1>1. c.tamanio \in Nat /\ d.tamanio \in Nat
  BY CeldaPartes
<1> QED BY <1>1

\* One partition that starts where c does and ends where d, the next one, ends.
LEMMA CubreLasDos ==
    ASSUME NEW c \in Celda, NEW d \in Celda, NEW u \in Celda, NEW b \in Nat,
           d.inicio = FinDe(c), u.inicio = c.inicio, FinDe(u) = FinDe(d)
    PROVE  Cubre(u, b) <=> Cubre(c, b) \/ Cubre(d, b)
<1>1. /\ c.inicio \in Nat /\ FinDe(c) \in Nat /\ FinDe(d) \in Nat
      /\ c.inicio <= FinDe(c) /\ FinDe(c) <= FinDe(d)
  <2>1. \A x, y \in Nat : x <= x + y
    OBVIOUS
  <2> QED BY <2>1, CeldaPartes, Zenon
<1> DEFINE f == c.inicio
           g == FinDe(c)
           k == FinDe(d)
<1>2. /\ Cubre(u, b) <=> f <= b /\ b < k
      /\ Cubre(c, b) <=> f <= b /\ b < g
      /\ Cubre(d, b) <=> g <= b /\ b < k
  BY Zenon DEF Cubre
<1>3. f \in Nat /\ g \in Nat /\ k \in Nat /\ f <= g /\ g <= k
  BY <1>1
<1> HIDE DEF f, g, k
<1>4. (f <= b /\ b < k) <=> (f <= b /\ b < g) \/ (g <= b /\ b < k)
  BY <1>3
<1> QED BY <1>2, <1>4, Zenon

LEMMA ConTamanio ==
    ASSUME NEW c \in Celda, NEW t \in Nat
    PROVE  LET u == [c EXCEPT !.tamanio = t]
           IN  u \in Celda /\ u.inicio = c.inicio /\ u.pid = c.pid /\ u.tamanio = t
BY DEF Celda

LEMMA JuntaUne ==
    ASSUME NEW l \in Seq(Celda), Seguidas(l), UnaPorProceso(l),
           NEW k \in 1 .. Len(l), NEW h, Unida(l, k - 1, h),
           h # <<>>, Libre(Last(h)), Libre(l[k])
    PROVE  Unida(l, k, [h EXCEPT ![Len(h)].tamanio = @ + l[k].tamanio])
<1> DEFINE q == l[k]
           n == Len(h)
           u == [h[n] EXCEPT !.tamanio = h[n].tamanio + q.tamanio]
           r == [h EXCEPT ![n] = u]
<1>1. h \in Seq(Celda) /\ n \in Nat /\ q \in Celda /\ k \in Nat /\ Len(l) \in Nat
  BY DEF Unida
<1>2. n > 0 /\ k - 1 > 0
  BY <1>1 DEF Unida
<1>3. n \in 1 .. n /\ h[n] \in Celda
  BY <1>1, <1>2
<1>4. /\ u \in Celda /\ u.inicio = h[n].inicio /\ u.pid = h[n].pid
      /\ u.tamanio = h[n].tamanio + q.tamanio
  <2>1. h[n].tamanio + q.tamanio \in Nat
    BY <1>1, <1>3, SumaDeTamanios, Zenon
  <2> HIDE DEF n, q
  <2> QED BY <1>3, <2>1, ConTamanio, Zenon
<1>5. r = [h EXCEPT ![Len(h)].tamanio = @ + l[k].tamanio]
  OBVIOUS
<1> HIDE DEF u
<1>6. r \in Seq(Celda) /\ Len(r) = n /\ r[n] = u
      /\ \A i \in 1 .. n : i # n => r[i] = h[i]
  BY <1>1, <1>3, <1>4
<1>7. q.inicio = FinDe(h[n]) /\ h[n].pid = SinPid /\ q.pid = SinPid
  <2>1. k - 1 \in 1 .. Len(l) - 1 /\ k - 1 + 1 = k
    BY <1>1, <1>2
  <2>2. l[k - 1 + 1].inicio = FinDe(l[k - 1])
    BY <2>1 DEF Seguidas
  <2>3. h[n].pid = SinPid /\ q.pid = SinPid
    BY DEF Libre, Last
  <2> QED BY <1>2, <2>1, <2>2, <2>3 DEF Unida
<1> HIDE DEF r, q, n
<1>8. FinDe(u) = FinDe(q)
  <2>1. /\ h[n].inicio \in Nat /\ h[n].tamanio \in Nat
        /\ q.inicio \in Nat /\ q.tamanio \in Nat
    BY <1>1, <1>3 DEF Celda
  <2> QED BY <1>4, <1>7, <2>1 DEF FinDe
<1>9. r # <<>> /\ r[1].inicio = l[1].inicio /\ FinDe(r[Len(r)]) = FinDe(l[k])
  <2>1. r # <<>> /\ FinDe(r[Len(r)]) = FinDe(l[k])
    BY <1>2, <1>6, <1>8 DEF q
  <2>2. r[1].inicio = h[1].inicio
    <3>1. CASE n = 1
      BY <1>4, <1>6, <3>1
    <3>2. CASE n # 1
      BY <1>1, <1>2, <1>6, <3>2
    <3> QED BY <3>1, <3>2
  <2> QED BY <1>2, <2>1, <2>2 DEF Unida
<1>10. \A i \in 1 .. n : r[i].pid = h[i].pid /\ r[i].inicio = h[i].inicio
  <2> TAKE i \in 1 .. n
  <2>1. CASE i = n
    BY <1>4, <1>6, <2>1
  <2>2. CASE i # n
    BY <1>6, <2>2
  <2> QED BY <2>1, <2>2
<1>11. Seguidas(r) /\ SinHuecosJuntos(r)
  <2> SUFFICES ASSUME NEW i \in 1 .. n - 1
               PROVE  /\ r[i + 1].inicio = FinDe(r[i])
                      /\ ~(r[i].pid = SinPid /\ r[i + 1].pid = SinPid)
    BY <1>6 DEF Seguidas, SinHuecosJuntos
  <2>1. i \in 1 .. n /\ i # n /\ i + 1 \in 1 .. n
    BY <1>1
  <2>2. r[i] = h[i] /\ r[i + 1].pid = h[i + 1].pid /\ r[i + 1].inicio = h[i + 1].inicio
    BY <1>6, <1>10, <2>1
  <2>3. Seguidas(h) /\ SinHuecosJuntos(h)
    BY DEF Unida
  <2> QED BY <2>2, <2>3 DEF Seguidas, SinHuecosJuntos, n
<1>12. UnaPorProceso(r)
  <2>1. UnaPorProceso(h)
    BY DEF Unida
  <2> QED BY <1>6, <1>10, <2>1 DEF UnaPorProceso, n
<1>13. ASSUME NEW i \in 1 .. Len(r), r[i].pid # SinPid
       PROVE  \E j \in 1 .. k : r[i] = l[j]
  <2>1. i \in 1 .. n /\ i # n /\ r[i] = h[i]
    BY <1>4, <1>6, <1>7, <1>13
  <2>2. PICK j \in 1 .. k - 1 : h[i] = l[j]
    BY <1>13, <2>1 DEF Unida, n
  <2> QED BY <1>1, <2>1, <2>2
<1>14. Positivas(l) => Positivas(r)
  <2> HAVE Positivas(l)
  <2>1. Positivas(h)
    BY DEF Unida
  <2>2. u.tamanio > 0
    <3>1. h[n].tamanio \in Nat /\ h[n].tamanio > 0 /\ q.tamanio \in Nat
      BY <1>1, <1>3, <2>1 DEF Celda, Positivas, n
    <3> QED BY <1>4, <3>1
  <2> SUFFICES ASSUME NEW i \in 1 .. n PROVE r[i].tamanio > 0
    BY <1>6 DEF Positivas
  <2>3. CASE i = n
    BY <1>6, <2>2, <2>3
  <2>4. CASE i # n
    BY <1>6, <2>1, <2>4 DEF Positivas, n
  <2> QED BY <2>3, <2>4
<1>15. ASSUME NEW b \in Nat, NEW x \in Pids \cup {SinPid}
       PROVE  EsDe(r, Len(r), b, x) <=> EsDe(l, k, b, x)
  <2>1. EsDe(l, k, b, x) <=> EsDe(l, k - 1, b, x) \/ (Cubre(q, b) /\ q.pid = x)
    BY <1>1, <1>2, EsDeUnoMas DEF q
  <2>2. EsDe(l, k - 1, b, x) <=> EsDe(h, n, b, x)
    BY DEF Unida, n
  <2>3. EsDe(r, n - 1, b, x) <=> EsDe(h, n - 1, b, x)
    <3>1. \A i \in 1 .. n - 1 : r[i] = h[i]
      BY <1>1, <1>6
    <3> QED BY <3>1 DEF EsDe
  <2>4. n \in Nat \ {0}
    BY <1>1, <1>2
  <2>5. EsDe(r, n, b, x) <=> EsDe(r, n - 1, b, x) \/ (Cubre(u, b) /\ u.pid = x)
    BY <1>6, <2>4, EsDeUnoMas
  <2>6. EsDe(h, n, b, x) <=> EsDe(h, n - 1, b, x) \/ (Cubre(h[n], b) /\ h[n].pid = x)
    BY <2>4, EsDeUnoMas
  <2>7. Cubre(u, b) <=> Cubre(h[n], b) \/ Cubre(q, b)
    <3> HIDE DEF n, q
    <3> QED BY <1>1, <1>3, <1>4, <1>7, <1>8, CubreLasDos, Zenon
  <2> QED BY <1>4, <1>6, <1>7, <2>1, <2>2, <2>3, <2>5, <2>6, <2>7
<1>16. Unida(l, k, r)
  BY <1>1, <1>2, <1>6, <1>9, <1>11, <1>12, <1>13, <1>14, <1>15 DEF Unida
<1> QED BY <1>5, <1>16 DEF r, q, n

LEMMA JuntaUnida ==
    ASSUME NEW l \in Seq(Celda), Seguidas(l), UnaPorProceso(l),
           NEW k \in 1 .. Len(l), NEW h, Unida(l, k - 1, h)
    PROVE  Unida(l, k, Junta(h, l[k]))
BY JuntaAgrega, JuntaUne DEF Junta

\* The result of the whole loop.
LEMMA ConsolidaUne ==
    ASSUME NEW l \in Seq(Celda), Seguidas(l), UnaPorProceso(l)
    PROVE  Unida(l, Len(l), Consolida(l))
<1> DEFINE n == Len(l)
           cuerpo(f) == [k \in 0 .. n |-> IF k = 0 THEN <<>>
                                          ELSE Junta(f[k - 1], l[k])]
           g == [k \in 1 .. n |-> [h \in Seq(Celda) |-> Junta(h, l[k])]]
           hechas == CHOOSE f : f = cuerpo(f)
<1>1. n \in Nat /\ \A k \in 1 .. n : l[k] \in Celda
  OBVIOUS
<1>2. ASSUME NEW k \in 1 .. n, NEW h \in Seq(Celda)
      PROVE  Junta(h, l[k]) \in Seq(Celda)
  <2>1. CASE h # <<>> /\ Libre(Last(h)) /\ Libre(l[k])
    <3>1. Len(h) \in 1 .. Len(h) /\ h[Len(h)] \in Celda
      BY <2>1
    <3> DEFINE u == [h[Len(h)] EXCEPT !.tamanio = h[Len(h)].tamanio + l[k].tamanio]
    <3>2. u \in Celda
      <4>1. h[Len(h)].tamanio + l[k].tamanio \in Nat
        BY <1>1, <3>1, SumaDeTamanios, Zenon
      <4> QED BY <3>1, <4>1, ConTamanio, Zenon
    <3>3. Junta(h, l[k]) = [h EXCEPT ![Len(h)] = u]
      BY <2>1 DEF Junta
    <3> HIDE DEF u
    <3> QED BY <3>1, <3>2, <3>3
  <2>2. CASE ~(h # <<>> /\ Libre(Last(h)) /\ Libre(l[k]))
    BY <1>1, <2>2 DEF Junta
  <2> QED BY <2>1, <2>2
<1>3. g \in [1 .. n -> [Seq(Celda) -> Seq(Celda)]]
  BY <1>2
<1>4. \E f \in [0 .. n -> Seq(Celda)] : Recorre(f, n, <<>>, g)
  <2>1. <<>> \in Seq(Celda)
    OBVIOUS
  <2> HIDE DEF g, n
  <2> QED BY <1>1, <1>3, <2>1, HayRecorrido
<1>5. PICK f \in [0 .. n -> Seq(Celda)] : Recorre(f, n, <<>>, g)
  BY <1>4
<1>6. f = cuerpo(f)
  <2>1. ASSUME NEW k \in 1 .. n PROVE f[k] = Junta(f[k - 1], l[k])
    <3> HIDE DEF n
    <3>1. k - 1 \in 0 .. n
      BY <1>1
    <3>2. f[k - 1] \in Seq(Celda)
      BY <3>1
    <3>3. g[k][f[k - 1]] = Junta(f[k - 1], l[k])
      BY <3>2
    <3> QED BY <1>5, <3>3 DEF Recorre
  <2>2. \A k \in 0 .. n : k # 0 => k \in 1 .. n
    BY <1>1
  <2> HIDE DEF g, n
  <2> QED BY <1>5, <2>1, <2>2 DEF Recorre
<1>7. hechas = cuerpo(hechas)
  <2> HIDE DEF cuerpo
  <2> QED BY <1>6
<1>8. Consolida(l) = hechas[n]
  BY DEF Consolida
<1> HIDE DEF hechas
<1> DEFINE S == {k \in 0 .. n : Unida(l, k, hechas[k])}
<1>9. 0 \in S
  <2>1. hechas[0] = <<>>
    BY <1>1, <1>7
  <2>2. Unida(l, 0, <<>>)
    BY DEF Unida, Seguidas, SinHuecosJuntos, UnaPorProceso, Positivas, EsDe
  <2> QED BY <1>1, <2>1, <2>2
<1>10. ASSUME NEW k \in 1 .. n, k - 1 \in S PROVE k \in S
  <2>1. hechas[k] = Junta(hechas[k - 1], l[k])
    BY <1>1, <1>7
  <2> QED BY <1>10, <2>1, JuntaUnida
<1>11. n \in S
  <2> HIDE DEF S, n
  <2>1. \A k \in 0 .. n : k \in S
    BY <1>1, <1>9, <1>10, Induccion
  <2> QED BY <1>1, <2>1
<1> QED BY <1>8, <1>11

-----------------------------------------------------------------------------
(* asignar_memoria_fija, asignar_memoria_dinamica, liberar_memoria_por_pid.*)

\* r is s with e at position i.
Insertada(r, s, i, e) ==
    /\ Len(r) = Len(s) + 1
    /\ \A j \in 1 .. i - 1 : r[j] = s[j]
    /\ r[i] = e
    /\ \A j \in i .. Len(s) : r[j + 1] = s[j]

LEMMA InsertaEn ==
    ASSUME NEW S, NEW s \in Seq(S), NEW i \in 1 .. Len(s) + 1, NEW e \in S
    PROVE  InsertAt(s, i, e) \in Seq(S) /\ Insertada(InsertAt(s, i, e), s, i, e)
<1> DEFINE n == Len(s)
           a == SubSeq(s, 1, i - 1)
           c == SubSeq(s, i, n)
           m == <<e>>
<1>1. n \in Nat /\ \A j \in 1 .. n : s[j] \in S
  OBVIOUS
<1>2. a \in Seq(S) /\ Len(a) = i - 1 /\ \A j \in 1 .. i - 1 : a[j] = s[j]
  <2>1. i - 1 \in Int /\ 1 \in Int /\ \A j \in 1 .. i - 1 : s[j] \in S
    BY <1>1
  <2>2. /\ a \in Seq(S) /\ Len(a) = IF 1 <= i - 1 THEN i - 1 - 1 + 1 ELSE 0
        /\ \A j \in 1 .. i - 1 - 1 + 1 : a[j] = s[1 + j - 1]
    <3> HIDE DEF n
    <3> QED BY <2>1, SubSeqProperties
  <2> QED BY <1>1, <2>2
<1>3. c \in Seq(S) /\ Len(c) = n - i + 1 /\ \A j \in 1 .. n - i + 1 : c[j] = s[i + j - 1]
  <2>1. i \in Int /\ n \in Int /\ \A j \in i .. n : s[j] \in S
    BY <1>1
  <2>2. /\ c \in Seq(S) /\ Len(c) = IF i <= n THEN n - i + 1 ELSE 0
        /\ \A j \in 1 .. n - i + 1 : c[j] = s[i + j - 1]
    <3> HIDE DEF n
    <3> QED BY <2>1, SubSeqProperties
  <2> QED BY <1>1, <2>2
<1>4. m \in Seq(S) /\ Len(m) = 1 /\ m[1] = e
  OBVIOUS
<1> HIDE DEF a, c, m, n
<1>5. /\ a \o m \in Seq(S) /\ Len(a \o m) = i
      /\ \A j \in 1 .. i : (a \o m)[j] = IF j < i THEN s[j] ELSE e
  <2>1. /\ a \o m \in Seq(S) /\ Len(a \o m) = Len(a) + Len(m)
        /\ \A j \in 1 .. Len(a) + Len(m) :
             (a \o m)[j] = IF j <= Len(a) THEN a[j] ELSE m[j - Len(a)]
    BY <1>2, <1>4, ConcatProperties
  <2> QED BY <1>1, <1>2, <1>4, <2>1 DEF n
<1> DEFINE am == a \o m
<1> HIDE DEF am
<1>6. /\ am \o c \in Seq(S) /\ Len(am \o c) = n + 1
      /\ \A j \in 1 .. n + 1 : (am \o c)[j] =
             IF j < i THEN s[j] ELSE IF j = i THEN e ELSE s[j - 1]
  <2>1. /\ am \o c \in Seq(S) /\ Len(am \o c) = Len(am) + Len(c)
        /\ \A j \in 1 .. Len(am) + Len(c) :
             (am \o c)[j] = IF j <= Len(am) THEN am[j] ELSE c[j - Len(am)]
    <3>1. am \in Seq(S)
      BY <1>5 DEF am
    <3> QED BY <1>3, <3>1, ConcatProperties
  <2>2. Len(am) = i /\ Len(am) + Len(c) = n + 1 /\ i \in Nat
    BY <1>1, <1>3, <1>5 DEF am, n
  <2>3. ASSUME NEW j \in 1 .. n + 1
        PROVE  (am \o c)[j] = IF j < i THEN s[j] ELSE IF j = i THEN e ELSE s[j - 1]
    <3>1. CASE j <= i
      <4>1. (am \o c)[j] = am[j] /\ j \in 1 .. i
        BY <1>1, <2>1, <2>2, <3>1
      <4> QED BY <1>5, <2>2, <3>1, <4>1 DEF am
    <3>2. CASE ~(j <= i)
      <4>1. (am \o c)[j] = c[j - i] /\ j - i \in 1 .. n - i + 1
        BY <1>1, <2>1, <2>2, <3>2
      <4>2. c[j - i] = s[i + (j - i) - 1]
        BY <1>3, <4>1
      <4>3. i + (j - i) - 1 = j - 1
        BY <1>1, <2>2
      <4> QED BY <2>2, <3>2, <4>1, <4>2, <4>3
    <3> QED BY <3>1, <3>2
  <2> QED BY <2>1, <2>2, <2>3
<1>7. InsertAt(s, i, e) = am \o c
  BY DEF InsertAt, am, a, m, c, n
<1> DEFINE r == InsertAt(s, i, e)
<1>8. r = am \o c
  BY <1>7
<1> HIDE DEF r
<1>9. \A j \in 1 .. i - 1 : r[j] = s[j]
  <2> TAKE j \in 1 .. i - 1
  <2>1. j \in 1 .. n + 1 /\ j < i
    BY <1>1 DEF n
  <2> QED BY <1>6, <1>8, <2>1
<1>10. r[i] = e
  <2>1. i \in 1 .. n + 1 /\ ~(i < i)
    BY <1>1 DEF n
  <2> QED BY <1>6, <1>8, <2>1
<1>11. \A j \in i .. n : r[j + 1] = s[j]
  <2> TAKE j \in i .. n
  <2> DEFINE k == j + 1
  <2>1. k \in 1 .. n + 1 /\ ~(k < i) /\ k # i /\ k - 1 = j
    BY <1>1 DEF n
  <2> HIDE DEF k
  <2>2. r[k] = s[k - 1]
    BY <1>6, <1>8, <2>1
  <2> QED BY <2>1, <2>2 DEF k
<1> QED BY <1>6, <1>8, <1>9, <1>10, <1>11 DEF Insertada, n, r

\* r is l with x as the process of the i-th partition.
Cambiada(r, l, i, x) ==
    /\ r \in Seq(Celda) /\ Len(r) = Len(l) /\ Seguidas(r)
    /\ \A j \in 1 .. Len(l) :
         /\ r[j].inicio = l[j].inicio /\ r[j].tamanio = l[j].tamanio
         /\ FinDe(r[j]) = FinDe(l[j])
    /\ r[i].pid = x /\ \A j \in 1 .. Len(l) : j # i => r[j] = l[j]
    /\ \A b \in Nat, y \in Pids \cup {SinPid} :
         EsDe(r, Len(r), b, y) <=>
           IF Cubre(l[i], b) THEN y = x ELSE EsDe(l, Len(l), b, y)

LEMMA CambiaPid ==
    ASSUME NEW l \in Seq(Celda), Seguidas(l), NEW i \in 1 .. Len(l),
           NEW x \in Pids \cup {SinPid}
    PROVE  Cambiada([l EXCEPT ![i].pid = x], l, i, x)
<1> DEFINE u == [l[i] EXCEPT !.pid = x]
           r == [l EXCEPT ![i] = u]
<1>1. l[i] \in Celda /\ Len(l) \in Nat
  OBVIOUS
<1>2. /\ u \in Celda /\ u.inicio = l[i].inicio /\ u.tamanio = l[i].tamanio
      /\ u.pid = x
  BY <1>1 DEF Celda
<1>3. r = [l EXCEPT ![i].pid = x]
  OBVIOUS
<1> HIDE DEF u
<1>4. r \in Seq(Celda) /\ Len(r) = Len(l) /\ r[i] = u
      /\ \A j \in 1 .. Len(l) : j # i => r[j] = l[j]
  BY <1>2
<1> HIDE DEF r
<1>5. ASSUME NEW j \in 1 .. Len(l)
      PROVE  /\ r[j].inicio = l[j].inicio /\ r[j].tamanio = l[j].tamanio
             /\ FinDe(r[j]) = FinDe(l[j])
  <2>1. CASE j = i
    BY <1>2, <1>4, <2>1 DEF FinDe
  <2>2. CASE j # i
    BY <1>4, <2>2
  <2> QED BY <2>1, <2>2
<1>6. Seguidas(r)
  <2> SUFFICES ASSUME NEW j \in 1 .. Len(l) - 1
               PROVE  r[j + 1].inicio = FinDe(r[j])
    BY <1>4 DEF Seguidas
  <2>1. j \in 1 .. Len(l) /\ j + 1 \in 1 .. Len(l)
    BY <1>1
  <2>2. l[j + 1].inicio = FinDe(l[j])
    BY DEF Seguidas
  <2> QED BY <1>5, <2>1, <2>2
<1>7. ASSUME NEW b \in Nat, NEW y \in Pids \cup {SinPid}
      PROVE  EsDe(r, Len(r), b, y) <=>
               IF Cubre(l[i], b) THEN y = x ELSE EsDe(l, Len(l), b, y)
  <2>1. \A j \in 1 .. Len(l) : Cubre(r[j], b) <=> Cubre(l[j], b)
    BY <1>5 DEF Cubre
  <2>2. CASE Cubre(l[i], b)
    <3>1. \A j \in 1 .. Len(l) : Cubre(l[j], b) => j = i
      BY <2>2, UnaSola
    <3> QED BY <1>2, <1>4, <2>1, <2>2, <3>1 DEF EsDe
  <2>3. CASE ~Cubre(l[i], b)
    BY <1>4, <2>1, <2>3 DEF EsDe
  <2> QED BY <2>2, <2>3
<1> QED BY <1>2, <1>3, <1>4, <1>5, <1>6, <1>7 DEF Cambiada

\* r is l with the i-th partition cut in two, the first t bytes for process p.
Partida(r, l, i, p, t) ==
    /\ r \in Seq(Celda) /\ Len(r) = Len(l) + 1
    /\ r[1].inicio = l[1].inicio /\ FinDe(r[Len(r)]) = FinDe(l[Len(l)])
    /\ Seguidas(r) /\ SinHuecosJuntos(r)
    /\ \A j \in 1 .. i - 1 : r[j] = l[j]
    /\ r[i] = NuevaParticion(l[i].inicio, t, p)
    /\ r[i + 1] = NuevaParticion(l[i].inicio + t, l[i].tamanio - t, SinPid)
    /\ \A j \in i + 1 .. Len(l) : r[j + 1] = l[j]
    /\ \A b \in Nat, y \in Pids \cup {SinPid} :
         EsDe(r, Len(r), b, y) <=>
           IF l[i].inicio <= b /\ b < l[i].inicio + t THEN y = p
           ELSE EsDe(l, Len(l), b, y)

LEMMA NuevaCelda ==
    ASSUME NEW a \in Nat, NEW t \in Nat, NEW y \in Pids \cup {SinPid}
    PROVE  /\ NuevaParticion(a, t, y) \in Celda
           /\ NuevaParticion(a, t, y).inicio = a
           /\ NuevaParticion(a, t, y).tamanio = t
           /\ NuevaParticion(a, t, y).pid = y
BY DEF Celda, NuevaParticion

LEMMA PonePid ==
    ASSUME NEW c \in Celda, NEW p \in Pids
    PROVE  [c EXCEPT !.pid = p] = NuevaParticion(c.inicio, c.tamanio, p)
BY DEF Celda, NuevaParticion

LEMMA PoneTamanio ==
    ASSUME NEW c \in Celda, NEW t \in Nat
    PROVE  [c EXCEPT !.tamanio = t] = NuevaParticion(c.inicio, t, c.pid)
BY DEF Celda, NuevaParticion

LEMMA Recorta ==
    ASSUME NEW c \in Celda, NEW t \in Nat, NEW p \in Pids
    PROVE  [c EXCEPT !.pid = p, !.tamanio = t] = NuevaParticion(c.inicio, t, p)
<1> DEFINE d == [c EXCEPT !.pid = p]
<1>1. d = NuevaParticion(c.inicio, c.tamanio, p)
  BY PonePid
<1>2. [c EXCEPT !.pid = p, !.tamanio = t] = [d EXCEPT !.tamanio = t]
  BY Zenon
<1> HIDE DEF d
<1>3. c.inicio \in Nat /\ c.tamanio \in Nat
  BY DEF Celda
<1>4. d \in Celda /\ d.inicio = c.inicio /\ d.pid = p
  BY <1>1, <1>3, NuevaCelda
<1>5. [d EXCEPT !.tamanio = t] = NuevaParticion(c.inicio, t, p)
  BY <1>4, PoneTamanio
<1> QED BY <1>2, <1>5, Zenon

LEMMA Parte ==
    ASSUME NEW l \in Seq(Celda), Seguidas(l), SinHuecosJuntos(l),
           NEW i \in 1 .. Len(l), l[i].pid = SinPid,
           NEW p \in Pids, SinPid \notin Pids,
           NEW t \in Nat, t < l[i].tamanio, NEW r
    PROVE  r = InsertAt([l EXCEPT ![i].pid = p, ![i].tamanio = t], i + 1,
                     NuevaParticion(l[i].inicio + t, l[i].tamanio - t, SinPid))
           => Partida(r, l, i, p, t)
<1>0. SUFFICES ASSUME r = InsertAt([l EXCEPT ![i].pid = p, ![i].tamanio = t], i + 1,
                     NuevaParticion(l[i].inicio + t, l[i].tamanio - t, SinPid))
               PROVE  Partida(r, l, i, p, t)
  OBVIOUS
<1> DEFINE q == NuevaParticion(l[i].inicio, t, p)
           resto == NuevaParticion(l[i].inicio + t, l[i].tamanio - t, SinPid)
           m == [l EXCEPT ![i] = q]
           n == Len(l)
<1>1. l[i] \in Celda /\ n \in Nat /\ i \in Nat
  OBVIOUS
<1>2. l[i].inicio \in Nat /\ l[i].tamanio \in Nat /\ l[i].tamanio - t \in Nat \ {0}
  BY <1>1 DEF Celda
<1>3. /\ q \in Celda /\ q.inicio = l[i].inicio /\ q.tamanio = t /\ q.pid = p
      /\ resto \in Celda /\ resto.inicio = l[i].inicio + t /\ resto.pid = SinPid
      /\ resto.tamanio = l[i].tamanio - t
  <2> HIDE DEF q, resto
  <2>1. /\ l[i].inicio \in Nat /\ l[i].inicio + t \in Nat
        /\ l[i].tamanio - t \in Nat
    BY <1>2
  <2>2. p \in Pids \cup {SinPid} /\ SinPid \in Pids \cup {SinPid}
    OBVIOUS
  <2> DEFINE a == l[i].inicio
             c == l[i].tamanio - t
  <2>3. q \in Celda /\ q.inicio = l[i].inicio /\ q.tamanio = t /\ q.pid = p
    <3>1. q = NuevaParticion(a, t, p) /\ a \in Nat
      BY <2>1 DEF q
    <3> HIDE DEF a
    <3>2. q \in Celda /\ q.inicio = a /\ q.tamanio = t /\ q.pid = p
      BY <2>2, <3>1, NuevaCelda
    <3> QED BY <3>2 DEF a
  <2>4. /\ resto \in Celda /\ resto.inicio = l[i].inicio + t /\ resto.pid = SinPid
        /\ resto.tamanio = l[i].tamanio - t
    <3> DEFINE d == a + t
    <3>1. resto = NuevaParticion(d, c, SinPid) /\ d \in Nat /\ c \in Nat
      BY <2>1 DEF resto
    <3> HIDE DEF c, d
    <3>2. /\ resto \in Celda /\ resto.inicio = d /\ resto.pid = SinPid
          /\ resto.tamanio = c
      BY <2>2, <3>1, NuevaCelda
    <3> QED BY <3>2 DEF c, d
  <2> QED BY <2>3, <2>4
<1>4. FinDe(q) = resto.inicio /\ FinDe(resto) = FinDe(l[i])
  <2>1. \A x, y \in Nat : y - t \in Nat => (x + t) + (y - t) = x + y
    OBVIOUS
  <2> HIDE DEF q, resto
  <2>2. FinDe(q) = l[i].inicio + t
        /\ FinDe(resto) = (l[i].inicio + t) + (l[i].tamanio - t)
    BY <1>3, Zenon DEF FinDe
  <2>3. l[i].tamanio - t \in Nat
    BY <1>2
  <2> QED BY <1>2, <1>3, <2>1, <2>2, <2>3, Zenon DEF FinDe
<1>5. [l EXCEPT ![i].pid = p, ![i].tamanio = t] = m
  <2>1. [l[i] EXCEPT !.pid = p, !.tamanio = t] = q
    BY <1>1, Recorta, Zenon
  <2> DEFINE u == [l[i] EXCEPT !.pid = p]
             k == [l EXCEPT ![i] = u]
  <2>2. k \in [1 .. n -> {l[j] : j \in 1 .. n} \cup {u}] /\ k[i] = u
    BY <1>1
  <2>3. [k EXCEPT ![i].tamanio = t] = [k EXCEPT ![i] = [u EXCEPT !.tamanio = t]]
    BY <2>2
  <2>4. [u EXCEPT !.tamanio = t] = q
    BY <2>1
  <2>5. [k EXCEPT ![i] = q] = m
    OBVIOUS
  <2> QED BY <2>3, <2>4, <2>5
<1> HIDE DEF q, resto
<1>6. m \in Seq(Celda) /\ Len(m) = n /\ m[i] = q /\ \A j \in 1 .. n : j # i => m[j] = l[j]
  BY <1>3
<1>7. i + 1 \in 1 .. Len(m) + 1
  BY <1>1, <1>6
<1>8. r = InsertAt(m, i + 1, resto)
  BY <1>0, <1>5, Zenon DEF resto
<1> HIDE DEF m, n
<1>9. /\ r \in Seq(Celda) /\ Len(r) = n + 1
      /\ \A j \in 1 .. i : r[j] = m[j]
      /\ r[i + 1] = resto
      /\ \A j \in i + 1 .. n : r[j + 1] = m[j]
  <2> DEFINE k == i + 1
  <2>1. k \in 1 .. Len(m) + 1 /\ k - 1 = i /\ r = InsertAt(m, k, resto)
    BY <1>1, <1>6, <1>7, <1>8
  <2> HIDE DEF k
  <2>2. r \in Seq(Celda) /\ Insertada(r, m, k, resto)
    BY <1>3, <1>6, <2>1, InsertaEn
  <2> QED BY <1>6, <2>1, <2>2 DEF Insertada, k
<1>10. i \in 1 .. n
  BY DEF n
<1>11. /\ \A j \in 1 .. i - 1 : r[j] = l[j]
       /\ r[i] = q /\ r[i + 1] = resto
       /\ \A j \in i + 1 .. n : r[j + 1] = l[j]
  <2>1. \A j \in 1 .. i - 1 : j \in 1 .. i /\ j \in 1 .. n /\ j # i
    BY <1>1, <1>10
  <2>2. i \in 1 .. i
    BY <1>10
  <2>3. \A j \in i + 1 .. n : j \in 1 .. n /\ j # i
    BY <1>1, <1>10
  <2> QED BY <1>6, <1>9, <2>1, <2>2, <2>3
<1>12. r[1].inicio = l[1].inicio /\ FinDe(r[n + 1]) = FinDe(l[n])
  <2>1. r[1].inicio = l[1].inicio
    <3>1. CASE i = 1
      BY <1>3, <1>11, <3>1
    <3>2. CASE i # 1
      <4>1. 1 \in 1 .. i - 1
        BY <1>1, <1>10, <3>2
      <4> QED BY <1>11, <4>1
    <3> QED BY <3>1, <3>2
  <2>2. FinDe(r[n + 1]) = FinDe(l[n])
    <3>1. CASE i = n
      BY <1>4, <1>11, <3>1
    <3>2. CASE i # n
      <4>1. n \in i + 1 .. n
        BY <1>1, <1>10, <3>2
      <4> QED BY <1>11, <4>1
    <3> QED BY <3>1, <3>2
  <2> QED BY <2>1, <2>2
<1>13. ASSUME NEW j \in 1 .. n
       PROVE  /\ r[j + 1].inicio = FinDe(r[j])
              /\ ~(r[j].pid = SinPid /\ r[j + 1].pid = SinPid)
  <2>1. CASE j < i - 1
    <3>1. j \in 1 .. i - 1 /\ j + 1 \in 1 .. i - 1 /\ j \in 1 .. n - 1
      BY <1>1, <1>10, <2>1
    <3> QED BY <1>11, <3>1 DEF Seguidas, SinHuecosJuntos, n
  <2>2. CASE j = i - 1
    <3>1. j \in 1 .. i - 1 /\ j + 1 = i /\ j \in 1 .. n - 1
      BY <1>1, <1>10, <2>2
    <3>2. l[j + 1].inicio = FinDe(l[j])
      BY <3>1 DEF Seguidas, n
    <3>3. r[j] = l[j] /\ r[j + 1] = q
      BY <1>11, <3>1
    <3> QED BY <1>3, <3>1, <3>2, <3>3
  <2>3. CASE j = i
    BY <1>3, <1>4, <1>11, <2>3
  <2>4. CASE j = i + 1
    <3>1. i + 1 \in i + 1 .. n /\ i \in 1 .. n - 1
      BY <1>1, <1>10, <2>4
    <3>2. l[i + 1].inicio = FinDe(l[i]) /\ l[i + 1].pid # SinPid
      BY <3>1 DEF Seguidas, SinHuecosJuntos, n
    <3>3. r[j + 1] = l[i + 1] /\ r[j] = resto
      BY <1>11, <2>4, <3>1
    <3> QED BY <1>4, <3>2, <3>3
  <2>5. CASE j > i + 1
    <3>1. /\ j - 1 \in i + 1 .. n /\ j \in i + 1 .. n
          /\ j - 1 \in 1 .. n - 1 /\ j - 1 + 1 = j
      BY <1>1, <1>10, <2>5
    <3>2. l[j - 1 + 1].inicio = FinDe(l[j - 1])
          /\ ~(l[j - 1].pid = SinPid /\ l[j - 1 + 1].pid = SinPid)
      BY <3>1 DEF Seguidas, SinHuecosJuntos, n
    <3>3. r[j - 1 + 1] = l[j - 1] /\ r[j + 1] = l[j]
      BY <1>11, <3>1
    <3> QED BY <3>1, <3>2, <3>3
  <2>6. j < i - 1 \/ j = i - 1 \/ j = i \/ j = i + 1 \/ j > i + 1
    BY <1>1, <1>10
  <2> QED BY <2>1, <2>2, <2>3, <2>4, <2>5, <2>6
<1>14. Seguidas(r) /\ SinHuecosJuntos(r)
  <2>1. Len(r) - 1 = n
    BY <1>1, <1>9
  <2> QED BY <1>13, <2>1 DEF Seguidas, SinHuecosJuntos
<1>15. ASSUME NEW b \in Nat, NEW y \in Pids \cup {SinPid}
       PROVE  EsDe(r, Len(r), b, y) <=>
                IF l[i].inicio <= b /\ b < l[i].inicio + t THEN y = p
                ELSE EsDe(l, n, b, y)
  <2>1. (Cubre(q, b) <=> l[i].inicio <= b /\ b < l[i].inicio + t)
        /\ (Cubre(l[i], b) <=> Cubre(q, b) \/ Cubre(resto, b))
    <3>1. FinDe(q) = l[i].inicio + t /\ FinDe(l[i]) = l[i].inicio + l[i].tamanio
      BY <1>3 DEF FinDe
    <3>2. /\ Cubre(q, b) <=> l[i].inicio <= b /\ b < l[i].inicio + t
          /\ Cubre(l[i], b) <=> l[i].inicio <= b /\ b < l[i].inicio + l[i].tamanio
      BY <1>3, <3>1 DEF Cubre
    <3>3. Cubre(resto, b) <=> l[i].inicio + t <= b
                              /\ b < l[i].inicio + l[i].tamanio
      BY <1>3, <1>4, <3>1 DEF Cubre
    <3> QED BY <1>2, <3>2, <3>3
  <2>2. CASE Cubre(q, b)
    <3>1. i \in 1 .. Len(r)
      BY <1>1, <1>9, <1>10
    <3>2. \A j \in 1 .. Len(r) : Cubre(r[j], b) => j = i
      BY <1>9, <1>11, <1>14, <2>2, <3>1, UnaSola
    <3> QED BY <1>3, <1>11, <2>1, <2>2, <3>1, <3>2 DEF EsDe
  <2>3. CASE ~Cubre(q, b)
    <3>1. ASSUME EsDe(r, Len(r), b, y) PROVE EsDe(l, n, b, y)
      <4>1. PICK j \in 1 .. n + 1 : Cubre(r[j], b) /\ r[j].pid = y
        BY <1>9, <3>1 DEF EsDe
      <4>2. CASE j < i
        <5>1. j \in 1 .. i - 1 /\ j \in 1 .. n
          BY <1>1, <1>10, <4>2
        <5> QED BY <1>11, <4>1, <5>1 DEF EsDe
      <4>3. CASE j = i
        BY <1>11, <2>3, <4>1, <4>3
      <4>4. CASE j = i + 1
        BY <1>3, <1>10, <1>11, <2>1, <4>1, <4>4 DEF EsDe
      <4>5. CASE j > i + 1
        <5>1. j - 1 \in i + 1 .. n /\ j - 1 \in 1 .. n /\ j - 1 + 1 = j
          BY <1>1, <1>10, <4>5
        <5>2. r[j - 1 + 1] = l[j - 1]
          BY <1>11, <5>1
        <5> QED BY <4>1, <5>1, <5>2 DEF EsDe
      <4> QED BY <1>1, <4>2, <4>3, <4>4, <4>5
    <3>2. ASSUME EsDe(l, n, b, y) PROVE EsDe(r, Len(r), b, y)
      <4>1. PICK j \in 1 .. n : Cubre(l[j], b) /\ l[j].pid = y
        BY <3>2 DEF EsDe
      <4>2. CASE j < i
        <5>1. j \in 1 .. i - 1 /\ j \in 1 .. Len(r)
          BY <1>1, <1>9, <1>10, <4>2
        <5> QED BY <1>11, <4>1, <5>1 DEF EsDe
      <4>3. CASE j = i
        <5>1. i + 1 \in 1 .. Len(r)
          BY <1>1, <1>9, <1>10
        <5> QED BY <1>3, <1>11, <2>1, <2>3, <4>1, <4>3, <5>1 DEF EsDe
      <4>4. CASE j > i
        <5>1. j \in i + 1 .. n /\ j + 1 \in 1 .. Len(r)
          BY <1>1, <1>9, <1>10, <4>4
        <5>2. r[j + 1] = l[j]
          BY <1>11, <5>1
        <5> QED BY <4>1, <5>1, <5>2 DEF EsDe
      <4> QED BY <1>1, <4>2, <4>3, <4>4
    <3> QED BY <2>1, <2>3, <3>1, <3>2
  <2> QED BY <2>2, <2>3
<1> QED BY <1>9, <1>11, <1>12, <1>14, <1>15 DEF Partida, n, q, resto

-----------------------------------------------------------------------------
(* What holds of the list of partitions between two requests.              *)

TamaniosPositivos ==
    /\ TamMemoria > 0 /\ 0 \notin Tamanios
    /\ \A i \in 1 .. Len(Particiones) : Particiones[i] > 0

\* The list as it was read of the configuration, whoever has each partition.
DeFijas(l) ==
    /\ Len(l) = Len(Particiones)
    /\ \A i \in 1 .. Len(l) :
         l[i].inicio = Hasta[i - 1] /\ l[i].tamanio = Particiones[i]

ListaBien(l, e) ==
    /\ Ordenada(l) /\ UnaPorProceso(l)
    /\ FinDe(l[Len(l)]) <= TamMemoria
    /\ e = "DINAMICAS" => FinDe(l[Len(l)]) = TamMemoria /\ SinHuecosJuntos(l)
    /\ e = "FIJAS" => DeFijas(l)
    /\ TamaniosPositivos => Positivas(l)

\* The partitions in use of r are those of l, but for the one of p.
SalvoDe(r, l, p) ==
    \A i \in 1 .. Len(r) :
        r[i].pid \notin {SinPid, p} => \E j \in 1 .. Len(l) : r[i] = l[j]

NoTiene(l, p) == \A i \in 1 .. Len(l) : l[i].pid # p

\* Given as a whole.
LEMMA FijaDeja ==
    ASSUME NEW e, NEW l, ListaBien(l, e), NEW i \in 1 .. Len(l), l[i].pid = SinPid,
           NEW p \in Pids, SinPid \notin Pids, NoTiene(l, p),
           NEW r, Cambiada(r, l, i, p)
    PROVE  ListaBien(r, e) /\ SalvoDe(r, l, p)
<1>1. l \in Seq(Celda) /\ Len(l) \in Nat /\ l # <<>> /\ Len(l) >= 1 /\ p # SinPid
  BY DEF ListaBien, Ordenada
<1>2. Ordenada(r) /\ FinDe(r[Len(r)]) = FinDe(l[Len(l)])
  <2>1. 1 \in 1 .. Len(l) /\ Len(l) \in 1 .. Len(l) /\ l[1].inicio = 0
    BY <1>1 DEF ListaBien, Ordenada
  <2>2. r[1].inicio = 0 /\ r \in Seq(Celda) /\ Seguidas(r) /\ Len(r) = Len(l)
        /\ FinDe(r[Len(r)]) = FinDe(l[Len(l)])
    BY <2>1 DEF Cambiada
  <2> QED BY <1>1, <2>2 DEF Ordenada
<1>3. ASSUME NEW j \in 1 .. Len(l), NEW k \in 1 .. Len(l),
             r[j].pid = r[k].pid, r[j].pid # SinPid
      PROVE  j = k
  <2>1. CASE j # i /\ k # i
    <3>1. r[j] = l[j] /\ r[k] = l[k]
      BY <2>1 DEF Cambiada
    <3> QED BY <1>3, <3>1 DEF ListaBien, UnaPorProceso
  <2>2. CASE j # i /\ k = i
    BY <1>3, <2>2 DEF Cambiada, NoTiene
  <2>3. CASE j = i /\ k # i
    BY <1>3, <2>3 DEF Cambiada, NoTiene
  <2> QED BY <2>1, <2>2, <2>3
<1>4. UnaPorProceso(r)
  BY <1>3 DEF UnaPorProceso, Cambiada
<1>5. e = "DINAMICAS" => SinHuecosJuntos(r)
  <2> SUFFICES ASSUME SinHuecosJuntos(l), NEW j \in 1 .. Len(l) - 1
               PROVE  ~(r[j].pid = SinPid /\ r[j + 1].pid = SinPid)
    BY DEF ListaBien, SinHuecosJuntos, Cambiada
  <2>1. j \in 1 .. Len(l) /\ j + 1 \in 1 .. Len(l)
    BY <1>1
  <2>2. CASE j # i /\ j + 1 # i
    BY <2>1, <2>2 DEF Cambiada, SinHuecosJuntos
  <2>3. CASE j = i \/ j + 1 = i
    BY <1>1, <2>3 DEF Cambiada
  <2> QED BY <2>2, <2>3
<1>6. e = "FIJAS" => DeFijas(r)
  BY DEF ListaBien, DeFijas, Cambiada
<1>7. TamaniosPositivos => Positivas(r)
  BY DEF ListaBien, Positivas, Cambiada
<1>8. SalvoDe(r, l, p)
  BY DEF SalvoDe, Cambiada
<1> QED BY <1>2, <1>4, <1>5, <1>6, <1>7, <1>8 DEF ListaBien

\* Cut, when something is left over.
LEMMA PartidaDeja ==
    ASSUME NEW l, ListaBien(l, "DINAMICAS"),
           NEW i \in 1 .. Len(l), l[i].pid = SinPid,
           NEW p \in Pids, SinPid \notin Pids, NoTiene(l, p),
           NEW t \in Tamanios, t \in Nat, t < l[i].tamanio,
           NEW r, Partida(r, l, i, p, t)
    PROVE  ListaBien(r, "DINAMICAS") /\ SalvoDe(r, l, p)
<1>1. l \in Seq(Celda) /\ Len(l) \in Nat /\ p # SinPid /\ i \in Nat
      /\ l[i].tamanio \in Nat
  BY CeldaTipo DEF ListaBien, Ordenada
<1>2. Ordenada(r) /\ FinDe(r[Len(r)]) = FinDe(l[Len(l)])
  <2>1. /\ r \in Seq(Celda) /\ Seguidas(r) /\ r[1].inicio = l[1].inicio
        /\ Len(r) = Len(l) + 1 /\ FinDe(r[Len(r)]) = FinDe(l[Len(l)])
    BY DEF Partida
  <2>2. l[1].inicio = 0 /\ r # <<>>
    BY <1>1, <2>1 DEF ListaBien, Ordenada
  <2> QED BY <2>1, <2>2 DEF Ordenada
<1>3. SinHuecosJuntos(r)
  BY DEF Partida
\* Where each partition comes from.
<1>4. ASSUME NEW j \in 1 .. Len(r)
      PROVE  \/ j < i /\ j \in 1 .. Len(l) /\ r[j] = l[j]
             \/ j = i /\ r[j].pid = p /\ r[j].tamanio = t
             \/ j = i + 1 /\ r[j].pid = SinPid /\ r[j].tamanio = l[i].tamanio - t
             \/ j > i + 1 /\ j - 1 \in 1 .. Len(l) /\ r[j] = l[j - 1]
  <2>1. Len(r) = Len(l) + 1
    BY DEF Partida
  <2>2. CASE j < i
    <3>1. j \in 1 .. i - 1 /\ j \in 1 .. Len(l)
      BY <1>1, <2>2
    <3> QED BY <2>2, <3>1 DEF Partida
  <2>3. CASE j = i
    BY <2>3 DEF Partida, NuevaParticion
  <2>4. CASE j = i + 1
    BY <2>4 DEF Partida, NuevaParticion
  <2>5. CASE j > i + 1
    <3>1. j - 1 \in i + 1 .. Len(l) /\ j - 1 \in 1 .. Len(l) /\ j - 1 + 1 = j
      BY <1>1, <2>1, <2>5
    <3>2. r[j - 1 + 1] = l[j - 1]
      BY <3>1 DEF Partida
    <3> QED BY <2>5, <3>1, <3>2
  <2> QED BY <1>1, <2>2, <2>3, <2>4, <2>5
<1>5. UnaPorProceso(r)
  <2> SUFFICES ASSUME NEW j \in 1 .. Len(r), NEW k \in 1 .. Len(r),
                      r[j].pid = r[k].pid, r[j].pid # SinPid
               PROVE  j = k
    BY DEF UnaPorProceso
  <2> DEFINE Viene(m, o) == /\ o \in 1 .. Len(l) /\ r[m] = l[o]
                            /\ \/ m < i /\ o = m
                               \/ m > i + 1 /\ o = m - 1
  <2>1. j = i \/ \E o \in 1 .. Len(l) : Viene(j, o)
    BY <1>4
  <2>2. k = i \/ \E o \in 1 .. Len(l) : Viene(k, o)
    BY <1>4
  <2>3. r[i].pid = p
    BY DEF Partida, NuevaParticion
  <2>4. ASSUME NEW m, NEW o, Viene(m, o) PROVE r[m].pid # p
    BY <2>4 DEF NoTiene
  <2>5. CASE j = i /\ k # i
    BY <2>2, <2>3, <2>4, <2>5
  <2>6. CASE j # i /\ k = i
    BY <2>1, <2>3, <2>4, <2>6
  <2>7. CASE j # i /\ k # i
    <3>1. PICK o1 \in 1 .. Len(l) : Viene(j, o1)
      BY <2>1, <2>7
    <3>2. PICK o2 \in 1 .. Len(l) : Viene(k, o2)
      BY <2>2, <2>7
    <3>3. o1 = o2
      BY <3>1, <3>2 DEF ListaBien, UnaPorProceso
    <3> QED BY <1>1, <3>1, <3>2, <3>3
  <2> QED BY <2>5, <2>6, <2>7
<1>6. TamaniosPositivos => Positivas(r)
  <2> SUFFICES ASSUME TamaniosPositivos, NEW j \in 1 .. Len(r)
               PROVE  r[j].tamanio > 0
    BY DEF Positivas
  <2>1. t > 0 /\ l[i].tamanio - t > 0
    BY <1>1 DEF TamaniosPositivos
  <2>2. \A m \in 1 .. Len(l) : l[m].tamanio > 0
    BY DEF ListaBien, Positivas
  <2> QED BY <1>4, <2>1, <2>2
<1>7. SalvoDe(r, l, p)
  BY <1>4 DEF SalvoDe
<1> QED BY <1>2, <1>3, <1>5, <1>6, <1>7 DEF ListaBien

\* The partitions in use of r are those of l that p does not have.
QuedanSin(r, l, p) ==
    \A i \in 1 .. Len(r) :
        r[i].pid # SinPid =>
            r[i].pid # p /\ \E j \in 1 .. Len(l) : r[i] = l[j]

\* Freed, before joining the free ones.
LEMMA LiberadaDeja ==
    ASSUME NEW e, NEW l, ListaBien(l, e), NEW p \in Pids, SinPid \notin Pids,
           NEW i \in 1 .. Len(l), l[i].pid = p,
           NEW r, Cambiada(r, l, i, SinPid)
    PROVE  /\ Ordenada(r) /\ UnaPorProceso(r)
           /\ FinDe(r[Len(r)]) = FinDe(l[Len(l)])
           /\ e = "FIJAS" => DeFijas(r)
           /\ TamaniosPositivos => Positivas(r)
           /\ QuedanSin(r, l, p)
<1>1. l \in Seq(Celda) /\ Len(l) \in Nat /\ l # <<>> /\ Len(l) >= 1 /\ p # SinPid
  BY DEF ListaBien, Ordenada
<1>2. Ordenada(r) /\ FinDe(r[Len(r)]) = FinDe(l[Len(l)])
  <2>1. 1 \in 1 .. Len(l) /\ Len(l) \in 1 .. Len(l) /\ l[1].inicio = 0
    BY <1>1 DEF ListaBien, Ordenada
  <2>2. r[1].inicio = 0 /\ r \in Seq(Celda) /\ Seguidas(r) /\ Len(r) = Len(l)
        /\ FinDe(r[Len(r)]) = FinDe(l[Len(l)])
    BY <2>1 DEF Cambiada
  <2> QED BY <1>1, <2>2 DEF Ordenada
<1>3. ASSUME NEW j \in 1 .. Len(l), r[j].pid # SinPid
      PROVE  j # i /\ r[j] = l[j] /\ l[j].pid # p
  <2>1. j # i /\ r[j] = l[j]
    BY <1>3 DEF Cambiada
  <2> QED BY <1>1, <2>1 DEF ListaBien, UnaPorProceso
<1>4. Len(r) = Len(l)
  BY DEF Cambiada
<1>5. UnaPorProceso(r)
  <2>1. UnaPorProceso(l)
    BY DEF ListaBien
  <2> SUFFICES ASSUME NEW j \in 1 .. Len(l), NEW k \in 1 .. Len(l),
                      r[j].pid = r[k].pid, r[j].pid # SinPid
               PROVE  j = k
    BY <1>4 DEF UnaPorProceso
  <2>2. r[j] = l[j] /\ r[k] = l[k]
    BY <1>3
  <2> QED BY <2>1, <2>2 DEF UnaPorProceso
<1>6. e = "FIJAS" => DeFijas(r)
  BY DEF ListaBien, DeFijas, Cambiada
<1>7. TamaniosPositivos => Positivas(r)
  BY DEF ListaBien, Positivas, Cambiada
<1>8. QuedanSin(r, l, p)
  BY <1>3, <1>4 DEF QuedanSin
<1> QED BY <1>2, <1>5, <1>6, <1>7, <1>8

\* And after joining them.
LEMMA ConsolidadaDeja ==
    ASSUME NEW l, ListaBien(l, "DINAMICAS"), NEW p \in Pids, SinPid \notin Pids,
           NEW i \in 1 .. Len(l), l[i].pid = p,
           NEW r, Cambiada(r, l, i, SinPid)
    PROVE  /\ ListaBien(Consolida(r), "DINAMICAS")
           /\ QuedanSin(Consolida(r), l, p)
           /\ \A b \in Nat, y \in Pids \cup {SinPid} :
                EsDe(Consolida(r), Len(Consolida(r)), b, y) <=>
                  EsDe(r, Len(r), b, y)
<1> DEFINE h == Consolida(r)
<1>1. /\ Ordenada(r) /\ UnaPorProceso(r)
      /\ FinDe(r[Len(r)]) = FinDe(l[Len(l)])
      /\ TamaniosPositivos => Positivas(r)
      /\ QuedanSin(r, l, p)
  BY LiberadaDeja
<1>2. r \in Seq(Celda) /\ Seguidas(r) /\ Len(r) \in Nat /\ Len(r) > 0
  BY <1>1 DEF Ordenada
<1>3. Unida(r, Len(r), h)
  BY <1>1, <1>2, ConsolidaUne
<1> HIDE DEF h
<1>4. Ordenada(h) /\ FinDe(h[Len(h)]) = FinDe(l[Len(l)])
  BY <1>1, <1>2, <1>3 DEF Unida, Ordenada
<1>5. FinDe(l[Len(l)]) <= TamMemoria /\ FinDe(l[Len(l)]) = TamMemoria
  BY DEF ListaBien
<1>6. QuedanSin(h, l, p)
  <2> SUFFICES ASSUME NEW j \in 1 .. Len(h), h[j].pid # SinPid
               PROVE  h[j].pid # p /\ \E k \in 1 .. Len(l) : h[j] = l[k]
    BY DEF QuedanSin
  <2>1. PICK k \in 1 .. Len(r) : h[j] = r[k]
    BY <1>3 DEF Unida
  <2> QED BY <1>1, <2>1 DEF QuedanSin
<1>7. ListaBien(h, "DINAMICAS")
  <2>1. UnaPorProceso(h) /\ SinHuecosJuntos(h) /\ (TamaniosPositivos => Positivas(h))
    BY <1>1, <1>3 DEF Unida
  <2> QED BY <1>4, <1>5, <2>1 DEF ListaBien
<1>8. ASSUME NEW b \in Nat, NEW y \in Pids \cup {SinPid}
      PROVE  EsDe(h, Len(h), b, y) <=> EsDe(r, Len(r), b, y)
  BY <1>3 DEF Unida
<1> QED BY <1>6, <1>7, <1>8 DEF h

-----------------------------------------------------------------------------
(* The inductive invariant.                                                *)

Pasos == {"no", "pedido", "copiado", "enviado", "error"}

TipoDump == [paso : Pasos, copiados : 0 .. TamMemoria, enviados : 0 .. TamMemoria]

\* The dump of p agrees with its partition.
DumpBien(p) ==
    /\ dump[p].paso # "no" => situacion[p] \in {"vivo", "terminado"}
    /\ dump[p].paso = "copiado" =>
         \A i \in 1 .. Len(lista) :
             lista[i].pid = p => lista[i].tamanio = dump[p].copiados
    /\ dump[p].paso # "enviado" => dump[p].enviados = 0
    /\ dump[p].enviados <= dump[p].copiados

IInvParticiones ==
    /\ esquema \in Esquemas /\ algoritmo \in Algoritmos
    /\ situacion \in [Pids -> {"nuevo", "rechazado", "vivo", "terminado"}]
    /\ tam \in [Pids -> Tamanios \cup {0}]
    /\ dump \in [Pids -> TipoDump]
    /\ ListaBien(lista, esquema)
    /\ \A i \in 1 .. Len(lista) :
         lista[i].pid # SinPid => situacion[lista[i].pid] = "vivo"
    /\ \A p \in Pids : DumpBien(p)

\* No partition is larger than the memory.
LEMMA CeldasEnMemoria ==
    ASSUME NEW e, NEW l, ListaBien(l, e), NEW i \in 1 .. Len(l)
    PROVE  /\ l[i] \in [inicio : 0 .. TamMemoria, tamanio : 0 .. TamMemoria,
                        pid : Pids \cup {SinPid}]
           /\ l[i].inicio \in 0 .. TamMemoria /\ l[i].tamanio \in 0 .. TamMemoria
           /\ FinDe(l[i]) <= TamMemoria
<1>1. l \in Seq(Celda) /\ Seguidas(l) /\ FinDe(l[Len(l)]) <= TamMemoria
  BY DEF ListaBien, Ordenada
<1>2. FinDe(l[i]) <= FinDe(l[Len(l)]) /\ FinDe(l[i]) \in Nat
      /\ FinDe(l[Len(l)]) \in Nat /\ TamMemoria \in Nat
  <2>1. Len(l) \in 1 .. Len(l)
    BY <1>1
  <2> QED BY <1>1, <2>1, CeldaTipo, HastaElFinal, ParticionesAssumption DEF Configurada
<1>3. FinDe(l[i]) <= TamMemoria
  BY <1>1, <1>2
<1>4. l[i] \in Celda
  BY <1>1
<1>5. l[i].inicio \in Nat /\ l[i].tamanio \in Nat
  BY <1>4 DEF Celda
<1>6. l[i].inicio \in 0 .. TamMemoria /\ l[i].tamanio \in 0 .. TamMemoria
  BY <1>2, <1>3, <1>5 DEF FinDe
<1> QED BY <1>3, <1>4, <1>6 DEF Celda

\* The memory before the first request.
LEMMA InicioParticiones == InitParticiones => IInvParticiones
<1> SUFFICES ASSUME InitParticiones PROVE IInvParticiones
  OBVIOUS
<1>1. /\ TamMemoria \in Nat /\ Particiones \in Seq(Nat)
      /\ Hasta[Len(Particiones)] <= TamMemoria
      /\ "FIJAS" \in Esquemas => Particiones # <<>>
      /\ Esquemas \subseteq {"FIJAS", "DINAMICAS"}
  BY ParticionesAssumption DEF Configurada
<1>2. ListaBien(lista, esquema) /\ \A i \in 1 .. Len(lista) : lista[i].pid = SinPid
  <2>1. CASE esquema = "FIJAS"
    <3> DEFINE n == Len(Particiones)
    <3>1. lista = Fijas /\ n \in Nat /\ n > 0
      BY <1>1, <2>1 DEF InitParticiones
    <3>2. \A i \in 1 .. n : Particiones[i] \in Nat
      BY <1>1
    <3>3. /\ \A i \in 0 .. n : Hasta[i] \in Nat
          /\ Hasta[0] = 0 /\ \A i \in 1 .. n : Hasta[i] = Hasta[i - 1] + Particiones[i]
      BY HastaTipo
    <3>4. ASSUME NEW i \in 1 .. n
          PROVE  /\ Fijas[i] \in Celda /\ Fijas[i].inicio = Hasta[i - 1]
                 /\ Fijas[i].tamanio = Particiones[i] /\ Fijas[i].pid = SinPid
                 /\ FinDe(Fijas[i]) = Hasta[i]
      <4>1. Fijas[i] = NuevaParticion(Hasta[i - 1], Particiones[i], SinPid)
        BY DEF Fijas
      <4>2. i - 1 \in 0 .. n
        BY <3>1
      <4>3. Hasta[i - 1] \in Nat /\ Particiones[i] \in Nat
        BY <3>2, <3>3, <4>2
      <4>4. Hasta[i] = Hasta[i - 1] + Particiones[i]
        BY <3>3
      <4> QED BY <4>1, <4>3, <4>4 DEF NuevaParticion, Celda, FinDe
    <3>5. Fijas \in Seq(Celda) /\ Len(Fijas) = n
      <4>1. Fijas = [i \in 1 .. n |-> Fijas[i]]
        BY DEF Fijas
      <4> HIDE DEF n
      <4>2. Fijas \in [1 .. n -> Celda]
        BY <3>4, <4>1
      <4> QED BY <3>1, <4>2
    <3>6. Ordenada(Fijas)
      <4>1. Fijas # <<>> /\ Fijas[1].inicio = 0
        <5>1. 1 \in 1 .. n
          BY <3>1
        <5> QED BY <3>1, <3>3, <3>4, <3>5, <5>1
      <4>2. ASSUME NEW i \in 1 .. n - 1 PROVE Fijas[i + 1].inicio = FinDe(Fijas[i])
        <5>1. i \in 1 .. n /\ i + 1 \in 1 .. n /\ i + 1 - 1 = i
          BY <3>1
        <5> QED BY <3>4, <5>1
      <4> QED BY <3>5, <4>1, <4>2 DEF Ordenada, Seguidas
    <3>7. FinDe(Fijas[n]) <= TamMemoria
      BY <1>1, <3>1, <3>4
    <3>8. UnaPorProceso(Fijas) /\ DeFijas(Fijas)
      BY <3>4, <3>5 DEF UnaPorProceso, DeFijas
    <3>9. TamaniosPositivos => Positivas(Fijas)
      BY <3>4, <3>5 DEF TamaniosPositivos, Positivas
    <3> QED BY <2>1, <3>1, <3>4, <3>5, <3>6, <3>7, <3>8, <3>9 DEF ListaBien
  <2>2. CASE esquema = "DINAMICAS"
    <3> DEFINE q == NuevaParticion(0, TamMemoria, SinPid)
    <3>1. lista = <<q>>
      BY <2>2 DEF InitParticiones
    <3>2. q \in Celda /\ q.inicio = 0 /\ q.tamanio = TamMemoria /\ q.pid = SinPid
          /\ FinDe(q) = TamMemoria
      BY <1>1 DEF NuevaParticion, Celda, FinDe
    <3> HIDE DEF q
    <3>3. lista \in Seq(Celda) /\ Len(lista) = 1 /\ lista[1] = q /\ lista # <<>>
      BY <3>1, <3>2
    <3>4. \A i : i \in 1 .. Len(lista) => i = 1
      BY <3>3
    <3>5. \A i : i \notin 1 .. Len(lista) - 1
      BY <3>3
    <3>6. Ordenada(lista) /\ SinHuecosJuntos(lista)
      BY <3>2, <3>3, <3>5 DEF Ordenada, Seguidas, SinHuecosJuntos
    <3>7. UnaPorProceso(lista) /\ (TamaniosPositivos => Positivas(lista))
      BY <3>2, <3>3, <3>4 DEF UnaPorProceso, Positivas, TamaniosPositivos
    <3> QED BY <1>1, <2>2, <3>2, <3>3, <3>4, <3>6, <3>7 DEF ListaBien
  <2> QED BY <1>1, <2>1, <2>2 DEF InitParticiones
<1>3. dump \in [Pids -> TipoDump]
  BY <1>1 DEF InitParticiones, TipoDump, Pasos
<1>4. \A p \in Pids : DumpBien(p)
  BY DEF InitParticiones, DumpBien
<1> QED BY <1>2, <1>3, <1>4 DEF InitParticiones, IInvParticiones, Algoritmos

\* A process that is not in memory has no partition.
LEMMA SinParticion ==
    ASSUME IInvParticiones, NEW p \in Pids, situacion[p] # "vivo"
    PROVE  NoTiene(lista, p) /\ SinPid \notin Pids
BY ParticionesAssumption DEF IInvParticiones, NoTiene, Configurada

\* The bytes that are given for t of the i-th partition.
Dados(i, t) == IF esquema = "FIJAS" THEN lista[i].tamanio ELSE t

LEMMA AsignaDeja ==
    ASSUME IInvParticiones, NEW p \in Pids, NEW t \in Tamanios, CrearProceso(p, t),
           Elige(t) # 0
    PROVE  LET i == Elige(t)
           IN  /\ i \in 1 .. Len(lista) /\ lista[i].pid = SinPid
               /\ Dados(i, t) \in Nat /\ Dados(i, t) >= t
               /\ Dados(i, t) <= lista[i].tamanio
               /\ ListaBien(lista', esquema) /\ SalvoDe(lista', lista, p)
               /\ \A b \in Nat, y \in Pids \cup {SinPid} :
                    EsDe(lista', Len(lista'), b, y) <=>
                      IF lista[i].inicio <= b /\ b < lista[i].inicio + Dados(i, t)
                      THEN y = p ELSE EsDe(lista, Len(lista), b, y)
<1> DEFINE i == Elige(t)
<1>1. /\ ListaBien(lista, esquema) /\ lista \in Seq(Celda) /\ Seguidas(lista)
      /\ algoritmo \in Algoritmos /\ t \in Nat
  BY ParticionesAssumption DEF IInvParticiones, ListaBien, Ordenada, Configurada
<1>2. i \in 1 .. Len(lista) /\ Alcanza(i, t)
  <2>1. MejorDe(Len(lista), i, t) /\ Len(lista) \in Nat
    BY <1>1, EligeMejor
  <2> HIDE DEF i
  <2>2. i # 0
    BY DEF i
  <2> QED BY <2>1, <2>2 DEF MejorDe
<1>3. lista[i].pid = SinPid /\ t <= lista[i].tamanio
      /\ lista[i].tamanio \in Nat /\ lista[i].inicio \in Nat
  BY <1>1, <1>2, CeldaTipo DEF Alcanza, Libre
<1>4. NoTiene(lista, p) /\ SinPid \notin Pids
  BY SinParticion DEF CrearProceso
<1>5. IF esquema = "FIJAS" THEN AsignaFija(i, p) ELSE AsignaDinamica(i, p, t)
  BY DEF CrearProceso
<1> HIDE DEF i
<1> DEFINE c == [lista EXCEPT ![i].pid = p]
<1>6. Cambiada(c, lista, i, p)
  BY <1>1, <1>2, CambiaPid
<1> HIDE DEF c
<1>7. \A b : Cubre(lista[i], b) <=>
               lista[i].inicio <= b /\ b < lista[i].inicio + lista[i].tamanio
  BY DEF Cubre, FinDe
<1>8. CASE esquema = "FIJAS" \/ (esquema = "DINAMICAS" /\ t = lista[i].tamanio)
  <2>1. lista' = c
    <3>1. CASE esquema = "FIJAS"
      BY <1>5, <3>1 DEF AsignaFija, c
    <3>2. CASE esquema = "DINAMICAS" /\ t = lista[i].tamanio
      <4>1. ~(lista[i].tamanio - t > 0)
        BY <1>3, <3>2
      <4>2. lista' = [lista EXCEPT ![i].pid = p, ![i].tamanio = t]
        BY <1>5, <3>2, <4>1 DEF AsignaDinamica, NuevaParticion
      <4> DEFINE u == [lista[i] EXCEPT !.pid = p]
      <4>3. lista[i] \in Celda
        BY <1>1, <1>2
      <4>4. [u EXCEPT !.tamanio = t] = u
        BY <3>2, <4>3 DEF Celda
      <4>5. [c EXCEPT ![i].tamanio = t] = c
        BY <1>1, <1>2, <4>4 DEF c
      <4> QED BY <4>2, <4>5 DEF c
    <3> QED BY <1>8, <3>1, <3>2
  <2>2. ListaBien(lista', esquema) /\ SalvoDe(lista', lista, p)
    BY <1>1, <1>2, <1>3, <1>4, <1>6, <2>1, FijaDeja
  <2>3. Dados(i, t) = lista[i].tamanio
    BY <1>8 DEF Dados
  <2>4. \A b \in Nat, y \in Pids \cup {SinPid} :
          EsDe(lista', Len(lista'), b, y) <=>
            IF Cubre(lista[i], b) THEN y = p ELSE EsDe(lista, Len(lista), b, y)
    BY <1>6, <2>1 DEF Cambiada
  <2> QED BY <1>2, <1>3, <1>7, <2>2, <2>3, <2>4 DEF i
<1>9. CASE esquema = "DINAMICAS" /\ t # lista[i].tamanio
  <2>1. lista[i].tamanio - t > 0 /\ t < lista[i].tamanio
    BY <1>1, <1>3, <1>9
  <2> DEFINE r == InsertAt([lista EXCEPT ![i].pid = p, ![i].tamanio = t], i + 1,
                  NuevaParticion(lista[i].inicio + t, lista[i].tamanio - t, SinPid))
  <2>2. lista' = r
    BY <1>5, <1>9, <2>1 DEF AsignaDinamica, NuevaParticion
  <2>3. SinHuecosJuntos(lista)
    BY <1>1, <1>9 DEF ListaBien
  <2>4. Partida(r, lista, i, p, t)
    BY <1>1, <1>2, <1>3, <1>4, <2>1, <2>3, Parte
  <2> HIDE DEF r
  <2>5. ListaBien(r, "DINAMICAS") /\ SalvoDe(r, lista, p)
    BY <1>1, <1>2, <1>3, <1>4, <1>9, <2>1, <2>4, PartidaDeja
  <2>6. Dados(i, t) = t
    BY <1>9 DEF Dados
  <2>7. \A b \in Nat, y \in Pids \cup {SinPid} :
          EsDe(r, Len(r), b, y) <=>
            IF lista[i].inicio <= b /\ b < lista[i].inicio + t THEN y = p
            ELSE EsDe(lista, Len(lista), b, y)
    BY <2>4 DEF Partida
  <2> QED BY <1>1, <1>2, <1>3, <1>9, <2>2, <2>5, <2>6, <2>7 DEF i
<1>10. esquema \in {"FIJAS", "DINAMICAS"}
  BY ParticionesAssumption DEF IInvParticiones, Configurada
<1> QED BY <1>8, <1>9, <1>10

LEMMA LiberaDeja ==
    ASSUME IInvParticiones, NEW p \in Pids, FinalizarProceso(p)
    PROVE  \E i \in 1 .. Len(lista) :
             /\ lista[i].pid = p
             /\ ListaBien(lista', esquema) /\ QuedanSin(lista', lista, p)
             /\ \A b \in Nat, y \in Pids \cup {SinPid} :
                  EsDe(lista', Len(lista'), b, y) <=>
                    IF Cubre(lista[i], b) THEN y = SinPid
                    ELSE EsDe(lista, Len(lista), b, y)
<1>1. PICK i \in 1 .. Len(lista) :
        /\ lista[i].pid = p
        /\ LET liberada == [lista EXCEPT ![i].pid = SinPid]
           IN  lista' = IF esquema = "DINAMICAS" THEN Consolida(liberada)
                        ELSE liberada
  BY DEF FinalizarProceso
<1>2. /\ ListaBien(lista, esquema) /\ lista \in Seq(Celda) /\ Seguidas(lista)
      /\ SinPid \notin Pids /\ esquema \in {"FIJAS", "DINAMICAS"}
  BY ParticionesAssumption DEF IInvParticiones, ListaBien, Ordenada, Configurada
<1> DEFINE r == [lista EXCEPT ![i].pid = SinPid]
<1>3. Cambiada(r, lista, i, SinPid)
  BY <1>2, CambiaPid
<1>4. lista' = IF esquema = "DINAMICAS" THEN Consolida(r) ELSE r
  BY <1>1
<1> HIDE DEF r
<1>5. \A b \in Nat, y \in Pids \cup {SinPid} :
        EsDe(r, Len(r), b, y) <=>
          IF Cubre(lista[i], b) THEN y = SinPid ELSE EsDe(lista, Len(lista), b, y)
  BY <1>3 DEF Cambiada
<1>6. CASE esquema = "FIJAS"
  <2>1. lista' = r
    BY <1>4, <1>6
  <2>2. /\ Ordenada(r) /\ UnaPorProceso(r)
        /\ FinDe(r[Len(r)]) = FinDe(lista[Len(lista)])
        /\ DeFijas(r) /\ (TamaniosPositivos => Positivas(r))
        /\ QuedanSin(r, lista, p)
    BY <1>1, <1>2, <1>3, <1>6, LiberadaDeja
  <2>3. FinDe(r[Len(r)]) <= TamMemoria
    BY <1>2, <2>2 DEF ListaBien
  <2>4. ListaBien(r, esquema)
    BY <1>6, <2>2, <2>3 DEF ListaBien
  <2> QED BY <1>1, <1>5, <2>1, <2>2, <2>4
<1>7. CASE esquema = "DINAMICAS"
  <2>1. lista' = Consolida(r)
    BY <1>4, <1>7
  <2>2. /\ ListaBien(Consolida(r), "DINAMICAS")
        /\ QuedanSin(Consolida(r), lista, p)
        /\ \A b \in Nat, y \in Pids \cup {SinPid} :
             EsDe(Consolida(r), Len(Consolida(r)), b, y) <=> EsDe(r, Len(r), b, y)
    BY <1>1, <1>2, <1>3, <1>7, ConsolidadaDeja
  <2> QED BY <1>1, <1>5, <1>7, <2>1, <2>2
<1> QED BY <1>2, <1>6, <1>7

LEMMA CrearConserva ==
    ASSUME IInvParticiones, NEW p \in Pids, NEW t \in Tamanios, CrearProceso(p, t)
    PROVE  IInvParticiones'
<1> USE DEF IInvParticiones
<1>1. /\ UNCHANGED <<esquema, algoritmo, dump>>
      /\ tam' = [tam EXCEPT ![p] = t]
      /\ situacion[p] \in {"nuevo", "rechazado"}
  BY DEF CrearProceso, config
<1>2. dump[p].paso = "no"
  BY <1>1 DEF DumpBien
<1>3. \/ /\ situacion' = [situacion EXCEPT ![p] = "rechazado"] /\ lista' = lista
         /\ Elige(t) = 0
      \/ situacion' = [situacion EXCEPT ![p] = "vivo"] /\ Elige(t) # 0
  BY DEF CrearProceso
<1>4. /\ situacion' \in [Pids -> {"nuevo", "rechazado", "vivo", "terminado"}]
      /\ tam' \in [Pids -> Tamanios \cup {0}]
  BY <1>1, <1>3
<1>5. \A q \in Pids : q # p => situacion'[q] = situacion[q]
  BY <1>3
<1>6. ListaBien(lista', esquema) /\ SalvoDe(lista', lista, p)
  <2>1. CASE lista' = lista
    BY <2>1 DEF SalvoDe
  <2>2. CASE Elige(t) # 0
    BY <2>2, AsignaDeja
  <2> QED BY <1>3, <2>1, <2>2
<1>7. ASSUME NEW i \in 1 .. Len(lista'), lista'[i].pid # SinPid
      PROVE  situacion'[lista'[i].pid] = "vivo"
  <2>1. CASE lista'[i].pid = p
    <3>1. Elige(t) # 0
      <4> SUFFICES ASSUME lista' = lista PROVE FALSE
        BY <1>3
      <4> QED BY <1>1, <1>7, <2>1
    <3> QED BY <1>3, <2>1, <3>1
  <2>2. CASE lista'[i].pid # p
    <3>1. PICK j \in 1 .. Len(lista) : lista'[i] = lista[j]
      BY <1>6, <1>7, <2>2 DEF SalvoDe
    <3>2. lista[j].pid \in Pids \cup {SinPid}
      BY CeldaTipo DEF ListaBien, Ordenada
    <3> QED BY <1>5, <1>7, <2>2, <3>1, <3>2
  <2> QED BY <2>1, <2>2
<1>8. ASSUME NEW q \in Pids PROVE DumpBien(q)'
  <2>1. CASE q = p
    BY <1>1, <1>2, <2>1 DEF DumpBien
  <2>2. CASE q # p
    <3>1. ASSUME dump[q].paso = "copiado", NEW i \in 1 .. Len(lista'),
                 lista'[i].pid = q
          PROVE  lista'[i].tamanio = dump[q].copiados
      <4>1. q # SinPid
        BY ParticionesAssumption DEF Configurada
      <4>2. PICK j \in 1 .. Len(lista) : lista'[i] = lista[j]
        BY <1>6, <2>2, <3>1, <4>1 DEF SalvoDe
      <4> QED BY <3>1, <4>2 DEF DumpBien
    <3>2. DumpBien(q)
      OBVIOUS
    <3> QED BY <1>1, <1>5, <2>2, <3>1, <3>2 DEF DumpBien
  <2> QED BY <2>1, <2>2
<1> QED BY <1>1, <1>4, <1>6, <1>7, <1>8

LEMMA FinalizarConserva ==
    ASSUME IInvParticiones, NEW p \in Pids, FinalizarProceso(p)
    PROVE  IInvParticiones'
<1> USE DEF IInvParticiones
<1>1. /\ UNCHANGED <<esquema, algoritmo, tam, dump>>
      /\ situacion[p] = "vivo"
      /\ situacion' = [situacion EXCEPT ![p] = "terminado"]
  BY DEF FinalizarProceso, config
<1>2. ListaBien(lista', esquema) /\ QuedanSin(lista', lista, p)
  BY LiberaDeja
<1>3. ASSUME NEW i \in 1 .. Len(lista'), lista'[i].pid # SinPid
      PROVE  /\ situacion'[lista'[i].pid] = "vivo"
             /\ \E j \in 1 .. Len(lista) : lista'[i] = lista[j]
  <2>1. PICK j \in 1 .. Len(lista) : lista'[i] = lista[j] /\ lista'[i].pid # p
    BY <1>2, <1>3 DEF QuedanSin
  <2>2. lista[j].pid \in Pids \cup {SinPid}
    BY CeldaTipo DEF ListaBien, Ordenada
  <2> QED BY <1>1, <1>3, <2>1, <2>2
<1>4. ASSUME NEW q \in Pids PROVE DumpBien(q)'
  <2>1. ASSUME dump[q].paso = "copiado", NEW i \in 1 .. Len(lista'),
               lista'[i].pid = q
        PROVE  lista'[i].tamanio = dump[q].copiados
    <3>1. q # SinPid
      BY ParticionesAssumption DEF Configurada
    <3>2. PICK j \in 1 .. Len(lista) : lista'[i] = lista[j]
      BY <1>3, <2>1, <3>1
    <3> QED BY <2>1, <3>2 DEF DumpBien
  <2>2. DumpBien(q)
    OBVIOUS
  <2>3. situacion[q] \in {"vivo", "terminado"} => situacion'[q] \in {"vivo", "terminado"}
    BY <1>1
  <2> QED BY <1>1, <2>1, <2>2, <2>3 DEF DumpBien
<1> QED BY <1>1, <1>2, <1>3, <1>4

\* The three steps of a dump.
LEMMA DumpConserva ==
    ASSUME IInvParticiones, NEW p \in Pids,
           PideDump(p) \/ DumpCopia(p) \/ DumpEnvia(p)
    PROVE  IInvParticiones' /\ UNCHANGED <<esquema, algoritmo, lista, situacion, tam>>
<1>1. UNCHANGED <<esquema, algoritmo, lista, situacion, tam>>
  BY DEF PideDump, DumpCopia, DumpEnvia, config
<1>2. /\ dump[p] \in TipoDump /\ DumpBien(p) /\ ListaBien(lista, esquema)
      /\ dump[p].copiados \in 0 .. TamMemoria /\ dump[p].enviados \in 0 .. TamMemoria
      /\ TamMemoria \in Nat /\ SinPid \notin Pids
  BY ParticionesAssumption DEF IInvParticiones, TipoDump, Configurada
<1>3. \A i \in 1 .. Len(lista) : lista[i].tamanio \in 0 .. TamMemoria
  BY <1>2, CeldasEnMemoria
<1> DEFINE Bien(d) ==
             /\ d.paso # "no" => situacion[p] \in {"vivo", "terminado"}
             /\ d.paso = "copiado" =>
                  \A i \in 1 .. Len(lista) :
                      lista[i].pid = p => lista[i].tamanio = d.copiados
             /\ d.paso # "enviado" => d.enviados = 0
             /\ d.enviados <= d.copiados
<1>4. ASSUME NEW d \in TipoDump, dump' = [dump EXCEPT ![p] = d], Bien(d)
      PROVE  IInvParticiones'
  <2>1. dump' \in [Pids -> TipoDump] /\ dump'[p] = d
        /\ \A q \in Pids : q # p => dump'[q] = dump[q]
    BY <1>4 DEF IInvParticiones
  <2>2. ASSUME NEW q \in Pids PROVE DumpBien(q)'
    <3>1. CASE q = p
      BY <1>1, <1>4, <2>1, <3>1 DEF DumpBien
    <3>2. CASE q # p
      <4>1. DumpBien(q)
        BY DEF IInvParticiones
      <4> QED BY <1>1, <2>1, <3>2, <4>1 DEF DumpBien
    <3> QED BY <3>1, <3>2
  <2> QED BY <1>1, <2>1, <2>2 DEF IInvParticiones
<1>5. CASE PideDump(p)
  <2> DEFINE d == [dump[p] EXCEPT !.paso = "pedido"]
  <2>1. d \in TipoDump /\ d.paso = "pedido" /\ d.copiados = dump[p].copiados
        /\ d.enviados = dump[p].enviados
    BY <1>2 DEF TipoDump, Pasos
  <2>2. dump' = [dump EXCEPT ![p] = d] /\ situacion[p] = "vivo" /\ dump[p].paso = "no"
    BY <1>5 DEF PideDump
  <2> HIDE DEF d
  <2>3. Bien(d)
    BY <1>2, <2>1, <2>2 DEF DumpBien
  <2> HIDE DEF Bien
  <2> QED BY <1>1, <1>4, <2>1, <2>2, <2>3
<1>6. CASE DumpCopia(p)
  <2>1. dump[p].paso = "pedido" /\ dump[p].enviados = 0
        /\ situacion[p] \in {"vivo", "terminado"}
    BY <1>2, <1>6 DEF DumpCopia, DumpBien
  <2>2. CASE \E i \in 1 .. Len(lista) :
               /\ lista[i].pid = p
               /\ dump' = [dump EXCEPT ![p].paso = "copiado",
                                       ![p].copiados = lista[i].tamanio]
    <3>1. PICK i \in 1 .. Len(lista) :
            /\ lista[i].pid = p
            /\ dump' = [dump EXCEPT ![p].paso = "copiado",
                                    ![p].copiados = lista[i].tamanio]
      BY <2>2
    <3> DEFINE d == [dump[p] EXCEPT !.paso = "copiado", !.copiados = lista[i].tamanio]
    <3>2. lista[i].tamanio \in 0 .. TamMemoria
      BY <1>3
    <3>3. d \in TipoDump /\ d.paso = "copiado" /\ d.copiados = lista[i].tamanio
          /\ d.enviados = dump[p].enviados
      BY <1>2, <3>2 DEF TipoDump, Pasos
    <3>4. dump' = [dump EXCEPT ![p] = d]
      BY <1>2, <3>1 DEF IInvParticiones, TipoDump
    <3> HIDE DEF d
    <3>5. \A j \in 1 .. Len(lista) : lista[j].pid = p => j = i
      BY <1>2, <3>1 DEF ListaBien, UnaPorProceso
    <3>6. Bien(d)
      BY <1>2, <2>1, <3>2, <3>3, <3>5
    <3> HIDE DEF Bien
    <3> QED BY <1>1, <1>4, <3>3, <3>4, <3>6
  <2>3. CASE dump' = [dump EXCEPT ![p].paso = "error"]
    <3> DEFINE d == [dump[p] EXCEPT !.paso = "error"]
    <3>1. d \in TipoDump /\ d.paso = "error" /\ d.copiados = dump[p].copiados
          /\ d.enviados = dump[p].enviados
      BY <1>2 DEF TipoDump, Pasos
    <3>2. dump' = [dump EXCEPT ![p] = d]
      BY <2>3
    <3> HIDE DEF d
    <3>3. Bien(d)
      BY <1>2, <2>1, <3>1 DEF DumpBien
    <3> HIDE DEF Bien
    <3> QED BY <1>1, <1>4, <3>1, <3>2, <3>3
  <2> QED BY <1>6, <2>2, <2>3 DEF DumpCopia
<1>7. CASE DumpEnvia(p)
  <2>1. dump[p].paso = "copiado" /\ situacion[p] \in {"vivo", "terminado"}
        /\ \A i \in 1 .. Len(lista) :
             lista[i].pid = p => lista[i].tamanio = dump[p].copiados
    BY <1>2, <1>7 DEF DumpEnvia, DumpBien
  <2>2. PICK n : /\ n = 0 \/ n = dump[p].copiados
                 /\ dump' = [dump EXCEPT ![p].paso = "enviado", ![p].enviados = n]
    BY <1>7, <2>1 DEF DumpEnvia
  <2> DEFINE d == [dump[p] EXCEPT !.paso = "enviado", !.enviados = n]
  <2>3. n \in 0 .. TamMemoria /\ n <= dump[p].copiados
    BY <1>2, <2>2
  <2>4. d \in TipoDump /\ d.paso = "enviado" /\ d.copiados = dump[p].copiados
        /\ d.enviados = n
    BY <1>2, <2>3 DEF TipoDump, Pasos
  <2>5. dump' = [dump EXCEPT ![p] = d]
    BY <1>2, <2>2 DEF IInvParticiones, TipoDump
  <2> HIDE DEF d
  <2>6. Bien(d)
    BY <1>2, <2>1, <2>3, <2>4
  <2> HIDE DEF Bien
  <2> QED BY <1>1, <1>4, <2>4, <2>5, <2>6
<1> QED BY <1>1, <1>5, <1>6, <1>7

LEMMA PasoParticiones ==
    IInvParticiones /\ [NextParticiones]_varsParticiones => IInvParticiones'
<1> SUFFICES ASSUME IInvParticiones, [NextParticiones]_varsParticiones
             PROVE  IInvParticiones'
  OBVIOUS
<1>1. ASSUME NEW p \in Pids, NEW t \in Tamanios, CrearProceso(p, t)
      PROVE  IInvParticiones'
  BY <1>1, CrearConserva
<1>2. ASSUME NEW p \in Pids, FinalizarProceso(p) PROVE IInvParticiones'
  BY <1>2, FinalizarConserva
<1>3. ASSUME NEW p \in Pids, PideDump(p) \/ DumpCopia(p) \/ DumpEnvia(p)
      PROVE  IInvParticiones'
  BY <1>3, DumpConserva
<1>4. ASSUME UNCHANGED varsParticiones PROVE IInvParticiones'
  BY <1>4 DEF varsParticiones, config, IInvParticiones, DumpBien
<1> QED BY <1>1, <1>2, <1>3, <1>4 DEF NextParticiones

\* The inductive invariant holds always: the list is well formed between two
\* requests, and each dump agrees with the partition of its process.
THEOREM InvarianciaParticiones == SpecParticiones => []IInvParticiones
BY InicioParticiones, PasoParticiones, PTL DEF SpecParticiones

\* Every variable of the partitions has its type: the first byte and the size
\* of each one are between 0 and TAM_MEMORIA, with both schemes.
THEOREM TipoParticiones == SpecParticiones => []TypeOKParticiones
<1>1. IInvParticiones => TypeOKParticiones
  <2> SUFFICES ASSUME IInvParticiones PROVE TypeOKParticiones
    OBVIOUS
  <2> DEFINE T == [inicio : 0 .. TamMemoria, tamanio : 0 .. TamMemoria,
                   pid : Pids \cup {SinPid}]
  <2>1. \A i \in 1 .. Len(lista) : lista[i] \in T
    BY CeldasEnMemoria DEF IInvParticiones
  <2>2. lista \in Seq(Celda)
    BY DEF IInvParticiones, ListaBien, Ordenada
  <2> HIDE DEF T
  <2>3. lista \in Seq(T)
    BY <2>1, <2>2
  <2> QED BY <2>3 DEF IInvParticiones, TypeOKParticiones, Algoritmos, TipoDump,
                      Pasos, T
<1> QED BY <1>1, InvarianciaParticiones, PTL

\* The partitions always tile the memory: no byte is in two of them, and with
\* DINAMICAS none is lost by asignar_memoria_dinamica nor by
\* consolidar_particiones.
THEOREM SiempreMosaico == SpecParticiones => []Mosaico
<1>1. IInvParticiones => Mosaico
  BY DEF IInvParticiones, Mosaico, ListaBien, Ordenada, Seguidas, FinDe, Last
<1> QED BY <1>1, InvarianciaParticiones, PTL

\* first_fit_partition, best_fit_partition and worst_fit_partition choose what
\* their names say, the first in the list when several are as good.
THEOREM SiempreElAjuste == SpecParticiones => []AjusteElegido
<1>1. IInvParticiones => AjusteElegido
  BY EligeAjuste, ParticionesAssumption
     DEF IInvParticiones, ListaBien, Ordenada, Configurada
<1> QED BY <1>1, InvarianciaParticiones, PTL

\* What a dump sends to the filesystem was copied, although the process may
\* end, and its partition be joined and given again, between the two locks of
\* memory_dump.
THEOREM SoloLoCopiado == SpecParticiones => []EnviadoDentroDeLoCopiado
<1>1. IInvParticiones => EnviadoDentroDeLoCopiado
  BY DEF IInvParticiones, EnviadoDentroDeLoCopiado, DumpBien
<1> QED BY <1>1, InvarianciaParticiones, PTL

-----------------------------------------------------------------------------
(* The list of partitions implements MemoriaContigua.                      *)

Bytes == 0 .. TamMemoria - 1

\* The process of a byte is the one of the partition that the byte is in.
LEMMA DuenoDe ==
    ASSUME NEW l \in Seq(Celda), Seguidas(l), NEW b \in Bytes, TamMemoria \in Nat,
           NEW i \in 1 .. Len(l), Cubre(l[i], b)
    PROVE  Duenos(l)[b] = l[i].pid
<1> DEFINE cubren == {k \in 1 .. Len(l) :
              b \in l[k].inicio .. l[k].inicio + l[k].tamanio - 1}
<1>1. b \in Nat
  BY DEF Bytes
<1>2. \A k \in 1 .. Len(l) : k \in cubren <=> Cubre(l[k], b)
  <2> TAKE k \in 1 .. Len(l)
  <2>1. l[k].inicio \in Nat /\ l[k].tamanio \in Nat
    BY CeldaTipo
  <2> QED BY <1>1, <2>1 DEF Cubre, FinDe
<1>3. \A k \in cubren : k = i
  BY <1>1, <1>2, UnaSola
<1>4. i \in cubren
  BY <1>2
<1>5. Duenos(l)[b] = IF cubren = {} THEN SinPid
                     ELSE l[CHOOSE k \in cubren : TRUE].pid
  BY DEF Duenos, Bytes
<1> HIDE DEF cubren
<1>6. (CHOOSE k \in cubren : TRUE) = i
  BY <1>3, <1>4
<1> QED BY <1>4, <1>5, <1>6

LEMMA DuenoNadie ==
    ASSUME NEW l \in Seq(Celda), NEW b \in Bytes, TamMemoria \in Nat,
           \A i \in 1 .. Len(l) : ~Cubre(l[i], b)
    PROVE  Duenos(l)[b] = SinPid
<1> DEFINE cubren == {k \in 1 .. Len(l) :
              b \in l[k].inicio .. l[k].inicio + l[k].tamanio - 1}
<1>1. ASSUME NEW k \in 1 .. Len(l) PROVE k \notin cubren
  <2>1. l[k].inicio \in Nat /\ l[k].tamanio \in Nat /\ b \in Nat
    BY CeldaTipo DEF Bytes
  <2> QED BY <2>1 DEF Cubre, FinDe
<1>2. cubren = {}
  BY <1>1
<1>3. Duenos(l)[b] = IF cubren = {} THEN SinPid
                     ELSE l[CHOOSE k \in cubren : TRUE].pid
  BY DEF Duenos, Bytes
<1> QED BY <1>2, <1>3

LEMMA DuenoTipo ==
    ASSUME NEW l \in Seq(Celda), Seguidas(l), NEW b \in Bytes, TamMemoria \in Nat,
           SinPid \notin Pids
    PROVE  /\ Duenos(l)[b] \in Pids \cup {SinPid}
           /\ \A y \in Pids : EsDe(l, Len(l), b, y) <=> Duenos(l)[b] = y
<1>1. CASE \E i \in 1 .. Len(l) : Cubre(l[i], b)
  <2>1. PICK i \in 1 .. Len(l) : Cubre(l[i], b)
    BY <1>1
  <2>2. Duenos(l)[b] = l[i].pid /\ l[i].pid \in Pids \cup {SinPid} /\ b \in Nat
    BY <2>1, DuenoDe, CeldaTipo DEF Bytes
  <2>3. \A j \in 1 .. Len(l) : Cubre(l[j], b) => j = i
    BY <2>1, <2>2, UnaSola
  <2> QED BY <2>1, <2>2, <2>3 DEF EsDe
<1>2. CASE ~\E i \in 1 .. Len(l) : Cubre(l[i], b)
  <2>1. Duenos(l)[b] = SinPid
    BY <1>2, DuenoNadie
  <2> QED BY <1>2, <2>1 DEF EsDe
<1> QED BY <1>1, <1>2

\* Two lists that give the same bytes to each process have the same owners.
LEMMA MismosDuenos ==
    ASSUME NEW l \in Seq(Celda), Seguidas(l), TamMemoria \in Nat, SinPid \notin Pids,
           NEW w \in [Bytes -> Pids \cup {SinPid}],
           \A b \in Bytes, y \in Pids : EsDe(l, Len(l), b, y) <=> w[b] = y
    PROVE  Duenos(l) = w
<1>1. ASSUME NEW b \in Bytes PROVE Duenos(l)[b] = w[b]
  <2>1. /\ Duenos(l)[b] \in Pids \cup {SinPid}
        /\ \A y \in Pids : EsDe(l, Len(l), b, y) <=> Duenos(l)[b] = y
    BY DuenoTipo
  <2>2. \A y \in Pids : Duenos(l)[b] = y <=> w[b] = y
    BY <2>1
  <2>3. w[b] \in Pids \cup {SinPid}
    OBVIOUS
  <2> QED BY <2>1, <2>2, <2>3
<1>2. Duenos(l) = [b \in Bytes |-> Duenos(l)[b]]
  BY DEF Duenos, Bytes
<1>3. w = [b \in Bytes |-> w[b]]
  OBVIOUS
<1> QED BY <1>1, <1>2, <1>3

\* The pieces of MemoriaContigua are the partitions of the list, with FIJAS.
LEMMA PiezasDeLaLista ==
    ASSUME IInvParticiones
    PROVE  /\ esquema = "DINAMICAS" => Piezas = {}
           /\ esquema = "FIJAS" =>
                /\ Piezas = {<<lista[i].inicio, lista[i].tamanio>> :
                               i \in 1 .. Len(lista)}
                /\ Piezas # {}
<1>1. CASE esquema = "DINAMICAS"
  BY <1>1 DEF Piezas
<1>2. CASE esquema = "FIJAS"
  <2>1. DeFijas(lista) /\ lista \in Seq(Celda) /\ lista # <<>>
    BY <1>2 DEF IInvParticiones, ListaBien, Ordenada
  <2>2. Len(Fijas) = Len(Particiones) /\ Len(lista) = Len(Particiones)
    <3>1. Len(Particiones) \in Nat
      BY ParticionesAssumption DEF Configurada
    <3> QED BY <2>1, <3>1 DEF Fijas, DeFijas
  <2>3. \A i \in 1 .. Len(lista) :
          Fijas[i].inicio = lista[i].inicio /\ Fijas[i].tamanio = lista[i].tamanio
    BY <2>1, <2>2 DEF DeFijas, Fijas, NuevaParticion
  <2>4. Piezas = {<<Fijas[i].inicio, Fijas[i].tamanio>> : i \in 1 .. Len(Fijas)}
    BY <1>2 DEF Piezas
  <2>5. Piezas = {<<lista[i].inicio, lista[i].tamanio>> : i \in 1 .. Len(lista)}
    BY <2>2, <2>3, <2>4
  <2>6. 1 \in 1 .. Len(lista)
    BY <2>1
  <2>7. <<lista[1].inicio, lista[1].tamanio>> \in Piezas
    BY <2>5, <2>6
  <2> QED BY <1>2, <2>5, <2>7
<1> QED BY <1>1, <1>2

LEMMA SabeContigua ==
    ASSUME IInvParticiones
    PROVE  /\ ListaBien(lista, esquema) /\ lista \in Seq(Celda) /\ Seguidas(lista)
           /\ TamMemoria \in Nat /\ SinPid \notin Pids /\ Tamanios \subseteq Nat
           /\ esquema \in {"FIJAS", "DINAMICAS"}
           /\ Duenos(lista) \in [Bytes -> Pids \cup {SinPid}]
<1>1. /\ ListaBien(lista, esquema) /\ lista \in Seq(Celda) /\ Seguidas(lista)
      /\ TamMemoria \in Nat /\ SinPid \notin Pids /\ Tamanios \subseteq Nat
      /\ esquema \in {"FIJAS", "DINAMICAS"}
  BY ParticionesAssumption DEF IInvParticiones, ListaBien, Ordenada, Configurada
<1>2. \A b \in Bytes : Duenos(lista)[b] \in Pids \cup {SinPid}
  BY <1>1, DuenoTipo
<1>3. Duenos(lista) = [b \in Bytes |-> Duenos(lista)[b]]
  BY DEF Duenos, Bytes
<1>4. Duenos(lista) \in [Bytes -> Pids \cup {SinPid}]
  BY <1>2, <1>3
<1> QED BY <1>1, <1>4

\* A partition that is found holds the bytes that are given.
LEMMA PasoAsigna ==
    ASSUME IInvParticiones, IInvParticiones', TamaniosPositivos,
           NEW p \in Pids, NEW t \in Tamanios, CrearProceso(p, t), Elige(t) # 0
    PROVE  Contigua!Asigna(p, t)
<1> DEFINE i == Elige(t)
           n == Dados(i, t)
           base == lista[i].inicio
<1>1. /\ i \in 1 .. Len(lista) /\ lista[i].pid = SinPid
      /\ n \in Nat /\ n >= t /\ n <= lista[i].tamanio
      /\ \A b \in Nat, y \in Pids \cup {SinPid} :
           EsDe(lista', Len(lista'), b, y) <=>
             IF base <= b /\ b < base + n THEN y = p
             ELSE EsDe(lista, Len(lista), b, y)
  BY AsignaDeja
<1>2. /\ ListaBien(lista, esquema) /\ lista \in Seq(Celda) /\ Seguidas(lista)
      /\ TamMemoria \in Nat /\ SinPid \notin Pids /\ t \in Nat /\ t # 0
      /\ esquema \in {"FIJAS", "DINAMICAS"}
      /\ Duenos(lista) \in [Bytes -> Pids \cup {SinPid}]
  BY SabeContigua DEF TamaniosPositivos
<1>3. lista' \in Seq(Celda) /\ Seguidas(lista')
  BY DEF IInvParticiones, ListaBien, Ordenada
<1>4. base \in Nat /\ lista[i].tamanio \in Nat /\ base + lista[i].tamanio <= TamMemoria
      /\ FinDe(lista[i]) = base + lista[i].tamanio
  BY <1>1, <1>2, CeldasEnMemoria DEF FinDe
<1>5. n > 0 /\ (esquema = "DINAMICAS" => n = t)
      /\ (esquema = "FIJAS" => n = lista[i].tamanio)
  BY <1>1, <1>2 DEF Dados
<1> HIDE DEF i, n
<1>6. base \in Bytes /\ n \in 1 .. TamMemoria /\ base + n <= TamMemoria
  BY <1>1, <1>2, <1>4, <1>5 DEF Bytes
<1>7. ASSUME NEW b \in base .. base + n - 1
      PROVE  b \in Bytes /\ Duenos(lista)[b] = SinPid
  <2>1. b \in Bytes /\ Cubre(lista[i], b)
    <3> DEFINE m == lista[i].tamanio
    <3>1. base \in Nat /\ m \in Nat /\ n \in Nat /\ n <= m /\ TamMemoria \in Nat
      BY <1>1, <1>2, <1>4
    <3>2. base + m <= TamMemoria /\ FinDe(lista[i]) = base + m
      BY <1>4
    <3> HIDE DEF base, m
    <3>3. b \in Nat /\ base <= b /\ b < base + m /\ b < TamMemoria
      BY <3>1, <3>2
    <3> QED BY <1>2, <3>2, <3>3 DEF Cubre, Bytes, base
  <2> QED BY <1>1, <1>2, <2>1, DuenoDe
<1>8. Contigua!Hueco(base, n, t)
  <2>1. CASE esquema = "DINAMICAS"
    <3>1. Piezas = {}
      BY <2>1, PiezasDeLaLista
    <3> QED BY <1>5, <1>6, <1>7, <2>1, <3>1 DEF Contigua!Hueco
  <2>2. CASE esquema = "FIJAS"
    <3>1. Piezas # {} /\ <<base, n>> \in Piezas
      BY <1>1, <1>5, <2>2, PiezasDeLaLista
    <3> QED BY <1>1, <1>6, <1>7, <3>1 DEF Contigua!Hueco
  <2> QED BY <1>2, <2>1, <2>2
<1> DEFINE w == [b \in Bytes |-> IF b \in base .. base + n - 1 THEN p
                                 ELSE Duenos(lista)[b]]
<1>9. Duenos(lista') = w
  <2>1. w \in [Bytes -> Pids \cup {SinPid}]
    BY <1>2
  <2>2. ASSUME NEW b \in Bytes, NEW y \in Pids
        PROVE  EsDe(lista', Len(lista'), b, y) <=> w[b] = y
    <3>1. b \in Nat /\ (b \in base .. base + n - 1 <=> base <= b /\ b < base + n)
      <4>1. b \in Nat /\ base \in Nat /\ n \in Nat
        BY <1>1, <1>2, <1>4 DEF Bytes
      <4> HIDE DEF base
      <4> QED BY <4>1
    <3>2. EsDe(lista, Len(lista), b, y) <=> Duenos(lista)[b] = y
      BY <1>2, DuenoTipo
    <3>3. EsDe(lista', Len(lista'), b, y) <=>
            IF base <= b /\ b < base + n THEN y = p ELSE EsDe(lista, Len(lista), b, y)
      BY <1>1, <3>1
    <3> QED BY <3>1, <3>2, <3>3
  <2> HIDE DEF w
  <2> QED BY <1>2, <1>3, <2>1, <2>2, MismosDuenos
<1>10. situacion' = [situacion EXCEPT ![p] = "vivo"]
  BY DEF CrearProceso
<1> HIDE DEF base
<1> QED BY <1>6, <1>8, <1>9, <1>10 DEF Contigua!Asigna, Contigua!Bytes, Bytes

\* A process is refused only when there is no hole for it.
LEMMA PasoRechaza ==
    ASSUME IInvParticiones, TamaniosPositivos,
           NEW p \in Pids, NEW t \in Tamanios, CrearProceso(p, t), Elige(t) = 0
    PROVE  Contigua!Rechaza(p, t)
<1>1. /\ ListaBien(lista, esquema) /\ lista \in Seq(Celda) /\ Seguidas(lista)
      /\ TamMemoria \in Nat /\ SinPid \notin Pids /\ t \in Nat /\ t # 0
      /\ esquema \in {"FIJAS", "DINAMICAS"} /\ Ordenada(lista)
      /\ Len(lista) \in Nat /\ algoritmo \in Algoritmos /\ Positivas(lista)
  BY SabeContigua DEF TamaniosPositivos, IInvParticiones, ListaBien, Ordenada
<1>2. \A i \in 1 .. Len(lista) : ~Alcanza(i, t)
  BY <1>1, EligeMejor DEF MejorDe
<1>3. situacion' = [situacion EXCEPT ![p] = "rechazado"] /\ lista' = lista
  BY DEF CrearProceso
<1>4. \A i \in 1 .. Len(lista) : lista[i].inicio \in Nat /\ lista[i].tamanio \in Nat
                                /\ lista[i].tamanio > 0
  BY <1>1, CeldaTipo DEF Positivas
<1>5. ASSUME NEW base \in Bytes, NEW n \in 1 .. TamMemoria,
             Contigua!Hueco(base, n, t)
      PROVE  FALSE
  <2>1. /\ base + n <= TamMemoria
        /\ \A b \in base .. base + n - 1 : Duenos(lista)[b] = SinPid
    BY <1>5 DEF Contigua!Hueco
  <2>2. base \in Nat /\ base \in base .. base + n - 1
    BY <1>1 DEF Bytes
  <2>3. CASE esquema = "FIJAS"
    <3>1. n >= t /\ <<base, n>> \in Piezas
      BY <1>5, <2>3, PiezasDeLaLista DEF Contigua!Hueco
    <3>2. PICK i \in 1 .. Len(lista) : <<base, n>> = <<lista[i].inicio, lista[i].tamanio>>
      BY <2>3, <3>1, PiezasDeLaLista
    <3>3. lista[i].inicio = base /\ lista[i].tamanio = n
      BY <3>2
    <3>4. Cubre(lista[i], base)
      BY <1>4, <2>2, <3>3 DEF Cubre, FinDe
    <3>5. lista[i].pid = SinPid
      BY <1>1, <2>1, <2>2, <3>4, DuenoDe
    <3> QED BY <1>2, <3>1, <3>3, <3>5 DEF Alcanza, Libre
  <2>4. CASE esquema = "DINAMICAS"
    <3>1. n = t
      BY <1>5, <2>4, PiezasDeLaLista DEF Contigua!Hueco
    <3>2. FinDe(lista[Len(lista)]) = TamMemoria /\ SinHuecosJuntos(lista)
      BY <1>1, <2>4 DEF ListaBien
    <3>3. PICK i \in 1 .. Len(lista) : Cubre(lista[i], base)
      <4>1. base < TamMemoria
        BY <1>1 DEF Bytes
      <4> QED BY <1>1, <2>2, <3>2, <4>1, AlgunaCubre
    <3>4. lista[i].pid = SinPid
      BY <1>1, <2>1, <2>2, <3>3, DuenoDe
    <3>5. lista[i].tamanio < t
      BY <1>1, <1>2, <1>4, <3>4 DEF Alcanza, Libre
    <3>6. /\ lista[i].inicio <= base /\ base < FinDe(lista[i])
          /\ FinDe(lista[i]) = lista[i].inicio + lista[i].tamanio
      BY <3>3 DEF Cubre, FinDe
    <3>7. FinDe(lista[i]) < base + n /\ FinDe(lista[i]) \in base .. base + n - 1
      BY <1>1, <1>4, <2>2, <3>1, <3>5, <3>6
    <3>8. i # Len(lista)
      BY <1>1, <2>1, <2>2, <3>2, <3>7
    <3>9. i \in 1 .. Len(lista) - 1 /\ i + 1 \in 1 .. Len(lista)
      BY <1>1, <3>8
    <3>10. lista[i + 1].inicio = FinDe(lista[i])
      BY <1>1, <3>9 DEF Seguidas
    <3> DEFINE b == FinDe(lista[i])
    <3>11. b \in Bytes
      BY <1>1, <2>1, <2>2, <3>7 DEF Bytes
    <3>12. Cubre(lista[i + 1], b)
      BY <1>4, <3>9, <3>10 DEF Cubre, FinDe
    <3>13. Duenos(lista)[b] = lista[i + 1].pid
      BY <1>1, <3>9, <3>11, <3>12, DuenoDe
    <3>14. lista[i + 1].pid = SinPid
      BY <2>1, <3>7, <3>13
    <3> QED BY <3>2, <3>4, <3>9, <3>14 DEF SinHuecosJuntos
  <2> QED BY <1>1, <2>3, <2>4
<1> QED BY <1>3, <1>5 DEF Contigua!Rechaza, Contigua!Bytes, Bytes

\* The bytes of a process that ends are free, and no others.
LEMMA PasoLibera ==
    ASSUME IInvParticiones, IInvParticiones', NEW p \in Pids, FinalizarProceso(p)
    PROVE  Contigua!Libera(p)
<1>1. PICK i \in 1 .. Len(lista) :
        /\ lista[i].pid = p
        /\ \A b \in Nat, y \in Pids \cup {SinPid} :
             EsDe(lista', Len(lista'), b, y) <=>
               IF Cubre(lista[i], b) THEN y = SinPid ELSE EsDe(lista, Len(lista), b, y)
  BY LiberaDeja
<1>2. /\ ListaBien(lista, esquema) /\ lista \in Seq(Celda) /\ Seguidas(lista)
      /\ TamMemoria \in Nat /\ SinPid \notin Pids
      /\ Duenos(lista) \in [Bytes -> Pids \cup {SinPid}]
  BY SabeContigua
<1>3. lista' \in Seq(Celda) /\ Seguidas(lista')
  BY DEF IInvParticiones, ListaBien, Ordenada
<1> DEFINE w == [b \in Bytes |-> IF Duenos(lista)[b] = p THEN SinPid
                                 ELSE Duenos(lista)[b]]
<1>4. Duenos(lista') = w
  <2>1. w \in [Bytes -> Pids \cup {SinPid}]
    BY <1>2
  <2>2. ASSUME NEW b \in Bytes, NEW y \in Pids
        PROVE  EsDe(lista', Len(lista'), b, y) <=> w[b] = y
    <3>1. b \in Nat /\ y # SinPid
      BY <1>2 DEF Bytes
    <3>2. /\ EsDe(lista, Len(lista), b, y) <=> Duenos(lista)[b] = y
          /\ EsDe(lista, Len(lista), b, p) <=> Duenos(lista)[b] = p
      BY <1>2, DuenoTipo
    <3>3. EsDe(lista, Len(lista), b, p) <=> Cubre(lista[i], b)
      <4>1. \A j \in 1 .. Len(lista) : lista[j].pid = p => j = i
        BY <1>1, <1>2 DEF ListaBien, UnaPorProceso
      <4> QED BY <1>1, <4>1 DEF EsDe
    <3>4. EsDe(lista', Len(lista'), b, y) <=>
            IF Cubre(lista[i], b) THEN y = SinPid ELSE EsDe(lista, Len(lista), b, y)
      BY <1>1, <3>1
    <3> QED BY <3>1, <3>2, <3>3, <3>4
  <2> HIDE DEF w
  <2> QED BY <1>2, <1>3, <2>1, <2>2, MismosDuenos
<1>5. /\ situacion[p] = "vivo" /\ UNCHANGED <<esquema, tam>>
      /\ situacion' = [situacion EXCEPT ![p] = "terminado"]
  BY DEF FinalizarProceso, config
<1>6. UNCHANGED Piezas
  BY <1>5 DEF Piezas
<1> QED BY <1>4, <1>5, <1>6 DEF Contigua!Libera, Contigua!Bytes, Bytes

LEMMA EmpiezaContigua ==
    ASSUME TamaniosPositivos, InitParticiones PROVE Contigua!Init
<1>1. IInvParticiones
  BY InicioParticiones
<1>2. /\ ListaBien(lista, esquema) /\ lista \in Seq(Celda) /\ Seguidas(lista)
      /\ TamMemoria \in Nat /\ SinPid \notin Pids /\ Positivas(lista)
      /\ esquema \in {"FIJAS", "DINAMICAS"}
      /\ Duenos(lista) \in [Bytes -> Pids \cup {SinPid}]
  BY <1>1, SabeContigua DEF ListaBien
<1>3. \A i \in 1 .. Len(lista) : lista[i].pid = SinPid
  BY <1>1, <1>2, CeldaTipo DEF IInvParticiones, InitParticiones
<1>4. ASSUME NEW b \in Bytes PROVE Duenos(lista)[b] = SinPid
  BY <1>2, <1>3, DuenoDe, DuenoNadie
<1>5. Duenos(lista) = [b \in Bytes |-> SinPid]
  BY <1>2, <1>4
<1>6. Piezas \in SUBSET (Bytes \X (1 .. TamMemoria))
  <2>1. CASE esquema = "DINAMICAS"
    BY <1>1, <2>1, PiezasDeLaLista
  <2>2. CASE esquema = "FIJAS"
    <3>1. ASSUME NEW i \in 1 .. Len(lista)
          PROVE  <<lista[i].inicio, lista[i].tamanio>> \in Bytes \X (1 .. TamMemoria)
      <4>1. /\ lista[i].inicio \in Nat /\ lista[i].tamanio \in 0 .. TamMemoria
            /\ FinDe(lista[i]) <= TamMemoria /\ lista[i].tamanio > 0
        BY <1>2, CeldasEnMemoria DEF Positivas
      <4>2. lista[i].inicio \in Bytes /\ lista[i].tamanio \in 1 .. TamMemoria
        BY <1>2, <4>1 DEF Bytes, FinDe
      <4> QED BY <4>2
    <3> QED BY <1>1, <2>2, <3>1, PiezasDeLaLista
  <2> QED BY <1>2, <2>1, <2>2
<1> QED BY <1>5, <1>6 DEF InitParticiones, Contigua!Init, Contigua!Bytes, Bytes

LEMMA PasoContigua ==
    ASSUME TamaniosPositivos, IInvParticiones, IInvParticiones',
           [NextParticiones]_varsParticiones
    PROVE  [Contigua!Next]_(Contigua!vars)
<1>1. ASSUME NEW p \in Pids, NEW t \in Tamanios, CrearProceso(p, t)
      PROVE  Contigua!Next
  <2>1. /\ situacion[p] = "nuevo" \/ (situacion[p] = "rechazado" /\ tam[p] = t)
        /\ tam' = [tam EXCEPT ![p] = t] /\ esquema' = esquema
    BY <1>1 DEF CrearProceso, config
  <2>2. UNCHANGED Piezas
    BY <2>1 DEF Piezas
  <2>3. Contigua!Asigna(p, t) \/ Contigua!Rechaza(p, t)
    BY <1>1, PasoAsigna, PasoRechaza
  <2>4. Contigua!Pide(p, t)
    BY <2>1, <2>2, <2>3 DEF Contigua!Pide
  <2> QED BY <2>4 DEF Contigua!Next
<1>2. ASSUME NEW p \in Pids, FinalizarProceso(p) PROVE Contigua!Next
  BY <1>2, PasoLibera DEF Contigua!Next
<1>3. ASSUME UNCHANGED <<esquema, lista, situacion, tam>>
      PROVE  UNCHANGED Contigua!vars
  BY <1>3 DEF Contigua!vars, Piezas
<1>4. ASSUME NEW p \in Pids, PideDump(p) \/ DumpCopia(p) \/ DumpEnvia(p)
      PROVE  UNCHANGED Contigua!vars
  BY <1>3, <1>4, DumpConserva
<1>5. ASSUME UNCHANGED varsParticiones PROVE UNCHANGED Contigua!vars
  BY <1>3, <1>5 DEF varsParticiones, config
<1> QED BY <1>1, <1>2, <1>4, <1>5 DEF NextParticiones

\* With processes and fixed partitions of one byte at least, the list of
\* partitions keeps the promise of MemoriaContigua: who asks gets contiguous
\* bytes that nobody has, keeps them until the end, and is refused only when no
\* hole, or no fixed partition, is large enough. A process of no bytes is left
\* out: with every byte in use the code refuses it.
THEOREM ListaComoContigua ==
    ASSUME TamaniosPositivos PROVE SpecParticiones => CumpleContigua
<1>1. InitParticiones => Contigua!Init
  BY EmpiezaContigua
<1>2. /\ IInvParticiones /\ IInvParticiones' /\ [NextParticiones]_varsParticiones
      => [Contigua!Next]_(Contigua!vars)
  BY PasoContigua
<1> QED BY <1>1, <1>2, InvarianciaParticiones, PTL
        DEF SpecParticiones, CumpleContigua, Contigua!Spec
=============================================================================
