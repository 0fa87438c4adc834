------------------------- MODULE RemoverHiloPruebas -------------------------
(***************************************************************************)
(* Lemmas about the loops of remover_hilo, for any queue.                  *)
(***************************************************************************)
EXTENDS RemoverHilo, FiniteSetTheorems, FunctionTheorems, SequenceTheorems,
        WellFoundedInduction, NaturalsInduction, TLAPS

\* A non-empty set of naturals has a least element.
LEMMA HayMinimo ==
    ASSUME NEW T \in SUBSET Nat, T # {}
    PROVE  \E m \in T : \A t \in T : m <= t
<1>1. PICK m \in T : \A t \in T : <<t, m>> \notin OpToRel(<, Nat)
  BY WFMin, NatLessThanWellFounded, Zenon
<1>2. ASSUME NEW t \in T PROVE m <= t
  <2>1. ~(t < m)
    BY <1>1, Zenon DEF OpToRel
  <2> QED BY <2>1
<1> QED BY <1>2

\* Positions 1 to n, and any set of them, are finite.
LEMMA PosicionesFinitas ==
    ASSUME NEW n \in Nat, NEW K \in SUBSET (1 .. n)
    PROVE  /\ IsFiniteSet(K)
           /\ Cardinality(K) \in Nat
           /\ Cardinality(K) <= n
<1>1. 1 \in Int /\ n \in Int
  OBVIOUS
<1>2. /\ IsFiniteSet(1 .. n)
      /\ Cardinality(1 .. n) = IF 1 > n THEN 0 ELSE n - 1 + 1
  BY <1>1, FS_Interval, Zenon
<1>3. IsFiniteSet(K) /\ Cardinality(K) <= Cardinality(1 .. n)
  BY <1>2, FS_Subset, Zenon
<1>4. Cardinality(K) \in Nat
  BY <1>3, FS_CardinalityType, Zenon
<1> QED BY <1>2, <1>3, <1>4

\* In a set of positions, some position is the i-th one.
LEMMA HayPosicion ==
    ASSUME NEW n \in Nat, NEW K \in SUBSET (1 .. n),
           NEW i \in 1 .. Cardinality(K)
    PROVE  \E j \in K : Cardinality(K \cap 1 .. j) = i
<1> DEFINE c(j) == Cardinality(K \cap 1 .. j)
<1>1. IsFiniteSet(K) /\ Cardinality(K) \in Nat
  BY PosicionesFinitas, Zenon
<1>2. \A j \in Nat : IsFiniteSet(K \cap 1 .. j) /\ c(j) \in Nat
  <2> TAKE j \in Nat
  <2>1. K \cap 1 .. j \in SUBSET K
    OBVIOUS
  <2> QED BY <1>1, <2>1, FS_Subset, FS_CardinalityType
<1>3. K \cap 1 .. n = K /\ K \cap 1 .. 0 = {}
  <2>1. K \cap 1 .. n = K
    BY Zenon
  <2>2. 1 .. 0 = {}
    OBVIOUS
  <2> QED BY <2>1, <2>2, Zenon
<1>4. c(n) = Cardinality(K) /\ c(0) = 0
  BY <1>3, FS_EmptySet
<1> DEFINE T == {j \in Nat : c(j) >= i}
<1>5. n \in T
  BY <1>1, <1>4
<1>6. PICK j \in T : \A t \in T : j <= t
  BY <1>5, HayMinimo
<1>7. j # 0
  BY <1>4, <1>6
<1>8. j - 1 \in Nat /\ j - 1 \notin T
  BY <1>6, <1>7
<1>9. c(j - 1) < i
  BY <1>2, <1>8
<1>10. K \cap 1 .. j = IF j \in K THEN (K \cap 1 .. (j - 1)) \cup {j}
                       ELSE K \cap 1 .. (j - 1)
  BY <1>6, <1>8
<1>11. j \notin K \cap 1 .. (j - 1)
  BY <1>8
<1>12. c(j) = IF j \in K THEN c(j - 1) + 1 ELSE c(j - 1)
  BY <1>2, <1>8, <1>10, <1>11, FS_AddElement
<1>13. c(j) >= i
  BY <1>6
<1> HIDE DEF c
<1>14. j \in K /\ c(j) = i
  <2>1. j \in Nat /\ i \in Nat
    BY <1>1, <1>6
  <2>2. c(j - 1) \in Nat /\ c(j) \in Nat
    BY <1>2, <1>8, <2>1, Zenon
  <2> QED BY <2>1, <2>2, <1>9, <1>12, <1>13
<1> QED BY <1>14 DEF c

\* Two positions of a set are not both the i-th one.
LEMMA UnaPosicion ==
    ASSUME NEW n \in Nat, NEW K \in SUBSET (1 .. n), NEW j \in K, NEW k \in K,
           Cardinality(K \cap 1 .. j) = Cardinality(K \cap 1 .. k)
    PROVE  j = k
<1>1. j \in 1 .. n /\ k \in 1 .. n
  OBVIOUS
<1>2. ASSUME NEW a \in K, NEW b \in K, a < b,
             Cardinality(K \cap 1 .. a) = Cardinality(K \cap 1 .. b)
      PROVE  FALSE
  <2> DEFINE A == K \cap 1 .. a
             B == K \cap 1 .. b
  <2>1. A \subseteq B /\ b \in B /\ b \notin A
    BY <1>2
  <2>2. IsFiniteSet(B)
    <3>1. B \in SUBSET (1 .. n)
      OBVIOUS
    <3> QED BY <3>1, PosicionesFinitas, Zenon
  <2>3. Cardinality(A) = Cardinality(B)
    BY <1>2
  <2> HIDE DEF A, B
  <2>4. A = B
    BY <2>1, <2>2, <2>3, FS_Subset
  <2> QED BY <2>1, <2>4
<1> QED BY <1>1, <1>2

\* What is kept is a sequence, with an element for each position.
LEMMA ConservaTipo ==
    ASSUME NEW H, NEW q \in Seq(H), NEW K \in SUBSET (1 .. Len(q))
    PROVE  /\ Conserva(q, K) \in Seq(H)
           /\ Len(Conserva(q, K)) = Cardinality(K)
           /\ Len(Conserva(q, K)) <= Len(q)
<1> DEFINE r == Conserva(q, K)
<1>1. Len(q) \in Nat
  BY LenProperties
<1>3. Cardinality(K) \in Nat /\ Cardinality(K) <= Len(q)
  BY <1>1, PosicionesFinitas, Zenon
<1>4. \A i \in 1 .. Cardinality(K) :
         (CHOOSE j \in K : Cardinality(K \cap 1 .. j) = i) \in 1 .. Len(q)
  <2> TAKE i \in 1 .. Cardinality(K)
  <2>1. \E j \in K : Cardinality(K \cap 1 .. j) = i
    BY <1>1, HayPosicion
  <2> QED BY <2>1
<1>5. r = [i \in 1 .. Cardinality(K) |->
              q[CHOOSE j \in K : Cardinality(K \cap 1 .. j) = i]]
  BY DEF Conserva
<1>6. r \in [1 .. Cardinality(K) -> H]
  <2>1. \A j \in 1 .. Len(q) : q[j] \in H
    BY ElementOfSeq
  <2>2. \A i \in 1 .. Cardinality(K) :
          q[CHOOSE j \in K : Cardinality(K \cap 1 .. j) = i] \in H
    BY <1>4, <2>1, Zenon
  <2> QED BY <1>5, <2>2, Zenon
<1> HIDE DEF r
<1>7. r \in Seq(H) /\ Len(r) = Cardinality(K)
  <2>1. r \in Seq(H)
    <3>1. [1 .. Cardinality(K) -> H] \in {[1 .. n -> H] : n \in Nat}
      BY <1>3, Zenon
    <3> QED BY <1>6, <3>1, SeqDef, Zenon
  <2>2. DOMAIN r = 1 .. Cardinality(K)
    BY <1>6
  <2>3. DOMAIN r = 1 .. Len(r) /\ Len(r) \in Nat
    BY <2>1, LenProperties
  <2> QED BY <1>3, <2>1, <2>2, <2>3
<1> QED BY <1>3, <1>7 DEF r

\* Each kept position gives one element, and each element comes from one.
LEMMA ConservaElige ==
    ASSUME NEW H, NEW q \in Seq(H), NEW K \in SUBSET (1 .. Len(q))
    PROVE  \E f \in [1 .. Len(Conserva(q, K)) -> K] :
             /\ \A i, j \in 1 .. Len(Conserva(q, K)) : f[i] = f[j] => i = j
             /\ \A i \in 1 .. Len(Conserva(q, K)) : Conserva(q, K)[i] = q[f[i]]
             /\ \A k \in K : \E i \in 1 .. Len(Conserva(q, K)) : f[i] = k
<1> DEFINE r == Conserva(q, K)
           p(i) == CHOOSE j \in K : Cardinality(K \cap 1 .. j) = i
           f == [i \in 1 .. Len(r) |-> p(i)]
<1>1. Len(q) \in Nat
  BY LenProperties
<1>2. Cardinality(K) \in Nat
  BY <1>1, PosicionesFinitas, Zenon
<1>3. ASSUME NEW i \in 1 .. Cardinality(K)
      PROVE  p(i) \in K /\ Cardinality(K \cap 1 .. p(i)) = i
  <2>1. \E j \in K : Cardinality(K \cap 1 .. j) = i
    BY <1>1, HayPosicion
  <2> QED BY <2>1
<1>4. r = [i \in 1 .. Cardinality(K) |-> q[p(i)]]
  BY DEF Conserva
<1>5. Len(r) = Cardinality(K)
  BY ConservaTipo
<1>6. \A i \in 1 .. Len(r) : /\ f[i] \in K /\ r[i] = q[f[i]]
                             /\ Cardinality(K \cap 1 .. f[i]) = i
  <2> TAKE i \in 1 .. Len(r)
  <2>1. i \in 1 .. Cardinality(K) /\ f[i] = p(i)
    BY <1>5
  <2> QED BY <1>3, <1>4, <2>1
<1>7. \A i \in 1 .. Len(r) : p(i) \in K
  <2> TAKE i \in 1 .. Len(r)
  <2>1. f[i] = p(i)
    BY Zenon
  <2> QED BY <1>6, <2>1, Zenon
<1>8. ASSUME NEW k \in K PROVE \E i \in 1 .. Len(r) : f[i] = k
  <2> DEFINE c == Cardinality(K \cap 1 .. k)
  <2>1. c \in 1 .. Len(r)
    <3>1. IsFiniteSet(K)
      BY <1>1, PosicionesFinitas, Zenon
    <3>2. K \cap 1 .. k \subseteq K /\ k \in K \cap 1 .. k
      OBVIOUS
    <3>3. /\ IsFiniteSet(K \cap 1 .. k) /\ c <= Cardinality(K)
      BY <3>1, <3>2, FS_Subset
    <3>4. c \in Nat /\ c # 0
      <4>1. c \in Nat
        BY <3>3, FS_CardinalityType
      <4>2. c # 0
        BY <3>2, <3>3, FS_EmptySet
      <4> QED BY <4>1, <4>2
    <3> QED BY <1>2, <1>5, <3>3, <3>4
  <2>2. f[c] \in K /\ Cardinality(K \cap 1 .. f[c]) = c
    BY <1>6, <2>1
  <2> HIDE DEF f
  <2>3. f[c] = k
    BY <1>1, <2>2, UnaPosicion
  <2> QED BY <2>1, <2>3
<1> HIDE DEF r, p
<1>9. f \in [1 .. Len(r) -> K]
  BY <1>7, Zenon
<1> HIDE DEF f
<1>10. \A i, j \in 1 .. Len(r) : f[i] = f[j] => i = j
  BY <1>6
<1> QED BY <1>6, <1>8, <1>9, <1>10 DEF r

\* The kept elements are a sequence, not longer than the original.
LEMMA QuedanTipo ==
    ASSUME NEW H, NEW q \in Seq(H), NEW S
    PROVE  Quedan(q, S) \in Seq(H) /\ Len(Quedan(q, S)) <= Len(q)
<1>1. {j \in 1 .. Len(q) : q[j] \notin S} \in SUBSET (1 .. Len(q))
  OBVIOUS
<1> QED BY <1>1, ConservaTipo DEF Quedan

\* The loop ends, after as many turns as the queue is long at most.
LEMMA VueltasTipo ==
    ASSUME NEW H, NEW q \in Seq(H), NEW S
    PROVE  Vueltas(q, S) \in 0 .. Len(q)
<1> DEFINE alcanza(k) ==
               k >= Len(q) - Cardinality({j \in 1 .. k : q[j] \in S})
           T == {k \in Nat : alcanza(k)}
           v == Vueltas(q, S)
<1>1. Len(q) \in Nat
  BY LenProperties
<1>2. \A k \in Nat : Cardinality({j \in 1 .. k : q[j] \in S}) \in Nat
  <2> TAKE k \in Nat
  <2>1. {j \in 1 .. k : q[j] \in S} \in SUBSET (1 .. k)
    OBVIOUS
  <2> QED BY <2>1, PosicionesFinitas, Zenon
<1>3. Len(q) \in T
  BY <1>1, <1>2
<1>4. PICK k \in T : \A t \in T : k <= t
  BY <1>3, HayMinimo
<1>5. k \in 0 .. Len(q) /\ alcanza(k)
  BY <1>1, <1>3, <1>4
<1>6. \A m \in 0 .. k - 1 : ~alcanza(m)
  BY <1>4
<1>7. v = CHOOSE x \in 0 .. Len(q) :
             alcanza(x) /\ \A m \in 0 .. x - 1 : ~alcanza(m)
  BY DEF Vueltas
<1> HIDE DEF alcanza, T, v
<1>8. v \in 0 .. Len(q)
  BY <1>5, <1>6, <1>7
<1> QED BY <1>8 DEF v

\* remover_hilo leaves a queue of threads, not longer than the original.
LEMMA RemueveRotandoTipo ==
    ASSUME NEW H, NEW q \in Seq(H), NEW S
    PROVE  /\ RemueveRotando(q, S) \in Seq(H)
           /\ Len(RemueveRotando(q, S)) <= Len(q)
<1> DEFINE v == Vueltas(q, S)
<1>1. Len(q) \in Nat
  BY LenProperties
<1>8. v \in 0 .. Len(q)
  BY VueltasTipo
<1> HIDE DEF v
<1>9. SubSeq(q, 1, v) \in Seq(H) /\ Len(SubSeq(q, 1, v)) = v
  BY <1>1, <1>8, SubSeqProperties
<1>10. /\ SubSeq(q, v + 1, Len(q)) \in Seq(H)
       /\ Len(SubSeq(q, v + 1, Len(q))) = Len(q) - v
  BY <1>1, <1>8, SubSeqProperties
<1>11. /\ Quedan(SubSeq(q, 1, v), S) \in Seq(H)
       /\ Len(Quedan(SubSeq(q, 1, v), S)) <= v
  BY <1>9, QuedanTipo
<1>12. RemueveRotando(q, S) =
          SubSeq(q, v + 1, Len(q)) \o Quedan(SubSeq(q, 1, v), S)
  BY DEF RemueveRotando, v
<1>13. /\ RemueveRotando(q, S) \in Seq(H)
       /\ Len(RemueveRotando(q, S)) =
            Len(q) - v + Len(Quedan(SubSeq(q, 1, v), S))
  BY <1>10, <1>11, <1>12, ConcatProperties
<1> QED BY <1>1, <1>8, <1>11, <1>13, LenProperties

-----------------------------------------------------------------------------
(* How many times a thread is in a queue.                                  *)

\* A thread is in a queue some number of times, none if it is not there.
LEMMA VecesTipo ==
    ASSUME NEW H, NEW q \in Seq(H), NEW h
    PROVE  /\ IsFiniteSet({i \in 1 .. Len(q) : q[i] = h})
           /\ Veces(h, q) \in Nat
           /\ Veces(h, q) # 0 <=> EnCola(h, q)
<1> DEFINE P == {i \in 1 .. Len(q) : q[i] = h}
<1>1. Len(q) \in Nat /\ P \in SUBSET (1 .. Len(q))
  BY LenProperties
<1>2. IsFiniteSet(P) /\ Cardinality(P) \in Nat
  BY <1>1, PosicionesFinitas, Zenon
<1>3. Cardinality(P) # 0 <=> P # {}
  BY <1>2, FS_EmptySet
<1> QED BY <1>2, <1>3 DEF Veces, EnCola

\* An empty queue has nobody.
LEMMA VecesVacia == ASSUME NEW h PROVE Veces(h, <<>>) = 0
<1>1. {i \in 1 .. Len(<<>>) : <<>>[i] = h} = {}
  BY EmptySeq
<1> QED BY <1>1, FS_EmptySet DEF Veces

\* The last one of a queue counts once more.
LEMMA VecesAppend ==
    ASSUME NEW H, NEW q \in Seq(H), NEW x \in H, NEW h
    PROVE  Veces(h, Append(q, x))
               = Veces(h, q) + (IF x = h THEN 1 ELSE 0)
<1> DEFINE r == Append(q, x)
           P == {i \in 1 .. Len(q) : q[i] = h}
           Q == {i \in 1 .. Len(r) : r[i] = h}
<1>1. /\ Len(q) \in Nat /\ Len(r) = Len(q) + 1
      /\ \A i \in 1 .. Len(q) : r[i] = q[i]
      /\ r[Len(q) + 1] = x
  BY AppendProperties, LenProperties
<1>2. IsFiniteSet(P) /\ Cardinality(P) \in Nat
  BY VecesTipo DEF Veces
<1>3. Q = IF x = h THEN P \cup {Len(q) + 1} ELSE P
  <2> HIDE DEF r
  <2> QED BY <1>1
<1>4. Len(q) + 1 \notin P
  BY <1>1
<1> HIDE DEF P, Q
<1>5. Cardinality(P \cup {Len(q) + 1}) = Cardinality(P) + 1
  BY <1>2, <1>4, FS_AddElement, Zenon
<1>6. Veces(h, q) = Cardinality(P) /\ Veces(h, r) = Cardinality(Q)
  BY DEF Veces, P, Q
<1>7. CASE x = h
  BY <1>2, <1>3, <1>5, <1>6, <1>7
<1>8. CASE x # h
  BY <1>2, <1>3, <1>6, <1>8
<1> QED BY <1>7, <1>8

\* If the elements of one queue come from different positions of another, it
\* has each thread as many times at most.
LEMMA VecesElegidas ==
    ASSUME NEW H, NEW q \in Seq(H), NEW r \in Seq(H),
           NEW f \in [1 .. Len(r) -> 1 .. Len(q)],
           \A i, j \in 1 .. Len(r) : f[i] = f[j] => i = j,
           \A i \in 1 .. Len(r) : r[i] = q[f[i]],
           NEW h
    PROVE  Veces(h, r) <= Veces(h, q)
<1>0. IsFiniteSet({i \in 1 .. Len(q) : q[i] = h})
  <2>1. Len(q) \in Nat
    BY LenProperties
  <2> QED BY <2>1, PosicionesFinitas, Zenon
<1> DEFINE P == {i \in 1 .. Len(q) : q[i] = h}
           Q == {i \in 1 .. Len(r) : r[i] = h}
           g == [i \in Q |-> f[i]]
<1>1. g \in [Q -> P] /\ \A i, j \in Q : g[i] = g[j] => i = j
  OBVIOUS
<1>2. IsFiniteSet(P)
  BY <1>0
<1> HIDE DEF P, Q, g
<1>3. g \in Injection(Q, P)
  BY <1>1, Fun_IsInj
<1>4. Cardinality(Q) <= Cardinality(P)
  BY <1>2, <1>3, FS_Injection, Zenon DEF ExistsInjection
<1> QED BY <1>4 DEF Veces, P, Q

\* The first one of a queue leaves, and the others are as many times as before.
LEMMA VecesTail ==
    ASSUME NEW H, NEW q \in Seq(H), q # <<>>, NEW h
    PROVE  Veces(h, q) = Veces(h, Tail(q)) + (IF Head(q) = h THEN 1 ELSE 0)
<1> DEFINE r == Tail(q)
           P == {i \in 1 .. Len(q) : q[i] = h}
           Q == {i \in 1 .. Len(r) : r[i] = h}
           R == {i \in 2 .. Len(q) : q[i] = h}
           f == [i \in Q |-> i + 1]
<1>1. /\ r \in Seq(H) /\ Len(q) \in Nat \ {0} /\ Len(r) = Len(q) - 1
      /\ \A i \in 1 .. Len(r) : r[i] = q[i + 1]
  BY HeadTailProperties, LenProperties, EmptySeq
<1>2. Head(q) = q[1]
  BY HeadTailProperties
<1> HIDE DEF r
<1>3. /\ IsFiniteSet(Q) /\ Cardinality(Q) \in Nat
  BY <1>1, VecesTipo DEF Veces
<1>4. f \in Bijection(Q, R)
  <2>1. \A i \in Q : f[i] \in R
    BY <1>1
  <2>2. \A i, j \in Q : f[i] = f[j] => i = j
    BY <1>1
  <2>3. \A k \in R : k - 1 \in Q /\ f[k - 1] = k
    BY <1>1
  <2> HIDE DEF Q, R, f
  <2>4. f \in [Q -> R]
    BY <2>1 DEF f
  <2>5. \A k \in R : \E i \in Q : f[i] = k
    BY <2>3
  <2> QED BY <2>2, <2>4, <2>5, Fun_IsBij
<1>5. IsFiniteSet(R) /\ Cardinality(R) = Cardinality(Q)
  BY <1>3, <1>4, FS_Bijection, Zenon DEF ExistsBijection
<1>6. P = (IF q[1] = h THEN R \cup {1} ELSE R) /\ 1 \notin R
  BY <1>1
<1> HIDE DEF P, Q, R
<1>7. Cardinality(R \cup {1}) = Cardinality(R) + 1
  BY <1>5, <1>6, FS_AddElement, Zenon
<1>8. Veces(h, q) = Cardinality(P) /\ Veces(h, r) = Cardinality(Q)
  BY DEF Veces, P, Q
<1>9. CASE q[1] = h
  BY <1>2, <1>3, <1>5, <1>6, <1>7, <1>8, <1>9 DEF r
<1>10. CASE q[1] # h
  BY <1>2, <1>3, <1>5, <1>6, <1>8, <1>10 DEF r
<1> QED BY <1>9, <1>10

-----------------------------------------------------------------------------
(* Where what remover_hilo leaves comes from.                              *)

\* What is kept comes from different positions, none of them in S.
LEMMA QuedanElige ==
    ASSUME NEW H, NEW q \in Seq(H), NEW S
    PROVE  \E f \in [1 .. Len(Quedan(q, S)) -> 1 .. Len(q)] :
             /\ \A i, j \in 1 .. Len(Quedan(q, S)) : f[i] = f[j] => i = j
             /\ \A i \in 1 .. Len(Quedan(q, S)) :
                  Quedan(q, S)[i] = q[f[i]] /\ q[f[i]] \notin S
<1> DEFINE K == {j \in 1 .. Len(q) : q[j] \notin S}
           r == Quedan(q, S)
<1>1. K \in SUBSET (1 .. Len(q)) /\ \A k \in K : q[k] \notin S
  OBVIOUS
<1>2. r = Conserva(q, K)
  BY DEF Quedan
<1> HIDE DEF K, r
<1>3. PICK f \in [1 .. Len(r) -> K] :
        /\ \A i, j \in 1 .. Len(r) : f[i] = f[j] => i = j
        /\ \A i \in 1 .. Len(r) : r[i] = q[f[i]]
  BY <1>1, <1>2, ConservaElige
<1>4. \A i \in 1 .. Len(r) : f[i] \in K
  OBVIOUS
<1>5. f \in [1 .. Len(r) -> 1 .. Len(q)]
  BY <1>1
<1> QED BY <1>1, <1>3, <1>4, <1>5 DEF r

\* remover_hilo does not add a thread to the queue, nor repeat one.
LEMMA VecesRemueve ==
    ASSUME NEW H, NEW q \in Seq(H), NEW S, NEW h
    PROVE  Veces(h, RemueveRotando(q, S)) <= Veces(h, q)
<1> DEFINE v == Vueltas(q, S)
           antes == SubSeq(q, v + 1, Len(q))
           luego == Quedan(SubSeq(q, 1, v), S)
           r == RemueveRotando(q, S)
<1>1. Len(q) \in Nat /\ v \in 0 .. Len(q)
  BY LenProperties, VueltasTipo
<1> HIDE DEF v
<1>2. /\ SubSeq(q, 1, v) \in Seq(H) /\ Len(SubSeq(q, 1, v)) = v
      /\ \A i \in 1 .. v : SubSeq(q, 1, v)[i] = q[i]
  BY <1>1, SubSeqProperties
<1>3. /\ antes \in Seq(H) /\ Len(antes) = Len(q) - v
      /\ \A i \in 1 .. Len(antes) : antes[i] = q[v + i]
  BY <1>1, SubSeqProperties
<1>4. luego \in Seq(H) /\ Len(luego) \in Nat
  BY <1>2, QuedanTipo, LenProperties
<1>5. PICK f \in [1 .. Len(luego) -> 1 .. v] :
        /\ \A i, j \in 1 .. Len(luego) : f[i] = f[j] => i = j
        /\ \A i \in 1 .. Len(luego) : luego[i] = q[f[i]]
  <2> DEFINE s == SubSeq(q, 1, v)
  <2>1. s \in Seq(H) /\ Len(s) = v /\ \A i \in 1 .. v : s[i] = q[i]
    BY <1>2
  <2> HIDE DEF s
  <2>2. PICK f \in [1 .. Len(Quedan(s, S)) -> 1 .. Len(s)] :
          /\ \A i, j \in 1 .. Len(Quedan(s, S)) : f[i] = f[j] => i = j
          /\ \A i \in 1 .. Len(Quedan(s, S)) :
               Quedan(s, S)[i] = s[f[i]] /\ s[f[i]] \notin S
    BY <2>1, QuedanElige
  <2>3. luego = Quedan(s, S)
    BY DEF s
  <2> HIDE DEF luego
  <2>4. \A i \in 1 .. Len(luego) : f[i] \in 1 .. v
    BY <2>1, <2>2, <2>3
  <2>5. f \in [1 .. Len(luego) -> 1 .. v]
    BY <2>1, <2>2, <2>3
  <2>6. \A i \in 1 .. Len(luego) : luego[i] = q[f[i]]
    BY <2>1, <2>2, <2>3, <2>4
  <2> QED BY <2>2, <2>3, <2>5, <2>6
<1>6. r = antes \o luego
  BY DEF RemueveRotando, v
<1> HIDE DEF antes, luego, r
<1>7. /\ r \in Seq(H) /\ Len(r) = Len(antes) + Len(luego)
      /\ \A i \in 1 .. Len(r) : r[i] = IF i <= Len(antes) THEN antes[i]
                                       ELSE luego[i - Len(antes)]
  BY <1>3, <1>4, <1>6, ConcatProperties
<1> DEFINE g == [i \in 1 .. Len(r) |-> IF i <= Len(antes) THEN v + i
                                       ELSE f[i - Len(antes)]]
<1>8. \A i \in 1 .. Len(r) :
        /\ i <= Len(antes) => /\ g[i] = v + i /\ r[i] = q[g[i]]
                              /\ g[i] \in v + 1 .. Len(q)
        /\ ~(i <= Len(antes)) => /\ i - Len(antes) \in 1 .. Len(luego)
                                 /\ g[i] = f[i - Len(antes)]
                                 /\ r[i] = q[g[i]] /\ g[i] \in 1 .. v
  <2> TAKE i \in 1 .. Len(r)
  <2>1. CASE i <= Len(antes)
    <3>1. i \in 1 .. Len(antes) /\ g[i] = v + i
      BY <1>1, <1>3, <1>4, <1>7, <2>1
    <3>2. r[i] = antes[i]
      BY <1>7, <2>1
    <3> QED BY <1>1, <1>3, <2>1, <3>1, <3>2
  <2>2. CASE ~(i <= Len(antes))
    <3>1. i - Len(antes) \in 1 .. Len(luego) /\ g[i] = f[i - Len(antes)]
      BY <1>1, <1>3, <1>4, <1>7, <2>2
    <3>2. r[i] = luego[i - Len(antes)]
      BY <1>7, <2>2
    <3> QED BY <1>5, <2>2, <3>1, <3>2
  <2> QED BY <2>1, <2>2
<1>9. DOMAIN g = 1 .. Len(r) /\ g = [i \in DOMAIN g |-> g[i]]
  OBVIOUS
<1> HIDE DEF g
<1>10. g \in [1 .. Len(r) -> 1 .. Len(q)]
  <2>1. \A i \in 1 .. Len(r) : g[i] \in 1 .. Len(q)
    BY <1>1, <1>8
  <2> QED BY <1>9, <2>1
<1>11. \A i, j \in 1 .. Len(r) : g[i] = g[j] => i = j
  <2> TAKE i \in 1 .. Len(r), j \in 1 .. Len(r)
  <2> HAVE g[i] = g[j]
  <2>1. Len(antes) \in Nat /\ Len(r) \in Nat
    BY <1>1, <1>3, <1>4, <1>7
  <2>2. i <= Len(antes) <=> j <= Len(antes)
    BY <1>1, <1>8
  <2>3. CASE i <= Len(antes)
    BY <1>1, <1>8, <2>2, <2>3
  <2>4. CASE ~(i <= Len(antes))
    <3>1. i - Len(antes) = j - Len(antes)
      <4>1. /\ i - Len(antes) \in 1 .. Len(luego) /\ g[i] = f[i - Len(antes)]
            /\ j - Len(antes) \in 1 .. Len(luego) /\ g[j] = f[j - Len(antes)]
        BY <1>8, <2>2, <2>4
      <4>2. f[i - Len(antes)] = f[j - Len(antes)]
        BY <4>1
      <4> QED BY <1>5, <4>1, <4>2, Zenon
    <3> QED BY <2>1, <3>1
  <2> QED BY <2>3, <2>4
<1>12. \A i \in 1 .. Len(r) : r[i] = q[g[i]]
  BY <1>8
<1>13. Veces(h, r) <= Veces(h, q)
  BY <1>7, <1>10, <1>11, <1>12, VecesElegidas
<1> QED BY <1>13 DEF r

\* A thread that is once in the queue is removed: the loop cannot end before
\* it reaches it.
LEMMA RemueveUnica ==
    ASSUME NEW H, NEW q \in Seq(H), NEW h, Veces(h, q) = 1
    PROVE  Veces(h, RemueveRotando(q, {h})) = 0
<1>0. EnCola(h, q)
  <2>1. Veces(h, q) # 0
    OBVIOUS
  <2> QED BY <2>1, VecesTipo, Zenon
<1> DEFINE v == Vueltas(q, {h})
           r == RemueveRotando(q, {h})
           quitados(k) == {j \in 1 .. k : q[j] \in {h}}
           alcanza(k) == k >= Len(q) - Cardinality(quitados(k))
<1>1. Len(q) \in Nat /\ r \in Seq(H) /\ v \in 0 .. Len(q)
  BY LenProperties, RemueveRotandoTipo, VueltasTipo
<1>2. PICK p \in 1 .. Len(q) : q[p] = h
  BY <1>0 DEF EnCola
<1>3. \A i \in 1 .. Len(q) : q[i] = h => i = p
  <2> SUFFICES ASSUME NEW i \in 1 .. Len(q), q[i] = h, i # p PROVE FALSE
    BY Zenon
  <2> DEFINE P == {j \in 1 .. Len(q) : q[j] = h}
  <2>1. IsFiniteSet(P) /\ Cardinality(P) = 1
    BY VecesTipo DEF Veces
  <2>2. p \in P /\ i \in P
    BY <1>2
  <2> HIDE DEF P
  <2>3. IsFiniteSet(P \ {i}) /\ Cardinality(P \ {i}) = 0
    BY <2>1, <2>2, FS_RemoveElement
  <2>4. P \ {i} = {}
    BY <2>3, FS_EmptySet
  <2> QED BY <2>2, <2>4
<1>4. alcanza(v)
  <2>1. \E k \in 0 .. Len(q) : alcanza(k) /\ \A m \in 0 .. k - 1 : ~alcanza(m)
    <3> DEFINE T == {k \in Nat : alcanza(k)}
    <3>1. Len(q) \in T
      <4>1. quitados(Len(q)) \in SUBSET (1 .. Len(q))
        OBVIOUS
      <4>2. Cardinality(quitados(Len(q))) \in Nat
        BY <1>1, <4>1, PosicionesFinitas, Zenon
      <4> QED BY <1>1, <4>2
    <3>2. PICK k \in T : \A t \in T : k <= t
      BY <3>1, HayMinimo
    <3>3. k \in 0 .. Len(q) /\ alcanza(k)
      BY <1>1, <3>1, <3>2
    <3>4. \A m \in 0 .. k - 1 : ~alcanza(m)
      BY <3>2
    <3> QED BY <3>3, <3>4
  <2>2. v = CHOOSE k \in 0 .. Len(q) :
               alcanza(k) /\ \A m \in 0 .. k - 1 : ~alcanza(m)
    BY DEF Vueltas
  <2> HIDE DEF alcanza, v
  <2> QED BY <2>1, <2>2
<1>5. p <= v
  <2> SUFFICES ASSUME ~(p <= v) PROVE FALSE
    OBVIOUS
  <2>1. quitados(v) = {}
    BY <1>1, <1>2, <1>3
  <2>2. Cardinality(quitados(v)) = 0
    BY <2>1, FS_EmptySet
  <2>3. v >= Len(q)
    BY <1>1, <1>4, <2>2
  <2> QED BY <1>1, <1>2, <2>3
<1> DEFINE s == SubSeq(q, 1, v)
           antes == SubSeq(q, v + 1, Len(q))
           luego == Quedan(s, {h})
<1>6. /\ s \in Seq(H) /\ Len(s) = v
      /\ antes \in Seq(H) /\ Len(antes) = Len(q) - v
      /\ \A i \in 1 .. Len(antes) : antes[i] = q[v + i]
  <2> HIDE DEF v
  <2> QED BY <1>1, SubSeqProperties
<1>7. r = antes \o luego
  BY DEF RemueveRotando
<1> HIDE DEF v, r, s, antes, luego, quitados, alcanza
<1>8. luego \in Seq(H) /\ Len(luego) \in Nat
  BY <1>6, QuedanTipo, LenProperties DEF luego
<1>9. \A i \in 1 .. Len(luego) : luego[i] # h
  <2>1. PICK f \in [1 .. Len(Quedan(s, {h})) -> 1 .. Len(s)] :
          \A i \in 1 .. Len(Quedan(s, {h})) :
            Quedan(s, {h})[i] = s[f[i]] /\ s[f[i]] \notin {h}
    BY <1>6, QuedanElige
  <2> QED BY <2>1 DEF luego
<1>10. \A i \in 1 .. Len(antes) : antes[i] # h
  BY <1>1, <1>3, <1>5, <1>6
<1>11. \A i \in 1 .. Len(r) : r[i] # h
  <2>0. Len(antes \o luego) = Len(antes) + Len(luego)
    BY <1>6, <1>8, ConcatProperties
  <2>00. \A i \in 1 .. Len(antes) + Len(luego) :
           (antes \o luego)[i] = IF i <= Len(antes) THEN antes[i]
                                 ELSE luego[i - Len(antes)]
    BY <1>6, <1>8, ConcatProperties
  <2>1. /\ Len(r) = Len(antes) + Len(luego)
        /\ \A i \in 1 .. Len(r) : r[i] = IF i <= Len(antes) THEN antes[i]
                                         ELSE luego[i - Len(antes)]
    BY <1>7, <2>0, <2>00
  <2>2. Len(antes) \in Nat
    BY <1>1, <1>6
  <2> TAKE i \in 1 .. Len(r)
  <2>3. CASE i <= Len(antes)
    BY <1>10, <2>1, <2>2, <2>3
  <2>4. CASE ~(i <= Len(antes))
    <3>1. i - Len(antes) \in 1 .. Len(luego)
      BY <1>8, <2>1, <2>2, <2>4
    <3> QED BY <1>9, <2>1, <2>4, <3>1
  <2> QED BY <2>3, <2>4
<1>12. ~EnCola(h, r)
  BY <1>11 DEF EnCola
<1>13. Veces(h, r) = 0
  BY <1>1, <1>12, VecesTipo
<1> QED BY <1>13 DEF r
=============================================================================
