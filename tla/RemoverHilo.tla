----------------------------- MODULE RemoverHilo -----------------------------
(***************************************************************************)
(* What the loops of remover_hilo (kernel/src/planificacion.c) do to a     *)
(* queue of threads, for the modules of the short-term planner. Contextos  *)
(* takes Conserva from here.                                               *)
(***************************************************************************)
EXTENDS Integers, Sequences, FiniteSets

EnCola(h, q) == \E i \in 1 .. Len(q) : q[i] = h

\* How many times h is in q.
Veces(h, q) == Cardinality({i \in 1 .. Len(q) : q[i] = h})

\* The elements of q at the positions K, in their order (a SelectSeq without
\* recursion: element i is at the position with i positions of K up to it).
Conserva(q, K) ==
    [i \in 1 .. Cardinality(K) |->
        q[CHOOSE j \in K : Cardinality(K \cap 1 .. j) = i]]

\* The elements of q that are not in S.
Quedan(q, S) == Conserva(q, {j \in 1 .. Len(q) : q[j] \notin S})

\* The loops of remover_hilo pop an element, push it back unless it is in S,
\* and compare the number of turns with the size that remains, so that each
\* removal ends the loop a turn earlier: after the first k turns with k >=
\* size.
Vueltas(q, S) ==
    LET alcanza(k) ==
            k >= Len(q) - Cardinality({j \in 1 .. k : q[j] \in S})
    IN  CHOOSE k \in 0 .. Len(q) :
            alcanza(k) /\ \A m \in 0 .. k - 1 : ~alcanza(m)

\* What they leave: the elements that no turn reached, ahead of the kept ones.
RemueveRotando(q, S) ==
    SubSeq(q, Vueltas(q, S) + 1, Len(q))
        \o Quedan(SubSeq(q, 1, Vueltas(q, S)), S)
=============================================================================
