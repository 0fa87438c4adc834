------------------------------- MODULE Correo -------------------------------
(***************************************************************************)
(* What the processes promise each other over their sockets, without bytes:*)
(* each direction of a connection carries whole messages, and whoever      *)
(* reads it gets the oldest one that it has not read, as it was sent.      *)
(***************************************************************************)
EXTENDS Sequences, Integers

CONSTANTS
    Conexiones,
    Efimeras,     \* connections that are opened anew for each request
    Nada

VARIABLES
    en_viaje,   \* en_viaje[v]: the messages sent on v and not read, in order
    buzon       \* buzon[v]: the message that the reader has in hand, or Nada

vars == <<en_viaje, buzon>>

Sentidos == {"ida", "vuelta"}

Init ==
    /\ en_viaje = [v \in Conexiones \X Sentidos |-> <<>>]
    /\ buzon = [v \in Conexiones \X Sentidos |-> Nada]

Quieta(v) == en_viaje'[v] = en_viaje[v] /\ buzon'[v] = buzon[v]

Envia(v) ==
    /\ Len(en_viaje'[v]) = Len(en_viaje[v]) + 1
    /\ SubSeq(en_viaje'[v], 1, Len(en_viaje[v])) = en_viaje[v]
    /\ buzon'[v] = buzon[v]

Entrega(v) ==
    /\ en_viaje[v] # <<>> /\ buzon[v] = Nada
    /\ buzon'[v] = Head(en_viaje[v])
    /\ en_viaje'[v] = Tail(en_viaje[v])

Atiende(v) ==
    /\ buzon[v] # Nada /\ buzon'[v] = Nada
    /\ en_viaje'[v] = en_viaje[v]

Usa(v) == Quieta(v) \/ Envia(v) \/ Entrega(v) \/ Atiende(v)

\* A new connection, with its greeting, takes the place of one that ended with
\* messages that nobody will read.
Conecta(c) ==
    /\ c \in Efimeras
    /\ \A s \in Sentidos : buzon[<<c, s>>] = Nada /\ buzon'[<<c, s>>] = Nada
    /\ Len(en_viaje'[<<c, "ida">>]) = 1
    /\ en_viaje'[<<c, "vuelta">>] = <<>>

Next ==
    \A c \in Conexiones : (\A s \in Sentidos : Usa(<<c, s>>)) \/ Conecta(c)

Spec == Init /\ [][Next]_vars
=============================================================================
