------------------------------ MODULE Mensajes ------------------------------
(***************************************************************************)
(* What the four processes write on their sockets, as TCP carries it       *)
(* (utils/src/utils/utils.c; memoria/src/memoria.c and comunicacion.c;     *)
(* cpu/src/conexiones.c, syscall.c and cpu_interrupt.c;                    *)
(* kernel/src/conexiones.c, syscalls.c and interrupciones.c;               *)
(* filesystem/src/connection.c and communication.c).                       *)
(* A socket is a stream: nothing marks where a message ends, so writer and *)
(* reader have to agree on each field and each length. The unit is 4 bytes:*)
(* every integer is one, a size_t two, a text as many as it has. Which     *)
(* unit of which field it is stands for its value.                         *)
(* A connection has two directions, "ida" from the client to the server    *)
(* and "vuelta". Each connection has a thread of its own at the server;    *)
(* memoria opens one to filesystem for each dump, and the kernel one to    *)
(* memoria for each request, which are modelled one at a time.             *)
(***************************************************************************)
EXTENDS Integers, SequencesExt

CONSTANTS
    Largos,        \* lengths of a text
    Escenarios,    \* bound: sets of connections that are used together. They
                   \* share nothing, but a dump uses kernel and filesystem
    EnVuelo,       \* bound: interrupts that the CPU has not read
    SinLeer,       \* bound: confirmations that the kernel has not read
    Nada

Conexiones == {"dispatch", "interrupt", "cpu", "kernel", "filesystem"}
Vias == Conexiones \X {"ida", "vuelta"}
Ida(c) == <<c, "ida">>
Vuelta(c) == <<c, "vuelta">>

\* A new socket for each request: kernel with memoria, memoria with filesystem.
Efimeras == {"kernel", "filesystem"}

\* The kernel reads syscalls with recv and no flags, which returns what there
\* is: assumption UnSegmento, a syscall (20 bytes and a name) is one segment.
UnSegmento == {Vuelta("dispatch")}

ASSUME MensajesAssumption ==
    /\ Largos \subseteq Nat \ {0}
    /\ Escenarios \subseteq SUBSET Conexiones
    /\ EnVuelo \in Nat /\ SinLeer \in Nat

VARIABLES
    activas,    \* the connections of this behaviour
    red,        \* red[v]: units sent that have not arrived
    buffer,     \* buffer[v]: units that have arrived, not yet read
    lee,        \* lee[v]: what its reader is about to recv
    buzon,      \* buzon[v]: the message that its reader has decoded, or Nada
    cli, srv,   \* where the client and the server of each connection are
    solicitud,  \* solicitud[c]: op that the client waits an answer for
    serie,      \* serie[v]: tells the data of a message from the next one's
    escrito,    \* whether filesystem wrote the file of the current dump
    en_viaje    \* history: the messages sent on v and not yet read

envio == <<red, en_viaje, serie>>
lectura == <<buffer, lee, buzon>>
varsMensajes == <<activas, envio, lectura, cli, srv, solicitud, escrito>>

-----------------------------------------------------------------------------
(* Packets. A field is named by what the writer copies into it.            *)

Textos == {"path", "archivo", "recurso", "filename", "content", "instruccion"}
Longitudes == {"len_filename", "size_content"}

\* A dump is longer than its name, so that their lengths differ.
Ancho(campo, l) ==
    CASE campo = "content" -> l + 1
      [] campo \in Textos \ {"content"} -> l
      [] campo \in Longitudes -> 2
      [] OTHER -> 1

Unidades(campo, s, l) ==
    [i \in 1 .. Ancho(campo, l) |->
        CASE campo = "len_filename" -> <<"num", Ancho("filename", l), i>>
          [] campo = "size_content" -> <<"num", Ancho("content", l), i>>
          [] OTHER -> <<campo, s, i>>]

\* codigo_operacion, buffer->size, and what is copied to buffer->stream.
Paquete(op, size, campos) == [op |-> op, size |-> size, campos |-> campos]

\* enviar_entero: the code alone.
Entero(op) == Paquete(op, 0, <<>>)

Basura == <<"basura", 0, 0>>

\* serializar_paquete: code, size, and size bytes of the stream.
Trama(p, s, l) ==
    LET stream == FlattenSeq([k \in DOMAIN p.campos |->
                                Unidades(p.campos[k], s, l)])
    IN  IF p.campos = <<>> THEN <<<<"op", p.op, 1>>>>
        ELSE <<<<"op", p.op, 1>>, <<"num", p.size, 1>>>>
             \o [i \in 1 .. p.size |->
                    IF i <= Len(stream) THEN stream[i] ELSE Basura]

\* What the writer means.
Mensaje(p, s, l) ==
    [op |-> p.op,
     datos |-> [c \in Range(p.campos) \ Longitudes |-> Unidades(c, s, l)]]

-----------------------------------------------------------------------------
(* Writers.                                                                *)

Registros == <<"ax", "bx", "cx", "dx", "ex", "fx", "gx", "hx", "pc">>

\* Mutant: the parameters in the order of the signature.
EnviarTIDPIDAlReves(op) == Paquete(op, 2, <<"tid", "pid">>)

EnviarTIDPID(op) == Paquete(op, 2, <<"pid", "tid">>)

EnviarInformacionProceso(l) ==
    Paquete("CREATE_PROCESS", 2 + l, <<"pid", "tamanio", "path">>)

EnviarInformacionHilo(l) ==
    Paquete("CREATE_THREAD", 2 + l, <<"pid", "tid", "path">>)

EnviarPidFinalizar == Paquete("END_PROCESS", 1, <<"pid">>)

EnviarSyscallBloqueante(op) == Paquete(op, 2, <<"pid", "tid">>)

SolicitarContexto == Paquete("GET_CONTEXTO_EJECUCION", 2, <<"pid", "tid">>)

SolicitarInstruccion == Paquete("GET_INSTRUCCION", 3, <<"pid", "tid", "pc">>)

PedirRead == Paquete("READ_MEM", 3, <<"pid", "tid", "direccion">>)

PedirEscribir == Paquete("WRITE_MEM", 4, <<"pid", "tid", "direccion", "valor">>)

EnviarContexto ==
    Paquete("UPD_CONTEXTO_EJECUCION", 11, <<"pid", "tid">> \o Registros)

\* Mutant: the size was not updated when the limit was added.
EnviarContextoHiloCorto ==
    Paquete("OK", 10, Registros \o <<"base", "limite">>)

EnviarContextoHilo == Paquete("OK", 11, Registros \o <<"base", "limite">>)

EnviarInstruccion(l) == Paquete("OK", l, <<"instruccion">>)

EnviarLecturaOK == Paquete("OK", 1, <<"valor">>)

EnviarSolicitudMemoryDump(l) ==
    Paquete("WRITE_FILE", Ancho("filename", l) + Ancho("content", l) + 2 * 2,
            <<"len_filename", "filename", "size_content", "content">>)

\* enviar_syscall_*: the first field is the syscall_t.
EnviarSyscall(l) ==
    {Paquete("SYSCALL", 3 + l, <<"S_PROCESS_CREATE", "tamanio", "prioridad", "archivo">>),
     Paquete("SYSCALL", 2 + l, <<"S_THREAD_CREATE", "prioridad", "archivo">>),
     Paquete("SYSCALL", 2, <<"S_IO", "tiempo">>)}
    \cup {Paquete("SYSCALL", 1 + l, <<s, "recurso">>) :
            s \in {"S_MUTEX_CREATE", "S_MUTEX_LOCK", "S_MUTEX_UNLOCK"}}
    \cup {Paquete("SYSCALL", 1, <<s>>) :
            s \in {"S_DUMP_MEMORY", "S_PROCESS_EXIT", "S_THREAD_EXIT"}}
    \cup {Paquete("SYSCALL", 2, <<s, "tid">>) :
            s \in {"S_THREAD_JOIN", "S_THREAD_CANCEL"}}

-----------------------------------------------------------------------------
(* Readers: the fields that each one takes, and how much it receives.      *)

\* All the stream, with MSG_WAITALL.
PorSize(campos) == [campos |-> campos, cuanto |-> "size"]

\* One recv for each field; the size is read and not used.
PorCampo(campos) == [campos |-> campos, cuanto |-> "campos"]

\* recv without flags: what has arrived, up to the size.
LoQueHaya(campos) == [campos |-> campos, cuanto |-> "hay"]

SoloEntero == PorSize(<<>>)

RecibirProceso == PorSize(<<"pid", "tamanio", "path">>)
RecibirHilo == PorSize(<<"pid", "tid", "path">>)
RecibirId == PorSize(<<"pid">>)
RecibirThreadToEnd == PorSize(<<"pid", "tid">>)
RecibirMemoryDump == PorSize(<<"pid", "tid">>)
RecibirGetContexto == PorSize(<<"pid", "tid">>)
RecibirUpdContexto == PorSize(<<"pid", "tid">> \o Registros)
RecibirGetInstruccion == PorSize(<<"pid", "tid", "pc">>)
RecibirMemoryRead == PorSize(<<"pid", "tid", "direccion">>)
RecibirMemoryWrite == PorSize(<<"pid", "tid", "direccion", "valor">>)
RecibirHiloAEjecutar == PorSize(<<"pid", "tid">>)
RecibirInterrupcion == PorSize(<<"pid", "tid">>)
RecibirConfirmadas == PorCampo(<<"pid", "tid">>)
RecibirContexto == PorCampo(Registros \o <<"base", "limite">>)
RecibirInstruccion == PorSize(<<"instruccion">>)
RecibirValor == PorSize(<<"valor">>)

\* The arguments, which depend on the syscall_t.
RecibirSyscall(tipo) ==
    CASE tipo = "S_PROCESS_CREATE" -> <<tipo, "tamanio", "prioridad", "archivo">>
      [] tipo = "S_THREAD_CREATE" -> <<tipo, "prioridad", "archivo">>
      [] tipo \in {"S_THREAD_JOIN", "S_THREAD_CANCEL"} -> <<tipo, "tid">>
      [] tipo \in {"S_MUTEX_CREATE", "S_MUTEX_LOCK", "S_MUTEX_UNLOCK"} ->
            <<tipo, "recurso">>
      [] tipo = "S_IO" -> <<tipo, "tiempo">>
      [] OTHER -> <<tipo>>

\* Past the end of the stream there is nothing that was sent.
Trozo(s, desde, hasta) ==
    SubSeq(s, desde, IF hasta <= Len(s) THEN hasta ELSE Len(s))

OpDe(u) == IF u[1] = "op" THEN u[2] ELSE "ninguna"
NumeroDe(u) == IF u[1] = "num" THEN u[2] ELSE 0

\* A text is the last field and takes what the size leaves.
Desarma(campos, stream) ==
    [c \in Range(campos) |->
        LET k == CHOOSE i \in DOMAIN campos : campos[i] = c
        IN  Trozo(stream, k, IF c \in Textos THEN Len(stream) ELSE k)]

RecibirWriteFile(stream) ==
    LET largo == NumeroDe(stream[1])
        tamanio == NumeroDe(stream[3 + largo])
    IN  [c \in {"filename", "content"} |->
            IF c = "filename" THEN Trozo(stream, 3, 2 + largo)
            ELSE Trozo(stream, 5 + largo, 4 + largo + tamanio)]

ManejarClienteKernel(op) ==
    CASE op = "CREATE_PROCESS" -> RecibirProceso
      [] op = "END_PROCESS" -> RecibirId
      [] op = "CREATE_THREAD" -> RecibirHilo
      [] op = "END_THREAD" -> RecibirThreadToEnd
      [] op = "MEMORY_DUMP" -> RecibirMemoryDump
      [] OTHER -> SoloEntero

ManejarClienteCPU(op) ==
    CASE op = "GET_CONTEXTO_EJECUCION" -> RecibirGetContexto
      [] op = "UPD_CONTEXTO_EJECUCION" -> RecibirUpdContexto
      [] op = "GET_INSTRUCCION" -> RecibirGetInstruccion
      [] op = "READ_MEM" -> RecibirMemoryRead
      [] op = "WRITE_MEM" -> RecibirMemoryWrite
      [] OTHER -> SoloEntero

\* In the CPU an answer is what its request makes it be.
RespuestaDeMemoria(op) ==
    CASE op = "OK" /\ solicitud["cpu"] = "GET_CONTEXTO_EJECUCION" ->
            RecibirContexto
      [] op = "OK" /\ solicitud["cpu"] = "GET_INSTRUCCION" -> RecibirInstruccion
      [] op = "OK" /\ solicitud["cpu"] = "READ_MEM" -> RecibirValor
      [] OTHER -> SoloEntero

Saludos == {"HANDSHAKE_KERNEL", "HANDSHAKE_CPU", "HANDSHAKE_MEMORIA",
            "HANDSHAKE_ACCEPTED"}

Receptor(v, op) ==
    IF op \in Saludos THEN SoloEntero
    ELSE CASE v = Ida("kernel") -> ManejarClienteKernel(op)
           [] v = Ida("cpu") -> ManejarClienteCPU(op)
           [] v = Vuelta("cpu") -> RespuestaDeMemoria(op)
           [] v = Ida("filesystem") /\ op = "WRITE_FILE" ->
                 PorSize(<<"filename", "content">>)
           [] v = Ida("dispatch") /\ op = "EJECUTAR_HILO" -> RecibirHiloAEjecutar
           [] v = Vuelta("dispatch") -> LoQueHaya(<<"syscall">>)
           [] v = Ida("interrupt") -> RecibirInterrupcion
           [] v = Vuelta("interrupt") -> RecibirConfirmadas
           [] OTHER -> SoloEntero

Decodifica(v, op, stream) ==
    CASE v = Ida("filesystem") -> RecibirWriteFile(stream)
      [] v = Vuelta("dispatch") -> Desarma(RecibirSyscall(stream[1][1]), stream)
      [] OTHER -> Desarma(Receptor(v, op).campos, stream)

-----------------------------------------------------------------------------
(* The socket: send, the network, and recv.                                *)

\* send() of a packet, or of an int (enviar_paquete, enviar_entero).
Manda(v, p, l) ==
    /\ red' = [red EXCEPT ![v] = @ \o Trama(p, serie[v], l)]
    /\ en_viaje' = [en_viaje EXCEPT ![v] = Append(@, Mensaje(p, serie[v], l))]
    /\ serie' = [serie EXCEPT ![v] = IF p.campos = <<>> THEN @ ELSE 1 - @]

MandaEntero(v, op) == Manda(v, Entero(op), 1)

NoLee == [fase |-> "nada", op |-> "ninguna", size |-> 0]
LeeOtro == [fase |-> "op", op |-> "ninguna", size |-> 0]

\* Some of the units arrive, cut and joined as TCP likes.
Llega(v) ==
    /\ red[v] # <<>>
    /\ \E n \in (IF v \in UnSegmento THEN {Len(red[v])} ELSE 1 .. Len(red[v])) :
        /\ buffer' = [buffer EXCEPT ![v] = @ \o SubSeq(red[v], 1, n)]
        /\ red' = [red EXCEPT ![v] = SubSeq(@, n + 1, Len(@))]
    /\ UNCHANGED <<activas, en_viaje, serie, lee, buzon, cli, srv, solicitud,
                   escrito>>

\* The reader has a whole message.
Recibido(v, op, datos) ==
    /\ buzon' = [buzon EXCEPT ![v] = [op |-> op, datos |-> datos]]
    /\ en_viaje' = [en_viaje EXCEPT ![v] = SubSeq(@, 2, Len(@))]
    /\ lee' = [lee EXCEPT ![v] = NoLee]

\* recibir_entero, recibir_operacion_from_paquete, recv_cliente_identificacion.
LeeOp(v) ==
    /\ lee[v].fase = "op" /\ buffer[v] # <<>>
    /\ LET op == OpDe(Head(buffer[v]))
       IN  IF Receptor(v, op).campos = <<>>
           THEN Recibido(v, op, [c \in {} |-> <<>>])
           ELSE /\ lee' = [lee EXCEPT ![v] =
                            [fase |-> "size", op |-> op, size |-> 0]]
                /\ UNCHANGED <<buzon, en_viaje>>
    /\ buffer' = [buffer EXCEPT ![v] = Tail(@)]
    /\ UNCHANGED <<activas, red, serie, cli, srv, solicitud, escrito>>

LeeSize(v) ==
    /\ lee[v].fase = "size" /\ buffer[v] # <<>>
    /\ lee' = [lee EXCEPT ![v] = [fase |-> "stream", op |-> lee[v].op,
                                  size |-> NumeroDe(Head(buffer[v]))]]
    /\ buffer' = [buffer EXCEPT ![v] = Tail(@)]
    /\ UNCHANGED <<activas, envio, buzon, cli, srv, solicitud, escrito>>

\* MSG_WAITALL returns when all has arrived; without flags recv returns what
\* there is, and the rest of the stream is what malloc gave.
LeeStream(v) ==
    LET receptor == Receptor(v, lee[v].op)
        pide == IF receptor.cuanto = "campos" THEN Len(receptor.campos)
                ELSE lee[v].size
        toma == IF receptor.cuanto = "hay" /\ Len(buffer[v]) < pide
                THEN Len(buffer[v]) ELSE pide
        stream == SubSeq(buffer[v], 1, toma) \o [i \in 1 .. pide - toma |-> Basura]
    IN  /\ lee[v].fase = "stream"
        /\ Len(buffer[v]) >= toma /\ toma > 0
        /\ Recibido(v, lee[v].op, Decodifica(v, lee[v].op, stream))
        /\ buffer' = [buffer EXCEPT ![v] = SubSeq(@, toma + 1, Len(@))]
        /\ UNCHANGED <<activas, red, serie, cli, srv, solicitud, escrito>>

\* The reader of v has done with the message in hand, and reads on or not.
Atendido(v, lectura_nueva) ==
    /\ buzon' = [buzon EXCEPT ![v] = Nada]
    /\ lee' = [lee EXCEPT ![v] = lectura_nueva]
    /\ UNCHANGED buffer

-----------------------------------------------------------------------------
(* Connections.                                                            *)

Saludo(c) ==
    CASE c = "cpu" -> "HANDSHAKE_CPU"
      [] c = "filesystem" -> "HANDSHAKE_MEMORIA"
      [] OTHER -> "HANDSHAKE_KERNEL"

\* crear_conexion and enviar_handshake; accept, and a new thread that reads.
Abre(c) ==
    /\ cli[c] = "cerrado" /\ srv[c] = "cerrado"
    /\ red' = [red EXCEPT ![Ida(c)] = Trama(Entero(Saludo(c)), 0, 1),
                          ![Vuelta(c)] = <<>>]
    /\ en_viaje' = [en_viaje EXCEPT
                        ![Ida(c)] = <<Mensaje(Entero(Saludo(c)), 0, 1)>>,
                        ![Vuelta(c)] = <<>>]
    /\ buffer' = [buffer EXCEPT ![Ida(c)] = <<>>, ![Vuelta(c)] = <<>>]
    /\ lee' = [lee EXCEPT ![Ida(c)] = LeeOtro, ![Vuelta(c)] = LeeOtro]
    /\ cli' = [cli EXCEPT ![c] = "saluda"]
    /\ UNCHANGED <<activas, serie, solicitud>>

\* iniciar_conexion_memoria, in the kernel once for each request.
Conecta(c) ==
    /\ c \in activas \ {"filesystem"}
    /\ Abre(c)
    /\ srv' = [srv EXCEPT ![c] = "saluda"]
    /\ escrito' = IF c = "kernel" THEN FALSE ELSE escrito
    /\ UNCHANGED buzon

ServidorSaluda(c) ==
    /\ srv[c] = "saluda" /\ buzon[Ida(c)] # Nada
    /\ IF buzon[Ida(c)].op = Saludo(c)
       THEN /\ MandaEntero(Vuelta(c), "HANDSHAKE_ACCEPTED")
            /\ srv' = [srv EXCEPT ![c] = "lee"]
       ELSE /\ UNCHANGED envio
            /\ srv' = [srv EXCEPT ![c] = "cerrado"]
    /\ Atendido(Ida(c), LeeOtro)
    /\ UNCHANGED <<activas, cli, solicitud, escrito>>

\* On dispatch and on interrupt a thread of the kernel goes on reading.
ClienteSaluda(c) ==
    /\ cli[c] = "saluda" /\ buzon[Vuelta(c)] # Nada
    /\ cli' = [cli EXCEPT ![c] =
                    IF buzon[Vuelta(c)].op = "HANDSHAKE_ACCEPTED" THEN "libre"
                    ELSE "termino"]
    /\ Atendido(Vuelta(c), IF c \in {"dispatch", "interrupt"} THEN LeeOtro
                           ELSE NoLee)
    /\ UNCHANGED <<activas, envio, srv, solicitud, escrito>>

-----------------------------------------------------------------------------
(* Requests and answers: CPU and kernel with memoria, memoria with         *)
(* filesystem.                                                             *)

DeRespuesta == {"cpu", "kernel", "filesystem"}

Pedidos(c, l) ==
    CASE c = "cpu" -> {SolicitarContexto, EnviarContexto, SolicitarInstruccion,
                       PedirRead, PedirEscribir}
      [] c = "kernel" -> {EnviarInformacionProceso(l), EnviarInformacionHilo(l),
                          EnviarPidFinalizar, EnviarTIDPID("END_THREAD"),
                          EnviarTIDPID("MEMORY_DUMP")}
      [] c = "filesystem" -> {EnviarSolicitudMemoryDump(l)}

\* notificar_finalizacion_hilo_memoria closes without waiting for the answer.
Pide(c) ==
    /\ cli[c] = "libre"
    /\ \E l \in Largos : \E p \in Pedidos(c, l) :
        /\ Manda(Ida(c), p, l)
        /\ solicitud' = [solicitud EXCEPT ![c] = p.op]
        /\ cli' = [cli EXCEPT ![c] = IF p.op = "END_THREAD" THEN "cerrado"
                                     ELSE "espera"]
        /\ lee' = [lee EXCEPT ![Vuelta(c)] =
                        IF p.op = "END_THREAD" THEN NoLee ELSE LeeOtro]
    /\ UNCHANGED <<activas, buffer, buzon, srv, escrito>>

\* manejar_cliente_kernel serves one request and closes. A dump is refused
\* here when the process has no partition any more.
MemoriaAtiende ==
    /\ srv["kernel"] = "lee" /\ buzon[Ida("kernel")] # Nada
    /\ \E op \in (CASE buzon[Ida("kernel")].op = "CREATE_PROCESS" -> {"OK", "ERROR"}
                     [] buzon[Ida("kernel")].op = "MEMORY_DUMP" -> {"ERROR"}
                     [] OTHER -> {"OK"}) :
        MandaEntero(Vuelta("kernel"), op)
    /\ Atendido(Ida("kernel"), NoLee)
    /\ srv' = [srv EXCEPT !["kernel"] = "cerrado"]
    /\ UNCHANGED <<activas, cli, solicitud, escrito>>

\* memory_dump: a connection to filesystem for the file; it is never closed.
MemoriaVuelca ==
    /\ srv["kernel"] = "lee" /\ buzon[Ida("kernel")] # Nada
    /\ buzon[Ida("kernel")].op = "MEMORY_DUMP"
    /\ Abre("filesystem")
    /\ srv' = [srv EXCEPT !["kernel"] = "vuelca", !["filesystem"] = "saluda"]
    /\ UNCHANGED <<buzon, escrito>>

\* Mutant: the dump was asked for, so the kernel is told that it is done.
MemoriaInformaOK ==
    /\ cli["filesystem"] = "espera" /\ buzon[Vuelta("filesystem")] # Nada
    /\ MandaEntero(Vuelta("kernel"), "OK")
    /\ buzon' = [buzon EXCEPT ![Vuelta("filesystem")] = Nada, ![Ida("kernel")] = Nada]
    /\ cli' = [cli EXCEPT !["filesystem"] = "cerrado"]
    /\ srv' = [srv EXCEPT !["kernel"] = "cerrado"]
    /\ UNCHANGED <<activas, buffer, lee, solicitud, escrito>>

\* It forwards the first answer of filesystem.
MemoriaInforma ==
    /\ cli["filesystem"] = "espera" /\ buzon[Vuelta("filesystem")] # Nada
    /\ MandaEntero(Vuelta("kernel"), buzon[Vuelta("filesystem")].op)
    /\ buzon' = [buzon EXCEPT ![Vuelta("filesystem")] = Nada, ![Ida("kernel")] = Nada]
    /\ cli' = [cli EXCEPT !["filesystem"] = "cerrado"]
    /\ srv' = [srv EXCEPT !["kernel"] = "cerrado"]
    /\ UNCHANGED <<activas, buffer, lee, solicitud, escrito>>

\* creacion_de_archivo: the whole file, or ERROR.
FSEscribe ==
    /\ srv["filesystem"] = "lee" /\ buzon[Ida("filesystem")] # Nada
    /\ srv' = [srv EXCEPT !["filesystem"] = "confirma"]
    /\ escrito' = TRUE
    /\ UNCHANGED <<activas, envio, lectura, cli, solicitud>>

FSRechaza ==
    /\ srv["filesystem"] = "lee" /\ buzon[Ida("filesystem")] # Nada
    /\ MandaEntero(Vuelta("filesystem"), "ERROR")
    /\ srv' = [srv EXCEPT !["filesystem"] = "confirma"]
    /\ UNCHANGED <<activas, lectura, cli, solicitud, escrito>>

\* manejar_cliente_memoria answers OK whatever creacion_de_archivo did.
FSConfirma ==
    /\ srv["filesystem"] = "confirma"
    /\ MandaEntero(Vuelta("filesystem"), "OK")
    /\ Atendido(Ida("filesystem"), NoLee)
    /\ srv' = [srv EXCEPT !["filesystem"] = "cerrado"]
    /\ UNCHANGED <<activas, cli, solicitud, escrito>>

\* Mutant: a write is answered with the value too.
RespuestasACPUConValor(op, l) ==
    CASE op = "GET_CONTEXTO_EJECUCION" -> {EnviarContextoHilo}
      [] op = "GET_INSTRUCCION" -> {EnviarInstruccion(l), Entero("ERROR")}
      [] op = "UPD_CONTEXTO_EJECUCION" -> {Entero("OK")}
      [] OTHER -> {EnviarLecturaOK}

\* A fetch for a thread that memoria has no context of is answered with a
\* bare ERROR (hilos.c 171, memoria.c 175).
RespuestasACPU(op, l) ==
    CASE op = "GET_CONTEXTO_EJECUCION" -> {EnviarContextoHilo}
      [] op = "GET_INSTRUCCION" -> {EnviarInstruccion(l), Entero("ERROR")}
      [] op = "READ_MEM" -> {EnviarLecturaOK}
      [] OTHER -> {Entero("OK")}

MemoriaAtiendeCPU ==
    /\ srv["cpu"] = "lee" /\ buzon[Ida("cpu")] # Nada
    /\ \E l \in Largos : \E p \in RespuestasACPU(buzon[Ida("cpu")].op, l) :
        Manda(Vuelta("cpu"), p, l)
    /\ Atendido(Ida("cpu"), LeeOtro)
    /\ UNCHANGED <<activas, cli, srv, solicitud, escrito>>

\* recibir_confirmacion in the kernel, the recibir_* of the CPU, which exits
\* when memoria does not answer OK.
Recibe(c) ==
    /\ c # "filesystem"
    /\ cli[c] = "espera" /\ buzon[Vuelta(c)] # Nada
    /\ Atendido(Vuelta(c), NoLee)
    /\ cli' = [cli EXCEPT ![c] =
                    IF c = "kernel" THEN "cerrado"
                    ELSE IF buzon[Vuelta(c)].op = "OK" THEN "libre" ELSE "termino"]
    /\ UNCHANGED <<activas, envio, srv, solicitud, escrito>>

-----------------------------------------------------------------------------
(* Kernel and CPU. The order in which they talk is ProtocoloCPU's.         *)

\* enviar_hilo_exec_CPU, while the CPU waits for a thread.
KernelDespacha ==
    /\ cli["dispatch"] = "libre" /\ srv["dispatch"] = "lee"
    /\ en_viaje[Ida("dispatch")] = <<>> /\ buzon[Ida("dispatch")] = Nada
    /\ Manda(Ida("dispatch"), EnviarTIDPID("EJECUTAR_HILO"), 1)
    /\ UNCHANGED <<activas, lectura, cli, srv, solicitud, escrito>>

\* The CPU has the thread, or the OK of its syscall, and executes; anything
\* else makes it exit.
CPUEjecuta ==
    /\ srv["dispatch"] \in {"lee", "espera"} /\ buzon[Ida("dispatch")] # Nada
    /\ srv' = [srv EXCEPT !["dispatch"] =
                    IF buzon[Ida("dispatch")].op =
                        IF srv["dispatch"] = "lee" THEN "EJECUTAR_HILO" ELSE "OK"
                    THEN "ejecuta" ELSE "termino"]
    /\ Atendido(Ida("dispatch"), NoLee)
    /\ UNCHANGED <<activas, envio, cli, solicitud, escrito>>

CPUEnviaSyscall ==
    /\ srv["dispatch"] = "ejecuta"
    /\ \E l \in Largos : \E p \in EnviarSyscall(l) : Manda(Vuelta("dispatch"), p, l)
    /\ srv' = [srv EXCEPT !["dispatch"] = "espera"]
    /\ lee' = [lee EXCEPT ![Ida("dispatch")] = LeeOtro]
    /\ UNCHANGED <<activas, buffer, buzon, cli, solicitud, escrito>>

\* The thread leaves the CPU, which waits for another one.
CPUDeja ==
    /\ srv["dispatch"] = "ejecuta"
    /\ srv' = [srv EXCEPT !["dispatch"] = "lee"]
    /\ lee' = [lee EXCEPT ![Ida("dispatch")] = LeeOtro]
    /\ UNCHANGED <<activas, envio, buffer, buzon, cli, solicitud, escrito>>

\* gestionar_syscalls
KernelConfirmaSyscall ==
    /\ cli["dispatch"] = "libre" /\ buzon[Vuelta("dispatch")] # Nada
    /\ MandaEntero(Ida("dispatch"), "OK")
    /\ Atendido(Vuelta("dispatch"), LeeOtro)
    /\ UNCHANGED <<activas, cli, srv, solicitud, escrito>>

\* The other reasons have the same form.
Interrupciones ==
    {EnviarTIDPID("END_OF_QUANTUM"), EnviarSyscallBloqueante("BLOCK_IO")}

\* The notice of the quantum, gestionar_syscalls and the threads of the dumps
\* share the socket and no mutex; each message is one send().
KernelInterrumpe ==
    /\ cli["interrupt"] = "libre"
    /\ Len(en_viaje[Ida("interrupt")]) < EnVuelo
    /\ \E p \in Interrupciones : Manda(Ida("interrupt"), p, 1)
    /\ UNCHANGED <<activas, lectura, cli, srv, solicitud, escrito>>

\* atender_cpu_interrupt keeps it, and the CPU confirms it or drops it.
CPUConfirmaInterrupcion ==
    /\ srv["interrupt"] = "lee" /\ buzon[Ida("interrupt")] # Nada
    /\ Len(en_viaje[Vuelta("interrupt")]) < SinLeer
    /\ Manda(Vuelta("interrupt"), EnviarTIDPID(buzon[Ida("interrupt")].op), 1)
    /\ Atendido(Ida("interrupt"), LeeOtro)
    /\ UNCHANGED <<activas, cli, srv, solicitud, escrito>>

CPUDescarta ==
    /\ srv["interrupt"] = "lee" /\ buzon[Ida("interrupt")] # Nada
    /\ Atendido(Ida("interrupt"), LeeOtro)
    /\ UNCHANGED <<activas, envio, cli, srv, solicitud, escrito>>

\* recibir_interrupciones_confirmadas
KernelConfirmada ==
    /\ cli["interrupt"] = "libre" /\ buzon[Vuelta("interrupt")] # Nada
    /\ Atendido(Vuelta("interrupt"), LeeOtro)
    /\ UNCHANGED <<activas, envio, cli, srv, solicitud, escrito>>

-----------------------------------------------------------------------------
InitMensajes ==
    /\ activas \in Escenarios
    /\ red = [v \in Vias |-> <<>>]
    /\ buffer = [v \in Vias |-> <<>>]
    /\ lee = [v \in Vias |-> NoLee]
    /\ buzon = [v \in Vias |-> Nada]
    /\ cli = [c \in Conexiones |-> "cerrado"]
    /\ srv = [c \in Conexiones |-> "cerrado"]
    /\ solicitud = [c \in Conexiones |-> "ninguna"]
    /\ serie = [v \in Vias |-> 0]
    /\ escrito = FALSE
    /\ en_viaje = [v \in Vias |-> <<>>]

Lee(v) == LeeOp(v) \/ LeeSize(v) \/ LeeStream(v)

Servidor(c) ==
    \/ ServidorSaluda(c)
    \/ c = "kernel" /\ (MemoriaAtiende \/ MemoriaVuelca)
    \/ c = "cpu" /\ MemoriaAtiendeCPU
    \/ c = "filesystem" /\ (FSEscribe \/ FSRechaza \/ FSConfirma)
    \/ c = "dispatch" /\ CPUEjecuta
    \/ c = "interrupt" /\ (CPUConfirmaInterrupcion \/ CPUDescarta)

\* What a client does by itself once the answer is there; memoria, client of
\* filesystem, asks by itself too.
Cliente(c) ==
    \/ ClienteSaluda(c)
    \/ Recibe(c)
    \/ c = "filesystem" /\ (Pide(c) \/ MemoriaInforma)
    \/ c = "dispatch" /\ KernelConfirmaSyscall
    \/ c = "interrupt" /\ KernelConfirmada

NextMensajes ==
    \/ \E v \in Vias : Llega(v) \/ Lee(v)
    \/ \E c \in Conexiones : Conecta(c) \/ Servidor(c) \/ Cliente(c)
    \/ \E c \in {"cpu", "kernel"} : Pide(c)
    \/ KernelDespacha \/ CPUEnviaSyscall \/ CPUDeja \/ KernelInterrumpe

SpecMensajes == InitMensajes /\ [][NextMensajes]_varsMensajes

\* TCP delivers, and each thread that can go on goes on. When programs make a
\* request is up to them.
FairSpecMensajes ==
    /\ SpecMensajes
    /\ \A v \in Vias : WF_varsMensajes(Llega(v) \/ Lee(v))
    /\ \A c \in Conexiones :
        WF_varsMensajes(Servidor(c)) /\ WF_varsMensajes(Cliente(c))
-----------------------------------------------------------------------------
(* Properties.                                                             *)

\* Types: each reader is at a known point, and holds a message only while it
\* receives nothing else.
TypeOKMensajes ==
    /\ activas \in Escenarios
    /\ \A v \in Vias :
        /\ lee[v].fase \in {"nada", "op", "size", "stream"}
        /\ lee[v].size \in Nat
        /\ serie[v] \in 0 .. 1
        /\ buzon[v] = Nada \/ lee[v] = NoLee
    /\ \A c \in Conexiones :
        /\ cli[c] \in {"cerrado", "saluda", "libre", "espera", "termino"}
        /\ srv[c] \in {"cerrado", "saluda", "lee", "vuelca", "confirma",
                       "ejecuta", "espera", "termino"}
    /\ escrito \in BOOLEAN

\* An answer is taken by the request that it answers: while a client has none
\* pending, nothing is on its way to it. A second answer left in the socket
\* would be taken for the answer to the next request
\* (cpu/src/conexiones.c, one connection for all of them).
SoloLoPedido ==
    \A c \in DeRespuesta :
        cli[c] = "libre" =>
            red[Vuelta(c)] = <<>> /\ buffer[Vuelta(c)] = <<>>

\* The kernel is told OK exactly when filesystem has written the dump,
\* although filesystem answers OK after its own ERROR (connection.c 81) and
\* three processes hand the answer on.
DumpDicho ==
    LET dicho == buzon[Vuelta("kernel")]
        dump == cli["kernel"] = "espera" /\ solicitud["kernel"] = "MEMORY_DUMP"
    IN  dump /\ dicho # Nada => (dicho.op = "OK") = escrito

\* Writers and readers agree on every layout: what is read is what was sent,
\* in order, however TCP cuts it and whoever else writes on the socket.
CorreoDeLaRed == INSTANCE Correo
CumpleCorreo == CorreoDeLaRed!Spec

\* No process waits for ever for bytes that nobody sends: each request and
\* each syscall gets its answer.
TodoPedidoTermina ==
    /\ \A c \in DeRespuesta : cli[c] = "espera" ~> cli[c] # "espera"
    /\ srv["dispatch"] = "espera" ~> srv["dispatch"] # "espera"
=============================================================================
