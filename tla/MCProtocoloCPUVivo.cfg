SPECIFICATION FairSpec
CONSTANTS
    a = a
    b = b
    Hilos = {a, b}
    Nadie = Nadie
    Primero = a
    SyscallsUsadas = {"crea", "pregunta", "exit"}
    DumpsFallan = "no"
    QuantumCorto = FALSE
    MaxTemporizadores = 2
    MaxConfirmaciones = 1
PROPERTIES SyscallRespondida QuantumSeCumple
CHECK_DEADLOCK FALSE
