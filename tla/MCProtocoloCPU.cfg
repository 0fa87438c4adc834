SPECIFICATION Spec
CONSTANTS
    a = a
    b = b
    Hilos = {a, b}
    Nadie = Nadie
    Primero = a
    SyscallsUsadas = {"crea", "pregunta", "io", "dump", "exit", "process_exit"}
    DumpsFallan = "sin_ejecutar"
    QuantumCorto = TRUE
    MaxTemporizadores = 2
    MaxConfirmaciones = 2
INVARIANTS UnaFichaDeSyscall UnaConfirmacionPorDespacho CPUYKernelDeAcuerdo DespachoEnOrden
PROPERTIES SoloElQuantumLeeNulo
CHECK_DEADLOCK FALSE
