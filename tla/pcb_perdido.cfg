CONSTANTS
    Nadie = Nadie
    p1 = p1
    p2 = p2
    p3 = p3
    r1 = r1
    r2 = r2
    fantasma = fantasma
    a1 = a1
    a2 = a2
    UltimoRecurso = r1
    Pid <- DosPids
    Recursos <- UnRecurso
    INSTANCIAS_RECURSOS <- UnaInstancia
    Pedidos <- Configurados
    Archivos <- UnArchivo
    GRADO_MAX_MULTIPROGRAMACION = 2
    ALGORITMO_PLANIFICACION = "FIFO"
    Programa <- ProgTruncaConIO
    MaxInstancias = 1
    MaxCuenta = 1
SPECIFICATION FairSpec
PROPERTIES TodoProcesoTermina
\* The system may stop: processes wait for resources or files nobody gives back.
CHECK_DEADLOCK FALSE
