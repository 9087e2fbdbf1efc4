CONSTANTS
    p1 = p1
    p2 = p2
    v1 = v1
    v2 = v2
    Nadie = Nadie
    Registros <- DosRegistros
    Vacio = v1
    Direcciones = {0, 12, 16, 20, 24}
    Cantidades = {1, 8}
    TAM_MAX_SEGMENTO = 16
    Tablas <- LasTablas
    Pid <- DosPids
    Valores = {v1, v2}
    MaxPc = 3
SPECIFICATION Spec
INVARIANTS RegistrosDelProceso
\* The CPU may die on a null pointer.
CHECK_DEADLOCK FALSE
