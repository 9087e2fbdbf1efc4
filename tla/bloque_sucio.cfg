SPECIFICATION Spec
CONSTANTS
    archivo1 = archivo1
    archivo2 = archivo2
    Archivos <- DosArchivos
    Textos = {t}
    BLOCK_SIZE = 3
    BLOCK_COUNT = 80
    SIZEOF_PUNTERO = 1
    Tamanios <- Exactos
    Accesos <- DosAccesos
    MaxCaidas = 0
INVARIANTS BloquesJustos
CHECK_DEADLOCK FALSE
