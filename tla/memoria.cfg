SPECIFICATION Spec
CONSTANTS
    p1 = p1
    p2 = p2
    p3 = p3
    Pid <- TresPids
    Ids = {1}
    Compartido = Compartido
    TAM_MEMORIA = 5
    TAM_SEGMENTO_0 = 1
    Tamanios = {1, 2}
    ALGORITMO_ASIGNACION = "BEST"
    Desplazamientos = {0}
    Cantidades = {1, 2}
    v1 = v1
    v2 = v2
    Valores = {v1, v2}
SYMMETRY Simetria
INVARIANTS TipoMemoria Particion HuecosSeparados EligeElHueco CompactarAlcanza
 
