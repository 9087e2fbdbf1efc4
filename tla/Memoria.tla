------------------------------ MODULE Memoria ------------------------------
(***************************************************************************)
(* The memory process of TUKI (memoria/src/memoria.c): segmentation of one *)
(* contiguous area, with its list of holes, its segments and the table of  *)
(* every process.                                                          *)
(*                                                                         *)
(* The kernel's requests arrive on one connection, so one thread changes   *)
(* the lists; the threads of the CPU and of the file system only read and  *)
(* write the area, at physical addresses translated earlier.               *)
(*                                                                         *)
(* What the kernel does is taken from the module Kernel: while it handles  *)
(* a CREATE_SEGMENT the CPU waits, and a process blocked by a file         *)
(* operation asks for nothing.  A compaction may start with such an        *)
(* operation pending (FsSinCompactar does not always hold), and nobody     *)
(* tests the offset and the size of an F_READ or F_WRITE (module Cpu,      *)
(* AccesoFsEnSuSegmento).  For MOV the CPU translates with tables that are *)
(* up to date (CpuConTablaAlDia).                                          *)
(***************************************************************************)
EXTENDS Integers, Sequences, SequencesExt

CONSTANTS
    Pid,
    Ids,               \* segment identifiers a program may use, never 0
    Compartido,        \* segmento_0, shared by every process
    TAM_MEMORIA, TAM_SEGMENTO_0,
    Tamanios,          \* sizes a program may ask for
    ALGORITMO_ASIGNACION,
    Desplazamientos,   \* offsets a program may use in a segment
    Cantidades,        \* numbers of bytes it may read or write at once
    Valores            \* what a byte may hold

Ref == (Pid \X Ids) \cup {Compartido}
Direcciones == 0..(TAM_MEMORIA - 1)
Algoritmos == {"FIRST", "BEST", "WORST"}

ASSUME MemoriaAssumption ==
    /\ Compartido \notin Pid \X Ids
    /\ TAM_MEMORIA \in Nat /\ TAM_SEGMENTO_0 \in 1..TAM_MEMORIA
    /\ Tamanios \subseteq Nat \ {0}
    /\ ALGORITMO_ASIGNACION \in Algoritmos
    /\ Desplazamientos \subseteq Nat /\ Cantidades \subseteq Nat \ {0}

VARIABLES
    fase,          \* of each process, as the kernel sees it
    tabla,         \* tabla_de_segmentos of each process in lista_ts_wrappers
    segmentos,     \* segmentos_en_memoria
    base, tamanio, \* the fields of each segment
    huecos,        \* huecos_libres
    tamanioTotal,  \* tamanio_total
    pc,            \* where the thread of the kernel's connection is
    pedido,        \* the CREATE_SEGMENT being compacted for, or <<>>
    cursor,        \* compactar: base_segmento + tam_segmento
    movidos,       \* compactar: segments already moved
    espacio,       \* espacio_usuario
    accesosFs      \* reads and writes the file system has still to do, with
                   \* the segment and the offset each was asked for

listas    == <<tabla, segmentos, base, tamanio, huecos>>
compacta  == <<pc, pedido, cursor, movidos>>
vars == <<fase, listas, tamanioTotal, compacta, espacio, accesosFs>>

Hueco(b, t) == [base |-> b, tamanio |-> t]

-----------------------------------------------------------------------------
(* Faulty variants of the definitions below, for the mutation runs. *)
MejoraCopiada(algoritmo, a, b) == algoritmo # "FIRST" /\ a < b
HuecoElegidoSinMedir(algoritmo, t) == IF huecos = <<>> THEN 0 ELSE 1
OcupaElFinal(i, t) == [huecos EXCEPT ![i] = Hueco(@.base, @.tamanio - t)]
SumaVistaSinUltimo(t) ==
    FoldLeft(LAMBDA s, h : s + h.tamanio, 0,
             SubSeq(huecos, 1, Len(huecos) - 1))
AgregaSinUnir(b, t) ==
    LET n == Len(SelectSeq(huecos, LAMBDA h : h.base < b))
    IN InsertAt(huecos, n + 1, Hueco(b, t))
SinOrdenar(s) == s

(* verificar_espacio_memoria. *)
Suma(s) == FoldLeft(LAMBDA t, h : t + h.tamanio, 0, s)
Caben(t) == {i \in DOMAIN huecos : huecos[i].tamanio >= t}

VerificarEspacio(t) ==
    IF Caben(t) # {} THEN "SEGMENT_CREATED"
    ELSE IF Suma(huecos) >= t THEN "COMPACT" ELSE "OUT_OF_MEM"

(* What the function leaves in tamanio_total: it stops at the first fit. *)
SumaVista(t) ==
    LET vistos == IF Caben(t) = {} THEN huecos
                  ELSE SubSeq(huecos, 1, Min(Caben(t)) - 1)
    IN Suma(vistos)

(* encontrar_hueco_first, _best and _worst: one pass that keeps the first  *)
(* hole that fits until a strictly better one comes.                       *)
Mejora(algoritmo, a, b) ==
    \/ algoritmo = "BEST" /\ a < b
    \/ algoritmo = "WORST" /\ a > b

HuecoElegido(algoritmo, t) ==
    FoldLeftDomain(
        LAMBDA aux, i : IF /\ huecos[i].tamanio >= t
                           /\ aux = 0 \/ Mejora(algoritmo, huecos[i].tamanio,
                                                   huecos[aux].tamanio)
                        THEN i ELSE aux,
        0, huecos)

(* actualizar_hueco_libre: the segment takes the beginning of the hole. *)
Ocupa(i, t) ==
    IF huecos[i].tamanio = t THEN RemoveAt(huecos, i)
    ELSE [huecos EXCEPT ![i] = Hueco(@.base + t, @.tamanio - t)]

(* agregar_hueco_libre: joined to the hole before it, or put after it, and *)
(* then joined to the hole that begins where it ends.                      *)
AgregaHueco(b, t) ==
    LET n      == SelectLastInSeq(huecos, LAMBDA h : h.base < b)
        pegado == n > 0 /\ huecos[n].base + huecos[n].tamanio = b
        h == IF pegado THEN [huecos EXCEPT ![n].tamanio = @ + t]
                       ELSE InsertAt(huecos, n + 1, Hueco(b, t))
        k == IF pegado THEN n ELSE n + 1
        siguientes == {i \in DOMAIN h : /\ h[k].base < h[i].base
                                        /\ h[k].base + h[k].tamanio = h[i].base}
    IN IF siguientes = {} THEN h
       ELSE LET i == Min(siguientes)
            IN RemoveAt([h EXCEPT ![k].tamanio = @ + h[i].tamanio], i)

(* list_sort by comparador_de_base: each segment after those that do not   *)
(* begin later.                                                            *)
Inserta(z, r) ==
    InsertAt(z, SelectLastInSeq(z, LAMBDA q : base[q] <= base[r]) + 1, r)
PorBase(s) == FoldLeft(Inserta, <<>>, s)

(* memcpy.  Where the areas overlap C leaves the result undefined; what it *)
(* does depends on the order in which it copies, from the first byte       *)
(* ("adelante") or from the last ("atras").                                *)
Copia(orden, e, dst, src, n) ==
    LET salto == src - dst
        desde(k) == IF orden = "adelante" \/ salto = 0 THEN src + k
                    ELSE src + k + salto * ((n - 1 - k) \div salto)
    IN [d \in DOMAIN e |-> IF d \in dst..(dst + n - 1) THEN e[desde(d - dst)] ELSE e[d]]

Ordenes == {"adelante", "atras"}

(* The bytes of a request, from 0. *)
Bytes(n) == [0..(n - 1) -> Valores]

(* memcpy of a request into the area.  What falls outside of the area is   *)
(* not memory of any process, and is not modelled.                         *)
Escribe(e, direccion, bytes) ==
    [d \in DOMAIN e |-> IF d - direccion \in DOMAIN bytes THEN bytes[d - direccion]
                        ELSE e[d]]

-----------------------------------------------------------------------------
Init ==
    /\ fase = [p \in Pid |-> "nuevo"]
    /\ tabla = [p \in Pid |-> {}]
    /\ segmentos = <<Compartido>>
    /\ base = [r \in Ref |-> 0]
    /\ tamanio = [r \in Ref |-> IF r = Compartido THEN TAM_SEGMENTO_0 ELSE 0]
    /\ huecos = <<Hueco(TAM_SEGMENTO_0, TAM_MEMORIA - TAM_SEGMENTO_0)>>
    /\ tamanioTotal = 0
    /\ pc = "recv" /\ pedido = <<>> /\ cursor = 0 /\ movidos = 0
    /\ \E v \in Valores : espacio = [d \in Direcciones |-> v]
    /\ accesosFs = {}

(* inicializar_proceso. *)
InicializarProceso(p) ==
    /\ pc = "recv" /\ fase[p] = "nuevo"
    /\ fase' = [fase EXCEPT ![p] = "activo"]
    /\ tabla' = [tabla EXCEPT ![p] = {Compartido}]
    /\ UNCHANGED <<segmentos, base, tamanio, huecos, tamanioTotal, compacta,
                   espacio, accesosFs>>

(* The kernel ends a process; its exit thread tells the memory later. *)
Sale(p) ==
    /\ fase[p] = "activo" /\ pedido = <<>>
    /\ \A x \in accesosFs : x.pid # p
    /\ fase' = [fase EXCEPT ![p] = "saliendo"]
    /\ UNCHANGED <<listas, tamanioTotal, compacta, espacio, accesosFs>>

(* terminar_proceso drops the table; the segments stay where they are. *)
TerminarProceso(p) ==
    /\ pc = "recv" /\ fase[p] = "saliendo"
    /\ fase' = [fase EXCEPT ![p] = "terminado"]
    /\ tabla' = [tabla EXCEPT ![p] = {}]
    /\ UNCHANGED <<segmentos, base, tamanio, huecos, tamanioTotal, compacta,
                   espacio, accesosFs>>

(* An instruction of p may reach the memory: p runs, and the kernel is not *)
(* in the middle of another process's CREATE_SEGMENT.                      *)
Atiende(p) ==
    /\ pc = "recv" /\ fase[p] = "activo"
    /\ pedido # <<>> => p = pedido[1]
    /\ \A x \in accesosFs : x.pid # p

CreaSegmento(p, id, t) ==
    LET r == <<p, id>>
        i == HuecoElegido(ALGORITMO_ASIGNACION, t)
    IN
    /\ Atiende(p) /\ r \notin tabla[p]
    /\ pedido \in {<<>>, <<p, id, t>>}
    /\ VerificarEspacio(t) = "SEGMENT_CREATED"
    /\ base' = [base EXCEPT ![r] = huecos[i].base]
    /\ tamanio' = [tamanio EXCEPT ![r] = t]
    /\ tabla' = [tabla EXCEPT ![p] = @ \cup {r}]
    /\ segmentos' = Append(segmentos, r)
    /\ huecos' = Ocupa(i, t)
    /\ tamanioTotal' = SumaVista(t)
    /\ pedido' = <<>>
    /\ UNCHANGED <<fase, pc, cursor, movidos, espacio, accesosFs>>

(* OUT_OF_MEM: the kernel ends the process. *)
SinEspacio(p, id, t) ==
    /\ Atiende(p) /\ <<p, id>> \notin tabla[p]
    /\ pedido \in {<<>>, <<p, id, t>>}
    /\ VerificarEspacio(t) = "OUT_OF_MEM"
    /\ tamanioTotal' = SumaVista(t)
    /\ fase' = [fase EXCEPT ![p] = "saliendo"]
    /\ pedido' = <<>>
    /\ UNCHANGED <<listas, pc, cursor, movidos, espacio, accesosFs>>

(* COMPACT: the thread waits for the kernel's order to compact. *)
PideCompactar(p, id, t) ==
    /\ Atiende(p) /\ <<p, id>> \notin tabla[p]
    /\ pedido \in {<<>>, <<p, id, t>>}
    /\ VerificarEspacio(t) = "COMPACT"
    /\ tamanioTotal' = SumaVista(t)
    /\ pedido' = <<p, id, t>>
    /\ pc' = "compactar"
    /\ UNCHANGED <<fase, listas, cursor, movidos, espacio, accesosFs>>

(* The kernel's order.  Nothing here waits for the file system's accesses. *)
CompactaInicia ==
    /\ pc = "compactar"
    /\ segmentos' = PorBase(segmentos)
    /\ cursor' = 0 /\ movidos' = 0
    /\ pc' = "mueve"
    /\ UNCHANGED <<fase, tabla, base, tamanio, huecos, tamanioTotal, pedido,
                   espacio, accesosFs>>

MueveSegmento(orden) ==
    LET r == segmentos[movidos + 1] IN
    /\ pc = "mueve" /\ movidos < Len(segmentos)
    /\ espacio' = Copia(orden, espacio, cursor, base[r], tamanio[r])
    /\ base' = [base EXCEPT ![r] = cursor]
    /\ cursor' = cursor + tamanio[r]
    /\ movidos' = movidos + 1
    /\ UNCHANGED <<fase, tabla, segmentos, tamanio, huecos, tamanioTotal, pc,
                   pedido, accesosFs>>

CompactaTermina ==
    /\ pc = "mueve" /\ movidos = Len(segmentos)
    /\ huecos' = <<Hueco(cursor, tamanioTotal)>>
    /\ pc' = "recv" /\ cursor' = 0 /\ movidos' = 0
    /\ UNCHANGED <<fase, tabla, segmentos, base, tamanio, tamanioTotal, pedido,
                   espacio, accesosFs>>

(* deletear_segmento.  Programs delete segments they have, never 0. *)
DeleteaSegmento(p, r) ==
    /\ Atiende(p) /\ pedido = <<>>
    /\ r \in tabla[p] \ {Compartido}
    /\ tabla' = [tabla EXCEPT ![p] = @ \ {r}]
    /\ segmentos' = RemoveFirst(segmentos, r)
    /\ huecos' = AgregaHueco(base[r], tamanio[r])
    /\ base' = [base EXCEPT ![r] = 0]
    /\ tamanio' = [tamanio EXCEPT ![r] = 0]
    /\ UNCHANGED <<fase, tamanioTotal, compacta, espacio, accesosFs>>

(* PEDIDO_ESCRITURA_CPU, at an address the CPU has just translated and     *)
(* tested against the size of the segment.                                 *)
EscribeCpu(p, r, o, n, bytes) ==
    /\ Atiende(p) /\ pedido = <<>>
    /\ r \in tabla[p] /\ o + n <= tamanio[r]
    /\ espacio' = Escribe(espacio, base[r] + o, bytes)
    /\ UNCHANGED <<fase, listas, tamanioTotal, compacta, accesosFs>>

(* F_READ or F_WRITE: the CPU translates, the process blocks and the file  *)
(* system gets the physical address and the size, whatever they are.       *)
PideAccesoFs(p, r, o, n) ==
    /\ Atiende(p) /\ pedido = <<>>
    /\ r \in tabla[p]
    /\ accesosFs' = accesosFs \cup {[pid |-> p, ref |-> r, desde |-> o, n |-> n,
                                      direccion |-> base[r] + o]}
    /\ UNCHANGED <<fase, listas, tamanioTotal, compacta, espacio>>

(* PEDIDO_ESCRITURA_FS, and PEDIDO_LECTURA_FS, which changes no byte. *)
EscribeFs(x, bytes) ==
    /\ x \in accesosFs
    /\ accesosFs' = accesosFs \ {x}
    /\ espacio' = Escribe(espacio, x.direccion, bytes)
    /\ UNCHANGED <<fase, listas, tamanioTotal, compacta>>

LeeFs(x) ==
    /\ x \in accesosFs
    /\ accesosFs' = accesosFs \ {x}
    /\ UNCHANGED <<fase, listas, tamanioTotal, compacta, espacio>>

-----------------------------------------------------------------------------
Reposo ==
    /\ \A p \in Pid : fase[p] = "terminado"
    /\ UNCHANGED vars

Next ==
    \/ \E p \in Pid : InicializarProceso(p) \/ Sale(p) \/ TerminarProceso(p)
    \/ \E p \in Pid, id \in Ids, t \in Tamanios :
         CreaSegmento(p, id, t) \/ SinEspacio(p, id, t) \/ PideCompactar(p, id, t)
    \/ CompactaInicia \/ CompactaTermina
    \/ \E orden \in Ordenes : MueveSegmento(orden)
    \/ \E p \in Pid, r \in Ref : DeleteaSegmento(p, r)
    \/ \E p \in Pid, r \in Ref, o \in Desplazamientos, n \in Cantidades :
         \/ \E bytes \in Bytes(n) : EscribeCpu(p, r, o, n, bytes)
         \/ PideAccesoFs(p, r, o, n)
    \/ \E x \in accesosFs : LeeFs(x) \/ \E bytes \in Bytes(x.n) : EscribeFs(x, bytes)
    \/ Reposo

Spec == Init /\ [][Next]_vars

-----------------------------------------------------------------------------
(* Every variable of memoria.c keeps its type. *)
TipoMemoria ==
    /\ fase \in [Pid -> {"nuevo", "activo", "saliendo", "terminado"}]
    /\ tabla \in [Pid -> SUBSET Ref]
    /\ segmentos \in Seq(Ref)
    /\ base \in [Ref -> Nat] /\ tamanio \in [Ref -> Nat]
    /\ huecos \in Seq([base : Nat, tamanio : Nat])
    /\ tamanioTotal \in Nat /\ cursor \in Nat /\ movidos \in Nat
    /\ pc \in {"recv", "compactar", "mueve"}
    /\ pedido = <<>> \/ pedido \in Pid \X Ids \X Tamanios
    /\ espacio \in [Direcciones -> Valores]
    /\ accesosFs \subseteq [pid : Pid, ref : Ref, desde : Nat, n : Nat \ {0},
                           direccion : Nat]

(* Every byte of the area is in exactly one segment or hole: none is lost, *)
(* none is handed out twice (memoria.c:281-298, 376-441, 444-484).         *)
Cubre(b, t, d) == b <= d /\ d < b + t

Particion ==
    pc # "mueve" =>
        \A d \in Direcciones :
            LET enHueco == {i \in DOMAIN huecos : Cubre(huecos[i].base, huecos[i].tamanio, d)}
                enSegmento == {i \in DOMAIN segmentos :
                                 Cubre(base[segmentos[i]], tamanio[segmentos[i]], d)}
            IN Cardinality(enHueco) + Cardinality(enSegmento) = 1

(* The holes are in address order and no two touch: free neighbours are    *)
(* always joined, so that what fits in a run of free bytes fits in a hole. *)
HuecosSeparados ==
    \A i, j \in DOMAIN huecos :
        i < j => huecos[i].base + huecos[i].tamanio < huecos[j].base

(* Whatever the configured algorithm, the hole it chooses is the one its   *)
(* name says: the first, the smallest or the largest of those that fit     *)
(* (encontrar_hueco_first, _best and _worst).                              *)
EligeElHueco ==
    \A algoritmo \in Algoritmos, t \in Tamanios :
        LET i == HuecoElegido(algoritmo, t) IN
        Caben(t) # {} =>
            /\ i \in Caben(t)
            /\ \A j \in Caben(t) :
                 CASE algoritmo = "FIRST" -> huecos[i].base <= huecos[j].base
                   [] algoritmo = "BEST" -> huecos[i].tamanio <= huecos[j].tamanio
                   [] algoritmo = "WORST" -> huecos[i].tamanio >= huecos[j].tamanio

(* One compaction is enough: when the kernel repeats the CREATE_SEGMENT it *)
(* compacted for, there is a hole for it, so manejar_create_segment calls  *)
(* itself only once (kernel.c:952).                                        *)
CompactarAlcanza ==
    pedido # <<>> /\ pc = "recv" => VerificarEspacio(pedido[3]) = "SEGMENT_CREATED"

(* What the processes see of every segment they can reach. *)
Contenido ==
    [r \in Ref |->
        IF r = Compartido \/ r \in UNION {tabla[p] : p \in Pid}
        THEN [o \in 1..tamanio[r] |-> espacio[base[r] + o - 1]] ELSE <<>>]

(* A write asked for that very segment. *)
EscribeEn(r) ==
    \/ \E p \in Pid, o \in Desplazamientos, n \in Cantidades :
         \E bytes \in Bytes(n) : EscribeCpu(p, r, o, n, bytes)
    \/ \E x \in accesosFs : x.ref = r /\ \E bytes \in Bytes(x.n) : EscribeFs(x, bytes)

(* The two ways in which an access of the file system reaches bytes that   *)
(* are not those its program named: it was longer than the segment, which  *)
(* nobody tests, or a compaction moved the segment while it was pending.   *)
Desborda(x) == x.desde + x.n > tamanio[x.ref]
Viejo(x)    == x.direccion # base[x.ref] + x.desde

EscribeDesviado ==
    \E x \in accesosFs :
        (Desborda(x) \/ Viejo(x)) /\ \E bytes \in Bytes(x.n) : EscribeFs(x, bytes)

(* compactar copies the segment over part of itself, from the last byte. *)
SePisa(r) ==
    /\ MueveSegmento("atras") /\ r = segmentos[movidos + 1]
    /\ cursor < base[r] /\ base[r] < cursor + tamanio[r]

(* To the processes, every segment is an array of its own.  Nothing the    *)
(* memory does to its lists (create, delete, compact) and no write to      *)
(* another segment changes it: only a write asked for that very segment,   *)
(* an access of the file system that overran its own or that a compaction  *)
(* left behind, and its own move over itself by a memcpy that copies       *)
(* backwards (memoria.c:173-200, 444-484).                                 *)
SegmentosAislados ==
    [][\A r \in Ref :
         Contenido[r] # <<>> /\ Contenido'[r] \notin {<<>>, Contenido[r]}
         => EscribeEn(r) \/ EscribeDesviado \/ SePisa(r)]_vars
=============================================================================
