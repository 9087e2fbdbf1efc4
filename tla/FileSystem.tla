----------------------------- MODULE FileSystem -----------------------------
(***************************************************************************)
(* The file system process of TUKI (fileSystem/src/fileSystem.c): FCBs, a  *)
(* bitmap and a file of blocks on disk; one thread that receives requests  *)
(* (procesar_conexion) and one that serves them in turn                    *)
(* (atender_peticiones).                                                   *)
(*                                                                         *)
(* Each file has a direct block and a block of pointers.  Bitmap and       *)
(* blocks are mapped with MAP_SHARED and FCBs are saved with config_save,  *)
(* so all three outlive the process; the queue and the request being       *)
(* served do not.  The process dies in the middle of a request whenever    *)
(* the kernel disconnects: main returns while atender_peticiones works.    *)
(*                                                                         *)
(* What the kernel does is taken from the module Kernel: a file has one    *)
(* holder, who waits for the answer of each request.  That programs read   *)
(* and write inside their files is an assumption on them (EnElArchivo):    *)
(* neither process looks at it.                                            *)
(***************************************************************************)
EXTENDS Integers, Sequences, FiniteSets

CONSTANTS
    Archivos,
    Textos,                \* what programs write; byte i of t is <<t, i>>
    BLOCK_SIZE, BLOCK_COUNT,
    SIZEOF_PUNTERO,        \* sizeof(uint32_t)
    Tamanios,              \* of each file, the sizes of F_TRUNCATE
    Accesos,               \* and the pointer and size of F_READ and F_WRITE
    MaxCaidas              \* bound: how many times it is restarted

(* tamanio_bitmap: a number of bytes, that buscar_bloque_libre uses as a   *)
(* number of bits.  The blocks beyond are never assigned.                  *)
tamanio_bitmap == BLOCK_COUNT \div 8
Bloques == 0 .. (tamanio_bitmap - 1)

(* Pointer k of a block is uint32_t number k * sizeof(uint32_t) of it (the *)
(* index is a number of bytes, the array one of words).                    *)
CAPACIDAD == (BLOCK_SIZE - SIZEOF_PUNTERO)
                 \div (SIZEOF_PUNTERO * SIZEOF_PUNTERO)

ASSUME FileSystemAssumption ==
    /\ SIZEOF_PUNTERO \in Nat \ {0}
    /\ BLOCK_SIZE \in Nat /\ BLOCK_SIZE > SIZEOF_PUNTERO
    /\ BLOCK_COUNT \in Nat /\ BLOCK_COUNT >= 8
    /\ Tamanios \in [Archivos -> SUBSET Nat]
    /\ Accesos \in [Archivos -> SUBSET (Nat \X (Nat \ {0}))]
    /\ MaxCaidas \in Nat

VARIABLES
    bitmap,        \* blocks whose bit is 1
    bloques,       \* the file of blocks
    fcb,           \* lista_fcbs, as saved
    pendientes,    \* peticiones_pendientes
    contador,      \* contador_peticiones
    recibida,      \* the receiver has queued a request and not yet posted
    peticion,      \* the request atender_peticiones is serving
    paso,          \* and how far it is with it
    locales,       \* puntero_directo and puntero_indirecto, tamanio_viejo
    traido,        \* datos_a_escribir
    hecho,         \* how many of them are in the blocks
    enviado,       \* datos_leidos of the last F_READ
    vivo,          \* FALSE after a segmentation fault
    sano,          \* FALSE once it has used memory past a block it copied, or
                   \* a restart has cut the last step of a truncation
    caidas,
    aMedias,       \* files whose FCB a restart left without its size
    abiertos,      \* the kernel's table of open files
    enVuelo        \* files with a request not answered, in the order asked

disco    == <<bitmap, bloques, fcb>>
cola     == <<pendientes, contador, recibida>>
datos    == <<traido, hecho, enviado>>
kernel   == <<abiertos, enVuelo>>
averias  == <<sano, aMedias>>
ajeno    == <<cola, vivo, caidas, averias, kernel>>   \* not touched by a
                                                      \* request's steps
vars == <<disco, peticion, paso, locales, datos, ajeno>>

Peticion(op, f, t, p) ==
    [op |-> op, archivo |-> f, tamanio |-> t, puntero |-> p]
Peticiones ==
    {Peticion("OPEN", f, 0, 0) : f \in Archivos}
    \cup (UNION {{Peticion("TRUNCATE", f, t, 0) : t \in Tamanios[f]}
                     : f \in Archivos})
    \cup (UNION {{Peticion(op, f, a[2], a[1]) :
                      op \in {"READ", "WRITE"}, a \in Accesos[f]}
                     : f \in Archivos})

Pasos == {"espera", "OPEN", "TRUNCATE", "READ", "WRITE", "fcb", "tamanio",
          "bloques", "fin_escritura", "escribe"}

-----------------------------------------------------------------------------
(* Contents of a block.  The same bytes are read as data or as a counter   *)
(* and its pointers: cant is their first word, ptr the pointers after it.  *)
Cero   == <<>>
Crudo  == <<"puntero">>      \* a byte of a pointer, read as data
TEXTO  == 16843009           \* a word of text, the smallest: 0x01010101
Offsets == 0 .. (BLOCK_SIZE - 1)
SinDatos == [i \in {} |-> Cero]

BloqueDeDatos(d) ==
    [datos |-> d,
     cant  |-> IF \A i \in 0..(SIZEOF_PUNTERO - 1) : d[i] = Cero
               THEN 0 ELSE TEXTO,
     ptr   |-> [k \in 1..CAPACIDAD |-> 0]]

BloqueDePunteros(c, p) ==
    [datos |-> [i \in Offsets |-> Crudo], cant |-> c, ptr |-> p]

EnCero == BloqueDeDatos([i \in Offsets |-> Cero])

SinPuntero == -1
NoExiste == [existe |-> FALSE, tamanio |-> 0,
             directo |-> SinPuntero, indirecto |-> SinPuntero]

(* div() of C rounds towards zero. *)
Div(a, b) == IF a >= 0 THEN a \div b ELSE -((-a) \div b)

(* buscar_bloque_libre, and what n calls in a row mark: 0 when none is     *)
(* free.                                                                   *)
BuscarBloqueLibre(bm) ==
    IF Bloques \subseteq bm THEN 0
    ELSE CHOOSE i \in Bloques \ bm : \A j \in Bloques \ bm : i <= j

-----------------------------------------------------------------------------
(* Faulty variants of the definitions below, for the mutation runs. *)
NuevosSinMarcar(n) == [k \in 1..n |-> BuscarBloqueLibre(bitmap)]
AAgregarTruncado(viejo, restante) == Div(restante - viejo, BLOCK_SIZE)
ASacarRedondeado(viejo, restante) ==
    Div(viejo + BLOCK_SIZE - 1, BLOCK_SIZE) - Div(restante - 1, BLOCK_SIZE)
UltimoPunteroAnterior(cant, j) == cant - j
AgregoAlFrente(p) == <<p>> \o pendientes

-----------------------------------------------------------------------------

Ocupados(n) ==
    LET bm[k \in 0..n] == IF k = 0 THEN bitmap
                          ELSE bm[k - 1] \cup {BuscarBloqueLibre(bm[k - 1])}
    IN bm
Nuevos(n) == [k \in 1..n |-> BuscarBloqueLibre(Ocupados(n)[k - 1])]

(* manejar_f_truncate: how many blocks the new size adds or takes away.    *)
ARestar(viejo, nuevo) == IF viejo = 0 THEN nuevo - BLOCK_SIZE ELSE nuevo
AAgregar(viejo, restante) ==
    Div(restante - viejo + BLOCK_SIZE - 1, BLOCK_SIZE)
ASacar(viejo, restante) ==
    Div(viejo - 1, BLOCK_SIZE) - Div(restante - 1, BLOCK_SIZE)

(* sacar_bloques: the pointer taken at turn j. *)
UltimoPuntero(cant, j) == cant - j + 1

(* buscar_bloque: block 0 of a file is the direct one.  Pointers past the  *)
(* last are zero.                                                          *)
BuscarBloque(f, k) ==
    IF k = 0 THEN fcb[f].directo
    ELSE IF k \in 1..CAPACIDAD THEN bloques[fcb[f].indirecto].ptr[k]
    ELSE 0

(* Faulty variant: the offset in the first block is forgotten afterwards.  *)
BloqueDeSinAvanzar(f, pos, i) ==
    BuscarBloque(f, (pos + i - (pos % BLOCK_SIZE)) \div BLOCK_SIZE)

(* leer_datos, escribir_datos: where byte i of an access that begins at    *)
(* pos is; the rest of the first block, whole blocks, and what exceeds.    *)
RestanteComienzo(pos) == BLOCK_SIZE - (pos % BLOCK_SIZE)
BloqueDe(f, pos, i) ==
    BuscarBloque(f, IF i < RestanteComienzo(pos) THEN pos \div BLOCK_SIZE
                    ELSE pos \div BLOCK_SIZE + 1
                         + (i - RestanteComienzo(pos)) \div BLOCK_SIZE)
OffsetDe(pos, i) ==
    IF i < RestanteComienzo(pos) THEN (pos % BLOCK_SIZE) + i
    ELSE (i - RestanteComienzo(pos)) % BLOCK_SIZE

LeerDatos(f, pos, n) ==
    [i \in 0..(n - 1) |-> bloques[BloqueDe(f, pos, i)].datos[OffsetDe(pos, i)]]

(* Up to where the memcpy that follows byte i writes. *)
FinTramo(pos, n, i) ==
    LET fin == IF i = 0 THEN RestanteComienzo(pos) ELSE i + BLOCK_SIZE
    IN IF n < fin THEN n ELSE fin

-----------------------------------------------------------------------------
Init ==
    /\ bitmap = {} /\ bloques = [b \in Bloques |-> EnCero]
    /\ fcb = [f \in Archivos |-> NoExiste]
    /\ pendientes = <<>> /\ contador = 0 /\ recibida = FALSE
    /\ peticion = <<>> /\ paso = "espera"
    /\ locales = <<SinPuntero, SinPuntero, 0>>
    /\ traido = SinDatos /\ hecho = 0 /\ enviado = SinDatos
    /\ vivo = TRUE /\ sano = TRUE /\ caidas = 0 /\ aMedias = {}
    /\ abiertos = {} /\ enVuelo = <<>>

AgregoAPendientes(p) == Append(pendientes, p)

(* Assumed of programs: they do not read or write past the end.            *)
EnElArchivo(p) == /\ p.archivo \in abiertos
                  /\ p.puntero + p.tamanio <= fcb[p.archivo].tamanio

(* Bound: nothing is asked once a counter does not fit in its block.       *)
Acotado ==
    \A b \in Bloques : bloques[b].cant = TEXTO \/ bloques[b].cant \in 0..CAPACIDAD

(* The kernel asks, procesar_conexion receives: agrego_a_pendientes.       *)
Recibe ==
    /\ vivo /\ ~recibida /\ Acotado
    /\ \E p \in Peticiones :
          /\ p.archivo \notin {enVuelo[i] : i \in DOMAIN enVuelo}
          /\ CASE p.op = "OPEN"     -> p.archivo \notin abiertos
               [] p.op = "TRUNCATE" -> p.archivo \in abiertos
               [] OTHER             -> EnElArchivo(p)
          /\ pendientes' = AgregoAPendientes(p)
          /\ enVuelo' = Append(enVuelo, p.archivo)
    /\ recibida' = TRUE
    /\ UNCHANGED <<disco, contador, peticion, paso, locales, datos, vivo, caidas,
                   averias, abiertos>>

Postea ==
    /\ vivo /\ recibida
    /\ recibida' = FALSE
    /\ contador' = contador + 1
    /\ UNCHANGED <<disco, pendientes, peticion, paso, locales, datos, vivo, caidas,
                   averias, kernel>>

(* F_CLOSE of a file nobody waits for stays in the kernel. *)
FClose(f) ==
    /\ f \in abiertos
    /\ f \notin {enVuelo[i] : i \in DOMAIN enVuelo}
    /\ abiertos' = abiertos \ {f}
    /\ UNCHANGED <<disco, cola, peticion, paso, locales, datos, vivo, caidas,
                   averias, enVuelo>>

(* atender_peticiones: sem_wait, saco_de_pendientes, manejar_peticion. *)
Saca ==
    /\ vivo /\ paso = "espera" /\ contador > 0
    /\ contador' = contador - 1
    /\ peticion' = Head(pendientes)
    /\ pendientes' = Tail(pendientes)
    /\ paso' = Head(pendientes).op
    /\ UNCHANGED <<disco, recibida, locales, datos, vivo, caidas, averias,
                   kernel>>

Servido == peticion.archivo

Libera ==
    /\ peticion' = <<>> /\ paso' = "espera"
    /\ locales' = <<SinPuntero, SinPuntero, 0>>
    /\ traido' = SinDatos /\ hecho' = 0 /\ enviado' = SinDatos

(* send_fin_f_*: the kernel takes it for the first process that waits. *)
Responde ==
    /\ Libera
    /\ enVuelo' = Tail(enVuelo)
    /\ abiertos' = IF peticion.op = "OPEN" THEN abiertos \cup {Head(enVuelo)}
                   ELSE abiertos
    /\ UNCHANGED <<cola, vivo, caidas, aMedias>>

(* manejar_f_open, manejar_f_create. *)
Creado == IF fcb[Servido].existe THEN fcb
          ELSE [fcb EXCEPT ![Servido] = [NoExiste EXCEPT !.existe = TRUE]]
ManejarFOpen ==
    /\ vivo /\ paso = "OPEN"
    /\ fcb' = Creado
    /\ UNCHANGED <<bitmap, bloques, sano>>
    /\ Responde

(* asignar_punteros_primer_truncate: marked first, saved afterwards.  The  *)
(* block of pointers is used as it is found.                               *)
AsignarPunteros ==
    /\ vivo /\ paso = "TRUNCATE" /\ fcb[Servido].tamanio = 0
    /\ Servido \notin aMedias
    /\ bitmap' = Ocupados(2)[2]
    /\ locales' = <<Nuevos(2)[1], Nuevos(2)[2], 0>>
    /\ paso' = "fcb"
    /\ UNCHANGED <<bloques, fcb, peticion, datos, ajeno>>

GuardarPunteros ==
    /\ vivo /\ paso = "fcb"
    /\ fcb' = [fcb EXCEPT ![Servido].directo = locales[1],
                          ![Servido].indirecto = locales[2]]
    /\ paso' = "tamanio"
    /\ UNCHANGED <<bitmap, bloques, peticion, locales, datos, ajeno>>

(* The new size is saved before there are blocks for it. *)
GuardarTamanio ==
    /\ vivo
    /\ \/ paso = "tamanio"
       \/ paso = "TRUNCATE" /\ fcb[Servido].tamanio # 0
    /\ locales' = [locales EXCEPT ![3] = fcb[Servido].tamanio]
    /\ fcb' = [fcb EXCEPT ![Servido].tamanio = peticion.tamanio]
    /\ paso' = "bloques"
    /\ UNCHANGED <<bitmap, bloques, peticion, datos, ajeno>>

Viejo == locales[3]
Restante == ARestar(Viejo, peticion.tamanio)
Indirecto == fcb[Servido].indirecto

Muere ==
    /\ vivo' = FALSE
    /\ UNCHANGED <<bloques, fcb, peticion, paso, locales, datos, cola, caidas,
                   averias, kernel>>

(* TAMANIO_ARCHIVO is not in the FCB: config_get_int_value reads NULL. *)
TruncaSinTamanio ==
    /\ vivo /\ paso = "TRUNCATE" /\ Servido \in aMedias
    /\ bitmap' = bitmap
    /\ Muere

(* asignar_bloques.  A counter that is text sends the first memcpy far out *)
(* of the copy of the block: a segmentation fault.  Pointers that do not   *)
(* fit are written just past the copy, which may end the process too; if   *)
(* it does not they are never saved, and the counter counts them.          *)
NoEntran(c, n) == c + n > CAPACIDAD
AsignarBloques ==
    LET n == AAgregar(Viejo, Restante)
        b == bloques[Indirecto]
    IN /\ vivo /\ paso = "bloques" /\ Restante > Viejo
       /\ \/ b.cant = TEXTO /\ bitmap' = Ocupados(1)[1] /\ Muere
          \/ /\ b.cant # TEXTO /\ NoEntran(b.cant, n)
             /\ bitmap' = Ocupados(n)[n]
             /\ Muere
          \/ /\ b.cant # TEXTO
             /\ bitmap' = Ocupados(n)[n]
             /\ bloques' = [bloques EXCEPT ![Indirecto] =
                   BloqueDePunteros(b.cant + n,
                       [k \in 1..CAPACIDAD |->
                           IF k - b.cant \in 1..n THEN Nuevos(n)[k - b.cant]
                           ELSE b.ptr[k]])]
             /\ fcb' = fcb
             /\ sano' = (sano /\ ~NoEntran(b.cant, n))
             /\ Responde

(* sacar_bloques, from the last pointer down.  Pointer 0 is the counter;   *)
(* what is past the copy may be anything.                                  *)
Leido(b, k) ==
    IF k = 0 THEN {b.cant} ELSE IF k \in 1..CAPACIDAD THEN {b.ptr[k]} ELSE Bloques
FueraDeLaCopia(c, n) == n > 0 /\ (c > CAPACIDAD \/ n > c + 1)
SacarBloques ==
    LET n == ASacar(Viejo, Restante)
        b == bloques[Indirecto]
    IN /\ vivo /\ paso = "bloques" /\ Restante < Viejo /\ n > 0
       /\ \/ /\ b.cant = TEXTO \/ FueraDeLaCopia(b.cant, n)
             /\ bitmap' = bitmap
             /\ Muere
          \/ /\ b.cant # TEXTO
             /\ \E leidos \in [1..n -> Bloques \cup {b.cant}] :
                   /\ \A j \in 1..n : leidos[j] \in Leido(b, UltimoPuntero(b.cant, j))
                   /\ bitmap' = bitmap \ {leidos[j] : j \in 1..n}
             /\ bloques' = [bloques EXCEPT ![Indirecto] =
                   BloqueDePunteros(b.cant - n,
                       [k \in 1..CAPACIDAD |->
                           IF b.cant - k \in 0..(n - 1) THEN 0 ELSE b.ptr[k]])]
             /\ fcb' = fcb
             /\ sano' = (sano /\ ~FueraDeLaCopia(b.cant, n))
             /\ Responde

(* No block to add, or none to take: the block of pointers, if it is       *)
(* written at all, is written as it was.                                   *)
MismosBloques ==
    /\ vivo /\ paso = "bloques"
    /\ \/ Restante = Viejo
       \/ Restante < Viejo /\ ASacar(Viejo, Restante) = 0
    /\ UNCHANGED <<disco, sano>>
    /\ Responde

(* manejar_f_read: the bytes go to the memory, and its answer is awaited. *)
ManejarFRead ==
    /\ vivo /\ paso = "READ"
    /\ enviado' = LeerDatos(Servido, peticion.puntero, peticion.tamanio)
    /\ paso' = "fin_escritura"
    /\ UNCHANGED <<disco, peticion, locales, traido, hecho, ajeno>>

RecvFinEscritura ==
    /\ vivo /\ paso = "fin_escritura"
    /\ UNCHANGED <<disco, sano>>
    /\ Responde

(* manejar_f_write: the bytes come from the memory ... *)
ManejarFWrite ==
    /\ vivo /\ paso = "WRITE"
    /\ \E t \in Textos :
          traido' = [i \in 0..(peticion.tamanio - 1) |-> <<t, i>>]
    /\ paso' = "escribe"
    /\ UNCHANGED <<disco, peticion, locales, hecho, enviado, ajeno>>

(* ... and escribir_datos copies them, one block after another. *)
EscribirDatos ==
    LET pos   == peticion.puntero
        hasta == FinTramo(pos, peticion.tamanio, hecho)
        b     == BloqueDe(Servido, pos, hecho)
        desde == OffsetDe(pos, hecho)
    IN /\ vivo /\ paso = "escribe"
       /\ bloques' = [bloques EXCEPT ![b] = BloqueDeDatos(
             [o \in Offsets |->
                 IF o - desde \in 0..(hasta - hecho - 1)
                 THEN traido[hecho + o - desde] ELSE @.datos[o]])]
       /\ UNCHANGED <<bitmap, fcb>>
       /\ IF hasta = peticion.tamanio THEN Responde /\ sano' = sano
          ELSE /\ hecho' = hasta
               /\ UNCHANGED <<peticion, paso, locales, traido, enviado, ajeno>>

(* The process ends and is started again: levantar_archivos and            *)
(* inicializar_fcbs read the disk; the kernel and its processes are new.   *)
(* Between the size manejar_f_truncate saves and the blocks of that size   *)
(* the disk is not consistent (sano).                                      *)
Reinicia ==
    /\ vivo /\ caidas < MaxCaidas
    /\ caidas' = caidas + 1
    /\ pendientes' = <<>> /\ contador' = 0 /\ recibida' = FALSE
    /\ Libera
    /\ abiertos' = {} /\ enVuelo' = <<>>
    /\ sano' = (sano /\ paso # "bloques")
    /\ vivo' = vivo

CaeYReinicia == Reinicia /\ UNCHANGED <<disco, aMedias>>

(* manejar_f_create: fopen has made the file of the FCB, config_save has   *)
(* not written it.                                                         *)
CaeCreando ==
    /\ paso = "OPEN" /\ ~fcb[Servido].existe
    /\ fcb' = Creado
    /\ aMedias' = aMedias \cup {Servido}
    /\ UNCHANGED <<bitmap, bloques>>
    /\ Reinicia

(* asignar_bloques and sacar_bloques: k bits of the bitmap have changed,   *)
(* and the block of pointers, that waits RETARDO_ACCESO_BLOQUE, has not.   *)
CaeEnBloques ==
    LET mas   == AAgregar(Viejo, Restante)
        menos == ASacar(Viejo, Restante)
        b     == bloques[Indirecto]
    IN /\ paso = "bloques" /\ b.cant # TEXTO
       /\ \/ /\ Restante > Viejo
             /\ \E k \in 1..mas : bitmap' = Ocupados(k)[k]
          \/ /\ Restante < Viejo
             /\ \E k \in 1..menos : \E leidos \in [1..k -> Bloques \cup {b.cant}] :
                   /\ \A j \in 1..k : leidos[j] \in Leido(b, UltimoPuntero(b.cant, j))
                   /\ bitmap' = bitmap \ {leidos[j] : j \in 1..k}
       /\ UNCHANGED <<bloques, fcb, aMedias>>
       /\ Reinicia

Trabaja ==
    \/ Saca \/ ManejarFOpen
    \/ AsignarPunteros \/ GuardarPunteros \/ GuardarTamanio \/ TruncaSinTamanio
    \/ AsignarBloques \/ SacarBloques \/ MismosBloques
    \/ ManejarFRead \/ RecvFinEscritura \/ ManejarFWrite \/ EscribirDatos

Next ==
    \/ Recibe \/ Postea \/ Trabaja
    \/ CaeYReinicia \/ CaeCreando \/ CaeEnBloques
    \/ \E f \in Archivos : FClose(f)

Spec == Init /\ [][Next]_vars
-----------------------------------------------------------------------------
(* Every variable keeps its type; what is on disk, while it is sound.      *)
TipoFs ==
    /\ vivo /\ sano =>
          /\ bitmap \subseteq Bloques
          /\ DOMAIN bloques = Bloques
          /\ \A b \in Bloques : /\ DOMAIN bloques[b].datos = Offsets
                               /\ bloques[b].cant \in 0..CAPACIDAD \cup {TEXTO}
                               /\ bloques[b].ptr \in [1..CAPACIDAD -> Nat]
          /\ fcb \in [Archivos -> [existe : BOOLEAN, tamanio : Nat,
                                   directo : Bloques \cup {SinPuntero},
                                   indirecto : Bloques \cup {SinPuntero}]]
    /\ pendientes \in Seq(Peticiones) /\ contador \in Nat
    /\ recibida \in BOOLEAN
    /\ peticion \in Peticiones \cup {<<>>} /\ paso \in Pasos
    /\ hecho \in Nat /\ vivo \in BOOLEAN /\ sano \in BOOLEAN
    /\ caidas \in 0..MaxCaidas /\ aMedias \subseteq Archivos
    /\ abiertos \subseteq Archivos /\ enVuelo \in Seq(Archivos)

(* The places of a file that name a block: -1 is the block of pointers, 0  *)
(* the direct one, then its pointers.                                      *)
Lugares(f) ==
    IF fcb[f].directo = SinPuntero THEN {}
    ELSE {-1, 0} \cup {k \in 1..CAPACIDAD :
                           bloques[fcb[f].indirecto].cant \in k..CAPACIDAD}
BloqueEn(f, k) == IF k = -1 THEN fcb[f].indirecto ELSE BuscarBloque(f, k)
Usos == UNION {{<<f, k>> : k \in Lugares(f)} : f \in Archivos}
Usados == {BloqueEn(u[1], u[2]) : u \in Usos}

(* A block belongs to one place of one file, and its bit says so           *)
(* (buscar_bloque_libre, sacar_bloques): whatever files grow and shrink,   *)
(* and wherever a restart cut a request short, until one does it in the    *)
(* last step of a truncation, where sacar_bloques clears bits of blocks    *)
(* that the pointers on disk still name (sano).                            *)
UnDuenio ==
    vivo /\ sano =>
        /\ Usados \subseteq bitmap
        /\ \A u, v \in Usos :
               BloqueEn(u[1], u[2]) = BloqueEn(v[1], v[2]) => u = v

(* While the process has not been restarted no marked block is lost: each  *)
(* is in a file, or in the hands of asignar_punteros_primer_truncate.      *)
SinFugas ==
    vivo /\ sano /\ caidas = 0 =>
        bitmap \subseteq Usados \cup {locales[1], locales[2]}

(* manejar_f_truncate leaves a file with the blocks its size needs, and    *)
(* pointers to them.                                                       *)
EnTruncado(f) == paso = "bloques" /\ Servido = f
Necesarios(t) == Div(t - 1, BLOCK_SIZE)
Direccionable(f) ==
    fcb[f].tamanio > 0 /\ ~EnTruncado(f) =>
        /\ fcb[f].directo # SinPuntero
        /\ 1..Necesarios(fcb[f].tamanio) \subseteq Lugares(f)
BloquesSuficientes == vivo /\ sano => \A f \in Archivos : Direccionable(f)

(* And with no more blocks than it needs: "tantos bloques como sea         *)
(* necesario" (p. 25).                                                     *)
BloquesJustos ==
    vivo /\ sano => \A f \in Archivos :
        fcb[f].tamanio > 0 /\ ~EnTruncado(f) =>
            bloques[fcb[f].indirecto].cant = Necesarios(fcb[f].tamanio)

(* buscar_bloque_libre never looks for a block when there is none, for     *)
(* pointers that fit: it would return block 0, which belongs to a file,    *)
(* and nobody would know.                                                  *)
HayLugar ==
    vivo /\ sano =>
      /\ paso = "TRUNCATE" /\ fcb[Servido].tamanio = 0 =>
            Cardinality(Bloques \ bitmap) >= 2
      /\ /\ paso = "bloques" /\ Restante > Viejo
         /\ ~NoEntran(bloques[Indirecto].cant, AAgregar(Viejo, Restante))
         => Cardinality(Bloques \ bitmap) >= AAgregar(Viejo, Restante)

(* The uses of the disk that keep it so.  A counter of pointers cannot be  *)
(* taken for text; and no file is emptied (its next truncation takes two   *)
(* blocks more) or truncated to one byte (for a new file the code takes    *)
(* away a block it does not have).                                         *)
UsoPrevisto ==
    /\ CAPACIDAD < TEXTO
    /\ \A f \in Archivos : \A t \in Tamanios[f] : t > 1

(* There are blocks for every file at its largest, and two more for each   *)
(* restart.                                                                *)
DiscoGrande ==
    /\ IsFiniteSet(Archivos)
    /\ Cardinality(Archivos) * (2 + CAPACIDAD) + 2 * MaxCaidas <= tamanio_bitmap

(* Answers name no file: the kernel gives each to the first that waits,    *)
(* which must be the one whose request is being served; and sem_wait lets  *)
(* the worker take only from a list that has something.                    *)
RespuestaAlPrimero ==
    /\ enVuelo = (IF peticion = <<>> THEN <<>> ELSE <<Servido>>)
                     \o [i \in DOMAIN pendientes |-> pendientes[i].archivo]
    /\ contador + (IF recibida THEN 1 ELSE 0) = Len(pendientes)

(* Each file holds what was written in it, each read gives it back, and    *)
(* nothing done to one file, restarts included, touches another.           *)
TamanioVisto(f) == IF EnTruncado(f) THEN Viejo ELSE fcb[f].tamanio
Contenido ==
    [f \in {g \in Archivos : fcb[g].existe} |->
        [i \in 0..(TamanioVisto(f) - 1) |->
            bloques[BuscarBloque(f, i \div BLOCK_SIZE)].datos[i % BLOCK_SIZE]]]

Abstracto ==
    INSTANCE Almacen WITH contenido <- Contenido, pedido <- peticion
ImplementaAlmacen == Abstracto!Spec

=============================================================================
