------------------------------ MODULE Almacen ------------------------------
(***************************************************************************)
(* What the file system promises, with no blocks, bitmap or queue: files   *)
(* are sequences of bytes, requests are served one at a time, a request    *)
(* changes its own file and only the bytes it names, and all of it is done *)
(* when it ends.  A crash forgets the request; what it had written stays,  *)
(* and so may the file an OPEN was creating.  A store that has damaged     *)
(* itself, or was stopped between the size and the blocks of a file,       *)
(* promises nothing more (sano).                                           *)
(***************************************************************************)
EXTENDS Integers

CONSTANTS Archivos, Peticiones

VARIABLES
    contenido,   \* the bytes of each file that exists
    pedido,      \* the request being served, or <<>>
    traido,      \* the bytes the memory gave, for a WRITE
    hecho,       \* how many of them are written
    enviado,     \* the bytes the last READ sent to the memory
    caidas,
    sano         \* FALSE once it promises nothing more

vars == <<contenido, pedido, traido, hecho, enviado, caidas, sano>>

Bytes(n) == 0 .. (n - 1)
Vacio == [i \in Bytes(0) |-> i]

Init ==
    /\ contenido = [f \in {} |-> Vacio]
    /\ pedido = <<>> /\ traido = Vacio /\ hecho = 0 /\ enviado = Vacio
    /\ caidas = 0 /\ sano = TRUE

Sirve(op) == pedido # <<>> /\ pedido.op = op

SoloCambia(f) ==
    /\ DOMAIN contenido' = DOMAIN contenido \cup {f}
    /\ \A g \in DOMAIN contenido \ {f} : contenido'[g] = contenido[g]

Atender ==
    /\ pedido = <<>>
    /\ pedido' \in Peticiones
    /\ UNCHANGED <<contenido, traido, hecho, enviado, caidas>>

Creado(f) ==
    /\ SoloCambia(f)
    /\ contenido'[f] = IF f \in DOMAIN contenido THEN contenido[f] ELSE Vacio

Abrir ==
    /\ Sirve("OPEN")
    /\ Creado(pedido.archivo)
    /\ pedido' = <<>>
    /\ UNCHANGED <<traido, hecho, enviado, caidas>>

(* What the file had and still fits is kept; the rest may hold anything. *)
Truncar ==
    LET f == pedido.archivo
        n == pedido.tamanio
    IN /\ Sirve("TRUNCATE")
       /\ SoloCambia(f)
       /\ DOMAIN contenido'[f] = Bytes(n)
       /\ \A i \in Bytes(n) \cap DOMAIN contenido[f] :
              contenido'[f][i] = contenido[f][i]
       /\ pedido' = <<>>
       /\ UNCHANGED <<traido, hecho, enviado, caidas>>

Leer ==
    /\ Sirve("READ")
    /\ enviado' = [i \in Bytes(pedido.tamanio) |->
                       contenido[pedido.archivo][pedido.puntero + i]]
    /\ UNCHANGED <<contenido, pedido, traido, hecho, caidas>>

FinLeer ==
    /\ Sirve("READ")
    /\ enviado = [i \in Bytes(pedido.tamanio) |->
                      contenido[pedido.archivo][pedido.puntero + i]]
    /\ pedido' = <<>> /\ enviado' = Vacio
    /\ UNCHANGED <<contenido, traido, hecho, caidas>>

Traer ==
    /\ Sirve("WRITE") /\ hecho = 0
    /\ DOMAIN traido' = Bytes(pedido.tamanio)
    /\ UNCHANGED <<contenido, pedido, hecho, enviado, caidas>>

(* Some more of the bytes brought, in order; the request ends with the     *)
(* last one.                                                               *)
Escribir ==
    LET f == pedido.archivo
    IN /\ Sirve("WRITE") /\ DOMAIN traido = Bytes(pedido.tamanio)
       /\ SoloCambia(f)
       /\ \E hasta \in (hecho + 1) .. pedido.tamanio :
             /\ contenido'[f] = [i \in DOMAIN contenido[f] |->
                                    IF i - pedido.puntero \in hecho..(hasta - 1)
                                    THEN traido[i - pedido.puntero]
                                    ELSE contenido[f][i]]
             /\ IF hasta = pedido.tamanio
                THEN pedido' = <<>> /\ hecho' = 0 /\ traido' = Vacio
                ELSE pedido' = pedido /\ hecho' = hasta /\ traido' = traido
       /\ UNCHANGED <<enviado, caidas>>

Caer ==
    /\ pedido' = <<>> /\ hecho' = 0 /\ traido' = Vacio /\ enviado' = Vacio
    /\ caidas' = caidas + 1
    /\ \/ contenido' = contenido
       \/ Sirve("OPEN") /\ Creado(pedido.archivo)

Promete ==
    \/ Atender \/ Abrir \/ Truncar \/ Leer \/ FinLeer
    \/ Traer \/ Escribir \/ Caer

Next == sano' => sano /\ Promete

Spec == Init /\ [][Next]_vars
=============================================================================
