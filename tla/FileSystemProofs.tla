-------------------------- MODULE FileSystemProofs --------------------------
(***************************************************************************)
(* Proofs about the file system.                                           *)
(*                                                                         *)
(* It answers in the order it was asked: the answers name no file, so the  *)
(* list of the requests it has received and not served, with the one it is *)
(* serving, must be the kernel's list (RespuestasInv).                     *)
(*                                                                         *)
(* Its blocks are well kept (BloquesInv), while it uses no memory past the *)
(* copy of a block and no restart cuts the last step of a truncation       *)
(* (sano; TrabajoInv).  The disk is described apart from the steps of the  *)
(* requests: DiscoBien speaks of a bitmap, blocks, the two blocks and the  *)
(* number of pointers of each file, and a lemma says what each thing that  *)
(* is done to a disk leaves of it (Toma, Guarda, Cambia, Escribe, Suelta). *)
(* Then each action is one of them.                                        *)
(*                                                                         *)
(* And with the blocks well kept the files are what the module Almacen     *)
(* says of them: each step of the process is one of its steps, or is not   *)
(* seen from outside (DatosInv has what a request carries in memory).      *)
(***************************************************************************)
EXTENDS FileSystem, Listas

(* A request names a file, asks for one of the four operations, and is     *)
(* not the empty request.                                                  *)
LEMMA PeticionTipo ==
    ASSUME NEW r \in Peticiones
    PROVE  /\ r.archivo \in Archivos /\ r # <<>>
           /\ r.op \in {"OPEN", "TRUNCATE", "READ", "WRITE"}
<1>1. ASSUME NEW op \in {"OPEN", "TRUNCATE", "READ", "WRITE"},
             NEW f \in Archivos, NEW t, NEW p, r = Peticion(op, f, t, p)
      PROVE  /\ r.archivo \in Archivos /\ r # <<>>
             /\ r.op \in {"OPEN", "TRUNCATE", "READ", "WRITE"}
  <2>1. r.archivo = f /\ r.op = op /\ "op" \in DOMAIN r
    BY <1>1 DEF Peticion
  <2>. QED  BY <2>1
<1>2. CASE r \in {Peticion("OPEN", f, 0, 0) : f \in Archivos}
  BY <1>1, <1>2
<1>3. CASE r \in UNION {{Peticion("TRUNCATE", f, t, 0) : t \in Tamanios[f]}
                           : f \in Archivos}
  BY <1>1, <1>3
<1>4. CASE r \in UNION {{Peticion(op, f, a[2], a[1]) :
                            op \in {"READ", "WRITE"}, a \in Accesos[f]}
                           : f \in Archivos}
  <2>1. PICK f \in Archivos : r \in {Peticion(op, f, a[2], a[1]) :
                            op \in {"READ", "WRITE"}, a \in Accesos[f]}
    BY <1>4
  <2>2. PICK op \in {"READ", "WRITE"}, a \in Accesos[f] :
            r = Peticion(op, f, a[2], a[1])
    BY <2>1
  <2>. QED  BY <1>1, <2>2
<1>. QED  BY <1>2, <1>3, <1>4 DEF Peticiones

(* The files of a list of requests. *)
Nombres(s) == [i \in DOMAIN s |-> s[i].archivo]

(* Nombres gives one file for each request. *)
LEMMA NombresTipo ==
    ASSUME NEW s \in Seq(Peticiones)
    PROVE  Nombres(s) \in Seq(Archivos) /\ Len(Nombres(s)) = Len(s)
<1>1. /\ DOMAIN s = 1..Len(s) /\ Len(s) \in Nat
      /\ \A i \in 1..Len(s) : s[i] \in Peticiones
  BY LenProperties, ElementOfSeq
<1>2. \A r \in Peticiones : r.archivo \in Archivos
  BY PeticionTipo
<1>. QED  BY <1>1, <1>2, IsASeq DEF Nombres

(* A request put at the end puts its file at the end. *)
LEMMA NombresAgrega ==
    ASSUME NEW s \in Seq(Peticiones), NEW r \in Peticiones
    PROVE  /\ Append(s, r) \in Seq(Peticiones)
           /\ Len(Append(s, r)) = Len(s) + 1
           /\ Nombres(Append(s, r)) = Append(Nombres(s), r.archivo)
<1>. DEFINE z == Append(s, r)
<1>1. /\ z \in Seq(Peticiones) /\ Len(z) = Len(s) + 1 /\ Len(s) \in Nat
      /\ \A i \in 1..Len(s) : z[i] = s[i]
      /\ z[Len(s) + 1] = r
  BY AppendProperties, LenProperties
<1>2. /\ DOMAIN s = 1..Len(s) /\ DOMAIN z = 1..(Len(s) + 1)
  BY <1>1, LenProperties
<1>3. /\ Nombres(s) \in Seq(Archivos) /\ Len(Nombres(s)) = Len(s)
      /\ r.archivo \in Archivos
  BY NombresTipo, PeticionTipo
<1>4. /\ Append(Nombres(s), r.archivo) \in Seq(Archivos)
      /\ Len(Append(Nombres(s), r.archivo)) = Len(s) + 1
      /\ \A i \in 1..Len(s) : Append(Nombres(s), r.archivo)[i] = Nombres(s)[i]
      /\ Append(Nombres(s), r.archivo)[Len(s) + 1] = r.archivo
  BY <1>3, AppendProperties
<1>5. Nombres(z) \in Seq(Archivos) /\ Len(Nombres(z)) = Len(s) + 1
  BY <1>1, NombresTipo
<1>6. ASSUME NEW i \in 1..(Len(s) + 1)
      PROVE  Nombres(z)[i] = Append(Nombres(s), r.archivo)[i]
  <2>1. Nombres(z)[i] = z[i].archivo
    BY <1>2 DEF Nombres
  <2>2. i \in 1..Len(s) => Nombres(s)[i] = s[i].archivo
    BY <1>2 DEF Nombres
  <2>3. i \in 1..Len(s) \/ i = Len(s) + 1
    BY <1>1
  <2>. QED  BY <1>1, <1>4, <2>1, <2>2, <2>3
<1>7. Nombres(z) = Append(Nombres(s), r.archivo)
  BY <1>4, <1>5, <1>6, SeqEqual
<1>. QED  BY <1>1, <1>7

(* A request taken from the front takes its file from the front. *)
LEMMA NombresSaca ==
    ASSUME NEW s \in Seq(Peticiones), s # <<>>
    PROVE  /\ Head(s) \in Peticiones /\ Tail(s) \in Seq(Peticiones)
           /\ Len(Tail(s)) = Len(s) - 1 /\ Len(s) \in Nat \ {0}
           /\ <<Head(s).archivo>> \o Nombres(Tail(s)) = Nombres(s)
<1>1. /\ Head(s) \in Peticiones /\ Tail(s) \in Seq(Peticiones)
      /\ Len(Tail(s)) = Len(s) - 1 /\ Len(s) \in Nat \ {0}
      /\ Head(s) = s[1] /\ \A i \in 1..(Len(s) - 1) : Tail(s)[i] = s[i + 1]
  BY HeadTailProperties, EmptySeq, LenProperties
<1>2. /\ DOMAIN s = 1..Len(s) /\ DOMAIN Tail(s) = 1..(Len(s) - 1)
  BY <1>1, LenProperties
<1>. DEFINE n == Nombres(s)
            m == Nombres(Tail(s))
            x == Head(s).archivo
            u == <<x>>
<1>3. /\ n \in Seq(Archivos) /\ Len(n) = Len(s)
      /\ m \in Seq(Archivos) /\ Len(m) = Len(s) - 1
      /\ u \in Seq(Archivos) /\ Len(u) = 1 /\ u[1] = s[1].archivo
  <2>1. x \in Archivos /\ x = s[1].archivo
    BY <1>1, PeticionTipo
  <2>2. n \in Seq(Archivos) /\ Len(n) = Len(s)
    BY NombresTipo
  <2>3. m \in Seq(Archivos) /\ Len(m) = Len(s) - 1
    BY <1>1, NombresTipo
  <2>. HIDE DEF x, n, m
  <2>. QED  BY <2>1, <2>2, <2>3
<1>4. /\ \A i \in 1..Len(s) : n[i] = s[i].archivo
      /\ \A i \in 1..(Len(s) - 1) : m[i] = s[i + 1].archivo
  BY <1>1, <1>2 DEF Nombres
<1>. HIDE DEF n, m, u, x
<1>5. /\ u \o m \in Seq(Archivos) /\ Len(u \o m) = Len(s)
      /\ \A i \in 1..Len(s) :
            (u \o m)[i] = IF i <= 1 THEN u[i] ELSE m[i - 1]
  <2>0. Len(u) = 1 /\ Len(m) = Len(s) - 1 /\ Len(s) \in Nat
    BY <1>1, <1>3
  <2>1. Len(u) + Len(m) = Len(s)
    BY <2>0
  <2>2. /\ u \o m \in Seq(Archivos) /\ Len(u \o m) = Len(u) + Len(m)
        /\ \A i \in 1..(Len(u) + Len(m)) :
              (u \o m)[i] = IF i <= Len(u) THEN u[i] ELSE m[i - Len(u)]
    <3>1. u \in Seq(Archivos) /\ m \in Seq(Archivos)
      BY <1>3
    <3>. QED  BY <3>1, ConcatProperties
  <2>. QED  BY <2>0, <2>1, <2>2
<1>6. ASSUME NEW i \in 1..Len(s) PROVE (u \o m)[i] = n[i]
  <2>1. CASE i = 1
    BY <1>3, <1>4, <1>5, <2>1
  <2>2. CASE i # 1
    <3>1. i - 1 \in 1..(Len(s) - 1) /\ ~(i <= 1) /\ (i - 1) + 1 = i
      BY <1>1, <2>2
    <3>. QED  BY <1>4, <1>5, <3>1
  <2>. QED  BY <2>1, <2>2
<1>7. u \o m = n
  BY <1>3, <1>5, <1>6, SeqEqual
<1>. QED  BY <1>1, <1>7 DEF n, m, u, x

(* The list of one file and the files of a list, and what is left when     *)
(* the one is taken.                                                       *)
LEMMA UnoYResto ==
    ASSUME NEW a \in Archivos, NEW s \in Seq(Archivos)
    PROVE  /\ <<a>> \o s # <<>> /\ Head(<<a>> \o s) = a
           /\ Tail(<<a>> \o s) = s
<1>. DEFINE z == <<a>> \o s
<1>1. /\ <<a>> \in Seq(Archivos) /\ Len(<<a>>) = 1 /\ <<a>>[1] = a
      /\ Len(s) \in Nat
  BY LenProperties
<1>2. /\ z \in Seq(Archivos) /\ Len(z) = 1 + Len(s)
      /\ \A i \in 1..(1 + Len(s)) :
            z[i] = IF i <= 1 THEN <<a>>[i] ELSE s[i - 1]
  BY <1>1, ConcatProperties
<1>. HIDE DEF z
<1>3. z # <<>> /\ z[1] = a
  BY <1>1, <1>2
<1>4. /\ Head(z) = z[1] /\ Tail(z) \in Seq(Archivos) /\ Len(Tail(z)) = Len(s)
      /\ \A i \in 1..Len(s) : Tail(z)[i] = z[i + 1]
  BY <1>1, <1>2, <1>3, HeadTailProperties
<1>5. \A i \in 1..Len(s) : Tail(z)[i] = s[i]
  BY <1>1, <1>2, <1>4
<1>6. Tail(z) = s
  BY <1>4, <1>5, SeqEqual
<1>. QED  BY <1>3, <1>4, <1>6 DEF z

-----------------------------------------------------------------------------
(* The receiver's list, the worker's request and the kernel's list. *)
TipoCola ==
    /\ pendientes \in Seq(Peticiones) /\ contador \in Nat
    /\ recibida \in BOOLEAN /\ enVuelo \in Seq(Archivos)
    /\ peticion \in Peticiones \cup {<<>>}
    /\ paso = "espera" <=> peticion = <<>>

(* The inductive invariant of the queue: the order of the answers is its   *)
(* own invariant once the queue has its type.                              *)
RespuestasInv == TipoCola /\ RespuestaAlPrimero

(* The request being served, and then those received, in order. *)
Sirviendo == IF peticion = <<>> THEN <<>> ELSE <<peticion.archivo>>

(* Answers and requests agree: the definition, with the files named by     *)
(* Nombres.                                                                *)
LEMMA EnOrden ==
    RespuestaAlPrimero <=>
        /\ enVuelo = Sirviendo \o Nombres(pendientes)
        /\ contador + (IF recibida THEN 1 ELSE 0) = Len(pendientes)
BY DEF RespuestaAlPrimero, Sirviendo, Servido, Nombres

(* At most one file is being served. *)
LEMMA SirviendoTipo == TipoCola => Sirviendo \in Seq(Archivos)
<1>. SUFFICES ASSUME TipoCola PROVE Sirviendo \in Seq(Archivos)
  OBVIOUS
<1>1. CASE peticion = <<>>
  BY <1>1, EmptySeq DEF Sirviendo
<1>2. CASE peticion # <<>>
  <2>. DEFINE x == peticion.archivo
  <2>1. x \in Archivos
    BY <1>2, PeticionTipo DEF TipoCola
  <2>. HIDE DEF x
  <2>2. <<x>> \in Seq(Archivos)
    BY <2>1
  <2>. QED  BY <1>2, <2>2 DEF Sirviendo, x
<1>. QED  BY <1>1, <1>2

(* The answer: the worker is free and the kernel's first is served. *)
LEMMA RespondePaso ==
    ASSUME RespuestasInv, paso # "espera", Responde
    PROVE  RespuestasInv'
<1>. DEFINE x == peticion.archivo
            n == Nombres(pendientes)
<1>1. /\ peticion # <<>> /\ peticion' = <<>> /\ paso' = "espera"
      /\ enVuelo' = Tail(enVuelo)
      /\ UNCHANGED <<pendientes, contador, recibida>>
  BY DEF RespuestasInv, TipoCola, Responde, Libera, cola
<1>2. /\ x \in Archivos /\ n \in Seq(Archivos) /\ enVuelo = <<x>> \o n
      /\ contador + (IF recibida THEN 1 ELSE 0) = Len(pendientes)
  BY <1>1, PeticionTipo, NombresTipo, EnOrden
     DEF RespuestasInv, TipoCola, Sirviendo
<1>. HIDE DEF x, n
<1>3. enVuelo' = n
  BY <1>1, <1>2, UnoYResto
<1>4. Sirviendo' = <<>> /\ n' = n
  BY <1>1 DEF Sirviendo, Nombres, n
<1>5. <<>> \o n = n
  BY <1>2, ConcatEmptySeq
<1>6. RespuestaAlPrimero'
  <2>1. enVuelo' = Sirviendo' \o Nombres(pendientes)'
    BY <1>3, <1>4, <1>5 DEF n
  <2>. QED  BY <1>1, <1>2, <2>1 DEF RespuestaAlPrimero, Sirviendo, Servido,
            Nombres
<1>7. TipoCola'
  BY <1>1, <1>2, <1>3 DEF RespuestasInv, TipoCola
<1>. QED  BY <1>6, <1>7 DEF RespuestasInv

(* A step of the request being served that does not end it. *)
LEMMA SiguePaso ==
    ASSUME RespuestasInv, UNCHANGED <<cola, enVuelo, peticion>>,
           paso # "espera", paso' # "espera"
    PROVE  RespuestasInv'
BY DEF RespuestasInv, TipoCola, RespuestaAlPrimero, Servido, cola

(* agrego_a_pendientes and the kernel put the request at the end of their  *)
(* lists.                                                                  *)
LEMMA AgregaAlFinal ==
    ASSUME NEW u \in Seq(Archivos), NEW n \in Seq(Archivos),
           NEW x \in Archivos
    PROVE  Append(u \o n, x) = u \o Append(n, x)
<1>1. u \o n \in Seq(Archivos) /\ <<x>> \in Seq(Archivos)
  BY ConcatProperties
<1>2. Append(u \o n, x) = (u \o n) \o <<x>> /\ Append(n, x) = n \o <<x>>
  BY <1>1, AppendIsConcat
<1>. QED  BY <1>1, <1>2, ConcatAssociative

(* What the queue is when the process starts. *)
LEMMA NadaPendiente ==
    ASSUME NEW s, NEW c, NEW r, NEW q, NEW v, NEW z,
           s = <<>>, c = 0, r = FALSE, q = <<>>, v = <<>>, z = "espera"
    PROVE  /\ s \in Seq(Peticiones) /\ c \in Nat /\ r \in BOOLEAN
           /\ v \in Seq(Archivos) /\ q \in Peticiones \cup {<<>>}
           /\ z = "espera" <=> q = <<>>
           /\ v = (IF q = <<>> THEN <<>> ELSE <<q.archivo>>) \o Nombres(s)
           /\ c + (IF r THEN 1 ELSE 0) = Len(s)
<1>1. /\ Nombres(<<>>) = <<>>
      /\ <<>> \in Seq(Archivos) /\ <<>> \in Seq(Peticiones)
  BY EmptySeq DEF Nombres
<1>2. <<>> \o <<>> = <<>>
  BY <1>1, ConcatEmptySeq
<1>3. /\ s \in Seq(Peticiones) /\ v \in Seq(Archivos)
      /\ q \in Peticiones \cup {<<>>}
  BY <1>1
<1>4. c \in Nat /\ r \in BOOLEAN
  OBVIOUS
<1>5. z = "espera" <=> q = <<>>
  OBVIOUS
<1>6. v = (IF q = <<>> THEN <<>> ELSE <<q.archivo>>) \o Nombres(s)
  <2>1. (IF q = <<>> THEN <<>> ELSE <<q.archivo>>) = <<>>
    OBVIOUS
  <2>2. Nombres(s) = <<>>
    BY <1>1
  <2>. QED  BY <1>2, <2>1, <2>2
<1>7. c + (IF r THEN 1 ELSE 0) = Len(s)
  <2>1. Len(<<>>) = 0
    BY EmptySeq
  <2>. QED  BY <2>1
<1>. QED  BY <1>3, <1>4, <1>5, <1>6, <1>7

(* The steps of a request that do not answer it keep the order; those      *)
(* that do take the first of both lists.                                   *)
LEMMA TrabajoPaso ==
    ASSUME RespuestasInv, Trabaja, ~Saca
    PROVE  RespuestasInv'
<1>1. CASE ManejarFOpen
  BY <1>1, RespondePaso DEF ManejarFOpen
<1>2. CASE AsignarPunteros
  BY <1>2, SiguePaso DEF AsignarPunteros, ajeno, kernel
<1>3. CASE GuardarPunteros
  BY <1>3, SiguePaso DEF GuardarPunteros, ajeno, kernel
<1>4. CASE GuardarTamanio
  BY <1>4, SiguePaso DEF GuardarTamanio, ajeno, kernel
<1>5. CASE AsignarBloques
  <2>1. paso = "bloques"
    BY <1>5 DEF AsignarBloques
  <2>2. Responde \/ Muere
    BY <1>5 DEF AsignarBloques
  <2>3. ASSUME Muere PROVE RespuestasInv'
    BY <2>1, <2>3, SiguePaso DEF Muere, kernel
  <2>. QED  BY <2>1, <2>2, <2>3, RespondePaso
<1>6. CASE SacarBloques
  <2>1. paso = "bloques"
    BY <1>6 DEF SacarBloques
  <2>2. Responde \/ Muere
    BY <1>6 DEF SacarBloques
  <2>3. ASSUME Muere PROVE RespuestasInv'
    BY <2>1, <2>3, SiguePaso DEF Muere, kernel
  <2>. QED  BY <2>1, <2>2, <2>3, RespondePaso
<1>7. CASE MismosBloques
  BY <1>7, RespondePaso DEF MismosBloques
<1>8. CASE ManejarFRead
  BY <1>8, SiguePaso DEF ManejarFRead, ajeno, kernel
<1>9. CASE RecvFinEscritura
  BY <1>9, RespondePaso DEF RecvFinEscritura
<1>10. CASE ManejarFWrite
  BY <1>10, SiguePaso DEF ManejarFWrite, ajeno, kernel
<1>11. CASE EscribirDatos
  <2>1. paso = "escribe"
    BY <1>11 DEF EscribirDatos
  <2>2. \/ Responde
        \/ UNCHANGED <<peticion, paso, locales, traido, enviado, ajeno>>
    BY <1>11 DEF EscribirDatos
  <2>3. ASSUME UNCHANGED <<peticion, paso, locales, traido, enviado, ajeno>>
        PROVE  RespuestasInv'
    BY <2>1, <2>3, SiguePaso DEF ajeno, kernel
  <2>. QED  BY <2>1, <2>2, <2>3, RespondePaso
<1>12. CASE TruncaSinTamanio
  BY <1>12, SiguePaso DEF TruncaSinTamanio, Muere, kernel
<1>. QED  BY <1>1, <1>2, <1>3, <1>4, <1>5, <1>6, <1>7, <1>8, <1>9, <1>10,
          <1>11, <1>12 DEF Trabaja

(* Every step keeps the invariant of the queue. *)
LEMMA ColaPaso ==
    ASSUME RespuestasInv, Next
    PROVE  RespuestasInv'
<1>0. /\ TipoCola /\ Sirviendo \in Seq(Archivos)
      /\ Nombres(pendientes) \in Seq(Archivos)
      /\ enVuelo = Sirviendo \o Nombres(pendientes)
      /\ contador + (IF recibida THEN 1 ELSE 0) = Len(pendientes)
  BY EnOrden, SirviendoTipo, NombresTipo DEF RespuestasInv, TipoCola
<1>1. CASE Recibe
  <2>1. PICK r \in Peticiones :
            /\ pendientes' = Append(pendientes, r)
            /\ enVuelo' = Append(enVuelo, r.archivo)
    BY <1>1 DEF Recibe, AgregoAPendientes
  <2>2. /\ ~recibida /\ recibida' = TRUE
        /\ UNCHANGED <<contador, peticion, paso>>
    BY <1>1 DEF Recibe
  <2>3. /\ pendientes' \in Seq(Peticiones)
        /\ Len(pendientes') = Len(pendientes) + 1
        /\ Nombres(pendientes') = Append(Nombres(pendientes), r.archivo)
    BY <1>0, <2>1, NombresAgrega DEF TipoCola
  <2>4. r.archivo \in Archivos /\ Sirviendo' = Sirviendo
    BY <2>2, PeticionTipo DEF Sirviendo
  <2>5. enVuelo' = Sirviendo \o Append(Nombres(pendientes), r.archivo)
    BY <1>0, <2>1, <2>4, AgregaAlFinal
  <2>6. RespuestaAlPrimero'
    <3>1. enVuelo' = Sirviendo' \o Nombres(pendientes')
      BY <2>3, <2>4, <2>5
    <3>2. contador' + (IF recibida' THEN 1 ELSE 0) = Len(pendientes')
      BY <1>0, <2>2, <2>3 DEF TipoCola
    <3>. QED  BY <3>1, <3>2 DEF RespuestaAlPrimero, Sirviendo, Servido,
              Nombres
  <2>7. enVuelo' \in Seq(Archivos)
    BY <1>0, <2>1, <2>4, AppendProperties DEF TipoCola
  <2>. QED  BY <1>0, <2>2, <2>3, <2>6, <2>7 DEF RespuestasInv, TipoCola
<1>2. CASE Postea
  <2>1. /\ recibida /\ recibida' = FALSE /\ contador' = contador + 1
        /\ UNCHANGED <<pendientes, peticion, paso, enVuelo>>
    BY <1>2 DEF Postea, kernel
  <2>2. contador' \in Nat /\ recibida' \in BOOLEAN
    <3>1. contador \in Nat /\ contador' = contador + 1
      BY <1>0, <2>1 DEF TipoCola
    <3>2. contador' \in Nat
      BY <3>1
    <3>3. recibida' \in BOOLEAN
      BY <2>1, Zenon
    <3>. QED  BY <3>2, <3>3
  <2>3. contador' + (IF recibida' THEN 1 ELSE 0) = Len(pendientes)
    <3>1. contador + 1 = Len(pendientes) /\ contador' + 0 = contador + 1
      BY <1>0, <2>1 DEF TipoCola
    <3>. QED  BY <2>1, <3>1
  <2>4. TipoCola'
    <3>1. paso' = "espera" <=> peticion' = <<>>
      BY <1>0, <2>1 DEF TipoCola
    <3>2. /\ pendientes' \in Seq(Peticiones) /\ enVuelo' \in Seq(Archivos)
          /\ peticion' \in Peticiones \cup {<<>>}
      BY <1>0, <2>1 DEF TipoCola
    <3>. QED  BY <2>2, <3>1, <3>2 DEF TipoCola
  <2>5. RespuestaAlPrimero'
    BY <2>1, <2>3 DEF RespuestasInv, RespuestaAlPrimero, Servido
  <2>. QED  BY <2>4, <2>5 DEF RespuestasInv
<1>3. CASE Saca
  <2>1. /\ paso = "espera" /\ contador > 0 /\ contador' = contador - 1
        /\ peticion' = Head(pendientes) /\ pendientes' = Tail(pendientes)
        /\ paso' = Head(pendientes).op /\ UNCHANGED <<recibida, enVuelo>>
    BY <1>3 DEF Saca, kernel
  <2>2. pendientes # <<>> /\ peticion = <<>> /\ Sirviendo = <<>>
    <3>1. Len(pendientes) > 0
      BY <1>0, <2>1 DEF TipoCola
    <3>. QED  BY <1>0, <2>1, <3>1 DEF TipoCola, Sirviendo
  <2>3. /\ Head(pendientes) \in Peticiones
        /\ Tail(pendientes) \in Seq(Peticiones)
        /\ Len(Tail(pendientes)) = Len(pendientes) - 1
        /\ <<Head(pendientes).archivo>> \o Nombres(Tail(pendientes))
              = Nombres(pendientes)
    BY <1>0, <2>2, NombresSaca DEF TipoCola
  <2>4. Head(pendientes) # <<>> /\ Head(pendientes).op # "espera"
    BY <2>3, PeticionTipo
  <2>5. enVuelo = Nombres(pendientes)
    BY <1>0, <2>2, ConcatEmptySeq
  <2>6. Sirviendo' = <<Head(pendientes).archivo>>
    BY <2>1, <2>4 DEF Sirviendo
  <2>7. RespuestaAlPrimero'
    <3>1. enVuelo' = Sirviendo' \o Nombres(pendientes')
      BY <2>1, <2>3, <2>5, <2>6
    <3>2. contador' + (IF recibida' THEN 1 ELSE 0) = Len(pendientes')
      <4>. DEFINE w == IF recibida THEN 1 ELSE 0
                  l == Len(pendientes)
      <4>1. contador \in Nat /\ w \in Nat /\ l \in Nat /\ contador + w = l
        BY <1>0, LenProperties DEF TipoCola
      <4>2. contador' = contador - 1 /\ w' = w
        BY <2>1
      <4>3. Len(pendientes') = l - 1
        BY <2>1, <2>3
      <4>. HIDE DEF w, l
      <4>4. contador' + w' = Len(pendientes')
        BY <4>1, <4>2, <4>3
      <4>. QED  BY <4>4 DEF w
    <3>. QED  BY <3>1, <3>2 DEF RespuestaAlPrimero, Sirviendo, Servido,
              Nombres
  <2>8. contador' \in Nat /\ recibida' \in BOOLEAN
    <3>1. contador' = contador - 1 /\ contador \in Nat /\ contador > 0
      BY <1>0, <2>1 DEF TipoCola
    <3>. QED  BY <1>0, <2>1, <3>1 DEF TipoCola
  <2>9. /\ pendientes' \in Seq(Peticiones) /\ enVuelo' \in Seq(Archivos)
        /\ peticion' \in Peticiones \cup {<<>>}
    BY <1>0, <2>1, <2>3 DEF TipoCola
  <2>10. paso' = "espera" <=> peticion' = <<>>
    BY <2>1, <2>4
  <2>. QED  BY <2>7, <2>8, <2>9, <2>10 DEF RespuestasInv, TipoCola
<1>4. CASE Trabaja /\ ~Saca
  BY <1>4, TrabajoPaso
<1>5. CASE CaeYReinicia \/ CaeCreando \/ CaeEnBloques
  <2>1. /\ pendientes' = <<>> /\ contador' = 0 /\ recibida' = FALSE
        /\ peticion' = <<>> /\ paso' = "espera" /\ enVuelo' = <<>>
    BY <1>5 DEF CaeYReinicia, CaeCreando, CaeEnBloques, Reinicia, Libera
  <2>. QED  BY <2>1, NadaPendiente
            DEF RespuestasInv, TipoCola, RespuestaAlPrimero, Servido, Nombres
<1>6. ASSUME NEW f \in Archivos, FClose(f) PROVE RespuestasInv'
  BY <1>6 DEF FClose, cola, RespuestasInv, TipoCola, RespuestaAlPrimero,
              Servido
<1>. QED  BY <1>1, <1>2, <1>3, <1>4, <1>5, <1>6 DEF Next

(* The kernel gives each answer to the first process that waits: it is the *)
(* one whose request is served, and the worker never takes from an empty   *)
(* list, for any requests and any number of them, crashes included         *)
(* (agrego_a_pendientes, saco_de_pendientes, atender_peticiones).          *)
THEOREM RespuestaEnOrden == Spec => []RespuestaAlPrimero
<1>1. Init => RespuestasInv
  <2>. SUFFICES ASSUME Init PROVE RespuestasInv
    OBVIOUS
  <2>1. /\ pendientes = <<>> /\ contador = 0 /\ recibida = FALSE
        /\ peticion = <<>> /\ paso = "espera" /\ enVuelo = <<>>
    BY DEF Init
  <2>. QED  BY <2>1, NadaPendiente
            DEF RespuestasInv, TipoCola, RespuestaAlPrimero, Servido, Nombres
<1>2. RespuestasInv /\ [Next]_vars => RespuestasInv'
  <2>1. ASSUME RespuestasInv, UNCHANGED vars PROVE RespuestasInv'
    BY <2>1 DEF vars, ajeno, cola, kernel, RespuestasInv, TipoCola,
       RespuestaAlPrimero, Servido
  <2>. QED  BY <2>1, ColaPaso
<1>3. RespuestasInv => RespuestaAlPrimero
  BY DEF RespuestasInv
<1>. QED  BY <1>1, <1>2, <1>3, PTL DEF Spec

(* Quotient and remainder of naturals. *)
LEMMA DivNat ==
    ASSUME NEW a \in Nat, NEW b \in Nat, b > 0
    PROVE  /\ a \div b \in Nat /\ a % b \in 0..(b - 1)
           /\ a = b * (a \div b) + (a % b)
  OBVIOUS

(* A multiple grows by b at least when its factor grows. *)
LEMMA Productos ==
    ASSUME NEW b \in Nat, NEW q \in Nat, NEW p \in Nat, p < q
    PROVE  b * p + b <= b * q
<1>. PICK d \in Nat : q = p + 1 + d
  <2>1. q - (p + 1) \in Nat /\ q = p + 1 + (q - (p + 1))
    OBVIOUS
  <2>. QED  BY <2>1
<1>1. b * q = b * p + b + b * d /\ b * d \in Nat /\ b * p \in Nat
  OBVIOUS
<1>. QED  BY <1>1

(* Quotient and remainder are the only ones. *)
LEMMA DivUnico ==
    ASSUME NEW b \in Nat, NEW q \in Nat, NEW r \in Nat, r < b, NEW a,
           a = b * q + r
    PROVE  a \div b = q /\ a % b = r
<1>1. a \in Nat /\ b > 0 /\ b * q \in Nat
  OBVIOUS
<1>2. PICK p \in Nat, s \in Nat :
        p = a \div b /\ s = a % b /\ s < b /\ a = b * p + s
  BY <1>1, DivNat
<1>3. b * p \in Nat
  OBVIOUS
<1>4. ~ (p < q)
  <2>1. SUFFICES ASSUME p < q PROVE FALSE
    OBVIOUS
  <2>2. b * p + b <= b * q
    BY <2>1, Productos
  <2>. PICK x \in Nat, y \in Nat : x = b * p /\ y = b * q
    BY <1>1, <1>3
  <2>3. x + b <= y /\ x + s = y + r
    BY <1>2, <2>2
  <2>. QED  BY <1>2, <2>3
<1>5. ~ (q < p)
  <2>1. SUFFICES ASSUME q < p PROVE FALSE
    OBVIOUS
  <2>2. b * q + b <= b * p
    BY <2>1, Productos
  <2>. PICK x \in Nat, y \in Nat : x = b * p /\ y = b * q
    BY <1>1, <1>3
  <2>3. y + b <= x /\ x + s = y + r
    BY <1>2, <2>2
  <2>. QED  BY <2>3
<1>6. p = q
  BY <1>4, <1>5
<1>7. s = r
  <2>. PICK x \in Nat : x = b * q
    BY <1>1
  <2>1. x + s = x + r
    BY <1>2, <1>6
  <2>. QED  BY <2>1
<1>. QED  BY <1>2, <1>6, <1>7

(* The quotient grows with what is divided. *)
LEMMA DivCrece ==
    ASSUME NEW b \in Nat, b > 0, NEW a \in Nat, NEW c \in Nat, a <= c
    PROVE  a \div b <= c \div b
<1>1. PICK p \in Nat, s \in Nat :
        p = a \div b /\ s < b /\ a = b * p + s
  BY DivNat
<1>2. PICK q \in Nat, r \in Nat :
        q = c \div b /\ r < b /\ c = b * q + r
  BY DivNat
<1>3. ~ (q < p)
  <2>1. SUFFICES ASSUME q < p PROVE FALSE
    OBVIOUS
  <2>2. b * q + b <= b * p
    BY <2>1, Productos
  <2>. PICK x \in Nat, y \in Nat : x = b * p /\ y = b * q
    OBVIOUS
  <2>3. y + b <= x /\ x + s <= y + r
    BY <1>1, <1>2, <2>2
  <2>. QED  BY <1>2, <2>3
<1>. QED  BY <1>1, <1>2, <1>3

(* What is smaller than the divisor has quotient zero. *)
LEMMA DivCero ==
    ASSUME NEW b \in Nat, NEW a \in Nat, a < b
    PROVE  a \div b = 0
<1>1. a = b * 0 + a
  OBVIOUS
<1>. QED  BY <1>1, DivUnico

(* The measures of the disk are naturals, and block 0 exists. *)
LEMMA MedidasBien ==
    /\ BLOCK_SIZE \in Nat /\ BLOCK_SIZE > 1
    /\ CAPACIDAD \in Nat
    /\ tamanio_bitmap \in Nat /\ tamanio_bitmap > 0
    /\ 0 \in Bloques /\ Bloques \subseteq Nat
<1>1. BLOCK_SIZE \in Nat /\ BLOCK_SIZE > 1
  BY FileSystemAssumption
<1>2. CAPACIDAD \in Nat
  <2>1. /\ BLOCK_SIZE - SIZEOF_PUNTERO \in Nat
        /\ SIZEOF_PUNTERO * SIZEOF_PUNTERO \in Nat
        /\ SIZEOF_PUNTERO * SIZEOF_PUNTERO > 0
    BY FileSystemAssumption
  <2>. QED  BY <2>1, DivNat DEF CAPACIDAD
<1>3. tamanio_bitmap \in Nat /\ tamanio_bitmap > 0
  BY FileSystemAssumption DEF tamanio_bitmap
<1>. QED  BY <1>1, <1>2, <1>3 DEF Bloques

(* How many pointers a size needs: none if it fits in the direct block. *)
LEMMA NecesariosBien ==
    ASSUME NEW t \in Nat
    PROVE  /\ Necesarios(t) \in Nat
           /\ t <= BLOCK_SIZE => Necesarios(t) = 0
           /\ t > 0 => Necesarios(t) = (t - 1) \div BLOCK_SIZE
<1>. PICK b \in Nat : b = BLOCK_SIZE /\ b > 1
  BY MedidasBien
<1>1. CASE t = 0
  <2>1. 1 \div b = 0
    BY DivCero
  <2>2. Div(t - 1, b) = -(1 \div b)
    BY <1>1 DEF Div
  <2>3. Necesarios(t) = 0
    BY <2>1, <2>2 DEF Necesarios
  <2>. QED  BY <1>1, <2>3
<1>2. CASE t > 0
  <2>. PICK a \in Nat : a = t - 1
    BY <1>2
  <2>1. a \div b \in Nat /\ (a < b => a \div b = 0)
    BY DivNat, DivCero
  <2>2. Necesarios(t) = a \div b
    BY DEF Necesarios, Div
  <2>. QED  BY <1>2, <2>1, <2>2
<1>. QED  BY <1>1, <1>2

(* A larger size needs no fewer pointers. *)
LEMMA NecesariosCrece ==
    ASSUME NEW v \in Nat, NEW t \in Nat, v <= t
    PROVE  Necesarios(v) <= Necesarios(t)
<1>1. CASE v = 0
  BY <1>1, NecesariosBien, MedidasBien
<1>2. CASE v > 0
  <2>. PICK a \in Nat, c \in Nat : a = v - 1 /\ c = t - 1 /\ a <= c
    <3>1. v - 1 \in Nat /\ t - 1 \in Nat /\ v - 1 <= t - 1
      BY <1>2
    <3>. QED  BY <3>1
  <2>1. a \div BLOCK_SIZE <= c \div BLOCK_SIZE
    BY MedidasBien, DivCrece
  <2>2. /\ Necesarios(v) = a \div BLOCK_SIZE
        /\ Necesarios(t) = c \div BLOCK_SIZE
    BY <1>2, NecesariosBien
  <2>. QED  BY <2>1, <2>2
<1>. QED  BY <1>1, <1>2

(* A byte of a file of size t is in the direct block or in one that its    *)
(* pointers name.                                                          *)
LEMMA BloqueDentro ==
    ASSUME NEW t \in Nat, NEW i \in Nat, i < t
    PROVE  i \div BLOCK_SIZE \in 0..Necesarios(t)
<1>. PICK c \in Nat : c = t - 1 /\ i <= c
  <2>1. t - 1 \in Nat /\ i <= t - 1
    OBVIOUS
  <2>. QED  BY <2>1
<1>1. i \div BLOCK_SIZE \in Nat /\ i \div BLOCK_SIZE <= c \div BLOCK_SIZE
  BY MedidasBien, DivCrece, DivNat
<1>2. Necesarios(t) = c \div BLOCK_SIZE /\ Necesarios(t) \in Nat
  BY NecesariosBien
<1>. QED  BY <1>1, <1>2

(* A byte of an access that does not pass the end of its first block. *)
LEMMA EnElPrimero ==
    ASSUME NEW b \in Nat, b > 0, NEW a \in Nat, NEW i \in Nat, (a % b) + i < b
    PROVE  (a + i) \div b = a \div b /\ (a + i) % b = (a % b) + i
<1>. PICK q \in Nat, r \in Nat : q = a \div b /\ r = a % b /\ a = b * q + r
  BY DivNat
<1>. PICK e \in Nat : e = r + i
  OBVIOUS
<1>1. a + i = b * q + e /\ e < b
  OBVIOUS
<1>. QED  BY <1>1, DivUnico

(* The product, spread over its three terms, for a solver that does not    *)
(* expand products.                                                        *)
LEMMA Distribuye ==
    ASSUME NEW b \in Nat, NEW q \in Nat, NEW p \in Nat
    PROVE  b * (q + 1 + p) = b * q + b + b * p
  OBVIOUS

(* A byte of an access that passes it: i is what is left of the first      *)
(* block, and d more.                                                      *)
LEMMA EnLosDemas ==
    ASSUME NEW b \in Nat, b > 0, NEW a \in Nat, NEW d \in Nat, NEW i,
           NEW q \in Nat, NEW r \in Nat, q = a \div b, r = a % b,
           NEW p \in Nat, NEW s \in Nat, p = d \div b, s = d % b,
           i = b - r + d
    PROVE  (a + i) \div b = q + 1 + p /\ (a + i) % b = s
<1>1. a = b * q + r
  BY DivNat
<1>2. s < b /\ d = b * p + s
  BY DivNat
<1>3. b * (q + 1 + p) = b * q + b + b * p
  BY Distribuye
<1>4. b * q \in Nat /\ b * p \in Nat
  OBVIOUS
<1>5. PICK x \in Nat, y \in Nat : x = b * q /\ y = b * p
  BY <1>4
<1>7. a = x + r /\ d = y + s
  BY <1>1, <1>2, <1>5
<1>8. a + i = x + b + y + s
  BY <1>7
<1>9. a + i = b * (q + 1 + p) + s
  BY <1>3, <1>5, <1>8
<1>10. PICK e \in Nat : e = q + 1 + p
  OBVIOUS
<1>11. a + i = b * e + s
  BY <1>9, <1>10
<1>12. (a + i) \div b = e /\ (a + i) % b = s
  BY <1>2, <1>11, DivUnico
<1>. QED  BY <1>10, <1>12

(* The part of DivNat that mentions no product. *)
LEMMA Cociente ==
    ASSUME NEW a \in Nat, NEW b \in Nat, b > 0
    PROVE  a \div b \in Nat /\ a % b \in Nat /\ a % b < b
BY DivNat

(* BloqueDe and OffsetDe, that leer_datos and escribir_datos compute in    *)
(* three parts, give each byte the block and the offset of its position    *)
(* in the file.                                                            *)
LEMMA ByteEnSuBloque ==
    ASSUME NEW f, NEW pos \in Nat, NEW i \in Nat
    PROVE  /\ BloqueDe(f, pos, i) = BuscarBloque(f, (pos + i) \div BLOCK_SIZE)
           /\ OffsetDe(pos, i) = (pos + i) % BLOCK_SIZE
<1>1. PICK b \in Nat : b = BLOCK_SIZE /\ b > 0
  BY MedidasBien
<1>2. PICK q \in Nat, r \in Nat : q = pos \div b /\ r = pos % b /\ r < b
  BY <1>1, Cociente
<1>3. PICK c \in Nat : c = b - r
  <2>1. b - r \in Nat
    BY <1>2
  <2>. QED  BY <2>1
<1>4. RestanteComienzo(pos) = c
  BY <1>1, <1>2, <1>3 DEF RestanteComienzo
<1>5. CASE i < c
  <2>1. (pos % b) + i < b
    BY <1>2, <1>3, <1>5
  <2>2. (pos + i) \div b = pos \div b /\ (pos + i) % b = (pos % b) + i
    BY <1>1, <2>1, EnElPrimero
  <2>3. BloqueDe(f, pos, i) = BuscarBloque(f, pos \div b)
    BY <1>1, <1>4, <1>5 DEF BloqueDe
  <2>4. OffsetDe(pos, i) = (pos % b) + i
    BY <1>1, <1>4, <1>5 DEF OffsetDe
  <2>. QED  BY <1>1, <2>2, <2>3, <2>4
<1>6. CASE ~ (i < c)
  <2>1. PICK d \in Nat : d = i - c
    <3>1. i - c \in Nat
      BY <1>6
    <3>. QED  BY <3>1
  <2>2. PICK p \in Nat, s \in Nat : p = d \div b /\ s = d % b
    BY <1>1, Cociente
  <2>3. i = b - r + d
    BY <1>3, <2>1
  <2>4. (pos + i) \div b = q + 1 + p /\ (pos + i) % b = s
    BY <1>1, <1>2, <2>2, <2>3, EnLosDemas
  <2>5. BloqueDe(f, pos, i) = BuscarBloque(f, q + 1 + p)
    BY <1>1, <1>2, <1>4, <1>6, <2>1, <2>2 DEF BloqueDe
  <2>6. OffsetDe(pos, i) = s
    BY <1>1, <1>4, <1>6, <2>1, <2>2 DEF OffsetDe
  <2>. QED  BY <1>1, <2>4, <2>5, <2>6
<1>. QED  BY <1>5, <1>6

(* What is at least the divisor has a quotient.                            *)
LEMMA DivAlgo ==
    ASSUME NEW b \in Nat, b > 0, NEW a \in Nat, b <= a
    PROVE  a \div b \in Nat \ {0}
<1>1. b = b * 1 + 0
  OBVIOUS
<1>2. b \div b = 1
  BY <1>1, DivUnico
<1>3. b \div b <= a \div b /\ a \div b \in Nat
  BY DivCrece, Cociente
<1>. QED  BY <1>2, <1>3

(* Division rounded up gives enough.                                       *)
LEMMA Techo ==
    ASSUME NEW b \in Nat, b > 0, NEW d \in Nat, d > 0,
           NEW n, n = (d + b - 1) \div b
    PROVE  n \in Nat \ {0} /\ d <= b * n
<1>1. PICK e \in Nat : e = d + b - 1 /\ b <= e
  <2>1. d + b - 1 \in Nat /\ b <= d + b - 1
    OBVIOUS
  <2>. QED  BY <2>1
<1>2. n \in Nat \ {0}
  BY <1>1, DivAlgo
<1>3. PICK s \in Nat : s < b /\ e = b * n + s
  BY <1>1, DivNat
<1>4. b * n \in Nat
  BY <1>2
<1>5. PICK x \in Nat : x = b * n
  BY <1>4
<1>6. d + b - 1 = x + s
  BY <1>1, <1>3, <1>5
<1>7. d <= x
  BY <1>3, <1>6
<1>. QED  BY <1>2, <1>5, <1>7

(* The quotient of a sum grows no more than the multiples it adds.         *)
LEMMA DivSuma ==
    ASSUME NEW b \in Nat, b > 0, NEW a \in Nat, NEW c \in Nat, NEW n \in Nat,
           c <= a + b * n
    PROVE  c \div b <= a \div b + n
<1>1. PICK q \in Nat, s \in Nat : q = a \div b /\ s < b /\ a = b * q + s
  BY DivNat
<1>2. PICK p \in Nat, r \in Nat : p = c \div b /\ r < b /\ c = b * p + r
  BY DivNat
<1>3. ~ (q + n < p)
  <2>. SUFFICES ASSUME q + n < p PROVE FALSE
    OBVIOUS
  <2>1. PICK k \in Nat : k = q + n
    OBVIOUS
  <2>2. b * k + b <= b * p
    BY <2>1, Productos
  <2>3. b * k = b * q + b * n
    BY <2>1
  <2>4. PICK x \in Nat, y \in Nat, z \in Nat : x = b * p /\ y = b * q /\ z = b * n
    OBVIOUS
  <2>5. y + z + b <= x /\ x + r <= y + s + z
    BY <1>1, <1>2, <2>2, <2>3, <2>4
  <2>. QED  BY <1>1, <1>2, <2>4, <2>5
<1>. QED  BY <1>1, <1>2, <1>3

(* manejar_f_truncate: the blocks it adds, rounded up, are at least the    *)
(* difference of those the two sizes need, and those it takes are exactly  *)
(* the difference, in the first truncation and in the others.              *)
LEMMA BloquesDeTruncate ==
    ASSUME UsoPrevisto, NEW f \in Archivos, NEW t \in Tamanios[f],
           NEW v \in Tamanios[f] \cup {0}, NEW r, r = ARestar(v, t)
    PROVE  /\ t \in Nat /\ v \in Nat /\ t > 1
           /\ Necesarios(t) \in Nat /\ Necesarios(v) \in Nat
           /\ r > v => /\ AAgregar(v, r) \in Nat \ {0}
                       /\ Necesarios(t) <= Necesarios(v) + AAgregar(v, r)
           /\ r < v => /\ ASacar(v, r) = Necesarios(v) - Necesarios(t)
                       /\ Necesarios(t) <= Necesarios(v)
           /\ r = v => Necesarios(t) = Necesarios(v)
<1>. PICK b \in Nat : b = BLOCK_SIZE /\ b > 1
  BY MedidasBien
<1>1. t \in Nat /\ v \in Nat /\ t > 1
  BY FileSystemAssumption DEF UsoPrevisto
<1>2. Necesarios(t) \in Nat /\ Necesarios(v) \in Nat
  BY <1>1, NecesariosBien
<1>4. CASE v = 0
  <2>1. r = t - b
    BY <1>4 DEF ARestar
  <2>2. Necesarios(v) = 0
    BY <1>1, <1>4, NecesariosBien
  <2>3. AAgregar(v, r) = Necesarios(t)
    <3>1. r - v + b - 1 = t - 1
      BY <1>1, <1>4, <2>1
    <3>. QED  BY <3>1 DEF AAgregar, Necesarios
  <2>4. t <= b => Necesarios(t) = 0
    BY <1>1, NecesariosBien
  <2>5. ASSUME r < 0 PROVE ASacar(v, r) = 0
    <3>1. 1 \div b = 0
      BY DivCero
    <3>2. Div(v - 1, b) = 0
      BY <1>4, <3>1 DEF Div
    <3>. PICK d \in Nat : d = b + 1 - t /\ d < b /\ r - 1 = -d /\ d > 0
      <4>1. b + 1 - t \in Nat /\ b + 1 - t < b /\ r - 1 = -(b + 1 - t)
            /\ b + 1 - t > 0
        BY <2>1, <2>5, <1>1
      <4>. QED  BY <4>1
    <3>3. d \div b = 0
      BY DivCero
    <3>4. Div(r - 1, b) = 0
      <4>1. -(r - 1) = d /\ ~ (r - 1 >= 0)
        BY <1>1, <2>1
      <4>. QED  BY <3>3, <4>1 DEF Div
    <3>. QED  BY <3>2, <3>4 DEF ASacar
  <2>6. r = v => t = b
    BY <1>1, <1>4, <2>1
  <2>7. r < v => t <= b
    BY <1>1, <1>4, <2>1
  <2>8. ASSUME r > v PROVE Necesarios(t) # 0
    <3>1. PICK a \in Nat : a = t - 1 /\ b <= a
      <4>1. t - 1 \in Nat /\ b <= t - 1
        BY <1>1, <1>4, <2>1, <2>8
      <4>. QED  BY <4>1
    <3>2. Necesarios(t) = a \div b
      BY <1>1, <3>1, NecesariosBien
    <3>. QED  BY <3>1, <3>2, DivAlgo
  <2>. QED  BY <1>1, <1>2, <1>4, <2>2, <2>3, <2>4, <2>5, <2>6, <2>7, <2>8
<1>5. CASE v # 0
  <2>1. r = t /\ v \in Tamanios[f] /\ v > 0
    BY <1>1, <1>5 DEF ARestar
  <2>2. ASSUME r > v
        PROVE  /\ AAgregar(v, r) \in Nat \ {0}
               /\ Necesarios(t) <= Necesarios(v) + AAgregar(v, r)
    <3>1. PICK d \in Nat, a \in Nat, c \in Nat :
             d = t - v /\ d > 0 /\ a = v - 1 /\ c = t - 1 /\ c = a + d
      <4>1. /\ t - v \in Nat /\ t - v > 0 /\ v - 1 \in Nat /\ t - 1 \in Nat
            /\ t - 1 = (v - 1) + (t - v)
        BY <1>1, <2>1, <2>2
      <4>. QED  BY <4>1
    <3>2. PICK n : n = (d + b - 1) \div b
      OBVIOUS
    <3>3. AAgregar(v, r) = n
      <4>1. r - v + b - 1 = d + b - 1 /\ d + b - 1 >= 0
        BY <2>1, <3>1
      <4>. QED  BY <3>2, <4>1 DEF AAgregar, Div
    <3>4. n \in Nat \ {0} /\ d <= b * n
      BY <3>1, <3>2, Techo
    <3>5. c <= a + b * n
      <4>1. b * n \in Nat
        BY <3>4
      <4>2. PICK x \in Nat : x = b * n
        BY <4>1
      <4>. QED  BY <3>1, <3>4, <4>2
    <3>6. c \div b <= a \div b + n
      BY <3>4, <3>5, DivSuma
    <3>7. Necesarios(t) = c \div b /\ Necesarios(v) = a \div b
      BY <1>1, <2>1, <3>1, NecesariosBien
    <3>. QED  BY <3>3, <3>4, <3>6, <3>7
  <2>3. ASacar(v, r) = Necesarios(v) - Necesarios(t)
    BY <2>1 DEF ASacar, Necesarios
  <2>4. v <= t => Necesarios(v) <= Necesarios(t)
    BY <1>1, NecesariosCrece
  <2>5. t <= v => Necesarios(t) <= Necesarios(v)
    BY <1>1, NecesariosCrece
  <2>. QED  BY <1>1, <1>2, <2>1, <2>2, <2>3, <2>4, <2>5
<1>. QED  BY <1>4, <1>5

(* Bytes of text or zeros, read as a counter. *)
EsDatos(b) == b.cant \in {0, TEXTO}

(* A block, read in its three ways. *)
TipoBloque(b) ==
    /\ DOMAIN b.datos = Offsets
    /\ b.cant \in 0..CAPACIDAD \cup {TEXTO}
    /\ b.ptr \in [1..CAPACIDAD -> Nat]

(* The places of a file whose direct block is d and that has n pointers,   *)
(* and the block that place k names.                                       *)
Sitios(d, n) == IF d = SinPuntero THEN {} ELSE (-1)..n

(* The block that place k names, given the indirect one. *)
Nombra(bl, d, i, k) == IF k = -1 THEN i ELSE IF k = 0 THEN d ELSE bl[i].ptr[k]

(* The type of a disk: bitmap, blocks, direct and indirect block and       *)
(* number of pointers of each file, and the blocks in the hands of a       *)
(* request.                                                                *)
TipoDisco(bm, bl, di, in, h, M) ==
    /\ bm \subseteq Bloques /\ M \subseteq bm
    /\ DOMAIN bl = Bloques /\ \A b \in Bloques : TipoBloque(bl[b])
    /\ di \in [Archivos -> Bloques \cup {SinPuntero}]
    /\ in \in [Archivos -> Bloques \cup {SinPuntero}]
    /\ h \in [Archivos -> 0..CAPACIDAD]

(* Every named block is marked, and not in the hands of a request. *)
Marcados(bm, bl, di, in, h, M) ==
    \A f \in Archivos : \A k \in Sitios(di[f], h[f]) :
        Nombra(bl, di[f], in[f], k) \in bm \ M

(* Two places do not name the same block. *)
UnSitio(bl, di, in, h) ==
    \A f, g \in Archivos :
        \A k \in Sitios(di[f], h[f]), l \in Sitios(di[g], h[g]) :
            Nombra(bl, di[f], in[f], k) = Nombra(bl, di[g], in[g], l)
                => f = g /\ k = l

(* The counter of a block of pointers says how many there are, or it is a  *)
(* block of text that no truncation has read yet.                          *)
Contadores(bl, di, in, h) ==
    \A f \in Archivos : di[f] # SinPuntero =>
        \/ bl[in[f]].cant = h[f]
        \/ h[f] = 0 /\ bl[in[f]].cant = TEXTO

(* What is not a block of pointers holds data: the counter that a first    *)
(* truncation will find in it is zero or text.                             *)
SonDatos(bm, bl, di, in, h, M) ==
    /\ \A b \in Bloques : b \notin bm \/ b \in M => EsDatos(bl[b])
    /\ \A f \in Archivos : \A k \in Sitios(di[f], h[f]) :
          k >= 0 => EsDatos(bl[Nombra(bl, di[f], in[f], k)])

(* What makes a disk consistent. *)
DiscoBien(bm, bl, di, in, h, M) ==
    /\ TipoDisco(bm, bl, di, in, h, M)
    /\ Marcados(bm, bl, di, in, h, M)
    /\ UnSitio(bl, di, in, h)
    /\ Contadores(bl, di, in, h)
    /\ SonDatos(bm, bl, di, in, h, M)

(* No marked block is lost. *)
SinPerdidos(bm, bl, di, in, h, M) ==
    \A b \in bm : \/ b \in M
                  \/ \E f \in Archivos : \E k \in Sitios(di[f], h[f]) :
                        b = Nombra(bl, di[f], in[f], k)

(* A word of text is a natural, not zero. *)
LEMMA TextoFuera == TEXTO \in Nat /\ TEXTO > 0
BY DEF TEXTO

(* asignar_punteros_primer_truncate. *)
LEMMA Toma ==
    ASSUME NEW bm, NEW bl, NEW di, NEW in, NEW h,
           DiscoBien(bm, bl, di, in, h, {}),
           NEW a \in Bloques \ bm, NEW b \in Bloques \ bm
    PROVE  DiscoBien(bm \cup {a, b}, bl, di, in, h, {a, b})
<1>. DEFINE bn == bm \cup {a, b}
            M == {a, b}
<1>1. TipoDisco(bn, bl, di, in, h, M)
  BY DEF DiscoBien, TipoDisco
<1>2. Marcados(bn, bl, di, in, h, M)
  <2>. SUFFICES ASSUME NEW f \in Archivos, NEW k \in Sitios(di[f], h[f])
                PROVE  Nombra(bl, di[f], in[f], k) \in bn \ M
    BY DEF Marcados
  <2>1. Nombra(bl, di[f], in[f], k) \in bm
    BY DEF DiscoBien, Marcados
  <2>. QED  BY <2>1
<1>3. SonDatos(bn, bl, di, in, h, M)
  BY DEF DiscoBien, SonDatos
<1>. QED  BY <1>1, <1>2, <1>3 DEF DiscoBien

(* The two pointers are saved: the file has its first places.  Those it    *)
(* had, if a restart left it any, are lost.                                *)
LEMMA Guarda ==
    ASSUME NEW bm, NEW bl, NEW di, NEW in, NEW h,
           NEW a, NEW b, a # b,
           DiscoBien(bm, bl, di, in, h, {a, b}),
           NEW f \in Archivos, h[f] = 0, NEW dj, NEW ij,
           dj = [di EXCEPT ![f] = a], ij = [in EXCEPT ![f] = b]
    PROVE  DiscoBien(bm, bl, dj, ij, h, {})
<1>0. /\ a \in bm /\ b \in bm /\ bm \subseteq Bloques
      /\ a # SinPuntero /\ b # SinPuntero
      /\ dj[f] = a /\ ij[f] = b
      /\ \A g \in Archivos : g # f => dj[g] = di[g] /\ ij[g] = in[g]
  BY MedidasBien DEF DiscoBien, TipoDisco, SinPuntero
<1>1. TipoDisco(bm, bl, dj, ij, h, {})
  BY <1>0 DEF DiscoBien, TipoDisco
<1>2. /\ Sitios(dj[f], h[f]) = {-1, 0}
      /\ Nombra(bl, dj[f], ij[f], -1) = b
      /\ Nombra(bl, dj[f], ij[f], 0) = a
  BY <1>0 DEF Sitios, Nombra
<1>3. ASSUME NEW g \in Archivos, g # f
      PROVE  /\ Sitios(dj[g], h[g]) = Sitios(di[g], h[g])
             /\ \A k : Nombra(bl, dj[g], ij[g], k) = Nombra(bl, di[g], in[g], k)
  BY <1>0, <1>3
<1>4. \A g \in Archivos : \A k \in Sitios(di[g], h[g]) :
        Nombra(bl, di[g], in[g], k) \in bm \ {a, b}
  BY DEF DiscoBien, Marcados
<1>5. Marcados(bm, bl, dj, ij, h, {})
  <2>. SUFFICES ASSUME NEW g \in Archivos, NEW k \in Sitios(dj[g], h[g])
                PROVE  Nombra(bl, dj[g], ij[g], k) \in bm
    BY DEF Marcados
  <2>1. CASE g = f
    <3>1. k = -1 \/ k = 0
      BY <1>2, <2>1
    <3>. QED  BY <1>0, <1>2, <2>1, <3>1
  <2>2. CASE g # f
    BY <1>3, <1>4, <2>2
  <2>. QED  BY <2>1, <2>2
<1>6. UnSitio(bl, dj, ij, h)
  <2>. SUFFICES ASSUME NEW g \in Archivos, NEW e \in Archivos,
                       NEW k \in Sitios(dj[g], h[g]),
                       NEW l \in Sitios(dj[e], h[e]),
                       Nombra(bl, dj[g], ij[g], k) = Nombra(bl, dj[e], ij[e], l)
                PROVE  g = e /\ k = l
    BY DEF UnSitio
  <2>1. ASSUME NEW c \in Archivos, NEW j \in Sitios(dj[c], h[c])
        PROVE  Nombra(bl, dj[c], ij[c], j) \in {a, b} <=> c = f
    <3>1. CASE c = f
      <4>1. j = -1 \/ j = 0
        BY <1>2, <3>1
      <4>. QED  BY <1>2, <3>1, <4>1
    <3>2. CASE c # f
      BY <1>3, <1>4, <3>2
    <3>. QED  BY <3>1, <3>2
  <2>2. CASE g = f
    <3>1. e = f
      BY <2>1, <2>2
    <3>2. (k = -1 \/ k = 0) /\ (l = -1 \/ l = 0)
      BY <1>2, <2>2, <3>1
    <3>. QED  BY <1>2, <2>2, <3>1, <3>2
  <2>3. CASE g # f
    <3>1. e # f
      BY <2>1, <2>3
    <3>2. /\ k \in Sitios(di[g], h[g]) /\ l \in Sitios(di[e], h[e])
          /\ Nombra(bl, di[g], in[g], k) = Nombra(bl, di[e], in[e], l)
      BY <1>3, <2>3, <3>1
    <3>. QED  BY <3>2 DEF DiscoBien, UnSitio
  <2>. QED  BY <2>2, <2>3
<1>7. EsDatos(bl[a]) /\ EsDatos(bl[b])
  BY <1>0 DEF DiscoBien, SonDatos
<1>8. Contadores(bl, dj, ij, h)
  <2>. SUFFICES ASSUME NEW g \in Archivos, dj[g] # SinPuntero
                PROVE  \/ bl[ij[g]].cant = h[g]
                       \/ h[g] = 0 /\ bl[ij[g]].cant = TEXTO
    BY DEF Contadores
  <2>1. CASE g = f
    BY <1>0, <1>7, <2>1 DEF EsDatos
  <2>2. CASE g # f
    BY <1>0, <2>2 DEF DiscoBien, Contadores
  <2>. QED  BY <2>1, <2>2
<1>9. SonDatos(bm, bl, dj, ij, h, {})
  <2>1. \A c \in Bloques : c \notin bm => EsDatos(bl[c])
    BY DEF DiscoBien, SonDatos
  <2>2. ASSUME NEW g \in Archivos, NEW k \in Sitios(dj[g], h[g]), k >= 0
        PROVE  EsDatos(bl[Nombra(bl, dj[g], ij[g], k)])
    <3>1. CASE g = f
      <4>1. k = 0
        BY <1>2, <2>2, <3>1
      <4>. QED  BY <1>2, <1>7, <3>1, <4>1
    <3>2. CASE g # f
      BY <1>3, <2>2, <3>2 DEF DiscoBien, SonDatos
    <3>. QED  BY <3>1, <3>2
  <2>. QED  BY <2>1, <2>2 DEF SonDatos
<1>. QED  BY <1>1, <1>5, <1>6, <1>8, <1>9 DEF DiscoBien

(* What a change of the block of pointers of file f to x, with n pointers, *)
(* is: those that were stay, those added are free blocks, all different.   *)
Cambio(bm, bl, in, h, f, n, x, bj) ==
    /\ n \in 0..CAPACIDAD /\ TipoBloque(x) /\ x.cant = n
    /\ \A k \in 1..n : IF k <= h[f] THEN x.ptr[k] = bl[in[f]].ptr[k]
                       ELSE x.ptr[k] \in Bloques \ bm
    /\ \A k, l \in (h[f] + 1)..n : x.ptr[k] = x.ptr[l] => k = l
    /\ bj = (bm \ {bl[in[f]].ptr[k] : k \in (n + 1)..h[f]})
                \cup {x.ptr[k] : k \in (h[f] + 1)..n}

(* An EXCEPT under a name: the provers take the lemmas below as they are   *)
(* stated, without expanding it.                                           *)
Puesto(g, i, x) == [g EXCEPT ![i] = x]

(* The places of a file that has its blocks. *)
LEMMA SitiosDe ==
    ASSUME NEW bl, NEW d, d # SinPuntero, NEW i, NEW n \in Nat
    PROVE  /\ Sitios(d, n) = (-1)..n
           /\ Nombra(bl, d, i, -1) = i /\ Nombra(bl, d, i, 0) = d
           /\ \A k \in 1..n : Nombra(bl, d, i, k) = bl[i].ptr[k]
BY DEF Sitios, Nombra

(* The block of pointers is a place of its file. *)
LEMMA SitioIndirecto ==
    ASSUME NEW bm, NEW bl, NEW di, NEW in, NEW h, NEW M,
           DiscoBien(bm, bl, di, in, h, M),
           NEW f \in Archivos, di[f] # SinPuntero
    PROVE  /\ h[f] \in Nat
           /\ -1 \in Sitios(di[f], h[f])
           /\ Nombra(bl, di[f], in[f], -1) = in[f]
           /\ in[f] \in bm /\ in[f] \in Bloques
<1>1. h[f] \in Nat
  BY MedidasBien DEF DiscoBien, TipoDisco
<1>2. -1 \in Sitios(di[f], h[f])
  BY <1>1 DEF Sitios
<1>3. Nombra(bl, di[f], in[f], -1) = in[f]
  BY DEF Nombra
<1>4. Nombra(bl, di[f], in[f], -1) \in bm
  BY <1>2 DEF DiscoBien, Marcados
<1>5. bm \subseteq Bloques
  BY DEF DiscoBien, TipoDisco
<1>. QED  BY <1>1, <1>2, <1>3, <1>4, <1>5

(* Each place after the change: those of other files as they were; those   *)
(* of f, as they were or, beyond, a block that was free.                   *)
TrasCambio(bm, bl, di, in, h, f, n, x, blj, hj) ==
    /\ in[f] \in Bloques /\ blj[in[f]] = x
    /\ \A b \in Bloques : b # in[f] => blj[b] = bl[b]
    /\ hj[f] = n /\ \A g \in Archivos : g # f => hj[g] = h[g]
    /\ \A g \in Archivos : g # f =>
          \A k \in Sitios(di[g], h[g]) :
              Nombra(blj, di[g], in[g], k) = Nombra(bl, di[g], in[g], k)
    /\ \A k \in Sitios(di[f], n) :
          IF k <= h[f]
          THEN /\ k \in Sitios(di[f], h[f])
               /\ Nombra(blj, di[f], in[f], k)
                      = Nombra(bl, di[f], in[f], k)
          ELSE /\ k \in (h[f] + 1)..n
               /\ Nombra(blj, di[f], in[f], k) = x.ptr[k]
               /\ x.ptr[k] \in Bloques \ bm

(* The change of a block of pointers does to the places what TrasCambio    *)
(* says.                                                                   *)
LEMMA SitiosTrasCambio ==
    ASSUME NEW bm, NEW bl, NEW di, NEW in, NEW h,
           DiscoBien(bm, bl, di, in, h, {}),
           NEW f \in Archivos, di[f] # SinPuntero, NEW n, NEW x, NEW bj,
           Cambio(bm, bl, in, h, f, n, x, bj),
           NEW blj, blj = Puesto(bl, in[f], x),
           NEW hj, hj = Puesto(h, f, n)
    PROVE  TrasCambio(bm, bl, di, in, h, f, n, x, blj, hj)
<1>0. h[f] \in Nat /\ n \in Nat /\ in[f] \in Bloques \cup {SinPuntero}
  BY MedidasBien DEF DiscoBien, TipoDisco, Cambio
<1>1. -1 \in Sitios(di[f], h[f]) /\ Nombra(bl, di[f], in[f], -1) = in[f]
  BY SitioIndirecto
<1>2. in[f] \in Bloques
  BY SitioIndirecto
<1>3. /\ blj[in[f]] = x
      /\ \A b \in Bloques : b # in[f] => blj[b] = bl[b]
  <2>1. DOMAIN bl = Bloques
    BY DEF DiscoBien, TipoDisco
  <2>. QED  BY <1>2, <2>1 DEF Puesto
<1>4. hj[f] = n /\ \A g \in Archivos : g # f => hj[g] = h[g]
  <2>1. DOMAIN h = Archivos
    BY DEF DiscoBien, TipoDisco
  <2>. QED  BY <2>1 DEF Puesto
<1>5. ASSUME NEW g \in Archivos, g # f, NEW k \in Sitios(di[g], h[g])
      PROVE  Nombra(blj, di[g], in[g], k) = Nombra(bl, di[g], in[g], k)
  <2>1. di[g] # SinPuntero /\ h[g] \in Nat
    BY <1>5, MedidasBien DEF Sitios, DiscoBien, TipoDisco
  <2>2. -1 \in Sitios(di[g], h[g]) /\ Nombra(bl, di[g], in[g], -1) = in[g]
    BY <2>1, SitioIndirecto
  <2>3. in[g] # in[f]
    BY <1>1, <1>5, <2>2 DEF DiscoBien, UnSitio
  <2>4. in[g] \in Bloques
    BY <2>1, SitioIndirecto
  <2>5. blj[in[g]] = bl[in[g]]
    BY <1>3, <2>3, <2>4
  <2>. QED  BY <2>5 DEF Nombra
<1>6. ASSUME NEW k \in Sitios(di[f], n)
      PROVE  IF k <= h[f]
             THEN /\ k \in Sitios(di[f], h[f])
                  /\ Nombra(blj, di[f], in[f], k) = Nombra(bl, di[f], in[f], k)
             ELSE /\ k \in (h[f] + 1)..n
                  /\ Nombra(blj, di[f], in[f], k) = x.ptr[k]
                  /\ x.ptr[k] \in Bloques \ bm
  <2>1. k \in (-1)..n
    BY <1>0, SitiosDe
  <2>2. Sitios(di[f], h[f]) = (-1)..h[f]
    BY <1>0, SitiosDe
  <2>3. CASE k \in {-1, 0}
    BY <1>0, <2>2, <2>3 DEF Nombra
  <2>4. CASE k \in 1..n
    <3>1. Nombra(blj, di[f], in[f], k) = x.ptr[k]
      BY <1>3, <2>4 DEF Nombra
    <3>2. Nombra(bl, di[f], in[f], k) = bl[in[f]].ptr[k]
      BY <2>4 DEF Nombra
    <3>3. IF k <= h[f] THEN x.ptr[k] = bl[in[f]].ptr[k]
          ELSE x.ptr[k] \in Bloques \ bm
      BY <2>4 DEF Cambio
    <3>. QED  BY <1>0, <2>2, <2>4, <3>1, <3>2, <3>3
  <2>. QED  BY <1>0, <2>1, <2>3, <2>4
<1>. QED  BY <1>2, <1>3, <1>4, <1>5, <1>6 DEF TrasCambio

(* asignar_bloques and sacar_bloques: the blocks that stay keep their      *)
(* place and their data.                                                   *)
LEMMA Cambia ==
    ASSUME NEW bm, NEW bl, NEW di, NEW in, NEW h,
           DiscoBien(bm, bl, di, in, h, {}),
           NEW f \in Archivos, di[f] # SinPuntero, NEW n, NEW x, NEW bj,
           Cambio(bm, bl, in, h, f, n, x, bj),
           NEW blj, blj = Puesto(bl, in[f], x),
           NEW hj, hj = Puesto(h, f, n)
    PROVE  DiscoBien(bj, blj, di, in, hj, {})
<1>0. /\ in[f] \in Bloques /\ blj[in[f]] = x
      /\ \A b \in Bloques : b # in[f] => blj[b] = bl[b]
      /\ hj[f] = n /\ \A g \in Archivos : g # f => hj[g] = h[g]
      /\ \A g \in Archivos : g # f =>
            \A k \in Sitios(di[g], h[g]) :
                Nombra(blj, di[g], in[g], k) = Nombra(bl, di[g], in[g], k)
      /\ \A k \in Sitios(di[f], n) :
            IF k <= h[f]
            THEN /\ k \in Sitios(di[f], h[f])
                 /\ Nombra(blj, di[f], in[f], k) = Nombra(bl, di[f], in[f], k)
            ELSE /\ k \in (h[f] + 1)..n
                 /\ Nombra(blj, di[f], in[f], k) = x.ptr[k]
                 /\ x.ptr[k] \in Bloques \ bm
  <2>1. TrasCambio(bm, bl, di, in, h, f, n, x, blj, hj)
    BY SitiosTrasCambio
  <2>. QED  BY <2>1 DEF TrasCambio
<1>. DEFINE Fuera == {bl[in[f]].ptr[k] : k \in (n + 1)..h[f]}
            Nuevo == {x.ptr[k] : k \in (h[f] + 1)..n}
<1>1. bj = (bm \ Fuera) \cup Nuevo /\ Nuevo \subseteq Bloques \ bm
  <2>1. ASSUME NEW k \in (h[f] + 1)..n PROVE x.ptr[k] \in Bloques \ bm
    <3>1. k \in 1..n /\ ~ (k <= h[f])
      BY MedidasBien DEF Cambio, DiscoBien, TipoDisco
    <3>. QED  BY <3>1 DEF Cambio
  <2>. QED  BY <2>1 DEF Cambio
<1>2. h[f] \in 0..CAPACIDAD /\ n \in 0..CAPACIDAD /\ CAPACIDAD \in Nat
  <2>1. h \in [Archivos -> 0..CAPACIDAD]
    BY DEF DiscoBien, TipoDisco
  <2>. QED  BY <2>1, MedidasBien DEF Cambio
<1>13. h[f] \in Nat
  BY <1>2
<1>14. /\ Sitios(di[f], h[f]) = (-1)..h[f]
       /\ \A k \in 1..h[f] : Nombra(bl, di[f], in[f], k) = bl[in[f]].ptr[k]
  <2>1. Sitios(di[f], h[f]) = (-1)..h[f]
    BY DEF Sitios
  <2>2. ASSUME NEW k \in 1..h[f]
        PROVE  Nombra(bl, di[f], in[f], k) = bl[in[f]].ptr[k]
    BY DEF Nombra
  <2>. QED  BY <2>1, <2>2
<1>3. ASSUME NEW k \in (n + 1)..h[f]
      PROVE  /\ k \in Sitios(di[f], h[f]) /\ k >= 0
             /\ Nombra(bl, di[f], in[f], k) = bl[in[f]].ptr[k]
  <2>1. k \in 1..h[f] /\ k \in (-1)..h[f] /\ k >= 0
    BY <1>2, <1>3
  <2>. QED  BY <1>14, <2>1
<1>4. \A g \in Archivos : \A k \in Sitios(di[g], h[g]) :
         Nombra(bl, di[g], in[g], k) \in bm
  BY DEF DiscoBien, Marcados
<1>. HIDE DEF Fuera, Nuevo
<1>5. TipoDisco(bj, blj, di, in, hj, {})
  <2>1. bj \subseteq Bloques
    BY <1>1 DEF DiscoBien, TipoDisco
  <2>2. DOMAIN blj = Bloques /\ \A b \in Bloques : TipoBloque(blj[b])
    BY <1>0 DEF DiscoBien, TipoDisco, Cambio, Puesto
  <2>3. hj \in [Archivos -> 0..CAPACIDAD]
    <3>1. h \in [Archivos -> 0..CAPACIDAD]
      BY DEF DiscoBien, TipoDisco
    <3>. QED  BY <1>2, <3>1 DEF Puesto
  <2>. QED  BY <2>1, <2>2, <2>3 DEF DiscoBien, TipoDisco
(* The place a place had before, when it had one. *)
<1>6. ASSUME NEW g \in Archivos, NEW k \in Sitios(di[g], hj[g])
      PROVE  \/ /\ k \in Sitios(di[g], h[g])
                /\ Nombra(blj, di[g], in[g], k) = Nombra(bl, di[g], in[g], k)
                /\ Nombra(bl, di[g], in[g], k) \in bm \ Fuera
             \/ /\ g = f /\ k \in (h[f] + 1)..n
                /\ Nombra(blj, di[g], in[g], k) = x.ptr[k]
                /\ x.ptr[k] \in Nuevo
  <2>1. CASE g # f
    <3>1. /\ k \in Sitios(di[g], h[g])
          /\ Nombra(blj, di[g], in[g], k) = Nombra(bl, di[g], in[g], k)
      BY <1>0, <2>1
    <3>2. Nombra(bl, di[g], in[g], k) \notin Fuera
      BY <1>3, <2>1, <3>1 DEF DiscoBien, UnSitio, Fuera
    <3>. QED  BY <1>4, <3>1, <3>2
  <2>2. CASE g = f /\ k <= h[f]
    <3>1. /\ k \in Sitios(di[g], h[g])
          /\ Nombra(blj, di[g], in[g], k) = Nombra(bl, di[g], in[g], k)
      BY <1>0, <2>2
    <3>2. k \in (-1)..n
      <4>1. hj[f] = n /\ n \in Nat
        BY <1>0, <1>2, MedidasBien
      <4>2. k \in Sitios(di[f], n)
        BY <2>2, <4>1
      <4>. QED  BY <4>2 DEF Sitios
    <3>3. Nombra(bl, di[g], in[g], k) \notin Fuera
      <4>1. SUFFICES ASSUME NEW l \in (n + 1)..h[f],
                            Nombra(bl, di[g], in[g], k) = bl[in[f]].ptr[l]
                     PROVE  FALSE
        BY DEF Fuera
      <4>2. k = l
        BY <1>3, <2>2, <3>1, <4>1 DEF DiscoBien, UnSitio
      <4>. QED  BY <1>2, <3>2, <4>2
    <3>. QED  BY <1>4, <3>1, <3>3
  <2>3. CASE g = f /\ ~ (k <= h[f])
    BY <1>0, <2>3 DEF Nuevo
  <2>. QED  BY <2>1, <2>2, <2>3
<1>7. Marcados(bj, blj, di, in, hj, {})
  BY <1>1, <1>6 DEF Marcados
<1>8. UnSitio(blj, di, in, hj)
  <2>. SUFFICES ASSUME NEW g \in Archivos, NEW e \in Archivos,
                       NEW k \in Sitios(di[g], hj[g]),
                       NEW l \in Sitios(di[e], hj[e]),
                       Nombra(blj, di[g], in[g], k) = Nombra(blj, di[e], in[e], l)
                PROVE  g = e /\ k = l
    BY DEF UnSitio
  <2>1. CASE /\ k \in Sitios(di[g], h[g]) /\ l \in Sitios(di[e], h[e])
             /\ Nombra(bl, di[g], in[g], k) = Nombra(bl, di[e], in[e], l)
    BY <2>1 DEF DiscoBien, UnSitio
  <2>2. CASE /\ g = f /\ k \in (h[f] + 1)..n /\ e = f /\ l \in (h[f] + 1)..n
             /\ x.ptr[k] = x.ptr[l]
    BY <2>2 DEF Cambio
  <2>3. \A c \in Bloques : c \in bm => c \notin Nuevo
    BY <1>1
  <2>. QED  BY <1>1, <1>6, <2>1, <2>2
<1>9. Contadores(blj, di, in, hj)
  <2>. SUFFICES ASSUME NEW g \in Archivos, di[g] # SinPuntero
                PROVE  \/ blj[in[g]].cant = hj[g]
                       \/ hj[g] = 0 /\ blj[in[g]].cant = TEXTO
    BY DEF Contadores
  <2>1. CASE g = f
    BY <1>0, <2>1 DEF Cambio
  <2>2. CASE g # f
    <3>1. /\ -1 \in Sitios(di[g], h[g]) /\ Nombra(bl, di[g], in[g], -1) = in[g]
          /\ -1 \in Sitios(di[f], h[f]) /\ Nombra(bl, di[f], in[f], -1) = in[f]
      BY SitioIndirecto
    <3>2. in[g] # in[f]
      BY <2>2, <3>1 DEF DiscoBien, UnSitio
    <3>3. in[g] \in Bloques
      BY <1>4, <3>1 DEF DiscoBien, TipoDisco
    <3>. QED  BY <1>0, <2>2, <3>2, <3>3 DEF DiscoBien, Contadores
  <2>. QED  BY <2>1, <2>2
<1>10. ASSUME NEW g \in Archivos, NEW k \in Sitios(di[g], h[g]), k >= 0
       PROVE  /\ EsDatos(bl[Nombra(bl, di[g], in[g], k)])
              /\ Nombra(bl, di[g], in[g], k) \in Bloques
              /\ Nombra(bl, di[g], in[g], k) # in[f]
  <2>1. EsDatos(bl[Nombra(bl, di[g], in[g], k)])
    BY <1>10 DEF DiscoBien, SonDatos
  <2>2. Nombra(bl, di[g], in[g], k) \in Bloques
    BY <1>4 DEF DiscoBien, TipoDisco
  <2>3. -1 \in Sitios(di[f], h[f]) /\ Nombra(bl, di[f], in[f], -1) = in[f]
    BY SitioIndirecto
  <2>4. k # -1
    BY <1>10
  <2>. QED  BY <2>1, <2>2, <2>3, <2>4 DEF DiscoBien, UnSitio
<1>11. in[f] \in bm
  <2>1. -1 \in Sitios(di[f], h[f]) /\ Nombra(bl, di[f], in[f], -1) = in[f]
    BY SitioIndirecto
  <2>. QED  BY <1>4, <2>1
<1>12. SonDatos(bj, blj, di, in, hj, {})
  <2>1. ASSUME NEW c \in Bloques, c \notin bj PROVE EsDatos(blj[c])
    <3>1. c \notin bm \/ c \in Fuera
      BY <1>1, <2>1
    <3>2. CASE c \notin bm
      BY <1>0, <1>11, <3>2 DEF DiscoBien, SonDatos
    <3>3. CASE c \in Fuera
      <4>1. PICK l \in (n + 1)..h[f] : c = bl[in[f]].ptr[l]
        BY <3>3 DEF Fuera
      <4>2. EsDatos(bl[c]) /\ c # in[f]
        BY <1>3, <1>10, <4>1
      <4>. QED  BY <1>0, <4>2
    <3>. QED  BY <3>1, <3>2, <3>3
  <2>2. ASSUME NEW g \in Archivos, NEW k \in Sitios(di[g], hj[g]), k >= 0
        PROVE  EsDatos(blj[Nombra(blj, di[g], in[g], k)])
    <3>1. CASE /\ k \in Sitios(di[g], h[g])
               /\ Nombra(blj, di[g], in[g], k) = Nombra(bl, di[g], in[g], k)
      BY <1>0, <1>10, <2>2, <3>1
    <3>2. CASE /\ Nombra(blj, di[g], in[g], k) = x.ptr[k]
               /\ x.ptr[k] \in Nuevo
      <4>1. x.ptr[k] \in Bloques \ bm
        BY <1>1, <3>2
      <4>2. x.ptr[k] # in[f]
        BY <1>11, <4>1
      <4>. QED  BY <1>0, <3>2, <4>1, <4>2 DEF DiscoBien, SonDatos
    <3>. QED  BY <1>6, <3>1, <3>2
  <2>. QED  BY <2>1, <2>2 DEF SonDatos
<1>. QED  BY <1>5, <1>7, <1>8, <1>9, <1>12 DEF DiscoBien

(* The blocks of data that stay hold what they held. *)
LEMMA CambiaConserva ==
    ASSUME NEW bm, NEW bl, NEW di, NEW in, NEW h,
           DiscoBien(bm, bl, di, in, h, {}),
           NEW f \in Archivos, di[f] # SinPuntero, NEW n, NEW x, NEW bj,
           Cambio(bm, bl, in, h, f, n, x, bj),
           NEW blj, blj = Puesto(bl, in[f], x),
           NEW g \in Archivos, NEW k \in Sitios(di[g], h[g]), k >= 0,
           g = f => k <= n
    PROVE  /\ Nombra(blj, di[g], in[g], k) = Nombra(bl, di[g], in[g], k)
           /\ blj[Nombra(bl, di[g], in[g], k)] = bl[Nombra(bl, di[g], in[g], k)]
<1>. PICK hj : hj = Puesto(h, f, n)
  OBVIOUS
<1>1. TrasCambio(bm, bl, di, in, h, f, n, x, blj, hj)
  BY SitiosTrasCambio
<1>2. /\ -1 \in Sitios(di[f], h[f]) /\ Nombra(bl, di[f], in[f], -1) = in[f]
  BY SitioIndirecto
<1>3. /\ Nombra(bl, di[g], in[g], k) \in Bloques
      /\ Nombra(bl, di[g], in[g], k) # in[f]
  <2>1. Nombra(bl, di[g], in[g], k) \in bm /\ bm \subseteq Bloques
    BY DEF DiscoBien, Marcados, TipoDisco
  <2>2. k # -1
    OBVIOUS
  <2>. QED  BY <1>2, <2>1, <2>2 DEF DiscoBien, UnSitio
<1>4. blj[Nombra(bl, di[g], in[g], k)] = bl[Nombra(bl, di[g], in[g], k)]
  BY <1>1, <1>3 DEF TrasCambio
<1>5. Nombra(blj, di[g], in[g], k) = Nombra(bl, di[g], in[g], k)
  <2>1. CASE g # f
    BY <1>1, <2>1 DEF TrasCambio
  <2>2. CASE g = f
    <3>1. h[f] \in Nat /\ n \in Nat
      BY SitioIndirecto, MedidasBien DEF Cambio
    <3>2. k \in (-1)..h[f] /\ Sitios(di[f], n) = (-1)..n
      BY <2>2, <3>1 DEF Sitios
    <3>3. k \in Sitios(di[f], n) /\ k <= h[f]
      BY <2>2, <3>1, <3>2
    <3>. QED  BY <1>1, <2>2, <3>3 DEF TrasCambio
  <2>. QED  BY <2>1, <2>2
<1>. QED  BY <1>4, <1>5

(* And loses no block: those it unnames are no longer marked. *)
LEMMA CambiaSinPerder ==
    ASSUME NEW bm, NEW bl, NEW di, NEW in, NEW h,
           DiscoBien(bm, bl, di, in, h, {}),
           NEW P, SinPerdidos(bm, bl, di, in, h, P),
           NEW f \in Archivos, di[f] # SinPuntero, NEW n, NEW x, NEW bj,
           Cambio(bm, bl, in, h, f, n, x, bj),
           NEW blj, blj = Puesto(bl, in[f], x),
           NEW hj, hj = Puesto(h, f, n)
    PROVE  SinPerdidos(bj, blj, di, in, hj, P)
<1>1. TrasCambio(bm, bl, di, in, h, f, n, x, blj, hj)
  BY SitiosTrasCambio
<1>0. /\ h[f] \in Nat /\ n \in Nat
      /\ hj[f] = n /\ \A g \in Archivos : g # f => hj[g] = h[g]
  BY <1>1, SitioIndirecto, MedidasBien DEF Cambio, TrasCambio
<1>2. Sitios(di[f], n) = (-1)..n /\ Sitios(di[f], h[f]) = (-1)..h[f]
  BY <1>0 DEF Sitios
<1>3. ASSUME NEW b \in bj, b \notin P
      PROVE  \E g \in Archivos : \E k \in Sitios(di[g], hj[g]) :
                b = Nombra(blj, di[g], in[g], k)
  <2>1. CASE b \in bm /\ b \notin {bl[in[f]].ptr[k] : k \in (n + 1)..h[f]}
    <3>0. PICK g \in Archivos : \E k \in Sitios(di[g], h[g]) :
             b = Nombra(bl, di[g], in[g], k)
      BY <1>3, <2>1 DEF SinPerdidos
    <3>1. PICK k \in Sitios(di[g], h[g]) : b = Nombra(bl, di[g], in[g], k)
      BY <3>0
    <3>2. CASE g # f
      BY <1>0, <1>1, <3>1, <3>2 DEF TrasCambio
    <3>3. CASE g = f
      <4>1. k \in (-1)..h[f]
        BY <1>2, <3>1, <3>3
      <4>2. k <= n
        <5>1. SUFFICES ASSUME k > n PROVE FALSE
          BY <1>0, <4>1
        <5>2. k \in (n + 1)..h[f] /\ k # -1 /\ k # 0
          BY <1>0, <4>1, <5>1
        <5>3. b = bl[in[f]].ptr[k]
          BY <3>1, <3>3, <5>2 DEF Nombra
        <5>. QED  BY <2>1, <5>2, <5>3
      <4>3. k \in Sitios(di[f], n) /\ k <= h[f]
        BY <1>0, <1>2, <4>1, <4>2
      <4>4. Nombra(blj, di[f], in[f], k) = Nombra(bl, di[f], in[f], k)
        BY <1>1, <4>3 DEF TrasCambio
      <4>. QED  BY <1>0, <3>1, <3>3, <4>3, <4>4
    <3>. QED  BY <3>2, <3>3
  <2>2. CASE b \in {x.ptr[k] : k \in (h[f] + 1)..n}
    <3>1. PICK k \in (h[f] + 1)..n : b = x.ptr[k]
      BY <2>2
    <3>2. k \in Sitios(di[f], n) /\ ~ (k <= h[f])
      BY <1>0, <1>2, <3>1
    <3>3. Nombra(blj, di[f], in[f], k) = x.ptr[k]
      BY <1>1, <3>2 DEF TrasCambio
    <3>. QED  BY <1>0, <3>1, <3>2, <3>3
  <2>3. \/ b \in bm /\ b \notin {bl[in[f]].ptr[k] : k \in (n + 1)..h[f]}
        \/ b \in {x.ptr[k] : k \in (h[f] + 1)..n}
    BY <1>3 DEF Cambio
  <2>. QED  BY <2>1, <2>2, <2>3
<1>. QED  BY <1>3 DEF SinPerdidos

(* The two blocks of a first truncation are in its hands, not lost. *)
LEMMA TomaSinPerder ==
    ASSUME NEW bm, NEW bl, NEW di, NEW in, NEW h,
           NEW P, SinPerdidos(bm, bl, di, in, h, P), NEW a, NEW b
    PROVE  SinPerdidos(bm \cup {a, b}, bl, di, in, h, {a, b} \cup P)
BY DEF SinPerdidos

(* Saving them loses those the file had, if any. *)
LEMMA GuardaSinPerder ==
    ASSUME NEW bm, NEW bl, NEW di, NEW in, NEW h,
           NEW a, NEW b, a # b,
           DiscoBien(bm, bl, di, in, h, {a, b}),
           NEW P, SinPerdidos(bm, bl, di, in, h, {a, b} \cup P),
           NEW f \in Archivos, h[f] = 0, NEW dj, NEW ij,
           dj = [di EXCEPT ![f] = a], ij = [in EXCEPT ![f] = b],
           NEW Q, P \subseteq Q,
           di[f] # SinPuntero => di[f] \in Q /\ in[f] \in Q
    PROVE  SinPerdidos(bm, bl, dj, ij, h, Q)
<1>0. /\ a \in bm /\ b \in bm /\ bm \subseteq Bloques
      /\ a # SinPuntero /\ b # SinPuntero
      /\ dj[f] = a /\ ij[f] = b
      /\ \A g \in Archivos : g # f => dj[g] = di[g] /\ ij[g] = in[g]
  BY MedidasBien DEF DiscoBien, TipoDisco, SinPuntero
<1>1. /\ -1 \in Sitios(dj[f], h[f]) /\ 0 \in Sitios(dj[f], h[f])
      /\ Nombra(bl, dj[f], ij[f], -1) = b
      /\ Nombra(bl, dj[f], ij[f], 0) = a
  BY <1>0 DEF Sitios, Nombra
<1>2. ASSUME NEW c \in bm, c \notin Q
      PROVE  \E g \in Archivos : \E k \in Sitios(dj[g], h[g]) :
                c = Nombra(bl, dj[g], ij[g], k)
  <2>1. CASE c = a \/ c = b
    BY <1>1, <2>1
  <2>2. CASE c # a /\ c # b
    <3>0. PICK g \in Archivos : \E k \in Sitios(di[g], h[g]) :
             c = Nombra(bl, di[g], in[g], k)
      BY <1>2, <2>2 DEF SinPerdidos
    <3>1. PICK k \in Sitios(di[g], h[g]) : c = Nombra(bl, di[g], in[g], k)
      BY <3>0
    <3>2. g # f
      <4>1. SUFFICES ASSUME g = f PROVE FALSE
        OBVIOUS
      <4>2. di[f] # SinPuntero /\ (k = -1 \/ k = 0)
        BY <3>1, <4>1 DEF Sitios
      <4>3. c = in[f] \/ c = di[f]
        BY <3>1, <4>1, <4>2 DEF Nombra
      <4>. QED  BY <1>2, <4>2, <4>3
    <3>. QED  BY <1>0, <3>1, <3>2
  <2>. QED  BY <2>1, <2>2
<1>. QED  BY <1>2 DEF SinPerdidos

(* escribir_datos: a block of data of a file is written. *)
LEMMA Escribe ==
    ASSUME NEW bm, NEW bl, NEW di, NEW in, NEW h,
           DiscoBien(bm, bl, di, in, h, {}),
           NEW f \in Archivos, NEW k \in Sitios(di[f], h[f]), k >= 0,
           NEW x, TipoBloque(x), EsDatos(x),
           NEW blj, blj = Puesto(bl, Nombra(bl, di[f], in[f], k), x)
    PROVE  /\ DiscoBien(bm, blj, di, in, h, {})
           /\ \A g \in Archivos : \A l \in Sitios(di[g], h[g]) :
                Nombra(blj, di[g], in[g], l) = Nombra(bl, di[g], in[g], l)
<1>. DEFINE b == Nombra(bl, di[f], in[f], k)
<1>1. b \in bm /\ b \in Bloques /\ bm \subseteq Bloques
  <2>1. b \in bm /\ bm \subseteq Bloques
    BY DEF DiscoBien, Marcados, TipoDisco
  <2>. QED  BY <2>1
<1>2. blj[b] = x /\ \A c \in Bloques : c # b => blj[c] = bl[c]
  <2>1. DOMAIN bl = Bloques
    BY DEF DiscoBien, TipoDisco
  <2>. QED  BY <1>1, <2>1 DEF Puesto
<1>3. ASSUME NEW g \in Archivos, di[g] # SinPuntero
      PROVE  blj[in[g]] = bl[in[g]]
  <2>1. /\ -1 \in Sitios(di[g], h[g]) /\ Nombra(bl, di[g], in[g], -1) = in[g]
        /\ in[g] \in Bloques
    BY <1>3, SitioIndirecto
  <2>2. k # -1
    OBVIOUS
  <2>3. in[g] # b
    BY <2>1, <2>2 DEF DiscoBien, UnSitio
  <2>. QED  BY <1>2, <2>1, <2>3
<1>4. ASSUME NEW g \in Archivos, NEW l \in Sitios(di[g], h[g])
      PROVE  Nombra(blj, di[g], in[g], l) = Nombra(bl, di[g], in[g], l)
  <2>1. di[g] # SinPuntero
    BY DEF Sitios
  <2>2. blj[in[g]] = bl[in[g]]
    BY <1>3, <2>1
  <2>. QED  BY <2>2 DEF Nombra
<1>5. TipoDisco(bm, blj, di, in, h, {})
  <2>1. DOMAIN blj = Bloques /\ \A c \in Bloques : TipoBloque(blj[c])
    BY <1>2 DEF DiscoBien, TipoDisco, Puesto
  <2>. QED  BY <2>1 DEF DiscoBien, TipoDisco
<1>. HIDE DEF b
<1>6. Marcados(bm, blj, di, in, h, {})
  BY <1>4 DEF DiscoBien, Marcados
<1>7. UnSitio(blj, di, in, h)
  BY <1>4 DEF DiscoBien, UnSitio
<1>8. Contadores(blj, di, in, h)
  BY <1>3 DEF DiscoBien, Contadores
<1>9. SonDatos(bm, blj, di, in, h, {})
  <2>1. ASSUME NEW c \in Bloques, c \notin bm PROVE EsDatos(blj[c])
    BY <1>1, <1>2, <2>1 DEF DiscoBien, SonDatos
  <2>2. ASSUME NEW g \in Archivos, NEW l \in Sitios(di[g], h[g]), l >= 0
        PROVE  EsDatos(blj[Nombra(blj, di[g], in[g], l)])
    <3>. PICK c : c = Nombra(bl, di[g], in[g], l)
      OBVIOUS
    <3>1. EsDatos(bl[c]) /\ c \in Bloques
      <4>1. c \in bm
        BY DEF DiscoBien, Marcados
      <4>. QED  BY <1>1, <2>2, <4>1 DEF DiscoBien, SonDatos
    <3>2. EsDatos(blj[c])
      BY <1>2, <3>1
    <3>. QED  BY <1>4, <3>2
  <2>. QED  BY <2>1, <2>2 DEF SonDatos
<1>. QED  BY <1>4, <1>5, <1>6, <1>7, <1>8, <1>9 DEF DiscoBien

(* Writing data loses no block. *)
LEMMA EscribeSinPerder ==
    ASSUME NEW bm, NEW bl, NEW blj, NEW di, NEW in, NEW h,
           NEW P, SinPerdidos(bm, bl, di, in, h, P),
           \A g \in Archivos : \A l \in Sitios(di[g], h[g]) :
                Nombra(blj, di[g], in[g], l) = Nombra(bl, di[g], in[g], l)
    PROVE  SinPerdidos(bm, blj, di, in, h, P)
BY DEF SinPerdidos

(* A restart: what a request had in its hands stays marked. *)
LEMMA Suelta ==
    ASSUME NEW bm, NEW bl, NEW di, NEW in, NEW h, NEW M,
           DiscoBien(bm, bl, di, in, h, M)
    PROVE  DiscoBien(bm, bl, di, in, h, {})
<1>1. TipoDisco(bm, bl, di, in, h, {})
  BY DEF DiscoBien, TipoDisco
<1>2. Marcados(bm, bl, di, in, h, {})
  BY DEF DiscoBien, Marcados
<1>3. SonDatos(bm, bl, di, in, h, {})
  BY DEF DiscoBien, SonDatos
<1>. QED  BY <1>1, <1>2, <1>3 DEF DiscoBien

(* An empty disk. *)
LEMMA DiscoVacio ==
    ASSUME NEW bl, DOMAIN bl = Bloques, NEW di, NEW in, NEW h,
           \A b \in Bloques : TipoBloque(bl[b]) /\ EsDatos(bl[b]),
           di = [f \in Archivos |-> SinPuntero],
           in = [f \in Archivos |-> SinPuntero],
           h = [f \in Archivos |-> 0]
    PROVE  /\ DiscoBien({}, bl, di, in, h, {})
           /\ SinPerdidos({}, bl, di, in, h, {})
<1>1. \A f \in Archivos : Sitios(di[f], h[f]) = {} /\ di[f] = SinPuntero
  BY DEF Sitios
<1>2. TipoDisco({}, bl, di, in, h, {})
  BY MedidasBien DEF TipoDisco
<1>3. Marcados({}, bl, di, in, h, {}) /\ UnSitio(bl, di, in, h)
  BY <1>1 DEF Marcados, UnSitio
<1>4. Contadores(bl, di, in, h)
  BY <1>1 DEF Contadores
<1>5. SonDatos({}, bl, di, in, h, {})
  BY <1>1 DEF SonDatos
<1>. QED  BY <1>2, <1>3, <1>4, <1>5 DEF DiscoBien, SinPerdidos

(* buscar_bloque_libre returns a free block when there is one, and block   *)
(* 0 when there is none.                                                   *)
LEMMA LibreBien ==
    ASSUME NEW bm
    PROVE  /\ BuscarBloqueLibre(bm) \in Bloques
           /\ ~ (Bloques \subseteq bm) => BuscarBloqueLibre(bm) \in Bloques \ bm
<1>1. CASE Bloques \subseteq bm
  BY <1>1, MedidasBien DEF BuscarBloqueLibre
<1>2. CASE ~ (Bloques \subseteq bm)
  <2>1. Bloques \ bm \in SUBSET Nat /\ Bloques \ bm # {}
    BY <1>2, MedidasBien
  <2>2. \E i \in Bloques \ bm : \A j \in Bloques \ bm : i <= j
    BY <2>1, Minimo
  <2>3. BuscarBloqueLibre(bm) \in Bloques \ bm
    BY <1>2, <2>2 DEF BuscarBloqueLibre
  <2>. QED  BY <1>2, <2>3
<1>. QED  BY <1>1, <1>2

(* g is the bitmap after each of n calls of buscar_bloque_libre. *)
Cadena(n, b, g) ==
    g = [k \in 0..n |-> IF k = 0 THEN b
                        ELSE g[k - 1] \cup {BuscarBloqueLibre(g[k - 1])}]

(* There is one such list of bitmaps. *)
LEMMA CadenaExiste ==
    ASSUME NEW b, NEW n \in Nat
    PROVE  \E g : Cadena(n, b, g)
<1>. DEFINE T == {k \in Nat : \E g : Cadena(k, b, g)}
<1>1. 0 \in T
  <2>. DEFINE g == [k \in 0..0 |-> b]
  <2>1. Cadena(0, b, g)
    BY DEF Cadena
  <2>. QED  BY <2>1
<1>2. ASSUME NEW m \in T PROVE m + 1 \in T
  <2>1. PICK g : Cadena(m, b, g)
    OBVIOUS
  <2>. DEFINE h == [k \in 0..(m + 1) |->
                      IF k <= m THEN g[k]
                      ELSE g[m] \cup {BuscarBloqueLibre(g[m])}]
  <2>2. ASSUME NEW k \in 0..(m + 1)
        PROVE  h[k] = IF k = 0 THEN b
                      ELSE h[k - 1] \cup {BuscarBloqueLibre(h[k - 1])}
    <3>1. CASE k = 0
      <4>1. 0 \in 0..m /\ g[0] = b
        BY <2>1 DEF Cadena
      <4>. QED  BY <3>1, <4>1
    <3>2. CASE k # 0 /\ k <= m
      <4>1. k \in 0..m /\ k - 1 \in 0..m /\ k - 1 \in 0..(m + 1) /\ k - 1 <= m
        BY <3>2
      <4>2. g[k] = g[k - 1] \cup {BuscarBloqueLibre(g[k - 1])}
        BY <2>1, <3>2, <4>1 DEF Cadena
      <4>3. h[k] = g[k] /\ h[k - 1] = g[k - 1]
        BY <3>2, <4>1
      <4>. QED  BY <3>2, <4>2, <4>3
    <3>3. CASE ~ (k <= m)
      <4>1. k = m + 1 /\ k - 1 = m /\ m \in 0..(m + 1) /\ k # 0
        BY <3>3
      <4>2. h[m] = g[m] /\ h[k] = g[m] \cup {BuscarBloqueLibre(g[m])}
        BY <3>3, <4>1
      <4>. HIDE DEF h
      <4>. QED  BY <4>1, <4>2
    <3>. QED  BY <3>1, <3>2, <3>3
  <2>3. h = [k \in 0..(m + 1) |->
               IF k = 0 THEN b
               ELSE h[k - 1] \cup {BuscarBloqueLibre(h[k - 1])}]
    <3>1. h = [k \in 0..(m + 1) |-> h[k]]
      OBVIOUS
    <3>. HIDE DEF h
    <3>. QED  BY <2>2, <3>1, Zenon
  <2>. HIDE DEF h
  <2>. QED  BY <2>3 DEF Cadena
<1>. HIDE DEF T
<1>3. T = Nat
  <2>1. T \in SUBSET Nat
    BY DEF T
  <2>. QED  BY <1>1, <1>2, <2>1, Induccion
<1>. QED  BY <1>3 DEF T

(* Ocupados is that list, from the bitmap of the disk. *)
LEMMA OcupadosCadena ==
    ASSUME NEW n \in Nat
    PROVE  Cadena(n, bitmap, Ocupados(n))
<1>1. \E g : Cadena(n, bitmap, g)
  BY CadenaExiste
<1>2. \E g : g = [k \in 0..n |-> IF k = 0 THEN bitmap
                     ELSE g[k - 1] \cup {BuscarBloqueLibre(g[k - 1])}]
  BY <1>1 DEF Cadena
<1>3. Ocupados(n) = [k \in 0..n |-> IF k = 0 THEN bitmap
            ELSE Ocupados(n)[k - 1] \cup {BuscarBloqueLibre(Ocupados(n)[k - 1])}]
  BY <1>2, Zenon DEF Ocupados
<1>. QED  BY <1>3 DEF Cadena

(* The disk has tamanio_bitmap blocks. *)
LEMMA BloquesFinito ==
    IsFiniteSet(Bloques) /\ Cardinality(Bloques) = tamanio_bitmap
<1>1. 0 \in Int /\ tamanio_bitmap - 1 \in Int
  BY MedidasBien
<1>2. /\ IsFiniteSet(0..(tamanio_bitmap - 1))
      /\ Cardinality(0..(tamanio_bitmap - 1)) =
            IF 0 > tamanio_bitmap - 1 THEN 0 ELSE tamanio_bitmap - 1 - 0 + 1
  BY <1>1, FS_Interval
<1>. QED  BY <1>2, MedidasBien DEF Bloques

(* After k of n calls in a row that find room: the bitmap g[k] and the     *)
(* blocks v they gave.                                                     *)
Tomados(b, g, v, n, k) ==
    /\ g[k] = b \cup {v[j] : j \in 1..k}
    /\ IsFiniteSet(Bloques \ g[k])
    /\ Cardinality(Bloques \ g[k]) >= n - k
    /\ \A j \in 1..k : v[j] \in Bloques \ g[j - 1]

(* One call more. *)
LEMMA TomadosUnoMas ==
    ASSUME NEW b, NEW g, NEW v, NEW n \in Nat, NEW k \in Nat, k + 1 <= n,
           Tomados(b, g, v, n, k),
           g[k + 1] = g[k] \cup {v[k + 1]},
           ~ (Bloques \subseteq g[k]) => v[k + 1] \in Bloques \ g[k]
    PROVE  Tomados(b, g, v, n, k + 1)
<1>. PICK w : w = v[k + 1]
  OBVIOUS
<1>. PICK c \in Nat : c = Cardinality(Bloques \ g[k]) /\ c >= n - k
  BY FS_CardinalityType DEF Tomados
<1>1. w \in Bloques \ g[k]
  <2>1. c # 0
    OBVIOUS
  <2>2. Bloques \ g[k] # {}
    BY <2>1, FS_EmptySet
  <2>. QED  BY <2>2
<1>2. /\ IsFiniteSet(Bloques \ g[k + 1])
      /\ Cardinality(Bloques \ g[k + 1]) >= n - (k + 1)
  <2>1. Bloques \ g[k + 1] = (Bloques \ g[k]) \ {w}
    OBVIOUS
  <2>2. IsFiniteSet(Bloques \ g[k])
    BY DEF Tomados
  <2>3. /\ IsFiniteSet((Bloques \ g[k]) \ {w})
        /\ Cardinality((Bloques \ g[k]) \ {w}) = c - 1
    BY <1>1, <2>2, FS_RemoveElement
  <2>4. c - 1 >= n - (k + 1)
    OBVIOUS
  <2>5. /\ IsFiniteSet(Bloques \ g[k + 1])
        /\ Cardinality(Bloques \ g[k + 1]) = c - 1
    BY <2>1, <2>3, Zenon
  <2>. QED  BY <2>4, <2>5
<1>3. g[k + 1] = b \cup {v[j] : j \in 1..(k + 1)}
  <2>1. g[k] = b \cup {v[j] : j \in 1..k}
    BY DEF Tomados
  <2>2. 1..(k + 1) = 1..k \cup {k + 1}
    OBVIOUS
  <2>3. ASSUME NEW e
        PROVE  e \in {v[j] : j \in 1..(k + 1)}
                   <=> e \in {v[j] : j \in 1..k} \/ e = v[k + 1]
    BY <2>2
  <2>4. ASSUME NEW e
        PROVE  e \in g[k + 1] <=> e \in b \cup {v[j] : j \in 1..(k + 1)}
    <3>1. e \in g[k + 1] <=> e \in g[k] \/ e = v[k + 1]
      OBVIOUS
    <3>2. e \in g[k] <=> e \in b \/ e \in {v[j] : j \in 1..k}
      BY <2>1
    <3>. QED  BY <2>3, <3>1, <3>2
  <2>5. g[k + 1] \subseteq b \cup {v[j] : j \in 1..(k + 1)}
    BY <2>4
  <2>6. b \cup {v[j] : j \in 1..(k + 1)} \subseteq g[k + 1]
    BY <2>4
  <2>. QED  BY <2>5, <2>6
<1>4. ASSUME NEW j \in 1..(k + 1) PROVE v[j] \in Bloques \ g[j - 1]
  <2>1. CASE j = k + 1
    <3>1. j - 1 = k
      BY <2>1
    <3>. QED  BY <1>1, <2>1, <3>1
  <2>2. CASE j # k + 1
    <3>1. j \in 1..k
      BY <2>2
    <3>. QED  BY <3>1 DEF Tomados
  <2>. QED  BY <2>1, <2>2
<1>. QED  BY <1>2, <1>3, <1>4 DEF Tomados

(* v are n different blocks that were free, and c is b with them. *)
Hallados(b, n, v, c) ==
    /\ \A k \in 1..n : v[k] \in Bloques \ b
    /\ \A k, l \in 1..n : v[k] = v[l] => k = l
    /\ c = b \cup {v[k] : k \in 1..n}

(* What n calls in a row find when there is room for them: different       *)
(* blocks, all free, that the bitmap then has.                             *)
LEMMA CadenaBien ==
    ASSUME NEW b, b \subseteq Bloques, NEW n \in Nat, NEW g, Cadena(n, b, g),
           Cardinality(Bloques \ b) >= n,
           NEW v, v = [k \in 1..n |-> BuscarBloqueLibre(g[k - 1])]
    PROVE  Hallados(b, n, v, g[n])
<1>0. g[0] = b /\ \A k \in 1..n : g[k] = g[k - 1] \cup {v[k]}
  <2>1. g[0] = b
    BY DEF Cadena
  <2>2. ASSUME NEW k \in 1..n PROVE g[k] = g[k - 1] \cup {v[k]}
    <3>1. k \in 0..n /\ k # 0
      OBVIOUS
    <3>2. g[k] = g[k - 1] \cup {BuscarBloqueLibre(g[k - 1])}
      BY <3>1 DEF Cadena
    <3>. QED  BY <3>2
  <2>. QED  BY <2>1, <2>2
<1>1. \A k \in 1..n : ~ (Bloques \subseteq g[k - 1]) => v[k] \in Bloques \ g[k - 1]
  BY LibreBien
<1>. DEFINE T == {k \in Nat : k <= n => Tomados(b, g, v, n, k)}
<1>2. Tomados(b, g, v, n, 0)
  <2>1. IsFiniteSet(Bloques \ b)
    BY BloquesFinito, FS_Subset
  <2>2. {v[j] : j \in 1..0} = {} /\ n - 0 = n
    OBVIOUS
  <2>. QED  BY <1>0, <2>1, <2>2 DEF Tomados
<1>3. ASSUME NEW k \in T PROVE k + 1 \in T
  <2>1. SUFFICES ASSUME k + 1 <= n PROVE Tomados(b, g, v, n, k + 1)
    OBVIOUS
  <2>2. k \in Nat /\ k <= n
    BY <2>1
  <2>3. k + 1 \in 1..n /\ (k + 1) - 1 = k
    BY <2>1, <2>2
  <2>4. Tomados(b, g, v, n, k)
    BY <2>2
  <2>5. g[k + 1] = g[k] \cup {v[k + 1]}
    BY <1>0, <2>3
  <2>6. ~ (Bloques \subseteq g[k]) => v[k + 1] \in Bloques \ g[k]
    BY <1>1, <2>3
  <2>. QED  BY <2>1, <2>2, <2>4, <2>5, <2>6, TomadosUnoMas
<1>4. T = Nat
  <2>1. T \in SUBSET Nat /\ 0 \in T
    BY <1>2
  <2>. HIDE DEF T
  <2>. QED  BY <1>3, <2>1, Induccion
<1>5. \A k \in 0..n : Tomados(b, g, v, n, k)
  BY <1>4
<1>. HIDE DEF T
<1>6. Tomados(b, g, v, n, n)
  BY <1>5
<1>7. \A k \in 1..n : v[k] \in Bloques \ g[k - 1]
  BY <1>6 DEF Tomados
<1>8. \A k \in 0..n : g[k] = b \cup {v[j] : j \in 1..k}
  BY <1>5 DEF Tomados
<1>9. ASSUME NEW k \in 1..n PROVE v[k] \in Bloques \ b
  <2>1. k - 1 \in 0..n
    OBVIOUS
  <2>2. b \subseteq g[k - 1]
    BY <1>8, <2>1
  <2>. QED  BY <1>7, <2>2
<1>10. ASSUME NEW k \in 1..n, NEW l \in 1..n, k < l PROVE v[k] # v[l]
  <2>1. l - 1 \in 0..n /\ k \in 1..(l - 1)
    BY <1>10
  <2>2. v[k] \in g[l - 1]
    BY <1>8, <2>1
  <2>. QED  BY <1>7, <2>2
<1>11. ASSUME NEW k \in 1..n, NEW l \in 1..n, v[k] = v[l] PROVE k = l
  BY <1>10, <1>11
<1>12. g[n] = b \cup {v[k] : k \in 1..n}
  <2>1. n \in 0..n
    OBVIOUS
  <2>2. ASSUME NEW m \in 0..n PROVE g[m] = b \cup {v[j] : j \in 1..m}
    BY <1>8
  <2>. QED  BY <2>1, <2>2
<1>. QED  BY <1>9, <1>11, <1>12 DEF Hallados

(* Nuevos are different free blocks, and Ocupados the bitmap with them. *)
LEMMA NuevosBien ==
    ASSUME bitmap \subseteq Bloques, NEW n \in Nat,
           Cardinality(Bloques \ bitmap) >= n
    PROVE  Hallados(bitmap, n, Nuevos(n), Ocupados(n)[n])
<1>. PICK b, g, v : b = bitmap /\ g = Ocupados(n) /\ v = Nuevos(n)
  OBVIOUS
<1>1. Cadena(n, b, g) /\ b \subseteq Bloques /\ Cardinality(Bloques \ b) >= n
  BY OcupadosCadena
<1>2. v = [k \in 1..n |-> BuscarBloqueLibre(g[k - 1])]
  BY DEF Nuevos
<1>3. Hallados(b, n, v, g[n])
  BY <1>1, <1>2, CadenaBien
<1>. QED  BY <1>3

(* With room or without it, only blocks are marked. *)
LEMMA OcupadosUno ==
    ASSUME bitmap \subseteq Bloques
    PROVE  Ocupados(1)[1] \subseteq Bloques
<1>. PICK g : g = Ocupados(1)
  OBVIOUS
<1>1. Cadena(1, bitmap, g)
  BY OcupadosCadena
<1>2. g[0] = bitmap /\ g[1] = g[0] \cup {BuscarBloqueLibre(g[0])}
  BY <1>1 DEF Cadena
<1>. QED  BY <1>2, LibreBien

(* The disk invariant applied to the variables: what each FCB names, how   *)
(* many pointers it has (none while its block of pointers is as it was     *)
(* found), the blocks of asignar_punteros_primer_truncate, and the size of *)
(* each file (the old one while a truncation is at work).                  *)
Directos == [f \in Archivos |-> fcb[f].directo]
Indirectos == [f \in Archivos |-> fcb[f].indirecto]
Alturas ==
    [f \in Archivos |->
        IF \/ fcb[f].directo = SinPuntero
           \/ bloques[fcb[f].indirecto].cant = TEXTO
        THEN 0 ELSE bloques[fcb[f].indirecto].cant]
Vistos == [f \in Archivos |-> TamanioVisto(f)]
Manos == IF paso = "fcb" THEN {locales[1], locales[2]} ELSE {}

(* A file control block. *)
TipoFcb == [existe : BOOLEAN, tamanio : Nat,
            directo : Bloques \cup {SinPuntero},
            indirecto : Bloques \cup {SinPuntero}]

(* The type of what is on disk. *)
TipoGuardado ==
    /\ bitmap \subseteq Bloques
    /\ DOMAIN bloques = Bloques /\ \A b \in Bloques : TipoBloque(bloques[b])
    /\ fcb \in [Archivos -> TipoFcb]

(* And of the rest of the state; the queue has its own. *)
TipoEstado ==
    /\ TipoGuardado
    /\ paso \in Pasos /\ hecho \in Nat /\ vivo \in BOOLEAN
    /\ caidas \in 0..MaxCaidas /\ abiertos \subseteq Archivos
    /\ locales \in [1..3 -> Int]

(* What the kernel asks for can be done, and remains so until it is. *)
ValidaEn(fc, r) ==
    /\ r.op # "OPEN" => fc[r.archivo].existe
    /\ r.op \in {"READ", "WRITE"} =>
          r.puntero + r.tamanio <= fc[r.archivo].tamanio

(* The requests that wait and the one being served are valid, each of its  *)
(* own file.                                                               *)
PedidosInv ==
    /\ \A i \in DOMAIN pendientes : ValidaEn(fcb, pendientes[i])
    /\ \A i, j \in DOMAIN pendientes :
          pendientes[i].archivo = pendientes[j].archivo => i = j
    /\ peticion # <<>> =>
          /\ ValidaEn(fcb, peticion)
          /\ \A i \in DOMAIN pendientes : pendientes[i].archivo # Servido

(* A file with a size has its blocks; one that does not exist has          *)
(* nothing.                                                                *)
FcbBien(fc) ==
    \A f \in Archivos :
        /\ fc[f].tamanio \in Tamanios[f] \cup {0}
        /\ fc[f].tamanio # 0 => fc[f].directo # SinPuntero
        /\ ~ fc[f].existe => fc[f] = NoExiste

(* The open files exist. *)
FcbsInv ==
    /\ FcbBien(fcb)
    /\ \A f \in abiertos : fcb[f].existe

(* What each step of a request knows of it. *)
EtapaInv ==
    /\ paso \in {"OPEN", "TRUNCATE", "READ", "WRITE"} => peticion.op = paso
    /\ paso \in {"fcb", "tamanio"} =>
          peticion.op = "TRUNCATE" /\ fcb[Servido].tamanio = 0
    /\ paso = "fcb" => locales[1] # locales[2]
    /\ paso = "tamanio" => fcb[Servido].directo # SinPuntero
    /\ paso = "bloques" =>
          /\ peticion.op = "TRUNCATE" /\ fcb[Servido].tamanio = peticion.tamanio
          /\ locales[3] \in Tamanios[Servido] \cup {0}
    /\ paso = "fin_escritura" => peticion.op = "READ"
    /\ IF paso = "escribe"
       THEN peticion.op = "WRITE" /\ hecho < peticion.tamanio
       ELSE hecho = 0

(* Every file has the pointers its size needs, and an empty one has none.  *)
Caben(h, v) ==
    \A f \in Archivos : /\ h[f] >= Necesarios(v[f])
                        /\ v[f] = 0 => h[f] = 0

(* The disk is consistent at every step of every request. *)
DiscoInv ==
    /\ DiscoBien(bitmap, bloques, Directos, Indirectos, Alturas, Manos)
    /\ Caben(Alturas, Vistos)

(* Files of size 0 that already have their two blocks, which their next    *)
(* growth will lose: a restart left them so.                               *)
Huerfanos ==
    {f \in Archivos : /\ fcb[f].directo # SinPuntero /\ fcb[f].tamanio = 0
                      /\ ~ (paso = "tamanio" /\ Servido = f)}

(* P are the blocks that restarts have lost: each cost two, now or later.  *)
Perdidos(P) ==
    /\ IsFiniteSet(P)
    /\ SinPerdidos(bitmap, bloques, Directos, Indirectos, Alturas, Manos \cup P)
    /\ Cardinality(P) + 2 * Cardinality(Huerfanos) <= 2 * caidas

(* Nothing else is lost. *)
FugasInv == \E P : Perdidos(P)

(* The invariant of the blocks, of a process that has not died. *)
VivoInv == PedidosInv /\ FcbsInv /\ EtapaInv /\ DiscoInv /\ FugasInv
BloquesInv == vivo => TipoEstado /\ VivoInv

(* The sizes and pointers of requests. *)
LEMMA PeticionCampos ==
    ASSUME NEW r \in Peticiones
    PROVE  /\ r.op = "TRUNCATE" => r.tamanio \in Tamanios[r.archivo]
           /\ r.op \in {"READ", "WRITE"} =>
                 r.puntero \in Nat /\ r.tamanio \in Nat \ {0}
<1>1. CASE r \in {Peticion("OPEN", f, 0, 0) : f \in Archivos}
  <2>1. r.op = "OPEN"
    BY <1>1 DEF Peticion
  <2>. QED  BY <2>1
<1>2. CASE r \in UNION {{Peticion("TRUNCATE", f, t, 0) : t \in Tamanios[f]}
                           : f \in Archivos}
  <2>1. PICK f \in Archivos : \E t \in Tamanios[f] :
           r = Peticion("TRUNCATE", f, t, 0)
    BY <1>2
  <2>2. r.op = "TRUNCATE" /\ r.archivo = f /\ r.tamanio \in Tamanios[f]
    BY <2>1 DEF Peticion
  <2>. QED  BY <2>2
<1>3. CASE r \in UNION {{Peticion(op, f, a[2], a[1]) :
                            op \in {"READ", "WRITE"}, a \in Accesos[f]}
                           : f \in Archivos}
  <2>1. PICK f \in Archivos : r \in {Peticion(op, f, a[2], a[1]) :
                            op \in {"READ", "WRITE"}, a \in Accesos[f]}
    BY <1>3
  <2>2. PICK op \in {"READ", "WRITE"}, a \in Accesos[f] :
            r = Peticion(op, f, a[2], a[1])
    BY <2>1
  <2>3. a[1] \in Nat /\ a[2] \in Nat \ {0}
    BY FileSystemAssumption
  <2>4. r.op = op /\ r.puntero = a[1] /\ r.tamanio = a[2]
    BY <2>2 DEF Peticion
  <2>. QED  BY <2>3, <2>4
<1>. QED  BY <1>1, <1>2, <1>3 DEF Peticiones

(* Files whose FCB stays keep their places. *)
LEMMA VistoIgual ==
    ASSUME fcb' = fcb, bloques' = bloques, paso # "bloques", paso' # "bloques"
    PROVE  /\ Alturas' = Alturas /\ Directos' = Directos
           /\ Indirectos' = Indirectos /\ Vistos' = Vistos
<1>1. Vistos' = Vistos
  BY DEF Vistos, TamanioVisto, EnTruncado
<1>. QED  BY <1>1 DEF Alturas, Directos, Indirectos

(* Where the counters are right, Alturas is what they count. *)
LEMMA AlturasDe ==
    ASSUME CAPACIDAD < TEXTO, NEW bl, NEW di, NEW in, NEW h,
           NEW M, NEW bm, DiscoBien(bm, bl, di, in, h, M),
           \A f \in Archivos : di[f] = SinPuntero => h[f] = 0
    PROVE  h = [f \in Archivos |->
                   IF di[f] = SinPuntero \/ bl[in[f]].cant = TEXTO
                   THEN 0 ELSE bl[in[f]].cant]
<1>1. /\ h \in [Archivos -> 0..CAPACIDAD] /\ CAPACIDAD \in Nat
      /\ \A f \in Archivos : di[f] # SinPuntero =>
            \/ bl[in[f]].cant = h[f]
            \/ h[f] = 0 /\ bl[in[f]].cant = TEXTO
  BY MedidasBien DEF DiscoBien, TipoDisco, Contadores
<1>2. \A f \in Archivos : h[f] # TEXTO
  BY <1>1, TextoFuera
<1>3. ASSUME NEW f \in Archivos
      PROVE  h[f] = IF di[f] = SinPuntero \/ bl[in[f]].cant = TEXTO
                    THEN 0 ELSE bl[in[f]].cant
  BY <1>1, <1>2
<1>. QED  BY <1>1, <1>3

(* Steps that lose no block. *)
LEMMA PerdidosIgual ==
    ASSUME FugasInv, Huerfanos' = Huerfanos, caidas' = caidas,
           ASSUME NEW P,
                  SinPerdidos(bitmap, bloques, Directos, Indirectos, Alturas,
                              Manos \cup P)
           PROVE  SinPerdidos(bitmap, bloques, Directos, Indirectos, Alturas,
                              Manos \cup P)'
    PROVE  FugasInv'
<1>1. PICK P : Perdidos(P)
  BY DEF FugasInv
<1>2. Perdidos(P)'
  BY <1>1 DEF Perdidos
<1>. QED  BY <1>2 DEF FugasInv

(* And those that leave the disk as it is. *)
LEMMA MismosPerdidos ==
    ASSUME FugasInv, bitmap' = bitmap, bloques' = bloques, caidas' = caidas,
           Alturas' = Alturas, Directos' = Directos, Indirectos' = Indirectos,
           Manos' = Manos, Huerfanos' = Huerfanos
    PROVE  FugasInv'
BY PerdidosIgual

(* Steps that leave the disk and the request as they are. *)
LEMMA DiscoQuieto ==
    ASSUME VivoInv, UNCHANGED <<disco, peticion, paso, locales, caidas>>
    PROVE  DiscoInv' /\ FugasInv'
<1>1. /\ Alturas' = Alturas /\ Directos' = Directos /\ Indirectos' = Indirectos
      /\ Manos' = Manos /\ Huerfanos' = Huerfanos /\ Vistos' = Vistos
      /\ bitmap' = bitmap /\ bloques' = bloques /\ caidas' = caidas
  BY DEF Alturas, Vistos, TamanioVisto, EnTruncado, Directos, Indirectos, Manos,
         Viejo, Servido, disco, Huerfanos
<1>2. DiscoInv'
  BY <1>1 DEF VivoInv, DiscoInv
<1>3. FugasInv'
  BY <1>1, MismosPerdidos DEF VivoInv
<1>. QED  BY <1>2, <1>3

(* Steps of a request that leave the disk as it is. *)
LEMMA DiscoIgual ==
    ASSUME VivoInv, UNCHANGED <<disco, caidas>>,
           paso \notin {"bloques", "fcb", "tamanio"},
           paso' \notin {"bloques", "fcb", "tamanio"}
    PROVE  DiscoInv' /\ FugasInv'
<1>1. /\ Alturas' = Alturas /\ Directos' = Directos /\ Indirectos' = Indirectos
      /\ Vistos' = Vistos
      /\ bitmap' = bitmap /\ bloques' = bloques /\ fcb' = fcb /\ caidas' = caidas
  BY VistoIgual DEF disco
<1>2. Manos' = Manos /\ Huerfanos' = Huerfanos
  BY <1>1 DEF Manos, Huerfanos
<1>3. DiscoInv'
  BY <1>1, <1>2 DEF VivoInv, DiscoInv
<1>4. FugasInv'
  BY <1>1, <1>2, MismosPerdidos DEF VivoInv
<1>. QED  BY <1>3, <1>4

(* The requests that wait are of other files. *)
LEMMA PedidosEnVuelo ==
    ASSUME RespuestasInv
    PROVE  /\ \A i \in DOMAIN pendientes :
                 pendientes[i].archivo \in {enVuelo[j] : j \in DOMAIN enVuelo}
           /\ peticion # <<>> =>
                 Servido \in {enVuelo[j] : j \in DOMAIN enVuelo}
<1>. DEFINE u == Sirviendo
            n == Nombres(pendientes)
<1>1. /\ u \in Seq(Archivos) /\ n \in Seq(Archivos) /\ enVuelo = u \o n
      /\ Len(n) = Len(pendientes) /\ pendientes \in Seq(Peticiones)
  BY EnOrden, SirviendoTipo, NombresTipo DEF RespuestasInv, TipoCola
<1>. HIDE DEF u, n
<1>2. Len(u) \in Nat /\ Len(n) \in Nat
  BY <1>1, LenProperties
<1>3. /\ enVuelo \in Seq(Archivos) /\ Len(enVuelo) = Len(u) + Len(n)
      /\ \A j \in 1..Len(u) : enVuelo[j] = u[j]
      /\ \A j \in (Len(u) + 1)..(Len(u) + Len(n)) : enVuelo[j] = n[j - Len(u)]
  BY <1>1, Unidas
<1>4. DOMAIN enVuelo = 1..(Len(u) + Len(n)) /\ DOMAIN pendientes = 1..Len(n)
  BY <1>1, <1>3, LenProperties
<1>5. ASSUME NEW i \in DOMAIN pendientes
      PROVE  pendientes[i].archivo \in {enVuelo[j] : j \in DOMAIN enVuelo}
  <2>. PICK j : j = Len(u) + i
    OBVIOUS
  <2>1. /\ j \in (Len(u) + 1)..(Len(u) + Len(n)) /\ j \in DOMAIN enVuelo
        /\ j - Len(u) = i
    BY <1>2, <1>4
  <2>2. enVuelo[j] = n[i]
    BY <1>3, <2>1
  <2>3. n[i] = pendientes[i].archivo
    BY DEF n, Nombres
  <2>. QED  BY <2>1, <2>2, <2>3
<1>6. ASSUME peticion # <<>>
      PROVE  Servido \in {enVuelo[j] : j \in DOMAIN enVuelo}
  <2>. PICK a : a = Servido
    OBVIOUS
  <2>1. u = <<a>>
    BY <1>6 DEF u, Sirviendo, Servido
  <2>2. Len(u) = 1 /\ u[1] = a
    BY <2>1
  <2>3. 1 \in 1..Len(u) /\ 1 \in DOMAIN enVuelo
    BY <1>2, <1>4, <2>2
  <2>4. enVuelo[1] = a
    BY <1>3, <2>2, <2>3
  <2>. QED  BY <2>3, <2>4
<1>. QED  BY <1>5, <1>6

(* Recibe keeps the invariant: the request is valid when it is made, and   *)
(* its file has no other.                                                  *)
LEMMA RecibeBloques ==
    ASSUME RespuestasInv, BloquesInv, Recibe
    PROVE  BloquesInv'
<1>0. /\ vivo /\ VivoInv /\ TipoEstado
      /\ UNCHANGED <<disco, peticion, paso, locales, hecho, vivo, caidas, abiertos>>
  BY DEF BloquesInv, Recibe, datos
<1>1. TipoEstado'
  BY <1>0 DEF TipoEstado, TipoGuardado, disco
<1>2. DiscoInv' /\ FugasInv'
  BY <1>0, DiscoQuieto
<1>3. FcbsInv' /\ EtapaInv'
  BY <1>0 DEF VivoInv, FcbsInv, FcbBien, EtapaInv, disco, Servido
<1>4. PICK r \in Peticiones :
         /\ r.archivo \notin {enVuelo[i] : i \in DOMAIN enVuelo}
         /\ CASE r.op = "OPEN"     -> r.archivo \notin abiertos
              [] r.op = "TRUNCATE" -> r.archivo \in abiertos
              [] OTHER             -> EnElArchivo(r)
         /\ pendientes' = Append(pendientes, r)
  BY DEF Recibe, AgregoAPendientes
<1>5. ValidaEn(fcb, r)
  <2>1. r.op \in {"OPEN", "TRUNCATE", "READ", "WRITE"} /\ r.archivo \in Archivos
    BY PeticionTipo
  <2>2. \A f \in abiertos : fcb[f].existe
    BY <1>0 DEF VivoInv, FcbsInv
  <2>3. r.op # "OPEN" => r.archivo \in abiertos
    BY <1>4, <2>1 DEF EnElArchivo
  <2>4. r.op \in {"READ", "WRITE"} => EnElArchivo(r)
    BY <1>4
  <2>. QED  BY <2>2, <2>3, <2>4 DEF ValidaEn, EnElArchivo
<1>6. /\ \A i \in DOMAIN pendientes : pendientes[i].archivo # r.archivo
      /\ peticion # <<>> => Servido # r.archivo
  BY <1>4, PedidosEnVuelo
<1>7. PICK n \in Nat :
        /\ DOMAIN pendientes = 1..n /\ DOMAIN pendientes' = 1..(n + 1)
        /\ \A i \in 1..n : pendientes'[i] = pendientes[i]
        /\ pendientes'[n + 1] = r
  <2>1. pendientes \in Seq(Peticiones)
    BY DEF RespuestasInv, TipoCola
  <2>2. Len(pendientes) \in Nat /\ DOMAIN pendientes = 1..Len(pendientes)
    BY <2>1, LenProperties
  <2>3. /\ pendientes' \in Seq(Peticiones)
        /\ Len(pendientes') = Len(pendientes) + 1
        /\ \A i \in 1..Len(pendientes) : pendientes'[i] = pendientes[i]
        /\ pendientes'[Len(pendientes) + 1] = r
    BY <1>4, <2>1, AppendProperties
  <2>4. DOMAIN pendientes' = 1..(Len(pendientes) + 1)
    BY <2>3, LenProperties
  <2>. QED  BY <2>2, <2>3, <2>4
<1>8. PedidosInv'
  <2>1. ASSUME NEW i \in DOMAIN pendientes'
        PROVE  \/ /\ i \in DOMAIN pendientes /\ pendientes'[i] = pendientes[i]
               \/ i = n + 1 /\ pendientes'[i] = r
    BY <1>7
  <2>2. ASSUME NEW i \in DOMAIN pendientes' PROVE ValidaEn(fcb, pendientes'[i])
    BY <1>0, <1>5, <2>1 DEF VivoInv, PedidosInv
  <2>3. ASSUME NEW i \in DOMAIN pendientes', NEW j \in DOMAIN pendientes',
               pendientes'[i].archivo = pendientes'[j].archivo
        PROVE  i = j
    BY <1>0, <1>6, <2>1, <2>3 DEF VivoInv, PedidosInv
  <2>4. peticion # <<>> =>
          /\ ValidaEn(fcb, peticion)
          /\ \A i \in DOMAIN pendientes' : pendientes'[i].archivo # Servido
    BY <1>0, <1>6, <2>1 DEF VivoInv, PedidosInv
  <2>5. fcb' = fcb /\ peticion' = peticion /\ Servido' = Servido
    BY <1>0 DEF disco, Servido
  <2>. QED  BY <2>2, <2>3, <2>4, <2>5 DEF PedidosInv
<1>. QED  BY <1>1, <1>2, <1>3, <1>8 DEF BloquesInv, VivoInv

(* Postea keeps it. *)
LEMMA PosteaBloques ==
    ASSUME BloquesInv, Postea
    PROVE  BloquesInv'
<1>0. /\ vivo /\ VivoInv /\ TipoEstado
      /\ UNCHANGED <<disco, peticion, paso, locales, hecho, vivo, caidas, abiertos,
                     pendientes>>
  BY DEF BloquesInv, Postea, datos, kernel
<1>1. TipoEstado'
  BY <1>0 DEF TipoEstado, TipoGuardado, disco
<1>2. DiscoInv' /\ FugasInv'
  BY <1>0, DiscoQuieto
<1>3. FcbsInv' /\ EtapaInv' /\ PedidosInv'
  BY <1>0 DEF VivoInv, FcbsInv, FcbBien, EtapaInv, PedidosInv, disco, Servido
<1>. QED  BY <1>1, <1>2, <1>3 DEF BloquesInv, VivoInv

(* FClose keeps it: the file is not of a request. *)
LEMMA FCloseBloques ==
    ASSUME BloquesInv, NEW f \in Archivos, FClose(f)
    PROVE  BloquesInv'
<1>0. /\ vivo => TipoEstado /\ VivoInv
      /\ UNCHANGED <<disco, peticion, paso, locales, hecho, vivo, caidas, pendientes>>
      /\ abiertos' = abiertos \ {f}
  BY DEF BloquesInv, FClose, datos, cola
<1>1. vivo => TipoEstado'
  BY <1>0 DEF TipoEstado, TipoGuardado, disco
<1>2. ASSUME vivo PROVE VivoInv'
  <2>1. DiscoInv' /\ FugasInv'
    BY <1>0, <1>2, DiscoQuieto
  <2>2. FcbsInv' /\ EtapaInv' /\ PedidosInv'
    BY <1>0, <1>2 DEF VivoInv, FcbsInv, FcbBien, EtapaInv, PedidosInv, disco, Servido
  <2>. QED  BY <2>1, <2>2 DEF VivoInv
<1>. QED  BY <1>0, <1>1, <1>2 DEF BloquesInv

(* Saca keeps it: what waits stays valid, and what is taken is the         *)
(* request served.                                                         *)
LEMMA SacaBloques ==
    ASSUME RespuestasInv, BloquesInv, Saca
    PROVE  BloquesInv'
<1>0. /\ vivo /\ VivoInv /\ TipoEstado /\ paso = "espera"
      /\ UNCHANGED <<disco, locales, hecho, vivo, caidas, abiertos>>
      /\ peticion' = Head(pendientes) /\ pendientes' = Tail(pendientes)
      /\ paso' = Head(pendientes).op
  BY DEF BloquesInv, Saca, datos, kernel
<1>1. pendientes \in Seq(Peticiones) /\ pendientes # <<>>
  <2>1. /\ pendientes \in Seq(Peticiones) /\ contador \in Nat
        /\ contador + (IF recibida THEN 1 ELSE 0) = Len(pendientes)
    BY EnOrden DEF RespuestasInv, TipoCola
  <2>2. contador > 0
    BY DEF Saca
  <2>3. Len(pendientes) # 0
    BY <2>1, <2>2
  <2>. QED  BY <2>1, <2>3, EmptySeq
<1>2. PICK n \in Nat, r \in Peticiones :
        /\ DOMAIN pendientes = 1..(n + 1) /\ DOMAIN pendientes' = 1..n
        /\ \A i \in 1..n : pendientes'[i] = pendientes[i + 1]
        /\ r = pendientes[1] /\ peticion' = r /\ paso' = r.op
  <2>1. /\ Head(pendientes) \in Peticiones /\ Tail(pendientes) \in Seq(Peticiones)
        /\ Len(Tail(pendientes)) = Len(pendientes) - 1
        /\ Len(pendientes) \in Nat \ {0}
    BY <1>1, NombresSaca
  <2>2. /\ Head(pendientes) = pendientes[1]
        /\ \A i \in 1..(Len(pendientes) - 1) :
              Tail(pendientes)[i] = pendientes[i + 1]
    BY <1>1, HeadTailProperties
  <2>3. /\ DOMAIN pendientes = 1..Len(pendientes)
        /\ DOMAIN Tail(pendientes) = 1..(Len(pendientes) - 1)
    BY <1>1, <2>1, LenProperties
  <2>. PICK n \in Nat : n = Len(pendientes) - 1
    <3>1. Len(pendientes) - 1 \in Nat
      BY <2>1
    <3>. QED  BY <3>1
  <2>4. Len(pendientes) = n + 1
    BY <2>1
  <2>. QED  BY <1>0, <2>1, <2>2, <2>3, <2>4
<1>3. r.op \in {"OPEN", "TRUNCATE", "READ", "WRITE"} /\ r # <<>>
  BY PeticionTipo
<1>4. TipoEstado'
  BY <1>0, <1>2, <1>3 DEF TipoEstado, TipoGuardado, disco, Pasos
<1>5. DiscoInv' /\ FugasInv'
  BY <1>0, <1>2, <1>3, DiscoIgual
<1>6. FcbsInv'
  BY <1>0 DEF VivoInv, FcbsInv, FcbBien, disco
<1>7. EtapaInv'
  BY <1>0, <1>2, <1>3 DEF VivoInv, EtapaInv
<1>8. PedidosInv'
  <2>1. fcb' = fcb /\ Servido' = r.archivo /\ 1 \in DOMAIN pendientes
    BY <1>0, <1>2 DEF disco, Servido
  <2>2. ASSUME NEW i \in DOMAIN pendientes'
        PROVE  /\ i + 1 \in DOMAIN pendientes
               /\ pendientes'[i] = pendientes[i + 1] /\ i + 1 # 1
    BY <1>2
  <2>3. ASSUME NEW i \in DOMAIN pendientes' PROVE ValidaEn(fcb, pendientes'[i])
    BY <1>0, <2>2 DEF VivoInv, PedidosInv
  <2>4. ASSUME NEW i \in DOMAIN pendientes', NEW j \in DOMAIN pendientes',
               pendientes'[i].archivo = pendientes'[j].archivo
        PROVE  i = j
    <3>1. i + 1 = j + 1
      BY <1>0, <2>2, <2>4 DEF VivoInv, PedidosInv
    <3>. QED  BY <1>2, <3>1
  <2>5. ASSUME NEW i \in DOMAIN pendientes'
        PROVE  pendientes'[i].archivo # r.archivo
    BY <1>0, <1>2, <2>1, <2>2 DEF VivoInv, PedidosInv
  <2>6. ValidaEn(fcb, r)
    BY <1>0, <1>2, <2>1 DEF VivoInv, PedidosInv
  <2>. QED  BY <1>2, <2>1, <2>3, <2>4, <2>5, <2>6 DEF PedidosInv
<1>. QED  BY <1>4, <1>5, <1>6, <1>7, <1>8 DEF BloquesInv, VivoInv

(* The request being served changes no FCB but its file's. *)
SoloServido ==
    /\ \A g \in Archivos : g # Servido => fcb'[g] = fcb[g]
    /\ \A g \in Archivos : fcb[g].existe => fcb'[g].existe

(* While a request is served it is one the kernel waits for, the first. *)
LEMMA ServidoTipo ==
    ASSUME RespuestasInv, paso # "espera"
    PROVE  /\ peticion \in Peticiones /\ peticion # <<>> /\ Servido \in Archivos
           /\ peticion.op \in {"OPEN", "TRUNCATE", "READ", "WRITE"}
           /\ Head(enVuelo) = Servido
           /\ pendientes \in Seq(Peticiones)
<1>1. peticion \in Peticiones /\ peticion # <<>> /\ pendientes \in Seq(Peticiones)
  BY DEF RespuestasInv, TipoCola
<1>2. /\ Servido \in Archivos
      /\ peticion.op \in {"OPEN", "TRUNCATE", "READ", "WRITE"}
  BY <1>1, PeticionTipo DEF Servido
<1>. PICK a : a = Servido
  OBVIOUS
<1>3. enVuelo = <<a>> \o Nombres(pendientes)
  BY <1>1, EnOrden DEF RespuestasInv, Sirviendo, Servido
<1>4. Nombres(pendientes) \in Seq(Archivos)
  BY <1>1, NombresTipo
<1>5. Head(enVuelo) = a
  BY <1>2, <1>3, <1>4, UnoYResto
<1>. QED  BY <1>1, <1>2, <1>5

(* Requests of other files stay valid while one is served. *)
LEMMA PedidosTrasPaso ==
    ASSUME RespuestasInv, PedidosInv, paso # "espera", SoloServido,
           pendientes' = pendientes,
           \/ peticion' = <<>>
           \/ peticion' = peticion /\ ValidaEn(fcb', peticion)
    PROVE  PedidosInv'
<1>1. /\ \A i \in DOMAIN pendientes :
            /\ ValidaEn(fcb, pendientes[i])
            /\ pendientes[i].archivo # Servido
            /\ pendientes[i].archivo \in Archivos
  <2>1. peticion # <<>> /\ pendientes \in Seq(Peticiones)
    BY ServidoTipo
  <2>2. \A i \in DOMAIN pendientes : pendientes[i] \in Peticiones
    <3>1. DOMAIN pendientes = 1..Len(pendientes)
      BY <2>1, LenProperties
    <3>. QED  BY <2>1, <3>1, ElementOfSeq
  <2>3. \A r \in Peticiones : r.archivo \in Archivos
    BY PeticionTipo
  <2>. QED  BY <2>1, <2>2, <2>3 DEF PedidosInv
<1>2. ASSUME NEW i \in DOMAIN pendientes PROVE ValidaEn(fcb', pendientes[i])
  <2>1. fcb'[pendientes[i].archivo] = fcb[pendientes[i].archivo]
    BY <1>1 DEF SoloServido
  <2>. QED  BY <1>1, <2>1 DEF ValidaEn
<1>3. \A i, j \in DOMAIN pendientes :
         pendientes[i].archivo = pendientes[j].archivo => i = j
  BY DEF PedidosInv
<1>4. peticion' # <<>> =>
          /\ ValidaEn(fcb', peticion')
          /\ \A i \in DOMAIN pendientes : pendientes[i].archivo # Servido'
  BY <1>1 DEF Servido
<1>. QED  BY <1>2, <1>3, <1>4 DEF PedidosInv

(* The answer ends the request; what is left is what became of the disk. *)
LEMMA RespondeBloques ==
    ASSUME RespuestasInv, BloquesInv, vivo, paso # "espera", Responde,
           TipoGuardado', FcbBien(fcb'), SoloServido,
           peticion.op = "OPEN" => fcb'[Servido].existe,
           DiscoInv', FugasInv'
    PROVE  BloquesInv'
<1>0. /\ peticion' = <<>> /\ paso' = "espera" /\ hecho' = 0
      /\ locales' = <<SinPuntero, SinPuntero, 0>>
      /\ UNCHANGED <<pendientes, vivo, caidas>>
      /\ abiertos' = IF peticion.op = "OPEN" THEN abiertos \cup {Head(enVuelo)}
                     ELSE abiertos
      /\ VivoInv /\ TipoEstado
  BY DEF BloquesInv, Responde, Libera, cola
<1>1. abiertos' \subseteq Archivos /\ \A f \in abiertos' : fcb'[f].existe
  <2>1. Head(enVuelo) = Servido /\ Servido \in Archivos
    BY ServidoTipo
  <2>2. abiertos \subseteq Archivos /\ \A f \in abiertos : fcb[f].existe
    BY <1>0 DEF VivoInv, FcbsInv, TipoEstado
  <2>. QED  BY <1>0, <2>1, <2>2 DEF SoloServido
<1>2. TipoEstado'
  <2>1. locales' \in [1..3 -> Int]
    BY <1>0 DEF SinPuntero
  <2>. QED  BY <1>0, <1>1, <2>1 DEF TipoEstado, Pasos
<1>3. FcbsInv'
  BY <1>1 DEF FcbsInv
<1>4. EtapaInv'
  BY <1>0 DEF EtapaInv
<1>5. PedidosInv'
  BY <1>0, PedidosTrasPaso DEF VivoInv
<1>. QED  BY <1>2, <1>3, <1>4, <1>5 DEF BloquesInv, VivoInv

(* A step that does not end the request. *)
LEMMA SigueBloques ==
    ASSUME RespuestasInv, BloquesInv, vivo, paso # "espera",
           UNCHANGED <<peticion, ajeno>>,
           TipoGuardado', FcbBien(fcb'), SoloServido,
           ValidaEn(fcb', peticion), EtapaInv',
           paso' \in Pasos, hecho' \in Nat, locales' \in [1..3 -> Int],
           DiscoInv', FugasInv'
    PROVE  BloquesInv'
<1>0. /\ UNCHANGED <<pendientes, vivo, caidas, abiertos>>
      /\ VivoInv /\ TipoEstado
  BY DEF BloquesInv, ajeno, cola, kernel
<1>1. TipoEstado'
  BY <1>0 DEF TipoEstado
<1>2. FcbsInv'
  BY <1>0 DEF VivoInv, FcbsInv, SoloServido, TipoEstado
<1>3. PedidosInv'
  BY <1>0, PedidosTrasPaso DEF VivoInv
<1>. QED  BY <1>0, <1>1, <1>2, <1>3 DEF BloquesInv, VivoInv

(* A step that touches no FCB. *)
LEMMA FcbQuieto ==
    ASSUME RespuestasInv, BloquesInv, vivo, paso # "espera", fcb' = fcb
    PROVE  /\ SoloServido /\ FcbBien(fcb') /\ ValidaEn(fcb', peticion)
           /\ VivoInv /\ TipoEstado
<1>1. peticion # <<>>
  BY ServidoTipo
<1>. QED  BY <1>1 DEF SoloServido, BloquesInv, VivoInv, FcbsInv, PedidosInv

(* ManejarFRead keeps the invariant. *)
LEMMA ManejarFReadBloques ==
    ASSUME RespuestasInv, BloquesInv, ManejarFRead
    PROVE  BloquesInv'
<1>0. /\ vivo /\ paso = "READ" /\ paso' = "fin_escritura"
      /\ UNCHANGED <<disco, peticion, locales, hecho, ajeno>>
      /\ fcb' = fcb /\ caidas' = caidas
  BY DEF ManejarFRead, disco, ajeno
<1>1. /\ SoloServido /\ FcbBien(fcb') /\ ValidaEn(fcb', peticion)
      /\ VivoInv /\ TipoEstado
  BY <1>0, FcbQuieto
<1>2. DiscoInv' /\ FugasInv'
  BY <1>0, <1>1, DiscoIgual
<1>3. TipoGuardado' /\ hecho' \in Nat /\ locales' \in [1..3 -> Int] /\ paso' \in Pasos
  BY <1>0, <1>1 DEF TipoEstado, TipoGuardado, disco, Pasos
<1>4. EtapaInv'
  BY <1>0, <1>1 DEF VivoInv, EtapaInv
<1>. QED  BY <1>0, <1>1, <1>2, <1>3, <1>4, SigueBloques

(* ManejarFWrite keeps it. *)
LEMMA ManejarFWriteBloques ==
    ASSUME RespuestasInv, BloquesInv, ManejarFWrite
    PROVE  BloquesInv'
<1>0. /\ vivo /\ paso = "WRITE" /\ paso' = "escribe"
      /\ UNCHANGED <<disco, peticion, locales, hecho, ajeno>>
      /\ fcb' = fcb /\ caidas' = caidas
  BY DEF ManejarFWrite, disco, ajeno
<1>1. /\ SoloServido /\ FcbBien(fcb') /\ ValidaEn(fcb', peticion)
      /\ VivoInv /\ TipoEstado
  BY <1>0, FcbQuieto
<1>2. DiscoInv' /\ FugasInv'
  BY <1>0, <1>1, DiscoIgual
<1>3. TipoGuardado' /\ hecho' \in Nat /\ locales' \in [1..3 -> Int] /\ paso' \in Pasos
  BY <1>0, <1>1 DEF TipoEstado, TipoGuardado, disco, Pasos
<1>4. EtapaInv'
  <2>1. peticion.op = "WRITE" /\ hecho = 0
    BY <1>0, <1>1 DEF VivoInv, EtapaInv
  <2>2. peticion.tamanio \in Nat \ {0}
    BY <1>0, <2>1, ServidoTipo, PeticionCampos
  <2>. QED  BY <1>0, <2>1, <2>2 DEF EtapaInv
<1>. QED  BY <1>0, <1>1, <1>2, <1>3, <1>4, SigueBloques

(* RecvFinEscritura keeps it. *)
LEMMA RecvFinEscrituraBloques ==
    ASSUME RespuestasInv, BloquesInv, RecvFinEscritura
    PROVE  BloquesInv'
<1>0. /\ vivo /\ paso = "fin_escritura" /\ paso' = "espera"
      /\ UNCHANGED disco /\ fcb' = fcb /\ caidas' = caidas /\ Responde
  BY DEF RecvFinEscritura, disco, Responde, Libera
<1>1. /\ SoloServido /\ FcbBien(fcb') /\ VivoInv /\ TipoEstado
  BY <1>0, FcbQuieto
<1>2. DiscoInv' /\ FugasInv'
  BY <1>0, <1>1, DiscoIgual
<1>3. TipoGuardado'
  BY <1>0, <1>1 DEF TipoEstado, TipoGuardado, disco
<1>4. peticion.op # "OPEN"
  BY <1>0, <1>1 DEF VivoInv, EtapaInv
<1>. QED  BY <1>0, <1>1, <1>2, <1>3, <1>4, RespondeBloques

(* What manejar_f_create leaves: a new file has no place. *)
LEMMA CreadoBien ==
    ASSUME RespuestasInv, VivoInv, TipoEstado, paso = "OPEN", fcb' = Creado
    PROVE  /\ Servido \in Archivos /\ fcb' \in [Archivos -> TipoFcb]
           /\ SoloServido /\ fcb'[Servido].existe /\ FcbBien(fcb')
           /\ \A g \in Archivos : /\ fcb'[g].tamanio = fcb[g].tamanio
                                  /\ fcb'[g].directo = fcb[g].directo
                                  /\ fcb'[g].indirecto = fcb[g].indirecto
<1>0. fcb' = IF fcb[Servido].existe THEN fcb
             ELSE [fcb EXCEPT ![Servido] = [NoExiste EXCEPT !.existe = TRUE]]
  BY DEF Creado
<1>1. Servido \in Archivos /\ fcb \in [Archivos -> TipoFcb]
  BY ServidoTipo DEF TipoEstado, TipoGuardado
<1>. DEFINE Nuevo == [NoExiste EXCEPT !.existe = TRUE]
<1>2. /\ Nuevo.existe /\ Nuevo.tamanio = 0 /\ Nuevo.directo = SinPuntero
      /\ Nuevo.indirecto = SinPuntero /\ Nuevo \in TipoFcb
  BY DEF NoExiste, TipoFcb
<1>3. /\ NoExiste.tamanio = 0 /\ NoExiste.directo = SinPuntero
      /\ NoExiste.indirecto = SinPuntero
  BY DEF NoExiste
<1>. HIDE DEF Nuevo
<1>4. ~ fcb[Servido].existe => fcb[Servido] = NoExiste
  BY <1>1 DEF VivoInv, FcbsInv, FcbBien
<1>5. /\ \A g \in Archivos : g # Servido => fcb'[g] = fcb[g]
      /\ fcb'[Servido] = IF fcb[Servido].existe THEN fcb[Servido] ELSE Nuevo
      /\ fcb' \in [Archivos -> TipoFcb]
  BY <1>0, <1>1, <1>2 DEF Nuevo
<1>6. \A g \in Archivos : /\ fcb'[g].tamanio = fcb[g].tamanio
                          /\ fcb'[g].directo = fcb[g].directo
                          /\ fcb'[g].indirecto = fcb[g].indirecto
                          /\ fcb[g].existe => fcb'[g].existe
  BY <1>2, <1>3, <1>4, <1>5
<1>7. SoloServido /\ fcb'[Servido].existe
  BY <1>2, <1>5, <1>6 DEF SoloServido
<1>8. FcbBien(fcb')
  <2>1. FcbBien(fcb)
    BY DEF VivoInv, FcbsInv
  <2>. QED  BY <1>5, <1>6, <1>7, <2>1 DEF FcbBien
<1>. QED  BY <1>1, <1>5, <1>6, <1>7, <1>8

(* A new file leaves the disk as it is. *)
LEMMA CreadoDisco ==
    ASSUME VivoInv, paso = "OPEN", paso' = "espera",
           bitmap' = bitmap, bloques' = bloques,
           \A g \in Archivos : /\ fcb'[g].tamanio = fcb[g].tamanio
                               /\ fcb'[g].directo = fcb[g].directo
                               /\ fcb'[g].indirecto = fcb[g].indirecto
    PROVE  /\ Directos' = Directos /\ Indirectos' = Indirectos
           /\ Alturas' = Alturas /\ Manos' = Manos /\ Huerfanos' = Huerfanos
           /\ DiscoInv'
<1>1. Vistos' = Vistos
  BY DEF Vistos, TamanioVisto, EnTruncado
<1>2. /\ Directos' = Directos /\ Indirectos' = Indirectos /\ Alturas' = Alturas
      /\ Manos' = Manos
  BY DEF Directos, Indirectos, Alturas, Manos
<1>3. Huerfanos' = Huerfanos
  BY DEF Huerfanos
<1>4. DiscoInv'
  BY <1>1, <1>2 DEF VivoInv, DiscoInv
<1>. QED  BY <1>2, <1>3, <1>4

(* ManejarFOpen keeps it. *)
LEMMA ManejarFOpenBloques ==
    ASSUME RespuestasInv, BloquesInv, ManejarFOpen
    PROVE  BloquesInv'
<1>0. /\ vivo /\ paso = "OPEN" /\ paso' = "espera" /\ Responde
      /\ fcb' = Creado
      /\ bitmap' = bitmap /\ bloques' = bloques /\ caidas' = caidas
      /\ VivoInv /\ TipoEstado
  BY DEF ManejarFOpen, Responde, Libera, BloquesInv
<1>1. /\ fcb' \in [Archivos -> TipoFcb]
      /\ SoloServido /\ fcb'[Servido].existe /\ FcbBien(fcb')
      /\ \A g \in Archivos : /\ fcb'[g].tamanio = fcb[g].tamanio
                             /\ fcb'[g].directo = fcb[g].directo
                             /\ fcb'[g].indirecto = fcb[g].indirecto
  BY <1>0, CreadoBien
<1>2. /\ Directos' = Directos /\ Indirectos' = Indirectos /\ Alturas' = Alturas
      /\ Manos' = Manos /\ Huerfanos' = Huerfanos /\ DiscoInv'
  BY <1>0, <1>1, CreadoDisco
<1>3. FugasInv'
  BY <1>0, <1>2, MismosPerdidos DEF VivoInv
<1>4. TipoGuardado'
  BY <1>0, <1>1 DEF TipoEstado, TipoGuardado
<1>. QED  BY <1>0, <1>1, <1>2, <1>3, <1>4, RespondeBloques

(* A restart keeps it at any step but the last of a truncation (sano): the *)
(* two blocks that a first truncation had in its hands, or saved in the    *)
(* FCB of a file that stays empty, are two blocks lost more.               *)
LEMMA ReiniciaBloques ==
    ASSUME DiscoGrande, VivoInv, TipoEstado, Reinicia, sano',
           bitmap' = bitmap, bloques' = bloques,
           fcb' \in [Archivos -> TipoFcb], FcbBien(fcb'),
           \A g \in Archivos : /\ fcb'[g].tamanio = fcb[g].tamanio
                               /\ fcb'[g].directo = fcb[g].directo
                               /\ fcb'[g].indirecto = fcb[g].indirecto
    PROVE  BloquesInv'
<1>0. /\ vivo /\ vivo' = vivo /\ caidas < MaxCaidas /\ caidas' = caidas + 1
      /\ bitmap' = bitmap /\ bloques' = bloques
      /\ paso' = "espera" /\ peticion' = <<>> /\ hecho' = 0
      /\ locales' = <<SinPuntero, SinPuntero, 0>>
      /\ pendientes' = <<>> /\ abiertos' = {}
      /\ VivoInv /\ TipoEstado
  BY DEF Reinicia, Libera
<1>1. paso # "bloques"
  BY DEF Reinicia
<1>2. /\ Alturas' = Alturas /\ Directos' = Directos /\ Indirectos' = Indirectos
      /\ Vistos' = Vistos /\ Manos' = {}
  <2>1. Vistos' = Vistos
    BY <1>0, <1>1 DEF Vistos, TamanioVisto, EnTruncado
  <2>. QED  BY <1>0, <2>1 DEF Alturas, Directos, Indirectos, Manos
<1>3. DiscoBien(bitmap, bloques, Directos, Indirectos, Alturas, {})
  BY <1>0, Suelta DEF VivoInv, DiscoInv
<1>4. DiscoInv'
  BY <1>0, <1>2, <1>3 DEF VivoInv, DiscoInv
<1>5. caidas' # 0 /\ caidas' \in 0..MaxCaidas
  BY <1>0, FileSystemAssumption DEF TipoEstado
<1>6. FugasInv'
  <2>1. PICK P : Perdidos(P)
    BY <1>0 DEF VivoInv, FugasInv
  <2>2. PICK h, hj, M, c : h = Huerfanos /\ hj = Huerfanos' /\ M = Manos /\ c = caidas
    OBVIOUS
  <2>3. /\ IsFiniteSet(P) /\ IsFiniteSet(h) /\ c \in Nat
        /\ Cardinality(P) \in Nat /\ Cardinality(h) \in Nat
        /\ Cardinality(P) + 2 * Cardinality(h) <= 2 * c
    <3>1. IsFiniteSet(h)
      BY <2>2, FS_Subset DEF DiscoGrande, Huerfanos
    <3>2. IsFiniteSet(P) /\ Cardinality(P) + 2 * Cardinality(h) <= 2 * c
      BY <2>1, <2>2 DEF Perdidos
    <3>3. c \in Nat
      BY <1>0, <2>2, FileSystemAssumption DEF TipoEstado
    <3>. QED  BY <3>1, <3>2, <3>3, FS_CardinalityType
  <2>4. SinPerdidos(bitmap, bloques, Directos, Indirectos, Alturas, M \cup P)
    BY <2>1, <2>2 DEF Perdidos
  <2>5. /\ IsFiniteSet(M) /\ Cardinality(M) \in Nat /\ Cardinality(M) <= 2
        /\ paso # "fcb" => M = {}
    <3>1. CASE paso = "fcb"
      <4>1. M = {locales[1]} \cup {locales[2]}
        BY <2>2, <3>1 DEF Manos
      <4>2. /\ IsFiniteSet({locales[1]}) /\ Cardinality({locales[1]}) = 1
        BY FS_Singleton
      <4>3. /\ IsFiniteSet(M)
            /\ Cardinality(M) = IF locales[2] \in {locales[1]} THEN 1 ELSE 1 + 1
        BY <4>1, <4>2, FS_AddElement
      <4>. QED  BY <3>1, <4>3
    <3>2. CASE paso # "fcb"
      BY <2>2, <3>2, FS_EmptySet DEF Manos
    <3>. QED  BY <3>1, <3>2
  <2>6. PICK Q : Q = P \cup M
    OBVIOUS
  <2>7. /\ IsFiniteSet(Q) /\ Cardinality(Q) \in Nat
        /\ Cardinality(Q) <= Cardinality(P) + Cardinality(M)
    <3>1. /\ IsFiniteSet(Q)
          /\ Cardinality(Q) = Cardinality(P) + Cardinality(M) - Cardinality(P \cap M)
      BY <2>3, <2>5, <2>6, FS_Union
    <3>2. Cardinality(P \cap M) \in Nat /\ Cardinality(Q) \in Nat
      BY <2>3, <3>1, FS_Intersection, FS_CardinalityType
    <3>. QED  BY <2>3, <2>5, <3>1, <3>2
  <2>8. SinPerdidos(bitmap, bloques, Directos, Indirectos, Alturas, Q)'
    <3>1. Q = M \cup P
      BY <2>6
    <3>. QED  BY <1>0, <1>2, <2>4, <3>1
  <2>9. IF paso = "tamanio" THEN hj \subseteq h \cup {Servido} ELSE hj = h
    BY <1>0, <2>2 DEF Huerfanos
  <2>10. /\ IsFiniteSet(hj) /\ Cardinality(hj) \in Nat
         /\ Cardinality(hj) <= IF paso = "tamanio" THEN Cardinality(h) + 1
                               ELSE Cardinality(h)
    <3>1. CASE paso = "tamanio"
      <4>1. PICK x, y : y = Servido /\ x = h \cup {y}
        OBVIOUS
      <4>2. /\ IsFiniteSet(x) /\ Cardinality(x) \in Nat
            /\ Cardinality(x) <= Cardinality(h) + 1
        <5>1. /\ IsFiniteSet(x)
              /\ Cardinality(x) = IF y \in h THEN Cardinality(h)
                                  ELSE Cardinality(h) + 1
          BY <2>3, <4>1, FS_AddElement
        <5>. QED  BY <2>3, <5>1
      <4>3. hj \in SUBSET x
        BY <2>9, <3>1, <4>1
      <4>4. /\ IsFiniteSet(hj) /\ Cardinality(hj) <= Cardinality(x)
        BY <4>2, <4>3, FS_Subset
      <4>5. Cardinality(hj) \in Nat
        BY <4>4, FS_CardinalityType
      <4>. QED  BY <2>3, <3>1, <4>2, <4>4, <4>5
    <3>2. CASE paso # "tamanio"
      BY <2>3, <2>9, <3>2
    <3>. QED  BY <3>1, <3>2
  <2>11. Cardinality(Q) + 2 * Cardinality(hj) <= 2 * (c + 1)
    <3>1. PICK p, q, m, s, t \in Nat :
            /\ p = Cardinality(P) /\ q = Cardinality(Q) /\ m = Cardinality(M)
            /\ s = Cardinality(h) /\ t = Cardinality(hj)
      BY <2>3, <2>5, <2>7, <2>10
    <3>2. p + 2 * s <= 2 * c /\ q <= p + m /\ m <= 2 /\ c \in Nat
      BY <2>3, <2>5, <2>7, <3>1
    <3>3. m = 0 \/ paso = "fcb"
      BY <2>5, <3>1, FS_EmptySet
    <3>4. IF paso = "tamanio" THEN t <= s + 1 ELSE t <= s
      BY <2>10, <3>1
    <3>7. q + 2 * t <= 2 * (c + 1)
      BY <3>2, <3>3, <3>4
    <3>. QED  BY <3>1, <3>7
  <2>12. Perdidos(Q)'
    <3>1. Q = Manos' \cup Q
      BY <1>2
    <3>2. SinPerdidos(bitmap, bloques, Directos, Indirectos, Alturas, Manos \cup Q)'
      BY <2>8, <3>1
    <3>3. Cardinality(Q) + 2 * Cardinality(Huerfanos') <= 2 * caidas'
      BY <1>0, <2>2, <2>11
    <3>. QED  BY <2>7, <3>2, <3>3 DEF Perdidos
  <2>. QED  BY <2>12 DEF FugasInv
<1>7. PedidosInv'
  BY <1>0 DEF PedidosInv
<1>8. FcbsInv'
  BY <1>0 DEF FcbsInv
<1>9. EtapaInv'
  BY <1>0 DEF EtapaInv
<1>10. TipoEstado'
  <2>1. locales' \in [1..3 -> Int]
    BY <1>0 DEF SinPuntero
  <2>. QED  BY <1>0, <1>5, <2>1 DEF TipoEstado, TipoGuardado, Pasos
<1>. QED  BY <1>4, <1>6, <1>7, <1>8, <1>9, <1>10 DEF BloquesInv, VivoInv

(* levantar_archivos and inicializar_fcbs find the disk as it was. *)
LEMMA CaeBloques ==
    ASSUME DiscoGrande, BloquesInv, CaeYReinicia, sano'
    PROVE  BloquesInv'
<1>1. /\ VivoInv /\ TipoEstado /\ Reinicia
      /\ bitmap' = bitmap /\ bloques' = bloques /\ fcb' = fcb
  BY DEF CaeYReinicia, Reinicia, BloquesInv, disco
<1>2. fcb' \in [Archivos -> TipoFcb] /\ FcbBien(fcb')
  BY <1>1 DEF TipoEstado, TipoGuardado, VivoInv, FcbsInv
<1>. QED  BY <1>1, <1>2, ReiniciaBloques

(* Or with one file more, empty. *)
LEMMA CaeCreandoBloques ==
    ASSUME DiscoGrande, RespuestasInv, BloquesInv, CaeCreando, sano'
    PROVE  BloquesInv'
<1>1. /\ VivoInv /\ TipoEstado /\ Reinicia /\ paso = "OPEN"
      /\ bitmap' = bitmap /\ bloques' = bloques /\ fcb' = Creado
  BY DEF CaeCreando, Reinicia, BloquesInv
<1>2. /\ fcb' \in [Archivos -> TipoFcb] /\ FcbBien(fcb')
      /\ \A g \in Archivos : /\ fcb'[g].tamanio = fcb[g].tamanio
                             /\ fcb'[g].directo = fcb[g].directo
                             /\ fcb'[g].indirecto = fcb[g].indirecto
  BY <1>1, CreadoBien
<1>. QED  BY <1>1, <1>2, ReiniciaBloques

(* The names the disk invariant gives to what the variables hold. *)
LEMMA DiscoDe ==
    ASSUME NEW f \in Archivos
    PROVE  /\ Directos[f] = fcb[f].directo /\ Indirectos[f] = fcb[f].indirecto
           /\ Vistos[f] = TamanioVisto(f)
           /\ ~ EnTruncado(f) => Vistos[f] = fcb[f].tamanio
           /\ EnTruncado(f) => Vistos[f] = Viejo
BY DEF Directos, Indirectos, Vistos, TamanioVisto

(* How many pointers a file has. *)
LEMMA AlturaTipo ==
    ASSUME VivoInv, NEW f \in Archivos
    PROVE  /\ Alturas[f] \in 0..CAPACIDAD
           /\ Alturas[f] >= Necesarios(TamanioVisto(f))
           /\ TamanioVisto(f) = 0 => Alturas[f] = 0
BY DiscoDe DEF VivoInv, DiscoInv, DiscoBien, TipoDisco, Caben

(* AsignarPunteros keeps it if there are two free blocks. *)
LEMMA AsignarPunterosBloques ==
    ASSUME RespuestasInv, BloquesInv, sano, HayLugar, AsignarPunteros
    PROVE  BloquesInv'
<1>0. /\ vivo /\ paso = "TRUNCATE" /\ paso' = "fcb" /\ fcb[Servido].tamanio = 0
      /\ bitmap' = Ocupados(2)[2] /\ bloques' = bloques /\ fcb' = fcb
      /\ locales' = <<Nuevos(2)[1], Nuevos(2)[2], 0>>
      /\ UNCHANGED <<peticion, datos, ajeno>>
      /\ hecho' = hecho /\ caidas' = caidas
      /\ VivoInv /\ TipoEstado
  BY DEF AsignarPunteros, BloquesInv, datos, ajeno
<1>1. /\ SoloServido /\ FcbBien(fcb') /\ ValidaEn(fcb', peticion)
      /\ Servido \in Archivos
  BY <1>0, FcbQuieto, ServidoTipo
<1>2. PICK a, b : a = Nuevos(2)[1] /\ b = Nuevos(2)[2]
  OBVIOUS
<1>3. /\ a \in Bloques \ bitmap /\ b \in Bloques \ bitmap /\ a # b
      /\ bitmap' = bitmap \cup {a, b}
  <2>1. Cardinality(Bloques \ bitmap) >= 2
    BY <1>0 DEF HayLugar
  <2>2. Hallados(bitmap, 2, Nuevos(2), Ocupados(2)[2])
    BY <1>0, <2>1, NuevosBien DEF TipoEstado, TipoGuardado
  <2>3. 1 \in 1..2 /\ 2 \in 1..2 /\ 1..2 = {1, 2}
    OBVIOUS
  <2>4. Nuevos(2)[1] \in Bloques \ bitmap /\ Nuevos(2)[2] \in Bloques \ bitmap
    BY <2>2, <2>3 DEF Hallados
  <2>5. Nuevos(2)[1] # Nuevos(2)[2]
    BY <2>2, <2>3 DEF Hallados
  <2>6. {Nuevos(2)[k] : k \in 1..2} = {Nuevos(2)[1], Nuevos(2)[2]}
    BY <2>3
  <2>7. Ocupados(2)[2] = bitmap \cup {Nuevos(2)[k] : k \in 1..2}
    BY <2>2 DEF Hallados
  <2>. QED  BY <1>0, <1>2, <2>4, <2>5, <2>6, <2>7
<1>4. locales' \in [1..3 -> Int] /\ locales'[1] = a /\ locales'[2] = b
  <2>1. a \in Int /\ b \in Int
    BY <1>3, MedidasBien
  <2>. QED  BY <1>0, <1>2, <2>1
<1>5. /\ Alturas' = Alturas /\ Directos' = Directos /\ Indirectos' = Indirectos
      /\ Vistos' = Vistos /\ Manos = {} /\ Manos' = {a, b}
  BY <1>0, <1>4, VistoIgual DEF Manos
<1>6. DiscoInv'
  <2>1. DiscoBien(bitmap, bloques, Directos, Indirectos, Alturas, {})
    BY <1>0, <1>5 DEF VivoInv, DiscoInv
  <2>2. DiscoBien(bitmap \cup {a, b}, bloques, Directos, Indirectos, Alturas,
                  {a, b})
    BY <1>3, <2>1, Toma
  <2>. QED  BY <1>0, <1>3, <1>5, <2>2 DEF VivoInv, DiscoInv
<1>7. FugasInv'
  <2>1. Huerfanos' = Huerfanos
    BY <1>0 DEF Huerfanos
  <2>2. ASSUME NEW P,
               SinPerdidos(bitmap, bloques, Directos, Indirectos, Alturas,
                           Manos \cup P)
        PROVE  SinPerdidos(bitmap, bloques, Directos, Indirectos, Alturas,
                           Manos \cup P)'
    <3>1. SinPerdidos(bitmap, bloques, Directos, Indirectos, Alturas, P)
      <4>1. Manos \cup P = P
        BY <1>5
      <4>. QED  BY <2>2, <4>1
    <3>2. SinPerdidos(bitmap \cup {a, b}, bloques, Directos, Indirectos, Alturas,
                      {a, b} \cup P)
      BY <3>1, TomaSinPerder
    <3>. QED  BY <1>0, <1>3, <1>5, <3>2
  <2>. QED  BY <1>0, <2>1, <2>2, PerdidosIgual DEF VivoInv
<1>8. TipoGuardado'
  BY <1>0, <1>3 DEF TipoEstado, TipoGuardado
<1>9. EtapaInv'
  <2>1. peticion.op = "TRUNCATE" /\ hecho = 0
    BY <1>0 DEF VivoInv, EtapaInv
  <2>2. fcb'[Servido].tamanio = 0 /\ Servido' = Servido
    BY <1>0 DEF Servido
  <2>. QED  BY <1>0, <1>3, <1>4, <2>1, <2>2 DEF EtapaInv
<1>10. hecho' \in Nat /\ paso' \in Pasos
  BY <1>0 DEF TipoEstado, Pasos
<1>. QED  BY <1>0, <1>1, <1>4, <1>6, <1>7, <1>8, <1>9, <1>10, SigueBloques

(* GuardarPunteros keeps it: the blocks of an orphan are those lost. *)
LEMMA GuardarPunterosBloques ==
    ASSUME UsoPrevisto, DiscoGrande, RespuestasInv, BloquesInv, GuardarPunteros
    PROVE  BloquesInv'
<1>0. /\ vivo /\ paso = "fcb" /\ paso' = "tamanio"
      /\ bitmap' = bitmap /\ bloques' = bloques
      /\ fcb' = [fcb EXCEPT ![Servido].directo = locales[1],
                            ![Servido].indirecto = locales[2]]
      /\ UNCHANGED <<peticion, locales, datos, ajeno>>
      /\ hecho' = hecho /\ caidas' = caidas
      /\ VivoInv /\ TipoEstado
  BY DEF GuardarPunteros, BloquesInv, datos, ajeno
<1>1. PICK f \in Archivos : f = Servido /\ Servido' = Servido
  BY <1>0, ServidoTipo DEF Servido
<1>2. PICK a, b : a = locales[1] /\ b = locales[2] /\ a # b
  BY <1>0 DEF VivoInv, EtapaInv
<1>3. Manos = {a, b} /\ Manos' = {}
  BY <1>0, <1>2 DEF Manos
<1>4. DiscoBien(bitmap, bloques, Directos, Indirectos, Alturas, {a, b})
  BY <1>0, <1>3 DEF VivoInv, DiscoInv
<1>5. a \in Bloques /\ b \in Bloques /\ a # SinPuntero
  <2>1. {a, b} \subseteq bitmap /\ bitmap \subseteq Bloques
    BY <1>4 DEF DiscoBien, TipoDisco
  <2>2. SinPuntero \notin Bloques
    BY MedidasBien DEF SinPuntero
  <2>. QED  BY <2>1, <2>2
<1>6. fcb \in [Archivos -> TipoFcb]
  BY <1>0 DEF TipoEstado, TipoGuardado
<1>7. /\ \A g \in Archivos : g # f => fcb'[g] = fcb[g]
      /\ fcb'[f].directo = a /\ fcb'[f].indirecto = b
      /\ fcb'[f].tamanio = fcb[f].tamanio /\ fcb'[f].existe = fcb[f].existe
      /\ fcb' \in [Archivos -> TipoFcb]
  BY <1>0, <1>1, <1>2, <1>5, <1>6 DEF TipoFcb
<1>8. /\ fcb[f].tamanio = 0 /\ peticion.op = "TRUNCATE" /\ hecho = 0
      /\ fcb[f].existe
  <2>1. peticion # <<>>
    BY <1>0, ServidoTipo
  <2>. QED  BY <1>0, <1>1, <2>1 DEF VivoInv, EtapaInv, PedidosInv, ValidaEn,
            Servido
<1>9. /\ Directos' = [Directos EXCEPT ![f] = a]
      /\ Indirectos' = [Indirectos EXCEPT ![f] = b]
  BY <1>7 DEF Directos, Indirectos
<1>10. Vistos' = Vistos /\ Alturas[f] = 0
  <2>1. \A g \in Archivos : fcb'[g].tamanio = fcb[g].tamanio
    BY <1>7
  <2>2. paso # "bloques" /\ paso' # "bloques"
    BY <1>0
  <2>3. ASSUME NEW g \in Archivos
        PROVE  /\ TamanioVisto(g) = fcb[g].tamanio
               /\ TamanioVisto(g)' = fcb'[g].tamanio
    BY <2>2 DEF TamanioVisto, EnTruncado
  <2>4. Vistos' = Vistos
    BY <2>1, <2>3 DEF Vistos
  <2>5. Alturas[f] = 0
    BY <1>0, <1>8, <2>3, AlturaTipo
  <2>. QED  BY <2>4, <2>5
<1>11. Alturas' = Alturas /\ DiscoInv'
  <2>1. DiscoBien(bitmap, bloques, Directos', Indirectos', Alturas, {})
    BY <1>2, <1>4, <1>9, <1>10, Guarda
  <2>2. ASSUME NEW g \in Archivos, Directos'[g] = SinPuntero
        PROVE  Alturas[g] = 0
    <3>1. CASE g = f
      BY <1>10, <3>1
    <3>2. CASE g # f
      <4>1. Directos[g] = SinPuntero
        BY <1>7, <2>2, <3>2 DEF Directos
      <4>. QED  BY <4>1 DEF Alturas, Directos
    <3>. QED  BY <3>1, <3>2
  <2>3. Alturas = [g \in Archivos |->
                      IF \/ Directos'[g] = SinPuntero
                         \/ bloques[Indirectos'[g]].cant = TEXTO
                      THEN 0 ELSE bloques[Indirectos'[g]].cant]
    <3>1. CAPACIDAD < TEXTO
      BY DEF UsoPrevisto
    <3>. QED  BY <2>1, <2>2, <3>1, AlturasDe
  <2>4. Alturas' = Alturas
    BY <1>0, <2>3 DEF Alturas, Directos, Indirectos
  <2>. QED  BY <1>0, <1>3, <1>10, <2>1, <2>4 DEF VivoInv, DiscoInv
<1>12. FugasInv'
  <2>1. PICK P : Perdidos(P)
    BY <1>0 DEF VivoInv, FugasInv
  <2>2. PICK h, hj, c, di, in :
          /\ h = Huerfanos /\ hj = Huerfanos' /\ c = caidas
          /\ di = fcb[f].directo /\ in = fcb[f].indirecto
    OBVIOUS
  <2>3. IsFiniteSet(P) /\ Cardinality(P) + 2 * Cardinality(h) <= 2 * c
    BY <2>1, <2>2 DEF Perdidos
  <2>4. IsFiniteSet(h) /\ c \in Nat
    BY <1>0, <2>2, FS_Subset, FileSystemAssumption
    DEF DiscoGrande, Huerfanos, TipoEstado
  <2>5. f \in h <=> di # SinPuntero
    BY <1>0, <1>8, <2>2 DEF Huerfanos
  <2>6. hj = h \ {f}
    <3>1. \A g \in Archivos : g # f => (g \in hj <=> g \in h)
      BY <1>0, <1>1, <1>7, <2>2 DEF Huerfanos
    <3>2. f \notin hj
      BY <1>0, <1>1, <2>2 DEF Huerfanos
    <3>3. hj \subseteq Archivos /\ h \subseteq Archivos
      BY <2>2 DEF Huerfanos
    <3>. QED  BY <3>1, <3>2, <3>3
  <2>7. PICK Q : Q = IF di = SinPuntero THEN P ELSE (P \cup {di}) \cup {in}
    OBVIOUS
  <2>8. /\ IsFiniteSet(Q)
        /\ Cardinality(Q) + 2 * Cardinality(hj) <= 2 * c
    <3>1. Cardinality(P) \in Nat /\ Cardinality(h) \in Nat
      BY <2>3, <2>4, FS_CardinalityType
    <3>2. CASE di = SinPuntero
      <4>1. Q = P /\ hj = h
        BY <2>5, <2>6, <2>7, <3>2
      <4>. QED  BY <2>3, <4>1
    <3>3. CASE di # SinPuntero
      <4>1. Cardinality(hj) = Cardinality(h) - 1
        BY <2>4, <2>5, <2>6, <3>3, FS_RemoveElement
      <4>2. PICK R : R = P \cup {di}
        OBVIOUS
      <4>3. /\ IsFiniteSet(R) /\ Cardinality(R) \in Nat
            /\ Cardinality(R) <= Cardinality(P) + 1
        <5>1. /\ IsFiniteSet(R)
              /\ Cardinality(R) = IF di \in P THEN Cardinality(P)
                                  ELSE Cardinality(P) + 1
          BY <2>3, <4>2, FS_AddElement
        <5>. QED  BY <3>1, <5>1
      <4>4. /\ IsFiniteSet(Q) /\ Cardinality(Q) \in Nat
            /\ Cardinality(Q) <= Cardinality(R) + 1
        <5>1. Q = R \cup {in}
          BY <2>7, <3>3, <4>2
        <5>2. /\ IsFiniteSet(Q)
              /\ Cardinality(Q) = IF in \in R THEN Cardinality(R)
                                  ELSE Cardinality(R) + 1
          BY <4>3, <5>1, FS_AddElement
        <5>. QED  BY <4>3, <5>2
      <4>. QED  BY <2>3, <2>4, <3>1, <4>1, <4>3, <4>4
    <3>. QED  BY <3>2, <3>3
  <2>9. SinPerdidos(bitmap, bloques, Directos', Indirectos', Alturas, Q)
    <3>1. SinPerdidos(bitmap, bloques, Directos, Indirectos, Alturas, {a, b} \cup P)
      BY <1>3, <2>1 DEF Perdidos
    <3>2. P \subseteq Q
      BY <2>7
    <3>3. Directos[f] # SinPuntero => Directos[f] \in Q /\ Indirectos[f] \in Q
      BY <2>2, <2>7, DiscoDe
    <3>. QED  BY <1>2, <1>4, <1>9, <1>10, <3>1, <3>2, <3>3, GuardaSinPerder
  <2>10. Perdidos(Q)'
    <3>1. Manos' \cup Q = Q
      BY <1>3
    <3>2. SinPerdidos(bitmap, bloques, Directos, Indirectos, Alturas, Manos \cup Q)'
      BY <1>0, <1>11, <2>9, <3>1
    <3>3. Cardinality(Q) + 2 * Cardinality(Huerfanos') <= 2 * caidas'
      BY <1>0, <2>2, <2>8
    <3>. QED  BY <2>8, <3>2, <3>3 DEF Perdidos
  <2>. QED  BY <2>10 DEF FugasInv
<1>13. TipoGuardado'
  BY <1>0, <1>7 DEF TipoEstado, TipoGuardado
<1>14. EtapaInv'
  BY <1>0, <1>1, <1>5, <1>7, <1>8 DEF EtapaInv
<1>15. SoloServido
  BY <1>1, <1>7 DEF SoloServido
<1>16. FcbBien(fcb')
  <2>1. FcbBien(fcb)
    BY <1>0 DEF VivoInv, FcbsInv
  <2>2. ASSUME NEW g \in Archivos
        PROVE  /\ fcb'[g].tamanio \in Tamanios[g] \cup {0}
               /\ fcb'[g].tamanio # 0 => fcb'[g].directo # SinPuntero
               /\ ~ fcb'[g].existe => fcb'[g] = NoExiste
    <3>1. CASE g = f
      BY <1>7, <1>8, <3>1
    <3>2. CASE g # f
      BY <1>7, <2>1, <3>2 DEF FcbBien
    <3>. QED  BY <3>1, <3>2
  <2>. QED  BY <2>2 DEF FcbBien
<1>17. ValidaEn(fcb', peticion)
  BY <1>1, <1>7, <1>8 DEF ValidaEn, Servido
<1>18. hecho' \in Nat /\ paso' \in Pasos /\ locales' \in [1..3 -> Int]
  BY <1>0 DEF TipoEstado, Pasos
<1>. QED  BY <1>0, <1>11, <1>12, <1>13, <1>14, <1>15, <1>16, <1>17, <1>18,
          SigueBloques

(* GuardarTamanio keeps it: the places are still those of the old size. *)
LEMMA GuardarTamanioBloques ==
    ASSUME UsoPrevisto, RespuestasInv, BloquesInv, GuardarTamanio
    PROVE  BloquesInv'
<1>0. /\ vivo /\ paso' = "bloques"
      /\ \/ paso = "tamanio"
         \/ paso = "TRUNCATE" /\ fcb[Servido].tamanio # 0
      /\ bitmap' = bitmap /\ bloques' = bloques
      /\ locales' = [locales EXCEPT ![3] = fcb[Servido].tamanio]
      /\ fcb' = [fcb EXCEPT ![Servido].tamanio = peticion.tamanio]
      /\ UNCHANGED <<peticion, datos, ajeno>>
      /\ hecho' = hecho /\ caidas' = caidas
      /\ VivoInv /\ TipoEstado
  BY DEF GuardarTamanio, BloquesInv, datos, ajeno
<1>1. PICK f \in Archivos : f = Servido /\ Servido' = Servido
  BY <1>0, ServidoTipo DEF Servido
<1>2. PICK t : t = peticion.tamanio
  OBVIOUS
<1>3. /\ peticion.op = "TRUNCATE" /\ hecho = 0 /\ fcb[f].existe
      /\ fcb[f].directo # SinPuntero
  <2>1. peticion # <<>>
    BY <1>0, ServidoTipo
  <2>2. peticion.op = "TRUNCATE" /\ hecho = 0
    BY <1>0 DEF VivoInv, EtapaInv
  <2>3. fcb[f].existe
    BY <1>0, <1>1, <2>1, <2>2 DEF VivoInv, PedidosInv, ValidaEn, Servido
  <2>4. fcb[f].directo # SinPuntero
    BY <1>0, <1>1 DEF VivoInv, FcbsInv, FcbBien, EtapaInv
  <2>. QED  BY <2>2, <2>3, <2>4
<1>4. t \in Tamanios[f] /\ t \in Nat /\ t > 1
  <2>1. peticion \in Peticiones
    BY <1>0, ServidoTipo
  <2>2. t \in Tamanios[f] /\ t \in Nat
    BY <1>1, <1>2, <1>3, <2>1, PeticionCampos, FileSystemAssumption DEF Servido
  <2>. QED  BY <2>2 DEF UsoPrevisto
<1>5. fcb \in [Archivos -> TipoFcb] /\ locales \in [1..3 -> Int]
  BY <1>0 DEF TipoEstado, TipoGuardado
<1>6. /\ \A g \in Archivos : g # f => fcb'[g] = fcb[g]
      /\ fcb'[f].directo = fcb[f].directo /\ fcb'[f].indirecto = fcb[f].indirecto
      /\ fcb'[f].tamanio = t /\ fcb'[f].existe = fcb[f].existe
      /\ fcb' \in [Archivos -> TipoFcb]
  BY <1>0, <1>1, <1>2, <1>4, <1>5 DEF TipoFcb
<1>7. locales' \in [1..3 -> Int] /\ locales'[3] = fcb[f].tamanio
  <2>1. fcb[f].tamanio \in Int
    BY <1>5 DEF TipoFcb
  <2>. QED  BY <1>0, <1>1, <1>5, <2>1
<1>8. Directos' = Directos /\ Indirectos' = Indirectos
  BY <1>6 DEF Directos, Indirectos
<1>9. Alturas' = Alturas /\ Vistos' = Vistos
  <2>1. ASSUME NEW g \in Archivos PROVE TamanioVisto(g)' = TamanioVisto(g)
    BY <1>0, <1>1, <1>6, <1>7 DEF TamanioVisto, EnTruncado, Viejo
  <2>2. \A g \in Archivos : /\ fcb'[g].directo = fcb[g].directo
                            /\ fcb'[g].indirecto = fcb[g].indirecto
    BY <1>6
  <2>. QED  BY <1>0, <2>1, <2>2 DEF Alturas, Vistos
<1>10. Manos' = {} /\ Manos = {}
  BY <1>0 DEF Manos
<1>11. DiscoInv'
  BY <1>0, <1>8, <1>9, <1>10 DEF VivoInv, DiscoInv
<1>12. FcbBien(fcb')
  <2>1. FcbBien(fcb)
    BY <1>0 DEF VivoInv, FcbsInv
  <2>2. ASSUME NEW g \in Archivos
        PROVE  /\ fcb'[g].tamanio \in Tamanios[g] \cup {0}
               /\ fcb'[g].tamanio # 0 => fcb'[g].directo # SinPuntero
               /\ ~ fcb'[g].existe => fcb'[g] = NoExiste
    <3>1. CASE g = f
      BY <1>3, <1>4, <1>6, <3>1
    <3>2. CASE g # f
      BY <1>6, <2>1, <3>2 DEF FcbBien
    <3>. QED  BY <3>1, <3>2
  <2>. QED  BY <2>2 DEF FcbBien
<1>13. \A g \in Archivos : fcb'[g].directo # SinPuntero /\ fcb'[g].tamanio = 0
          => g # f /\ fcb[g].directo # SinPuntero /\ fcb[g].tamanio = 0
  BY <1>4, <1>6
<1>14. FugasInv'
  <2>1. Huerfanos' = Huerfanos
    <3>1. f \notin Huerfanos
      BY <1>0, <1>1 DEF Huerfanos
    <3>2. f \notin Huerfanos'
      BY <1>4, <1>6 DEF Huerfanos
    <3>3. \A g \in Archivos : g # f => (g \in Huerfanos' <=> g \in Huerfanos)
      BY <1>0, <1>1, <1>6 DEF Huerfanos
    <3>4. Huerfanos' \subseteq Archivos /\ Huerfanos \subseteq Archivos
      BY DEF Huerfanos
    <3>. QED  BY <3>1, <3>2, <3>3, <3>4
  <2>. QED  BY <1>0, <1>8, <1>9, <1>10, <2>1, MismosPerdidos DEF VivoInv
<1>15. TipoGuardado'
  BY <1>0, <1>6 DEF TipoEstado, TipoGuardado
<1>16. EtapaInv'
  <2>1. fcb[f].tamanio \in Tamanios[f] \cup {0}
    BY <1>0 DEF VivoInv, FcbsInv, FcbBien
  <2>. QED  BY <1>0, <1>1, <1>2, <1>3, <1>6, <1>7, <2>1 DEF EtapaInv
<1>17. SoloServido
  BY <1>1, <1>6 DEF SoloServido
<1>18. ValidaEn(fcb', peticion)
  BY <1>1, <1>3, <1>6 DEF ValidaEn, Servido
<1>19. hecho' \in Nat /\ paso' \in Pasos
  BY <1>0 DEF TipoEstado, Pasos
<1>20. paso # "espera"
  BY <1>0
<1>. QED  BY <1>0, <1>7, <1>11, <1>12, <1>14, <1>15, <1>16, <1>17, <1>18, <1>19,
          <1>20, SigueBloques

(* No block to add and none to take: the new size needs the same. *)
LEMMA MismosBloquesBloques ==
    ASSUME UsoPrevisto, RespuestasInv, BloquesInv, MismosBloques
    PROVE  BloquesInv'
<1>0. /\ vivo /\ paso = "bloques" /\ paso' = "espera" /\ peticion' = <<>>
      /\ \/ Restante = Viejo
         \/ Restante < Viejo /\ ASacar(Viejo, Restante) = 0
      /\ bitmap' = bitmap /\ bloques' = bloques /\ fcb' = fcb /\ caidas' = caidas
      /\ Responde /\ VivoInv /\ TipoEstado
  BY DEF MismosBloques, BloquesInv, disco, Responde, Libera
<1>1. /\ SoloServido /\ FcbBien(fcb') /\ ValidaEn(fcb', peticion)
      /\ peticion \in Peticiones
  BY <1>0, FcbQuieto, ServidoTipo
<1>. PICK f \in Archivos : f = Servido
  BY <1>0, ServidoTipo
<1>2. PICK t, v, r : /\ f = Servido /\ t = peticion.tamanio
                     /\ v = Viejo /\ r = Restante
  OBVIOUS
<1>3. /\ peticion.op = "TRUNCATE" /\ fcb[f].tamanio = t
      /\ v \in Tamanios[f] \cup {0} /\ t \in Tamanios[f]
  BY <1>0, <1>1, <1>2, PeticionCampos DEF VivoInv, EtapaInv, Viejo, Servido
<1>4. r = ARestar(v, t)
  BY <1>2 DEF Restante
<1>5. Necesarios(t) = Necesarios(v) /\ t > 1 /\ t \in Nat
  <2>1. /\ t \in Nat /\ v \in Nat /\ t > 1
        /\ r < v => ASacar(v, r) = Necesarios(v) - Necesarios(t)
        /\ r = v => Necesarios(t) = Necesarios(v)
    BY <1>3, <1>4, BloquesDeTruncate
  <2>2. r = v \/ (r < v /\ ASacar(v, r) = 0)
    BY <1>0, <1>2
  <2>3. Necesarios(t) \in Nat /\ Necesarios(v) \in Nat
    BY <2>1, NecesariosBien
  <2>. QED  BY <2>1, <2>2, <2>3
<1>6. Directos' = Directos /\ Indirectos' = Indirectos
  BY <1>0 DEF Directos, Indirectos
<1>7. Alturas' = Alturas /\ Caben(Alturas, Vistos')
  <2>1. ASSUME NEW g \in Archivos
        PROVE  /\ Alturas[g] >= Necesarios(Vistos'[g])
               /\ Vistos'[g] = 0 => Alturas[g] = 0
    <3>1. Vistos'[g] = fcb[g].tamanio
      BY <1>0 DEF Vistos, TamanioVisto, EnTruncado
    <3>2. TamanioVisto(g) = IF g = f THEN v ELSE fcb[g].tamanio
      BY <1>0, <1>2 DEF TamanioVisto, EnTruncado
    <3>3. /\ Alturas[g] >= Necesarios(TamanioVisto(g))
          /\ TamanioVisto(g) = 0 => Alturas[g] = 0
      BY <1>0, AlturaTipo
    <3>. QED  BY <1>3, <1>5, <3>1, <3>2, <3>3
  <2>. QED  BY <1>0, <2>1 DEF Alturas, Caben
<1>8. Manos' = {} /\ Manos = {}
  BY <1>0 DEF Manos
<1>9. DiscoInv'
  BY <1>0, <1>6, <1>7, <1>8 DEF VivoInv, DiscoInv
<1>10. FugasInv'
  <2>1. Huerfanos' = Huerfanos
    BY <1>0 DEF Huerfanos
  <2>. QED  BY <1>0, <1>6, <1>7, <1>8, <2>1, MismosPerdidos DEF VivoInv
<1>11. TipoGuardado'
  BY <1>0 DEF TipoEstado, TipoGuardado
<1>. QED  BY <1>0, <1>1, <1>3, <1>9, <1>10, <1>11, RespondeBloques

(* A set of values under a name, for the same reason as Puesto. *)
Valores(F, S) == {F[s] : s \in S}

(* Two ways of naming the same values. *)
LEMMA MismosValores ==
    ASSUME NEW S, NEW T, NEW F, NEW G,
           \A s \in S : \E t \in T : F[s] = G[t],
           \A t \in T : \E s \in S : F[s] = G[t]
    PROVE  Valores(F, S) = Valores(G, T)
<1>1. ASSUME NEW e \in {F[s] : s \in S} PROVE e \in {G[t] : t \in T}
  OBVIOUS
<1>2. ASSUME NEW e \in {G[t] : t \in T} PROVE e \in {F[s] : s \in S}
  OBVIOUS
<1>. QED  BY <1>1, <1>2 DEF Valores

(* A block of pointers has the type of a block. *)
LEMMA PunterosBien ==
    ASSUME NEW c \in 0..CAPACIDAD, NEW p \in [1..CAPACIDAD -> Nat],
           NEW x, x = BloqueDePunteros(c, p)
    PROVE  TipoBloque(x) /\ x.cant = c /\ x.ptr = p
BY DEF BloqueDePunteros, TipoBloque

(* The block of pointers b after them: with v after its a pointers, up to  *)
(* m; without the last n.                                                  *)
ConNuevos(b, a, n, m, v) ==
    BloqueDePunteros(m, [k \in 1..CAPACIDAD |->
        IF k - a \in 1..n THEN v[k - a] ELSE b.ptr[k]])
SinUltimos(b, a, n, m) ==
    BloqueDePunteros(m, [k \in 1..CAPACIDAD |->
        IF a - k \in 0..(n - 1) THEN 0 ELSE b.ptr[k]])

(* asignar_bloques writes, after the pointers there were, those it found.  *)
LEMMA AsignaCambio ==
    ASSUME NEW bm, NEW bl, NEW in, NEW h, NEW f, NEW a \in Nat, h[f] = a,
           NEW n \in Nat, NEW m \in 0..CAPACIDAD, m = a + n,
           NEW v, NEW bj, Hallados(bm, n, v, bj),
           NEW b, b = bl[in[f]], TipoBloque(b),
           NEW x, x = ConNuevos(b, a, n, m, v)
    PROVE  Cambio(bm, bl, in, h, f, m, x, bj)
<1>. DEFINE p == [k \in 1..CAPACIDAD |->
                     IF k - a \in 1..n THEN v[k - a] ELSE b.ptr[k]]
<1>0. CAPACIDAD \in Nat /\ Bloques \subseteq Nat
  BY MedidasBien
<1>1. \A k \in 1..n : v[k] \in Bloques \ bm
  BY DEF Hallados
<1>2. p \in [1..CAPACIDAD -> Nat]
  <2>1. b.ptr \in [1..CAPACIDAD -> Nat]
    BY DEF TipoBloque
  <2>2. \A k \in 1..n : v[k] \in Nat
    BY <1>0, <1>1
  <2>. QED  BY <2>1, <2>2
<1>3. TipoBloque(x) /\ x.cant = m /\ x.ptr = p
  BY <1>2, PunterosBien DEF ConNuevos
<1>4. ASSUME NEW k \in 1..m
      PROVE  x.ptr[k] = IF k <= a THEN b.ptr[k] ELSE v[k - a]
  <2>1. k \in 1..CAPACIDAD /\ (k - a \in 1..n <=> ~ (k <= a))
    BY <1>0
  <2>2. p[k] = IF k - a \in 1..n THEN v[k - a] ELSE b.ptr[k]
    BY <2>1
  <2>. HIDE DEF p
  <2>. QED  BY <1>3, <2>1, <2>2
<1>. HIDE DEF p
<1>5. \A k \in (a + 1)..m : k \in 1..m /\ ~ (k <= a) /\ k - a \in 1..n
  BY <1>0
<1>6. \A k \in (a + 1)..m : x.ptr[k] = v[k - a] /\ x.ptr[k] \in Bloques \ bm
  BY <1>1, <1>4, <1>5
<1>7. \A k \in 1..m : IF k <= h[f] THEN x.ptr[k] = bl[in[f]].ptr[k]
                      ELSE x.ptr[k] \in Bloques \ bm
  <2>1. \A k \in 1..m : k <= a \/ k \in (a + 1)..m
    BY <1>0
  <2>. QED  BY <1>4, <1>6, <2>1
<1>8. \A k, l \in (h[f] + 1)..m : x.ptr[k] = x.ptr[l] => k = l
  <2>1. SUFFICES ASSUME NEW k \in (a + 1)..m, NEW l \in (a + 1)..m,
                        x.ptr[k] = x.ptr[l]
                 PROVE  k = l
    OBVIOUS
  <2>2. v[k - a] = v[l - a] /\ k - a \in 1..n /\ l - a \in 1..n
    BY <1>5, <1>6, <2>1
  <2>3. k - a = l - a
    BY <2>2 DEF Hallados
  <2>. QED  BY <1>0, <2>3
<1>9. bj = (bm \ {bl[in[f]].ptr[k] : k \in (m + 1)..h[f]})
               \cup {x.ptr[k] : k \in (h[f] + 1)..m}
  <2>1. (m + 1)..h[f] = {}
    BY <1>0
  <2>2. {v[k] : k \in 1..n} = {x.ptr[k] : k \in (a + 1)..m}
    <3>1. ASSUME NEW k \in 1..n
          PROVE  \E l \in (a + 1)..m : v[k] = x.ptr[l]
      <4>1. k + a \in (a + 1)..m /\ (k + a) - a = k
        BY <1>0
      <4>2. x.ptr[k + a] = v[k]
        BY <1>6, <4>1
      <4>. QED  BY <4>1, <4>2
    <3>2. ASSUME NEW l \in (a + 1)..m
          PROVE  \E k \in 1..n : v[k] = x.ptr[l]
      BY <1>5, <1>6
    <3>3. PICK S, T, G : S = 1..n /\ T = (a + 1)..m /\ G = x.ptr
      OBVIOUS
    <3>4. \A s \in S : \E t \in T : v[s] = G[t]
      BY <3>1, <3>3
    <3>5. \A t \in T : \E s \in S : v[s] = G[t]
      BY <3>2, <3>3
    <3>6. Valores(v, S) = Valores(G, T)
      BY <3>4, <3>5, MismosValores
    <3>. QED  BY <3>3, <3>6 DEF Valores
  <2>3. bj = bm \cup {v[k] : k \in 1..n}
    BY DEF Hallados
  <2>. QED  BY <2>1, <2>2, <2>3
<1>. QED  BY <1>3, <1>7, <1>8, <1>9 DEF Cambio

(* sacar_bloques takes the last pointers, and clears the bits of those     *)
(* blocks.                                                                 *)
LEMMA SacaCambio ==
    ASSUME NEW bm, NEW bl, NEW in, NEW h, NEW f,
           NEW a \in 0..CAPACIDAD, h[f] = a,
           NEW n \in Nat, NEW m \in Nat, a = m + n,
           NEW b, b = bl[in[f]], TipoBloque(b),
           NEW v, \A j \in 1..n : v[j] = b.ptr[a - j + 1],
           NEW x, x = SinUltimos(b, a, n, m),
           NEW bj, bj = bm \ Valores(v, 1..n)
    PROVE  Cambio(bm, bl, in, h, f, m, x, bj)
<1>. DEFINE p == [k \in 1..CAPACIDAD |->
                     IF a - k \in 0..(n - 1) THEN 0 ELSE b.ptr[k]]
<1>0. CAPACIDAD \in Nat /\ m \in 0..CAPACIDAD
  BY MedidasBien
<1>1. p \in [1..CAPACIDAD -> Nat]
  <2>1. b.ptr \in [1..CAPACIDAD -> Nat]
    BY DEF TipoBloque
  <2>. QED  BY <2>1
<1>2. TipoBloque(x) /\ x.cant = m /\ x.ptr = p
  <2>1. x = BloqueDePunteros(m, p)
    BY DEF SinUltimos
  <2>. HIDE DEF p
  <2>. QED  BY <1>0, <1>1, <2>1, PunterosBien
<1>3. ASSUME NEW k \in 1..m PROVE x.ptr[k] = b.ptr[k] /\ k <= h[f]
  <2>1. k \in 1..CAPACIDAD /\ ~ (a - k \in 0..(n - 1)) /\ k <= a
    BY <1>0
  <2>2. p[k] = b.ptr[k]
    BY <2>1
  <2>. HIDE DEF p
  <2>. QED  BY <1>2, <2>1, <2>2
<1>. HIDE DEF p
<1>4. (h[f] + 1)..m = {}
  BY <1>0
<1>5. {v[j] : j \in 1..n} = {b.ptr[k] : k \in (m + 1)..a}
  <2>1. ASSUME NEW j \in 1..n
        PROVE  \E k \in (m + 1)..a : v[j] = b.ptr[k]
    <3>1. a - j + 1 \in (m + 1)..a
      BY <1>0
    <3>. QED  BY <3>1
  <2>2. ASSUME NEW k \in (m + 1)..a
        PROVE  \E j \in 1..n : v[j] = b.ptr[k]
    <3>1. a - k + 1 \in 1..n /\ a - (a - k + 1) + 1 = k
      BY <1>0
    <3>2. v[a - k + 1] = b.ptr[k]
      BY <3>1
    <3>. QED  BY <3>1, <3>2
  <2>3. PICK S, T, G : S = 1..n /\ T = (m + 1)..a /\ G = b.ptr
    OBVIOUS
  <2>4. \A s \in S : \E t \in T : v[s] = G[t]
    BY <2>1, <2>3
  <2>5. \A t \in T : \E s \in S : v[s] = G[t]
    BY <2>2, <2>3
  <2>6. Valores(v, S) = Valores(G, T)
    BY <2>4, <2>5, MismosValores
  <2>. QED  BY <2>3, <2>6 DEF Valores
<1>. QED  BY <1>0, <1>2, <1>3, <1>4, <1>5 DEF Cambio, Valores

(* The request that adds or takes blocks: f is its file, t the new size, v *)
(* the old one.                                                            *)
Truncando(f, t, v) ==
    /\ f = Servido /\ f \in Archivos /\ t = peticion.tamanio /\ v = Viejo
    /\ peticion.op = "TRUNCATE" /\ fcb[f].tamanio = t
    /\ t \in Tamanios[f] /\ v \in Tamanios[f] \cup {0}
    /\ Restante = ARestar(v, t)
    /\ Alturas[f] \in 0..CAPACIDAD /\ Alturas[f] >= Necesarios(v)
    /\ Directos[f] = fcb[f].directo /\ fcb[f].directo # SinPuntero
    /\ Indirectos[f] = Indirecto
    /\ Manos = {} /\ Manos' = {}

(* At that step there is such a request. *)
LEMMA EnTruncate ==
    ASSUME UsoPrevisto, RespuestasInv, BloquesInv, vivo, paso = "bloques",
           paso' # "fcb"
    PROVE  \E f, t, v : Truncando(f, t, v)
<1>0. VivoInv /\ TipoEstado
  BY DEF BloquesInv
<1>. PICK f \in Archivos : f = Servido
  BY ServidoTipo
<1>1. PICK t, v : f = Servido /\ t = peticion.tamanio /\ v = Viejo
  OBVIOUS
<1>2. peticion \in Peticiones
  BY ServidoTipo
<1>3. /\ peticion.op = "TRUNCATE" /\ fcb[f].tamanio = t
      /\ v \in Tamanios[f] \cup {0} /\ t \in Tamanios[f]
  BY <1>0, <1>1, <1>2, PeticionCampos DEF VivoInv, EtapaInv, Viejo, Servido
<1>4. t # 0
  BY <1>3 DEF UsoPrevisto
<1>5. fcb[f].directo # SinPuntero
  BY <1>0, <1>3, <1>4 DEF VivoInv, FcbsInv, FcbBien
<1>6. Restante = ARestar(v, t)
  BY <1>1 DEF Restante
<1>7. Alturas[f] \in 0..CAPACIDAD /\ Alturas[f] >= Necesarios(v)
  BY <1>0, <1>1, AlturaTipo DEF TamanioVisto, EnTruncado
<1>8. Directos[f] = fcb[f].directo /\ Indirectos[f] = Indirecto
  BY <1>1 DEF Directos, Indirectos, Indirecto
<1>9. Manos = {} /\ Manos' = {}
  BY DEF Manos
<1>10. Truncando(f, t, v)
  BY <1>1, <1>3, <1>5, <1>6, <1>7, <1>8, <1>9 DEF Truncando
<1>. QED  BY <1>10

(* The step that ends it with the blocks the new size needs. *)
LEMMA TruncadoBloques ==
    ASSUME UsoPrevisto, RespuestasInv, BloquesInv, vivo, paso = "bloques",
           Responde, NEW f, NEW t, NEW v, Truncando(f, t, v),
           NEW x, NEW n \in 0..CAPACIDAD, n >= Necesarios(t),
           Cambio(bitmap, bloques, Indirectos, Alturas, f, n, x, bitmap'),
           bloques' = [bloques EXCEPT ![Indirecto] = x], fcb' = fcb
    PROVE  BloquesInv'
<1>0. /\ VivoInv /\ TipoEstado
      /\ paso' = "espera" /\ caidas' = caidas /\ peticion' = <<>>
  BY DEF BloquesInv, Responde, Libera
<1>1. SoloServido /\ FcbBien(fcb') /\ peticion.op # "OPEN"
  BY FcbQuieto DEF Truncando
<1>2. Directos' = Directos /\ Indirectos' = Indirectos
  BY DEF Directos, Indirectos
<1>4. /\ f \in Archivos /\ Directos[f] # SinPuntero
      /\ Indirecto = Indirectos[f] /\ Manos = {} /\ Manos' = {}
  BY DEF Truncando
<1>5. DiscoBien(bitmap, bloques, Directos, Indirectos, Alturas, {})
  BY <1>0, <1>4 DEF VivoInv, DiscoInv
<1>6. PICK bm, bl, di, in, h :
         /\ bm = bitmap /\ bl = bloques
         /\ di = Directos /\ in = Indirectos /\ h = Alturas
  OBVIOUS
<1>16. PICK bj, blj, hj :
         bj = bitmap' /\ blj = bloques' /\ hj = Puesto(h, f, n)
  OBVIOUS
<1>7. /\ Cambio(bm, bl, in, h, f, n, x, bj)
      /\ blj = Puesto(bl, in[f], x)
      /\ DiscoBien(bm, bl, di, in, h, {}) /\ di[f] # SinPuntero
  BY <1>4, <1>5, <1>6, <1>16 DEF Puesto
<1>8. DiscoBien(bj, blj, di, in, hj, {})
  <2>1. f \in Archivos
    BY <1>4
  <2>. QED  BY <1>7, <1>16, <2>1, Cambia
<1>3. Alturas' = hj
  <2>1. ASSUME NEW g \in Archivos, di[g] = SinPuntero PROVE hj[g] = 0
    <3>1. h[g] = 0
      BY <1>6, <2>1 DEF Alturas, Directos
    <3>2. g # f
      BY <1>7, <2>1
    <3>3. h \in [Archivos -> 0..CAPACIDAD]
      BY <1>7 DEF DiscoBien, TipoDisco
    <3>. QED  BY <1>16, <3>1, <3>2, <3>3 DEF Puesto
  <2>2. hj = [g \in Archivos |->
                 IF di[g] = SinPuntero \/ blj[in[g]].cant = TEXTO
                 THEN 0 ELSE blj[in[g]].cant]
    <3>1. CAPACIDAD < TEXTO
      BY DEF UsoPrevisto
    <3>. QED  BY <1>8, <2>1, <3>1, AlturasDe
  <2>. QED  BY <1>2, <1>6, <1>16, <2>2 DEF Alturas, Directos, Indirectos
<1>17. Caben(hj, Vistos')
  <2>1. ASSUME NEW g \in Archivos
        PROVE  /\ hj[g] >= Necesarios(Vistos'[g])
               /\ Vistos'[g] = 0 => hj[g] = 0
    <3>1. Vistos'[g] = fcb[g].tamanio
      BY <1>0 DEF Vistos, TamanioVisto, EnTruncado
    <3>2. h \in [Archivos -> 0..CAPACIDAD]
      BY <1>7 DEF DiscoBien, TipoDisco
    <3>3. CASE g = f
      <4>1. hj[g] = n /\ fcb[g].tamanio = t /\ t # 0
        BY <1>16, <3>2, <3>3 DEF Puesto, Truncando, UsoPrevisto
      <4>. QED  BY <3>1, <4>1
    <3>4. CASE g # f
      <4>1. hj[g] = Alturas[g]
        BY <1>6, <1>16, <3>2, <3>4 DEF Puesto
      <4>2. TamanioVisto(g) = fcb[g].tamanio
        BY <3>4 DEF TamanioVisto, EnTruncado, Truncando
      <4>. QED  BY <1>0, <3>1, <4>1, <4>2, AlturaTipo
    <3>. QED  BY <3>3, <3>4
  <2>. QED  BY <2>1 DEF Caben
<1>9. DiscoInv'
  BY <1>2, <1>3, <1>4, <1>6, <1>16, <1>17, <1>8 DEF DiscoInv
<1>10. FugasInv'
  <2>1. Huerfanos' = Huerfanos
    BY <1>0 DEF Huerfanos
  <2>2. ASSUME NEW P,
               SinPerdidos(bitmap, bloques, Directos, Indirectos, Alturas,
                           Manos \cup P)
        PROVE  SinPerdidos(bitmap, bloques, Directos, Indirectos, Alturas,
                           Manos \cup P)'
    <3>1. SinPerdidos(bm, bl, di, in, h, P)
      <4>1. Manos \cup P = P
        BY <1>4
      <4>. QED  BY <1>6, <2>2, <4>1
    <3>2. f \in Archivos
      BY <1>4
    <3>3. SinPerdidos(bj, blj, di, in, hj, P)
      BY <1>7, <1>16, <3>1, <3>2, CambiaSinPerder
    <3>4. Manos' \cup P = P /\ Alturas' = hj
      BY <1>3, <1>4
    <3>. QED  BY <1>2, <1>6, <1>16, <3>3, <3>4
  <2>. QED  BY <1>0, <2>1, <2>2, PerdidosIgual DEF VivoInv
<1>11. TipoGuardado'
  <2>1. /\ bitmap' \subseteq Bloques /\ DOMAIN bloques' = Bloques
        /\ \A b \in Bloques : TipoBloque(bloques'[b])
    BY <1>16, <1>8 DEF DiscoBien, TipoDisco
  <2>. QED  BY <1>0, <2>1 DEF TipoEstado, TipoGuardado
<1>. QED  BY <1>0, <1>1, <1>9, <1>10, <1>11, RespondeBloques

(* Nothing is asked of a process that died. *)
LEMMA MuereBloques ==
    ASSUME Muere
    PROVE  BloquesInv'
BY DEF BloquesInv, Muere

(* The counter of a file that has its blocks is its height, or is text. *)
LEMMA ContadorDe ==
    ASSUME BloquesInv, vivo, NEW f \in Archivos, fcb[f].directo # SinPuntero
    PROVE  /\ Indirectos[f] \in Bloques /\ TipoBloque(bloques[Indirectos[f]])
           /\ \/ bloques[Indirectos[f]].cant = Alturas[f]
              \/ Alturas[f] = 0 /\ bloques[Indirectos[f]].cant = TEXTO
<1>1. DiscoBien(bitmap, bloques, Directos, Indirectos, Alturas, Manos)
  BY DEF BloquesInv, VivoInv, DiscoInv
<1>2. Directos[f] # SinPuntero
  BY DEF Directos
<1>3. Indirectos[f] \in Bloques
  BY <1>1, <1>2, SitioIndirecto
<1>. QED  BY <1>1, <1>2, <1>3 DEF DiscoBien, TipoDisco, Contadores

(* What ends a truncation: the file gets the blocks that its new size      *)
(* needs, or there is a segmentation fault.                                *)
FinDeTruncar ==
    \/ Muere
    \/ /\ \E f, t, v, x : \E n \in 0..CAPACIDAD :
            /\ Truncando(f, t, v) /\ n >= Necesarios(t)
            /\ Cambio(bitmap, bloques, Indirectos, Alturas, f, n, x, bitmap')
            /\ bloques' = [bloques EXCEPT ![Indirecto] = x]
       /\ fcb' = fcb /\ Responde

(* AsignarBloques does so if there is room for what it adds and its        *)
(* pointers fit in the block.                                              *)
LEMMA AsignarBloquesHace ==
    ASSUME UsoPrevisto, RespuestasInv, BloquesInv, HayLugar, sano, sano',
           AsignarBloques
    PROVE  FinDeTruncar
<1>0. vivo /\ paso = "bloques" /\ Restante > Viejo
  BY DEF AsignarBloques
<1>1. bitmap \subseteq Bloques
  BY <1>0 DEF BloquesInv, TipoEstado, TipoGuardado
<1>2. PICK n, a : n = AAgregar(Viejo, Restante) /\ a = bloques[Indirecto].cant
  OBVIOUS
<1>3. \/ Muere
      \/ /\ a # TEXTO /\ ~ NoEntran(a, n)
         /\ bitmap' = Ocupados(n)[n]
         /\ bloques' = [bloques EXCEPT ![Indirecto] =
               BloqueDePunteros(a + n,
                   [k \in 1..CAPACIDAD |->
                       IF k - a \in 1..n THEN Nuevos(n)[k - a]
                       ELSE bloques[Indirecto].ptr[k]])]
         /\ fcb' = fcb
         /\ Responde
  BY <1>2 DEF AsignarBloques
<1>4. SUFFICES ASSUME ~ Muere PROVE FinDeTruncar
  BY DEF FinDeTruncar
<1>5. paso' # "fcb" /\ Responde
  BY <1>3, <1>4 DEF Responde, Libera
<1>6. PICK f, t, v : Truncando(f, t, v)
  BY <1>0, <1>5, EnTruncate
<1>7. /\ Indirecto = Indirectos[f] /\ f \in Archivos
      /\ fcb[f].directo # SinPuntero
      /\ Alturas[f] \in 0..CAPACIDAD /\ Alturas[f] >= Necesarios(v)
  BY <1>6 DEF Truncando
<1>8. /\ n \in Nat /\ Necesarios(t) <= Necesarios(v) + n
      /\ Necesarios(t) \in Nat /\ Necesarios(v) \in Nat
  <2>1. /\ f \in Archivos /\ t \in Tamanios[f] /\ v \in Tamanios[f] \cup {0}
        /\ Restante = ARestar(v, t) /\ v = Viejo
    BY <1>6 DEF Truncando
  <2>. QED  BY <1>0, <1>2, <2>1, BloquesDeTruncate
<1>9. a = Alturas[f] /\ TipoBloque(bloques[Indirecto])
  BY <1>0, <1>2, <1>3, <1>4, <1>7, ContadorDe
<1>10. PICK m : m = a + n
  OBVIOUS
<1>11. /\ a \in Nat /\ m \in 0..CAPACIDAD /\ m >= Necesarios(t)
       /\ ~ NoEntran(a, n)
  <2>1. a \in Nat /\ CAPACIDAD \in Nat /\ ~ (m > CAPACIDAD)
    BY <1>3, <1>4, <1>7, <1>9, <1>10, MedidasBien DEF NoEntran
  <2>. QED  BY <1>3, <1>4, <1>7, <1>8, <1>9, <1>10, <2>1
<1>12. Cardinality(Bloques \ bitmap) >= n
  BY <1>0, <1>2, <1>11 DEF HayLugar
<1>13. PICK nu : nu = Nuevos(n)
  OBVIOUS
<1>14. Hallados(bitmap, n, nu, bitmap')
  BY <1>1, <1>3, <1>4, <1>8, <1>12, <1>13, NuevosBien
<1>15. PICK b, x : b = bloques[Indirecto] /\ x = ConNuevos(b, a, n, m, nu)
  OBVIOUS
<1>16. bloques' = [bloques EXCEPT ![Indirecto] = x] /\ fcb' = fcb
  BY <1>3, <1>4, <1>10, <1>13, <1>15 DEF ConNuevos
<1>17. Cambio(bitmap, bloques, Indirectos, Alturas, f, m, x, bitmap')
  <2>1. PICK bj : bj = bitmap'
    OBVIOUS
  <2>2. /\ Alturas[f] = a /\ Hallados(bitmap, n, nu, bj)
        /\ b = bloques[Indirectos[f]] /\ TipoBloque(b)
    BY <1>7, <1>9, <1>14, <1>15, <2>1
  <2>3. Cambio(bitmap, bloques, Indirectos, Alturas, f, m, x, bj)
    BY <1>8, <1>10, <1>11, <1>15, <2>2, AsignaCambio
  <2>. QED  BY <2>1, <2>3
<1>. QED  BY <1>5, <1>6, <1>11, <1>16, <1>17 DEF FinDeTruncar

(* So does SacarBloques, that never takes more than there are. *)
LEMMA SacarBloquesHace ==
    ASSUME UsoPrevisto, RespuestasInv, BloquesInv, SacarBloques
    PROVE  FinDeTruncar
<1>1. PICK n, b : n = ASacar(Viejo, Restante) /\ b = bloques[Indirecto]
  OBVIOUS
<1>0. /\ vivo /\ paso = "bloques" /\ Restante < Viejo /\ n > 0
      /\ \/ Muere
         \/ /\ b.cant # TEXTO
            /\ \E leidos \in [1..n -> Bloques \cup {b.cant}] :
                  /\ \A j \in 1..n : leidos[j] \in Leido(b, UltimoPuntero(b.cant, j))
                  /\ bitmap' = bitmap \ {leidos[j] : j \in 1..n}
            /\ bloques' = [bloques EXCEPT ![Indirecto] =
                  BloqueDePunteros(b.cant - n,
                      [k \in 1..CAPACIDAD |->
                          IF b.cant - k \in 0..(n - 1) THEN 0 ELSE b.ptr[k]])]
            /\ fcb' = fcb
            /\ Responde
  BY <1>1 DEF SacarBloques
<1>2. SUFFICES ASSUME ~ Muere PROVE FinDeTruncar
  BY DEF FinDeTruncar
<1>3. paso' # "fcb" /\ Responde /\ fcb' = fcb
  BY <1>0, <1>2 DEF Responde, Libera
<1>4. PICK f, t, v : Truncando(f, t, v)
  BY <1>0, <1>3, EnTruncate
<1>5. PICK a, m : a = b.cant /\ m = a - n
  OBVIOUS
<1>6. /\ n = Necesarios(v) - Necesarios(t) /\ Necesarios(t) <= Necesarios(v)
      /\ Necesarios(t) \in Nat /\ Necesarios(v) \in Nat
  <2>1. /\ f \in Archivos /\ t \in Tamanios[f] /\ v \in Tamanios[f] \cup {0}
        /\ Restante = ARestar(v, t) /\ v = Viejo
    BY <1>4 DEF Truncando
  <2>. QED  BY <1>0, <1>1, <2>1, BloquesDeTruncate
<1>7. /\ Indirecto = Indirectos[f] /\ f \in Archivos
      /\ fcb[f].directo # SinPuntero
      /\ Alturas[f] \in 0..CAPACIDAD /\ Alturas[f] >= Necesarios(v)
  BY <1>4 DEF Truncando
<1>8. a = Alturas[f] /\ TipoBloque(b)
  BY <1>0, <1>1, <1>2, <1>5, <1>7, ContadorDe
<1>9. /\ a \in 0..CAPACIDAD /\ n \in Nat /\ m \in Nat /\ a = m + n
      /\ m \in 0..CAPACIDAD /\ m >= Necesarios(t) /\ CAPACIDAD \in Nat
  <2>1. CAPACIDAD \in Nat
    BY MedidasBien
  <2>. QED  BY <1>5, <1>6, <1>7, <1>8, <2>1
<1>10. PICK leidos \in [1..n -> Bloques \cup {b.cant}] :
          /\ \A j \in 1..n : leidos[j] \in Leido(b, UltimoPuntero(b.cant, j))
          /\ bitmap' = bitmap \ {leidos[j] : j \in 1..n}
  BY <1>0, <1>2
<1>11. ASSUME NEW j \in 1..n PROVE leidos[j] = b.ptr[a - j + 1]
  <2>1. UltimoPuntero(b.cant, j) = a - j + 1
    BY <1>5 DEF UltimoPuntero
  <2>2. a - j + 1 \in 1..CAPACIDAD /\ a - j + 1 # 0
    BY <1>9
  <2>3. leidos[j] \in {b.ptr[a - j + 1]}
    BY <1>10, <2>1, <2>2 DEF Leido
  <2>. QED  BY <2>3
<1>12. PICK x : x = SinUltimos(b, a, n, m)
  OBVIOUS
<1>13. bloques' = [bloques EXCEPT ![Indirecto] = x]
  BY <1>0, <1>2, <1>5, <1>12 DEF SinUltimos
<1>14. Cambio(bitmap, bloques, Indirectos, Alturas, f, m, x, bitmap')
  <2>1. Alturas[f] = a /\ b = bloques[Indirectos[f]]
    BY <1>1, <1>7, <1>8
  <2>2. PICK bj : bj = bitmap'
    OBVIOUS
  <2>3. bj = bitmap \ Valores(leidos, 1..n)
    BY <1>10, <2>2 DEF Valores
  <2>4. Cambio(bitmap, bloques, Indirectos, Alturas, f, m, x, bj)
    BY <1>8, <1>9, <1>11, <1>12, <2>1, <2>3, SacaCambio
  <2>. QED  BY <2>2, <2>4
<1>. QED  BY <1>3, <1>4, <1>9, <1>13, <1>14 DEF FinDeTruncar

(* The end of a truncation keeps the invariant. *)
LEMMA FinDeTruncarBloques ==
    ASSUME UsoPrevisto, RespuestasInv, BloquesInv, vivo, paso = "bloques",
           FinDeTruncar
    PROVE  BloquesInv'
BY MuereBloques, TruncadoBloques DEF FinDeTruncar

(* escribir_datos leaves text, or zeros, where it writes. *)
LEMMA DatosBien ==
    ASSUME NEW d, DOMAIN d = Offsets
    PROVE  TipoBloque(BloqueDeDatos(d)) /\ EsDatos(BloqueDeDatos(d))
<1>1. CAPACIDAD \in Nat
  BY MedidasBien
<1>2. /\ BloqueDeDatos(d).datos = d
      /\ BloqueDeDatos(d).cant \in {0, TEXTO}
      /\ BloqueDeDatos(d).ptr = [k \in 1..CAPACIDAD |-> 0]
  BY DEF BloqueDeDatos
<1>3. BloqueDeDatos(d).ptr \in [1..CAPACIDAD -> Nat]
  BY <1>2
<1>4. BloqueDeDatos(d).cant \in 0..CAPACIDAD \cup {TEXTO}
  BY <1>1, <1>2
<1>. QED  BY <1>2, <1>3, <1>4 DEF TipoBloque, EsDatos

(* A byte within the size of a file is in one of its places. *)
LEMMA ByteEnSuLugar ==
    ASSUME BloquesInv, vivo, paso # "bloques", NEW f \in Archivos,
           NEW i \in Nat, i < fcb[f].tamanio
    PROVE  /\ i \div BLOCK_SIZE \in Nat
           /\ i \div BLOCK_SIZE \in Sitios(Directos[f], Alturas[f])
           /\ BuscarBloque(f, i \div BLOCK_SIZE) =
                 Nombra(bloques, Directos[f], Indirectos[f], i \div BLOCK_SIZE)
<1>1. fcb[f].tamanio \in Nat
  BY DEF BloquesInv, TipoEstado, TipoGuardado, TipoFcb
<1>2. PICK k : k = i \div BLOCK_SIZE
  OBVIOUS
<1>3. k \in 0..Necesarios(fcb[f].tamanio)
  BY <1>1, <1>2, BloqueDentro
<1>4. Alturas[f] >= Necesarios(fcb[f].tamanio)
  BY AlturaTipo DEF BloquesInv, TamanioVisto, EnTruncado
<1>5. /\ Alturas[f] \in 0..CAPACIDAD /\ CAPACIDAD \in Nat
      /\ Necesarios(fcb[f].tamanio) \in Nat
  BY <1>1, MedidasBien, NecesariosBien, AlturaTipo DEF BloquesInv
<1>6. fcb[f].directo # SinPuntero
  BY <1>1 DEF BloquesInv, VivoInv, FcbsInv, FcbBien
<1>7. Directos[f] = fcb[f].directo /\ Indirectos[f] = fcb[f].indirecto
  BY DEF Directos, Indirectos
<1>8. k \in 0..Alturas[f] /\ k \in Nat /\ (k # 0 => k \in 1..CAPACIDAD)
  BY <1>3, <1>4, <1>5
<1>9. k \in Sitios(Directos[f], Alturas[f])
  BY <1>5, <1>6, <1>7, <1>8 DEF Sitios
<1>10. BuscarBloque(f, k) = Nombra(bloques, Directos[f], Indirectos[f], k)
  BY <1>7, <1>8 DEF BuscarBloque, Nombra
<1>. QED  BY <1>2, <1>8, <1>9, <1>10

(* A memcpy of escribir_datos ends after where it begins and within the    *)
(* access.                                                                 *)
LEMMA TramoBien ==
    ASSUME NEW pos \in Nat, NEW n \in Nat, NEW i \in Nat, i < n
    PROVE  /\ FinTramo(pos, n, i) \in Nat
           /\ FinTramo(pos, n, i) <= n /\ i < FinTramo(pos, n, i)
<1>1. PICK b \in Nat : b = BLOCK_SIZE /\ b > 0
  BY MedidasBien
<1>2. PICK r \in Nat : r = pos % b /\ r < b
  BY <1>1, Cociente
<1>3. PICK c \in Nat : c = RestanteComienzo(pos) /\ c > 0
  <2>1. RestanteComienzo(pos) = b - r
    BY <1>1, <1>2 DEF RestanteComienzo
  <2>2. b - r \in Nat /\ b - r > 0
    BY <1>2
  <2>. QED  BY <2>1, <2>2
<1>4. FinTramo(pos, n, i) = IF i = 0 THEN (IF n < c THEN n ELSE c)
                            ELSE IF n < i + b THEN n ELSE i + b
  BY <1>1, <1>3 DEF FinTramo
<1>. QED  BY <1>1, <1>3, <1>4

(* EscribirDatos keeps the invariant: it writes in a place of data of its  *)
(* file, never in a block of pointers.                                     *)
LEMMA EscribirDatosBloques ==
    ASSUME UsoPrevisto, RespuestasInv, BloquesInv, EscribirDatos
    PROVE  BloquesInv'
<1>1. PICK pos, n, i, f, s : /\ pos = peticion.puntero /\ n = peticion.tamanio
                             /\ i = hecho /\ f = Servido
                             /\ s = FinTramo(peticion.puntero, peticion.tamanio, hecho)
  OBVIOUS
<1>2. PICK b, d, x :
        /\ b = BloqueDe(f, pos, i)
        /\ d = [o \in Offsets |->
                  IF o - OffsetDe(pos, i) \in 0..(s - i - 1)
                  THEN traido[i + o - OffsetDe(pos, i)] ELSE bloques[b].datos[o]]
        /\ x = BloqueDeDatos(d)
  OBVIOUS
<1>0. /\ vivo /\ paso = "escribe" /\ paso # "bloques" /\ paso # "espera"
      /\ bloques' = [bloques EXCEPT ![b] = x]
      /\ bitmap' = bitmap /\ fcb' = fcb
      /\ IF s = n THEN Responde
         ELSE /\ hecho' = s
              /\ UNCHANGED <<peticion, paso, locales, traido, enviado, ajeno>>
  BY <1>1, <1>2 DEF EscribirDatos
<1>3. VivoInv /\ TipoEstado
  BY <1>0 DEF BloquesInv
<1>4. f \in Archivos /\ peticion \in Peticiones /\ peticion # <<>>
  BY <1>0, <1>1, ServidoTipo
<1>5. peticion.op = "WRITE" /\ i < n /\ i \in Nat
  BY <1>0, <1>1, <1>3 DEF VivoInv, EtapaInv, TipoEstado
<1>6. pos \in Nat /\ n \in Nat
  BY <1>1, <1>4, <1>5, PeticionCampos
<1>7. fcb[f].tamanio \in Nat /\ pos + n <= fcb[f].tamanio
  <2>1. fcb[f].tamanio \in Nat
    BY <1>3, <1>4 DEF TipoEstado, TipoGuardado, TipoFcb
  <2>2. ValidaEn(fcb, peticion)
    BY <1>3, <1>4 DEF VivoInv, PedidosInv
  <2>. QED  BY <1>1, <1>5, <2>1, <2>2 DEF ValidaEn, Servido
<1>8. s \in Nat /\ s <= n /\ i < s
  BY <1>1, <1>5, <1>6, TramoBien
<1>9. PICK k \in Nat : /\ k \in Sitios(Directos[f], Alturas[f])
                       /\ b = Nombra(bloques, Directos[f], Indirectos[f], k)
  <2>1. PICK j \in Nat : j = pos + i
    BY <1>5, <1>6
  <2>2. j < fcb[f].tamanio
    BY <1>5, <1>6, <1>7, <2>1
  <2>3. b = BuscarBloque(f, j \div BLOCK_SIZE)
    BY <1>2, <1>5, <1>6, <2>1, ByteEnSuBloque
  <2>4. /\ j \div BLOCK_SIZE \in Nat
        /\ j \div BLOCK_SIZE \in Sitios(Directos[f], Alturas[f])
        /\ BuscarBloque(f, j \div BLOCK_SIZE) =
              Nombra(bloques, Directos[f], Indirectos[f], j \div BLOCK_SIZE)
    BY <1>0, <1>4, <2>2, ByteEnSuLugar
  <2>. QED  BY <2>3, <2>4
<1>10. TipoBloque(x) /\ EsDatos(x)
  <2>1. DOMAIN d = Offsets
    BY <1>2
  <2>. QED  BY <1>2, <2>1, DatosBien
<1>11. Manos = {} /\ Manos' = {} /\ paso' \notin {"fcb", "bloques"}
  BY <1>0 DEF Manos, Responde, Libera
<1>12. PICK bm, bl, di, in, h, blj :
         /\ bm = bitmap /\ bl = bloques /\ blj = bloques'
         /\ di = Directos /\ in = Indirectos /\ h = Alturas
  OBVIOUS
<1>13. DiscoBien(bm, bl, di, in, h, {})
  BY <1>3, <1>11, <1>12 DEF VivoInv, DiscoInv
<1>14. /\ DiscoBien(bm, blj, di, in, h, {})
       /\ \A g \in Archivos : \A l \in Sitios(di[g], h[g]) :
             Nombra(blj, di[g], in[g], l) = Nombra(bl, di[g], in[g], l)
  <2>1. k \in Sitios(di[f], h[f]) /\ k >= 0
    BY <1>9, <1>12
  <2>2. blj = Puesto(bl, Nombra(bl, di[f], in[f], k), x)
    BY <1>0, <1>9, <1>12 DEF Puesto
  <2>. QED  BY <1>4, <1>10, <1>13, <2>1, <2>2, Escribe
<1>15. /\ Directos' = Directos /\ Indirectos' = Indirectos /\ Vistos' = Vistos
       /\ Alturas' = Alturas
  <2>1. Directos' = Directos /\ Indirectos' = Indirectos /\ Vistos' = Vistos
    BY <1>0, <1>11 DEF Directos, Indirectos, Vistos, TamanioVisto, EnTruncado
  <2>2. \A g \in Archivos : di[g] = SinPuntero => h[g] = 0
    BY <1>12 DEF Alturas, Directos
  <2>3. h = [g \in Archivos |->
                IF di[g] = SinPuntero \/ blj[in[g]].cant = TEXTO
                THEN 0 ELSE blj[in[g]].cant]
    <3>1. CAPACIDAD < TEXTO
      BY DEF UsoPrevisto
    <3>. QED  BY <1>14, <2>2, <3>1, AlturasDe
  <2>4. Alturas' = h
    BY <1>0, <1>12, <2>3 DEF Alturas, Directos, Indirectos
  <2>. QED  BY <1>12, <2>1, <2>4
<1>16. DiscoInv'
  BY <1>0, <1>3, <1>11, <1>12, <1>14, <1>15 DEF VivoInv, DiscoInv
<1>17. caidas' = caidas
  BY <1>0 DEF Responde, ajeno
<1>18. FugasInv'
  <2>1. Huerfanos' = Huerfanos
    BY <1>0 DEF Huerfanos, Responde, Libera
  <2>2. ASSUME NEW P,
               SinPerdidos(bitmap, bloques, Directos, Indirectos, Alturas,
                           Manos \cup P)
        PROVE  SinPerdidos(bitmap, bloques, Directos, Indirectos, Alturas,
                           Manos \cup P)'
    <3>1. SinPerdidos(bm, bl, di, in, h, P)
      <4>1. Manos \cup P = P
        BY <1>11
      <4>. QED  BY <1>12, <2>2, <4>1
    <3>2. SinPerdidos(bm, blj, di, in, h, P)
      BY <1>14, <3>1, EscribeSinPerder
    <3>3. Manos' \cup P = P
      BY <1>11
    <3>. QED  BY <1>0, <1>12, <1>15, <3>2, <3>3
  <2>. QED  BY <1>3, <1>17, <2>1, <2>2, PerdidosIgual DEF VivoInv
<1>19. TipoGuardado'
  <2>1. DOMAIN bloques' = Bloques /\ \A c \in Bloques : TipoBloque(bloques'[c])
    BY <1>12, <1>14 DEF DiscoBien, TipoDisco
  <2>. QED  BY <1>0, <1>3, <2>1 DEF TipoEstado, TipoGuardado
<1>20. SoloServido /\ FcbBien(fcb') /\ ValidaEn(fcb', peticion)
  BY <1>0, FcbQuieto
<1>21. CASE s = n
  BY <1>0, <1>5, <1>16, <1>18, <1>19, <1>20, <1>21, RespondeBloques
<1>22. CASE s # n
  <2>1. UNCHANGED <<peticion, paso, locales, ajeno>> /\ hecho' = s
    BY <1>0, <1>22
  <2>2. s < n
    BY <1>6, <1>8, <1>22
  <2>3. EtapaInv'
    BY <1>0, <1>1, <1>5, <2>1, <2>2 DEF EtapaInv
  <2>4. paso' \in Pasos /\ hecho' \in Nat /\ locales' \in [1..3 -> Int]
    BY <1>3, <1>8, <2>1 DEF TipoEstado
  <2>. QED  BY <1>0, <1>16, <1>18, <1>19, <1>20, <2>1, <2>3, <2>4, SigueBloques
<1>. QED  BY <1>21, <1>22

(* How many blocks are marked, of those that the files can have and those  *)
(* lost: file f does not use u of its places.                              *)
LEMMA Contados ==
    ASSUME IsFiniteSet(Archivos), NEW bm, NEW bl, NEW di, NEW in, NEW h,
           NEW P, IsFiniteSet(P), SinPerdidos(bm, bl, di, in, h, P),
           h \in [Archivos -> 0..CAPACIDAD],
           NEW f \in Archivos, NEW u,
           u = IF di[f] = SinPuntero THEN 2 + CAPACIDAD ELSE CAPACIDAD - h[f]
    PROVE  /\ IsFiniteSet(bm) /\ u \in Nat
           /\ Cardinality(bm) + u
                 <= Cardinality(Archivos) * (2 + CAPACIDAD) + Cardinality(P)
<1>0. CAPACIDAD \in Nat /\ Cardinality(Archivos) \in Nat /\ Cardinality(P) \in Nat
  BY MedidasBien, FS_CardinalityType
<1>1. PICK K : K = (-1)..CAPACIDAD
  OBVIOUS
<1>2. IsFiniteSet(K) /\ Cardinality(K) = 2 + CAPACIDAD
  <2>1. -1 \in Int /\ CAPACIDAD \in Int
    BY <1>0
  <2>2. /\ IsFiniteSet((-1)..CAPACIDAD)
        /\ Cardinality((-1)..CAPACIDAD) =
              IF -1 > CAPACIDAD THEN 0 ELSE CAPACIDAD - (-1) + 1
    BY <2>1, FS_Interval
  <2>. QED  BY <1>0, <1>1, <2>2
<1>3. PICK c : c = Cardinality(Archivos) * (2 + CAPACIDAD)
  OBVIOUS
<1>4. PICK S : S = Archivos \X K
  OBVIOUS
<1>5. IsFiniteSet(S) /\ Cardinality(S) = c /\ c \in Nat
  <2>1. IsFiniteSet(S) /\ Cardinality(S) = Cardinality(Archivos) * Cardinality(K)
    BY <1>2, <1>4, FS_Product
  <2>2. Cardinality(S) \in Nat
    BY <2>1, FS_CardinalityType
  <2>. QED  BY <1>2, <1>3, <2>1, <2>2
<1>6. h[f] \in Nat /\ h[f] <= CAPACIDAD
  BY <1>0
<1>7. PICK X : X = IF di[f] = SinPuntero THEN K ELSE (h[f] + 1)..CAPACIDAD
  OBVIOUS
<1>8. IsFiniteSet(X) /\ Cardinality(X) = u /\ X \subseteq K /\ u \in Nat
  <2>1. CASE di[f] = SinPuntero
    BY <1>0, <1>2, <1>7, <2>1
  <2>2. CASE di[f] # SinPuntero
    <3>1. h[f] + 1 \in Int /\ CAPACIDAD \in Int
      BY <1>0, <1>6
    <3>2. /\ IsFiniteSet((h[f] + 1)..CAPACIDAD)
          /\ Cardinality((h[f] + 1)..CAPACIDAD) =
                IF h[f] + 1 > CAPACIDAD THEN 0 ELSE CAPACIDAD - (h[f] + 1) + 1
      BY <3>1, FS_Interval
    <3>3. Cardinality(X) = CAPACIDAD - h[f] /\ IsFiniteSet(X)
      BY <1>0, <1>6, <1>7, <2>2, <3>2
    <3>4. X \subseteq K
      BY <1>0, <1>1, <1>6, <1>7, <2>2
    <3>. QED  BY <1>0, <1>6, <2>2, <3>3, <3>4
  <2>. QED  BY <2>1, <2>2
<1>9. PICK V : V = {f} \X X
  OBVIOUS
<1>10. IsFiniteSet(V) /\ Cardinality(V) = u /\ S \cap V = V
  <2>1. IsFiniteSet({f}) /\ Cardinality({f}) = 1
    BY FS_Singleton
  <2>2. IsFiniteSet(V) /\ Cardinality(V) = Cardinality({f}) * Cardinality(X)
    BY <1>8, <1>9, <2>1, FS_Product
  <2>3. V \subseteq S
    BY <1>4, <1>8, <1>9
  <2>4. Cardinality(V) = u
    BY <1>8, <2>1, <2>2
  <2>. QED  BY <2>2, <2>3, <2>4
<1>11. PICK T : T = S \ V
  OBVIOUS
<1>12. IsFiniteSet(T) /\ Cardinality(T) = c - u /\ Cardinality(T) \in Nat
  <2>1. IsFiniteSet(T) /\ Cardinality(T) = Cardinality(S) - Cardinality(S \cap V)
    BY <1>5, <1>11, FS_Difference
  <2>2. Cardinality(T) \in Nat
    BY <2>1, FS_CardinalityType
  <2>. QED  BY <1>5, <1>10, <2>1, <2>2
<1>13. PICK F : F = [s \in T |-> Nombra(bl, di[s[1]], in[s[1]], s[2])]
  OBVIOUS
<1>14. PICK Y : Y = {F[s] : s \in T}
  OBVIOUS
<1>15. F \in Surjection(T, Y)
  <2>1. F \in [T -> Y]
    BY <1>13, <1>14
  <2>2. \A y \in Y : \E s \in T : F[s] = y
    BY <1>14
  <2>. QED  BY <2>1, <2>2 DEF Surjection
<1>16. IsFiniteSet(Y) /\ Cardinality(Y) <= Cardinality(T) /\ Cardinality(Y) \in Nat
  BY <1>12, <1>15, FS_Surjection, FS_CardinalityType
<1>17. ASSUME NEW b \in bm, b \notin P PROVE b \in Y
  <2>1. PICK g \in Archivos : \E k \in Sitios(di[g], h[g]) :
           b = Nombra(bl, di[g], in[g], k)
    BY <1>17 DEF SinPerdidos
  <2>2. PICK k \in Sitios(di[g], h[g]) : b = Nombra(bl, di[g], in[g], k)
    BY <2>1
  <2>3. di[g] # SinPuntero /\ k \in (-1)..h[g]
    BY DEF Sitios
  <2>4. h[g] \in 0..CAPACIDAD
    OBVIOUS
  <2>5. k \in K
    BY <1>0, <1>1, <2>3, <2>4
  <2>6. ~ (g = f /\ k \in X)
    BY <1>0, <1>6, <1>7, <2>3
  <2>7. PICK s : s = <<g, k>>
    OBVIOUS
  <2>8. s \in T /\ s[1] = g /\ s[2] = k
    BY <1>4, <1>9, <1>11, <2>5, <2>6, <2>7
  <2>9. F[s] = b
    BY <1>13, <2>2, <2>8
  <2>. QED  BY <1>14, <2>8, <2>9
<1>18. PICK W : W = Y \cup P
  OBVIOUS
<1>19. /\ IsFiniteSet(W) /\ Cardinality(W) \in Nat
       /\ Cardinality(W) <= Cardinality(Y) + Cardinality(P)
  <2>1. /\ IsFiniteSet(W)
        /\ Cardinality(W) = Cardinality(Y) + Cardinality(P) - Cardinality(Y \cap P)
    BY <1>16, <1>18, FS_Union
  <2>2. Cardinality(Y \cap P) \in Nat /\ Cardinality(W) \in Nat
    BY <1>16, <2>1, FS_Intersection, FS_CardinalityType
  <2>. QED  BY <1>0, <1>16, <2>1, <2>2
<1>20. bm \in SUBSET W
  BY <1>17, <1>18
<1>21. IsFiniteSet(bm) /\ Cardinality(bm) <= Cardinality(W)
  BY <1>19, <1>20, FS_Subset
<1>22. Cardinality(bm) \in Nat
  BY <1>21, FS_CardinalityType
<1>. QED  BY <1>0, <1>3, <1>5, <1>8, <1>12, <1>16, <1>19, <1>21, <1>22

(* Hence what a file has not taken is free, and two blocks more for each   *)
(* file that a restart left with its two blocks and no size.               *)
LEMMA Libres ==
    ASSUME DiscoGrande, BloquesInv, vivo, Manos = {}, NEW f \in Archivos
    PROVE  /\ IsFiniteSet(Huerfanos) /\ Cardinality(Huerfanos) \in Nat
           /\ Cardinality(Bloques \ bitmap) \in Nat
           /\ Cardinality(Bloques \ bitmap) >=
                 (IF fcb[f].directo = SinPuntero THEN 2 + CAPACIDAD
                  ELSE CAPACIDAD - Alturas[f]) + 2 * Cardinality(Huerfanos)
<1>0. VivoInv /\ TipoEstado
  BY DEF BloquesInv
<1>1. PICK P : Perdidos(P)
  BY <1>0 DEF VivoInv, FugasInv
<1>2. PICK u : u = IF Directos[f] = SinPuntero THEN 2 + CAPACIDAD
                   ELSE CAPACIDAD - Alturas[f]
  OBVIOUS
<1>3. PICK bm, z, p, N :
        /\ bm = bitmap /\ z = Cardinality(Huerfanos)
        /\ p = Cardinality(P) /\ N = Cardinality(Archivos) * (2 + CAPACIDAD)
  OBVIOUS
<1>4. IsFiniteSet(P) /\ p \in Nat /\ z \in Nat /\ IsFiniteSet(Huerfanos)
      /\ p + 2 * z <= 2 * caidas
  <2>1. IsFiniteSet(Huerfanos)
    BY FS_Subset DEF DiscoGrande, Huerfanos
  <2>2. IsFiniteSet(P) /\ p + 2 * z <= 2 * caidas
    BY <1>1, <1>3 DEF Perdidos
  <2>. QED  BY <1>3, <2>1, <2>2, FS_CardinalityType
<1>5. SinPerdidos(bitmap, bloques, Directos, Indirectos, Alturas, P)
  <2>1. Manos \cup P = P
    OBVIOUS
  <2>. QED  BY <1>1, <2>1 DEF Perdidos
<1>6. Alturas \in [Archivos -> 0..CAPACIDAD] /\ bm \subseteq Bloques
  BY <1>0, <1>3 DEF VivoInv, DiscoInv, DiscoBien, TipoDisco
<1>7. IsFiniteSet(Archivos)
  BY DEF DiscoGrande
<1>8. IsFiniteSet(bm) /\ u \in Nat /\ Cardinality(bm) + u <= N + p
  BY <1>2, <1>3, <1>4, <1>5, <1>6, <1>7, Contados
<1>9. /\ Cardinality(bm) \in Nat /\ Cardinality(Bloques \ bm) \in Nat
      /\ Cardinality(Bloques \ bm) = tamanio_bitmap - Cardinality(bm)
  <2>1. /\ IsFiniteSet(Bloques \ bm)
        /\ Cardinality(Bloques \ bm) =
              Cardinality(Bloques) - Cardinality(Bloques \cap bm)
    BY BloquesFinito, FS_Difference
  <2>2. Bloques \cap bm = bm
    BY <1>6
  <2>. QED  BY <1>8, <2>1, <2>2, BloquesFinito, FS_CardinalityType
<1>10. N + 2 * MaxCaidas <= tamanio_bitmap
  BY <1>3 DEF DiscoGrande
<1>11. N \in Nat /\ tamanio_bitmap \in Nat
  BY <1>3, <1>7, MedidasBien, FS_CardinalityType
<1>12. caidas \in 0..MaxCaidas /\ MaxCaidas \in Nat
  BY <1>0, FileSystemAssumption DEF TipoEstado
<1>13. PICK c, m, t, e, v :
         /\ c = caidas /\ m = MaxCaidas /\ t = tamanio_bitmap
         /\ e = Cardinality(Bloques \ bm) /\ v = Cardinality(bm)
  OBVIOUS
<1>17. c \in Nat /\ m \in Nat /\ t \in Nat /\ e \in Nat /\ v \in Nat
  BY <1>9, <1>11, <1>12, <1>13
<1>14. /\ p + 2 * z <= 2 * c /\ v + u <= N + p /\ e = t - v
       /\ N + 2 * m <= t /\ c <= m
  BY <1>4, <1>8, <1>9, <1>10, <1>12, <1>13
<1>15. e >= u + 2 * z
  BY <1>4, <1>8, <1>11, <1>14, <1>17
<1>16. Directos[f] = fcb[f].directo
  BY DEF Directos
<1>. QED  BY <1>2, <1>3, <1>4, <1>9, <1>13, <1>15, <1>16, <1>17

(* So the invariant has room in it for whatever a request takes. *)
LEMMA LugarSobra ==
    ASSUME UsoPrevisto, DiscoGrande, RespuestasInv, BloquesInv
    PROVE  HayLugar
<1>. SUFFICES ASSUME vivo PROVE HayLugar
  BY DEF HayLugar
<1>0. VivoInv /\ TipoEstado /\ CAPACIDAD \in Nat
  BY MedidasBien DEF BloquesInv
<1>1. ASSUME paso = "TRUNCATE", fcb[Servido].tamanio = 0
      PROVE  Cardinality(Bloques \ bitmap) >= 2
  <2>1. PICK f \in Archivos : f = Servido
    BY <1>1, ServidoTipo
  <2>2. PICK e, z : e = Cardinality(Bloques \ bitmap) /\ z = Cardinality(Huerfanos)
    OBVIOUS
  <2>3. /\ IsFiniteSet(Huerfanos) /\ z \in Nat /\ e \in Nat
        /\ e >= (IF fcb[f].directo = SinPuntero THEN 2 + CAPACIDAD
                 ELSE CAPACIDAD - Alturas[f]) + 2 * z
    <3>1. Manos = {}
      BY <1>1 DEF Manos
    <3>. QED  BY <2>2, <3>1, Libres
  <2>4. Alturas[f] \in 0..CAPACIDAD
    BY <1>0 DEF VivoInv, DiscoInv, DiscoBien, TipoDisco
  <2>5. CASE fcb[f].directo = SinPuntero
    BY <1>0, <2>2, <2>3, <2>5
  <2>6. CASE fcb[f].directo # SinPuntero
    <3>1. f \in Huerfanos
      BY <1>1, <2>1, <2>6 DEF Huerfanos
    <3>2. z # 0
      BY <2>2, <2>3, <3>1, FS_EmptySet
    <3>3. PICK a : a = Alturas[f]
      OBVIOUS
    <3>4. a \in Nat /\ a <= CAPACIDAD
      BY <1>0, <2>4, <3>3
    <3>5. e >= (CAPACIDAD - a) + 2 * z
      BY <2>3, <2>6, <3>3
    <3>6. e >= 2
      BY <1>0, <2>3, <3>2, <3>4, <3>5
    <3>. QED  BY <2>2, <3>6
  <2>. QED  BY <2>5, <2>6
<1>2. ASSUME paso = "bloques", Restante > Viejo,
             ~ NoEntran(bloques[Indirecto].cant, AAgregar(Viejo, Restante))
      PROVE  Cardinality(Bloques \ bitmap) >= AAgregar(Viejo, Restante)
  <2>. PICK f \in Archivos : f = Servido
    BY <1>2, ServidoTipo
  <2>1. PICK t, v : f = Servido /\ t = peticion.tamanio /\ v = Viejo
    OBVIOUS
  <2>2. peticion \in Peticiones
    BY <1>2, ServidoTipo
  <2>3. /\ fcb[f].tamanio = t /\ v \in Tamanios[f] \cup {0} /\ t \in Tamanios[f]
    BY <1>0, <1>2, <2>1, <2>2, PeticionCampos
    DEF VivoInv, EtapaInv, Viejo, Servido
  <2>4. fcb[f].directo # SinPuntero
    BY <1>0, <2>3 DEF VivoInv, FcbsInv, FcbBien, UsoPrevisto
  <2>5. PICK a, c, n : /\ a = Alturas[f] /\ c = bloques[Indirecto].cant
                       /\ n = AAgregar(Viejo, Restante)
    OBVIOUS
  <2>6. PICK e, z : e = Cardinality(Bloques \ bitmap) /\ z = Cardinality(Huerfanos)
    OBVIOUS
  <2>7. z \in Nat /\ e \in Nat /\ e >= (CAPACIDAD - a) + 2 * z
    <3>1. Manos = {}
      BY <1>2 DEF Manos
    <3>. QED  BY <2>4, <2>5, <2>6, <3>1, Libres
  <2>8. n \in Nat
    <3>1. Restante = ARestar(v, t)
      BY <2>1 DEF Restante
    <3>. QED  BY <1>2, <2>1, <2>3, <2>5, <3>1, BloquesDeTruncate
  <2>9. ~ (c + n > CAPACIDAD) /\ a \in 0..CAPACIDAD
    BY <1>0, <1>2, <2>5, AlturaTipo DEF NoEntran
  <2>10. c = a
    <3>1. c = a \/ (a = 0 /\ c = TEXTO)
      <4>1. Indirecto = Indirectos[f]
        BY <2>1 DEF Indirecto, Indirectos
      <4>. QED  BY <2>4, <2>5, <4>1, ContadorDe
    <3>2. CAPACIDAD < TEXTO
      BY DEF UsoPrevisto
    <3>. QED  BY <1>0, <2>8, <2>9, <3>1, <3>2, TextoFuera
  <2>11. e >= n
    BY <1>0, <2>7, <2>8, <2>9, <2>10
  <2>. QED  BY <2>5, <2>6, <2>11
<1>. QED  BY <1>1, <1>2 DEF HayLugar

(* What the process keeps of itself whatever it does to the disk.          *)
RestoInv ==
    /\ paso \in Pasos /\ hecho \in Nat /\ vivo \in BOOLEAN /\ sano \in BOOLEAN
    /\ caidas \in 0..MaxCaidas /\ aMedias \subseteq Archivos
    /\ abiertos \subseteq Archivos

(* The inductive invariant of the file system.  After it has used memory   *)
(* out of place nothing is claimed of the disk.                            *)
TrabajoInv ==
    /\ RespuestasInv /\ RestoInv
    /\ sano => BloquesInv

(* It holds when the process starts: no request, *)
LEMMA ColaInicio == Init => RespuestasInv
<1>. SUFFICES ASSUME Init PROVE RespuestasInv
  OBVIOUS
<1>1. /\ pendientes = <<>> /\ contador = 0 /\ recibida = FALSE
      /\ peticion = <<>> /\ paso = "espera" /\ enVuelo = <<>>
  BY DEF Init
<1>. QED  BY <1>1, NadaPendiente
          DEF RespuestasInv, TipoCola, RespuestaAlPrimero, Servido, Nombres

(* and an empty disk. *)
LEMMA BloquesInicio == Init => BloquesInv
<1>. SUFFICES ASSUME Init PROVE BloquesInv
  OBVIOUS
<1>0. /\ bitmap = {} /\ bloques = [b \in Bloques |-> EnCero]
      /\ fcb = [f \in Archivos |-> NoExiste]
      /\ pendientes = <<>> /\ peticion = <<>> /\ paso = "espera" /\ hecho = 0
      /\ locales = <<SinPuntero, SinPuntero, 0>> /\ vivo = TRUE /\ caidas = 0
      /\ abiertos = {}
  BY DEF Init
<1>1. TipoBloque(EnCero) /\ EsDatos(EnCero)
  <2>1. DOMAIN [i \in Offsets |-> Cero] = Offsets
    OBVIOUS
  <2>. QED  BY <2>1, DatosBien DEF EnCero
<1>2. /\ NoExiste.existe = FALSE /\ NoExiste.tamanio = 0
      /\ NoExiste.directo = SinPuntero /\ NoExiste.indirecto = SinPuntero
      /\ NoExiste \in TipoFcb
  BY DEF NoExiste, TipoFcb
<1>3. /\ Directos = [f \in Archivos |-> SinPuntero]
      /\ Indirectos = [f \in Archivos |-> SinPuntero]
  BY <1>0, <1>2 DEF Directos, Indirectos
<1>4. Alturas = [f \in Archivos |-> 0] /\ Caben(Alturas, Vistos)
  <2>1. Necesarios(0) = 0
    BY NecesariosBien, MedidasBien
  <2>2. Vistos = [f \in Archivos |-> 0]
    BY <1>0, <1>2 DEF Vistos, TamanioVisto, EnTruncado
  <2>3. Alturas = [f \in Archivos |-> 0]
    BY <1>0, <1>2 DEF Alturas
  <2>. QED  BY <2>1, <2>2, <2>3 DEF Caben
<1>5. Manos = {} /\ Huerfanos = {}
  BY <1>0, <1>2 DEF Manos, Huerfanos
<1>6. /\ DOMAIN bloques = Bloques
      /\ \A b \in Bloques : TipoBloque(bloques[b]) /\ EsDatos(bloques[b])
  BY <1>0, <1>1
<1>7. /\ DiscoBien(bitmap, bloques, Directos, Indirectos, Alturas, {})
      /\ SinPerdidos(bitmap, bloques, Directos, Indirectos, Alturas, {})
  <2>. PICK bl, di, in, h :
         bl = bloques /\ di = Directos /\ in = Indirectos /\ h = Alturas
    OBVIOUS
  <2>1. DiscoBien({}, bl, di, in, h, {}) /\ SinPerdidos({}, bl, di, in, h, {})
    BY <1>3, <1>4, <1>6, DiscoVacio
  <2>. QED  BY <1>0, <2>1
<1>8. DiscoInv
  BY <1>4, <1>5, <1>7 DEF DiscoInv
<1>9. FugasInv
  <2>1. IsFiniteSet({}) /\ Cardinality({}) = 0
    BY FS_EmptySet
  <2>2. Manos \cup {} = {}
    BY <1>5
  <2>3. Cardinality({}) + 2 * Cardinality(Huerfanos) <= 2 * caidas
    BY <1>0, <1>5, <2>1
  <2>4. SinPerdidos(bitmap, bloques, Directos, Indirectos, Alturas, Manos \cup {})
    BY <1>7, <2>2
  <2>5. Perdidos({})
    BY <2>1, <2>3, <2>4 DEF Perdidos
  <2>. QED  BY <2>5 DEF FugasInv
<1>10. PedidosInv
  BY <1>0 DEF PedidosInv
<1>11. FcbsInv
  BY <1>0, <1>2 DEF FcbsInv, FcbBien
<1>12. EtapaInv
  BY <1>0 DEF EtapaInv
<1>13. TipoEstado
  <2>1. TipoGuardado
    BY <1>0, <1>2, <1>6 DEF TipoGuardado
  <2>2. locales \in [1..3 -> Int]
    BY <1>0 DEF SinPuntero
  <2>3. caidas \in 0..MaxCaidas
    BY <1>0, FileSystemAssumption
  <2>. QED  BY <1>0, <2>1, <2>2, <2>3 DEF TipoEstado, Pasos
<1>. QED  BY <1>8, <1>9, <1>10, <1>11, <1>12, <1>13 DEF BloquesInv, VivoInv

(* Sizes and pointers are naturals, whatever is asked. *)
LEMMA PeticionNat ==
    ASSUME NEW r \in Peticiones
    PROVE  r.tamanio \in Nat /\ r.puntero \in Nat
<1>1. CASE r \in {Peticion("OPEN", f, 0, 0) : f \in Archivos}
  BY <1>1 DEF Peticion
<1>2. CASE r \in UNION {{Peticion("TRUNCATE", f, t, 0) : t \in Tamanios[f]}
                           : f \in Archivos}
  <2>1. PICK f \in Archivos : \E t \in Tamanios[f] :
           r = Peticion("TRUNCATE", f, t, 0)
    BY <1>2
  <2>2. r.tamanio \in Tamanios[f] /\ r.puntero = 0
    BY <2>1 DEF Peticion
  <2>. QED  BY <2>2, FileSystemAssumption
<1>3. CASE r \in UNION {{Peticion(op, f, a[2], a[1]) :
                            op \in {"READ", "WRITE"}, a \in Accesos[f]}
                           : f \in Archivos}
  <2>1. PICK f \in Archivos : r \in {Peticion(op, f, a[2], a[1]) :
                            op \in {"READ", "WRITE"}, a \in Accesos[f]}
    BY <1>3
  <2>2. PICK op \in {"READ", "WRITE"}, a \in Accesos[f] :
            r = Peticion(op, f, a[2], a[1])
    BY <2>1
  <2>3. a[1] \in Nat /\ a[2] \in Nat \ {0}
    BY FileSystemAssumption
  <2>4. r.tamanio = a[2] /\ r.puntero = a[1]
    BY <2>2 DEF Peticion
  <2>. QED  BY <2>3, <2>4
<1>. QED  BY <1>1, <1>2, <1>3 DEF Peticiones

(* Where a memcpy of escribir_datos ends is a natural. *)
LEMMA FinTramoNat ==
    ASSUME NEW pos \in Nat, NEW n \in Nat, NEW i \in Nat
    PROVE  FinTramo(pos, n, i) \in Nat
<1>1. PICK b \in Nat, r \in Nat : b = BLOCK_SIZE /\ r = pos % b /\ r < b
  BY MedidasBien, Cociente
<1>2. RestanteComienzo(pos) = b - r
  BY <1>1 DEF RestanteComienzo
<1>3. b - r \in Nat /\ i + b \in Nat
  BY <1>1
<1>. QED  BY <1>1, <1>2, <1>3 DEF FinTramo

(* The answer keeps it: who is answered has the file open. *)
LEMMA RespondeResto ==
    ASSUME RespuestasInv, RestoInv, paso # "espera", Responde, sano' \in BOOLEAN
    PROVE  RestoInv'
<1>1. Head(enVuelo) = Servido /\ Servido \in Archivos
  BY ServidoTipo
<1>2. /\ paso' = "espera" /\ hecho' = 0 /\ UNCHANGED <<vivo, caidas, aMedias>>
      /\ abiertos' = IF peticion.op = "OPEN" THEN abiertos \cup {Head(enVuelo)}
                     ELSE abiertos
  BY DEF Responde, Libera
<1>3. abiertos' \subseteq Archivos
  BY <1>1, <1>2 DEF RestoInv
<1>. QED  BY <1>2, <1>3 DEF RestoInv, Pasos

(* So does a step that does not answer. *)
LEMMA SigueResto ==
    ASSUME RestoInv, UNCHANGED ajeno, hecho' \in Nat, paso' \in Pasos
    PROVE  RestoInv'
BY DEF RestoInv, ajeno, averias, kernel

(* And a death. *)
LEMMA MuereResto ==
    ASSUME RestoInv, Muere
    PROVE  RestoInv'
BY DEF RestoInv, Muere, averias, kernel, datos

(* Every step keeps it. *)
LEMMA RestoPaso ==
    ASSUME RespuestasInv, RestoInv, Next
    PROVE  RestoInv'
<1>1. CASE Recibe \/ Postea \/ \E f \in Archivos : FClose(f)
  <2>1. /\ UNCHANGED <<paso, hecho, vivo, caidas, averias>>
        /\ abiertos' \subseteq abiertos
    BY <1>1 DEF Recibe, Postea, FClose, kernel, datos
  <2>. QED  BY <2>1 DEF RestoInv, averias
<1>2. CASE Saca
  <2>1. /\ UNCHANGED <<hecho, vivo, caidas, averias, abiertos>>
        /\ contador > 0 /\ paso' = Head(pendientes).op
    BY <1>2 DEF Saca, kernel, datos
  <2>2. pendientes \in Seq(Peticiones) /\ pendientes # <<>>
    <3>1. /\ pendientes \in Seq(Peticiones) /\ contador \in Nat
          /\ contador + (IF recibida THEN 1 ELSE 0) = Len(pendientes)
      BY EnOrden DEF RespuestasInv, TipoCola
    <3>2. Len(pendientes) # 0
      BY <2>1, <3>1
    <3>. QED  BY <3>1, <3>2, EmptySeq
  <2>3. paso' \in {"OPEN", "TRUNCATE", "READ", "WRITE"}
    BY <2>1, <2>2, NombresSaca, PeticionTipo
  <2>. QED  BY <2>1, <2>3 DEF RestoInv, averias, Pasos
<1>3. CASE ManejarFOpen
  BY <1>3, RespondeResto DEF ManejarFOpen, RestoInv
<1>4. CASE AsignarPunteros
  BY <1>4, SigueResto DEF AsignarPunteros, RestoInv, datos, Pasos
<1>5. CASE GuardarPunteros
  BY <1>5, SigueResto DEF GuardarPunteros, RestoInv, datos, Pasos
<1>6. CASE GuardarTamanio
  BY <1>6, SigueResto DEF GuardarTamanio, RestoInv, datos, Pasos
<1>7. CASE TruncaSinTamanio
  BY <1>7, MuereResto DEF TruncaSinTamanio
<1>8. CASE AsignarBloques
  <2>1. paso = "bloques" /\ (Muere \/ (Responde /\ sano' \in BOOLEAN))
    BY <1>8 DEF AsignarBloques
  <2>. QED  BY <2>1, MuereResto, RespondeResto
<1>9. CASE SacarBloques
  <2>1. paso = "bloques" /\ (Muere \/ (Responde /\ sano' \in BOOLEAN))
    BY <1>9 DEF SacarBloques
  <2>. QED  BY <2>1, MuereResto, RespondeResto
<1>10. CASE MismosBloques
  BY <1>10, RespondeResto DEF MismosBloques, RestoInv
<1>11. CASE ManejarFRead
  BY <1>11, SigueResto DEF ManejarFRead, RestoInv, Pasos
<1>12. CASE RecvFinEscritura
  BY <1>12, RespondeResto DEF RecvFinEscritura, RestoInv
<1>13. CASE ManejarFWrite
  BY <1>13, SigueResto DEF ManejarFWrite, RestoInv, Pasos
<1>14. CASE EscribirDatos
  <2>1. PICK pos, n : pos = peticion.puntero /\ n = peticion.tamanio
    OBVIOUS
  <2>2. /\ paso = "escribe"
        /\ \/ Responde /\ sano' = sano
           \/ /\ hecho' = FinTramo(pos, n, hecho)
              /\ UNCHANGED <<peticion, paso, locales, traido, enviado, ajeno>>
    BY <1>14, <2>1 DEF EscribirDatos
  <2>3. hecho \in Nat /\ pos \in Nat /\ n \in Nat
    BY <2>1, <2>2, ServidoTipo, PeticionNat DEF RestoInv
  <2>4. FinTramo(pos, n, hecho) \in Nat
    BY <2>3, FinTramoNat
  <2>. QED  BY <2>2, <2>4, RespondeResto, SigueResto DEF RestoInv
<1>15. CASE CaeYReinicia \/ CaeCreando \/ CaeEnBloques
  <2>1. /\ paso' = "espera" /\ hecho' = 0 /\ vivo' = vivo /\ sano' \in BOOLEAN
        /\ caidas < MaxCaidas /\ caidas' = caidas + 1 /\ abiertos' = {}
    BY <1>15 DEF CaeYReinicia, CaeCreando, CaeEnBloques, Reinicia, Libera,
                 RestoInv
  <2>2. aMedias' \subseteq aMedias \cup {Servido}
    BY <1>15 DEF CaeYReinicia, CaeCreando, CaeEnBloques
  <2>3. aMedias' \subseteq Archivos
    <3>1. CASE CaeCreando
      <4>1. Servido \in Archivos
        BY <3>1, ServidoTipo DEF CaeCreando
      <4>. QED  BY <2>2, <4>1 DEF RestoInv
    <3>2. CASE CaeYReinicia \/ CaeEnBloques
      BY <3>2 DEF CaeYReinicia, CaeEnBloques, RestoInv
    <3>. QED  BY <1>15, <3>1, <3>2
  <2>4. caidas' \in 0..MaxCaidas
    BY <2>1, FileSystemAssumption DEF RestoInv
  <2>. QED  BY <2>1, <2>3, <2>4 DEF RestoInv, Pasos
<1>. QED  BY <1>1, <1>2, <1>3, <1>4, <1>5, <1>6, <1>7, <1>8, <1>9, <1>10, <1>11,
          <1>12, <1>13, <1>14, <1>15 DEF Next, Trabaja

(* What was used out of place stays so. *)
LEMMA SanoAntes ==
    ASSUME RestoInv, Next, sano'
    PROVE  sano
<1>1. CASE AsignarBloques
  <2>1. Muere \/ (sano' => sano)
    BY <1>1 DEF AsignarBloques
  <2>. QED  BY <2>1 DEF Muere, averias
<1>2. CASE SacarBloques
  <2>1. Muere \/ (sano' => sano)
    BY <1>2 DEF SacarBloques
  <2>. QED  BY <2>1 DEF Muere, averias
<1>3. CASE EscribirDatos
  BY <1>3 DEF EscribirDatos, ajeno, averias
<1>4. CASE Recibe \/ Postea \/ \E f \in Archivos : FClose(f)
  BY <1>4 DEF Recibe, Postea, FClose, averias
<1>5. CASE CaeYReinicia \/ CaeCreando \/ CaeEnBloques
  BY <1>5 DEF CaeYReinicia, CaeCreando, CaeEnBloques, Reinicia
<1>6. CASE \/ ManejarFOpen \/ MismosBloques \/ RecvFinEscritura
           \/ TruncaSinTamanio
  BY <1>6 DEF ManejarFOpen, MismosBloques, RecvFinEscritura, TruncaSinTamanio,
              Muere, averias
<1>7. CASE \/ Saca \/ AsignarPunteros \/ GuardarPunteros \/ GuardarTamanio
           \/ ManejarFRead \/ ManejarFWrite
  BY <1>7 DEF Saca, AsignarPunteros, GuardarPunteros, GuardarTamanio,
              ManejarFRead, ManejarFWrite, ajeno, averias
<1>. QED  BY <1>1, <1>2, <1>3, <1>4, <1>5, <1>6, <1>7 DEF Next, Trabaja

(* Every step in which memory is used in its place keeps the invariant of  *)
(* the blocks.                                                             *)
LEMMA BloquesPaso ==
    ASSUME UsoPrevisto, DiscoGrande, TrabajoInv, Next, sano'
    PROVE  BloquesInv'
<1>0. RespuestasInv /\ BloquesInv /\ HayLugar /\ sano
  BY LugarSobra, SanoAntes DEF TrabajoInv
<1>1. CASE Recibe
  BY <1>0, <1>1, RecibeBloques
<1>2. CASE Postea
  BY <1>0, <1>2, PosteaBloques
<1>3. CASE Saca
  BY <1>0, <1>3, SacaBloques
<1>4. CASE ManejarFOpen
  BY <1>0, <1>4, ManejarFOpenBloques
<1>5. CASE AsignarPunteros
  BY <1>0, <1>5, AsignarPunterosBloques
<1>6. CASE GuardarPunteros
  BY <1>0, <1>6, GuardarPunterosBloques
<1>7. CASE GuardarTamanio
  BY <1>0, <1>7, GuardarTamanioBloques
<1>8. CASE AsignarBloques
  <2>1. vivo /\ paso = "bloques"
    BY <1>8 DEF AsignarBloques
  <2>. QED  BY <1>0, <1>8, <2>1, AsignarBloquesHace, FinDeTruncarBloques
<1>9. CASE SacarBloques
  <2>1. vivo /\ paso = "bloques"
    BY <1>9 DEF SacarBloques
  <2>. QED  BY <1>0, <1>9, <2>1, SacarBloquesHace, FinDeTruncarBloques
<1>10. CASE MismosBloques
  BY <1>0, <1>10, MismosBloquesBloques
<1>11. CASE ManejarFRead
  BY <1>0, <1>11, ManejarFReadBloques
<1>12. CASE RecvFinEscritura
  BY <1>0, <1>12, RecvFinEscrituraBloques
<1>13. CASE ManejarFWrite
  BY <1>0, <1>13, ManejarFWriteBloques
<1>14. CASE EscribirDatos
  BY <1>0, <1>14, EscribirDatosBloques
<1>15. CASE CaeYReinicia
  BY <1>0, <1>15, CaeBloques
<1>16. CASE \E f \in Archivos : FClose(f)
  BY <1>0, <1>16, FCloseBloques
<1>17. CASE TruncaSinTamanio
  BY <1>17, MuereBloques DEF TruncaSinTamanio
<1>18. CASE CaeCreando
  BY <1>0, <1>18, CaeCreandoBloques
<1>19. CASE CaeEnBloques
  BY <1>19 DEF CaeEnBloques, Reinicia
<1>. QED  BY <1>1, <1>2, <1>3, <1>4, <1>5, <1>6, <1>7, <1>8, <1>9, <1>10, <1>11,
          <1>12, <1>13, <1>14, <1>15, <1>16, <1>17, <1>18, <1>19 DEF Next, Trabaja

(* So does a stutter. *)
LEMMA BloquesQuietos ==
    ASSUME TrabajoInv, UNCHANGED vars
    PROVE  TrabajoInv'
<1>0. /\ UNCHANGED <<disco, peticion, paso, locales, caidas, pendientes, hecho, vivo,
                     abiertos, bitmap, bloques, fcb, contador, recibida, enVuelo,
                     sano, aMedias>>
      /\ RespuestasInv /\ RestoInv /\ (sano => BloquesInv)
  BY DEF vars, ajeno, cola, kernel, datos, disco, averias, TrabajoInv
<1>1. RespuestasInv' /\ RestoInv'
  BY <1>0 DEF RespuestasInv, TipoCola, RespuestaAlPrimero, Servido, RestoInv
<1>2. ASSUME sano, vivo PROVE TipoEstado'
  BY <1>0, <1>2 DEF BloquesInv, TipoEstado, TipoGuardado
<1>3. ASSUME sano, vivo PROVE VivoInv'
  <2>1. VivoInv
    BY <1>0, <1>3 DEF BloquesInv
  <2>2. DiscoInv' /\ FugasInv'
    BY <1>0, <2>1, DiscoQuieto
  <2>3. FcbsInv' /\ EtapaInv' /\ PedidosInv'
    BY <1>0, <2>1 DEF VivoInv, FcbsInv, FcbBien, EtapaInv, PedidosInv, Servido
  <2>. QED  BY <2>2, <2>3 DEF VivoInv
<1>. QED  BY <1>0, <1>1, <1>2, <1>3 DEF BloquesInv, TrabajoInv

(* The invariant holds always. *)
LEMMA TrabajoSiempre ==
    ASSUME UsoPrevisto, DiscoGrande
    PROVE  Spec => []TrabajoInv
<1>1. Init => TrabajoInv
  <2>1. Init => RestoInv
    BY FileSystemAssumption DEF Init, RestoInv, Pasos
  <2>. QED  BY <2>1, ColaInicio, BloquesInicio DEF TrabajoInv
<1>2. TrabajoInv /\ [Next]_vars => TrabajoInv'
  <2>1. ASSUME TrabajoInv, Next PROVE TrabajoInv'
    <3>1. RespuestasInv' /\ RestoInv'
      BY <2>1, ColaPaso, RestoPaso DEF TrabajoInv
    <3>2. sano' => BloquesInv'
      BY <2>1, BloquesPaso
    <3>. QED  BY <3>1, <3>2 DEF TrabajoInv
  <2>. QED  BY <2>1, BloquesQuietos
<1>. QED  BY <1>1, <1>2, PTL DEF Spec

(* The places a reader of the disk sees are those of the invariant. *)
LEMMA LugaresSitios ==
    ASSUME UsoPrevisto, BloquesInv, vivo, NEW f \in Archivos
    PROVE  /\ Lugares(f) = Sitios(Directos[f], Alturas[f])
           /\ \A k \in Lugares(f) :
                 BloqueEn(f, k) = Nombra(bloques, Directos[f], Indirectos[f], k)
<1>0. Directos[f] = fcb[f].directo /\ Indirectos[f] = fcb[f].indirecto
  BY DiscoDe
<1>1. CASE fcb[f].directo = SinPuntero
  BY <1>0, <1>1 DEF Lugares, Sitios
<1>2. CASE fcb[f].directo # SinPuntero
  <2>1. PICK h, c : h = Alturas[f] /\ c = bloques[Indirectos[f]].cant
    OBVIOUS
  <2>2. c = h \/ (h = 0 /\ c = TEXTO)
    BY <1>2, <2>1, ContadorDe
  <2>3. h \in 0..CAPACIDAD /\ CAPACIDAD \in Nat /\ TEXTO \in Nat /\ CAPACIDAD < TEXTO
    BY <2>1, MedidasBien, TextoFuera
    DEF BloquesInv, VivoInv, DiscoInv, DiscoBien, TipoDisco, UsoPrevisto
  <2>4. Lugares(f) = {-1, 0} \cup {k \in 1..CAPACIDAD : c \in k..CAPACIDAD}
    BY <1>0, <1>2, <2>1 DEF Lugares
  <2>5. {k \in 1..CAPACIDAD : c \in k..CAPACIDAD} = 1..h
    BY <2>2, <2>3
  <2>6. Sitios(Directos[f], h) = (-1)..h
    BY <1>0, <1>2 DEF Sitios
  <2>7. Lugares(f) = (-1)..h
    BY <2>3, <2>4, <2>5
  <2>8. ASSUME NEW k \in Lugares(f)
        PROVE  BloqueEn(f, k) = Nombra(bloques, Directos[f], Indirectos[f], k)
    <3>1. k = -1 \/ k = 0 \/ k \in 1..CAPACIDAD
      BY <2>3, <2>7
    <3>. QED  BY <1>0, <3>1 DEF BloqueEn, BuscarBloque, Nombra
  <2>. QED  BY <2>1, <2>6, <2>7, <2>8
<1>. QED  BY <1>1, <1>2

(* A use of UnDuenio is a place of the invariant. *)
LEMMA UsosSitios ==
    ASSUME UsoPrevisto, BloquesInv, vivo, NEW u \in Usos
    PROVE  /\ u = <<u[1], u[2]>> /\ u[1] \in Archivos
           /\ u[2] \in Sitios(Directos[u[1]], Alturas[u[1]])
           /\ BloqueEn(u[1], u[2]) =
                 Nombra(bloques, Directos[u[1]], Indirectos[u[1]], u[2])
<1>1. PICK f \in Archivos : u \in {<<f, k>> : k \in Lugares(f)}
  BY DEF Usos
<1>2. PICK k \in Lugares(f) : u = <<f, k>>
  BY <1>1
<1>3. u[1] = f /\ u[2] = k
  BY <1>2
<1>4. /\ k \in Sitios(Directos[f], Alturas[f])
      /\ BloqueEn(f, k) = Nombra(bloques, Directos[f], Indirectos[f], k)
  BY LugaresSitios
<1>. QED  BY <1>2, <1>3, <1>4

(* Every variable keeps its type, and while the disk is sound (sano) every *)
(* pointer that the FCBs hold is to a block of the disk (lista_fcbs,       *)
(* bitmap, and the file of blocks).                                        *)
THEOREM TiposDelDisco ==
    ASSUME UsoPrevisto, DiscoGrande
    PROVE  Spec => []TipoFs
<1>1. ASSUME TrabajoInv PROVE TipoFs
  <2>1. RespuestasInv /\ RestoInv /\ (sano => BloquesInv)
    BY <1>1 DEF TrabajoInv
  <2>2. ASSUME vivo, sano
        PROVE  /\ bitmap \subseteq Bloques
               /\ DOMAIN bloques = Bloques
               /\ \A b \in Bloques :
                     /\ DOMAIN bloques[b].datos = Offsets
                     /\ bloques[b].cant \in 0..CAPACIDAD \cup {TEXTO}
                     /\ bloques[b].ptr \in [1..CAPACIDAD -> Nat]
               /\ fcb \in [Archivos -> [existe : BOOLEAN, tamanio : Nat,
                                        directo : Bloques \cup {SinPuntero},
                                        indirecto : Bloques \cup {SinPuntero}]]
    BY <2>1, <2>2 DEF BloquesInv, TipoEstado, TipoGuardado, TipoBloque, TipoFcb
  <2>3. /\ pendientes \in Seq(Peticiones) /\ contador \in Nat
        /\ recibida \in BOOLEAN /\ enVuelo \in Seq(Archivos)
        /\ peticion \in Peticiones \cup {<<>>}
    BY <2>1 DEF RespuestasInv, TipoCola
  <2>. QED  BY <2>1, <2>2, <2>3 DEF RestoInv, TipoFs
<1>. QED  BY <1>1, TrabajoSiempre, PTL

(* No block is in two places of one file or of two, and every block in     *)
(* use has its bit set (asignar_punteros_primer_truncate,                  *)
(* asignar_bloques, sacar_bloques): for any number of files, sizes and     *)
(* blocks, whatever files grow and shrink and wherever a restart cuts a    *)
(* request short, until one does it in the last step of a truncation or    *)
(* asignar_bloques writes pointers past its copy of a block.               *)
THEOREM UnSoloDuenio ==
    ASSUME UsoPrevisto, DiscoGrande
    PROVE  Spec => []UnDuenio
<1>1. ASSUME TrabajoInv PROVE UnDuenio
  <2>. SUFFICES ASSUME vivo, sano
                PROVE  /\ Usados \subseteq bitmap
                       /\ \A u, v \in Usos :
                             BloqueEn(u[1], u[2]) = BloqueEn(v[1], v[2]) => u = v
    BY DEF UnDuenio
  <2>1. BloquesInv /\ DiscoBien(bitmap, bloques, Directos, Indirectos, Alturas, Manos)
    BY <1>1 DEF TrabajoInv, BloquesInv, VivoInv, DiscoInv
  <2>2. ASSUME NEW u \in Usos PROVE BloqueEn(u[1], u[2]) \in bitmap
    BY <2>1, UsosSitios DEF DiscoBien, Marcados
  <2>3. ASSUME NEW u \in Usos, NEW v \in Usos,
               BloqueEn(u[1], u[2]) = BloqueEn(v[1], v[2])
        PROVE  u = v
    <3>1. u[1] = v[1] /\ u[2] = v[2]
      BY <2>1, <2>3, UsosSitios DEF DiscoBien, UnSitio
    <3>. QED  BY <2>1, <3>1, UsosSitios
  <2>. QED  BY <2>2, <2>3 DEF Usados
<1>. QED  BY <1>1, TrabajoSiempre, PTL

(* Until the process is restarted no block stays marked that no file can   *)
(* reach (sacar_bloques clears the bit of each block it takes from a       *)
(* file).                                                                  *)
THEOREM NadaSePierde ==
    ASSUME UsoPrevisto, DiscoGrande
    PROVE  Spec => []SinFugas
<1>1. ASSUME TrabajoInv PROVE SinFugas
  <2>. SUFFICES ASSUME vivo, sano, caidas = 0
                PROVE  bitmap \subseteq Usados \cup {locales[1], locales[2]}
    BY DEF SinFugas
  <2>1. BloquesInv /\ FugasInv
    BY <1>1 DEF TrabajoInv, BloquesInv, VivoInv
  <2>2. PICK P : Perdidos(P)
    BY <2>1 DEF FugasInv
  <2>3. P = {}
    <3>1. PICK z, p : z = Cardinality(Huerfanos) /\ p = Cardinality(P)
      OBVIOUS
    <3>2. IsFiniteSet(Huerfanos) /\ IsFiniteSet(P)
      BY <2>2, FS_Subset DEF DiscoGrande, Huerfanos, Perdidos
    <3>3. z \in Nat /\ p \in Nat
      BY <3>1, <3>2, FS_CardinalityType
    <3>4. p + 2 * z <= 0
      BY <2>2, <3>1 DEF Perdidos
    <3>5. p = 0
      BY <3>3, <3>4
    <3>. QED  BY <3>1, <3>2, <3>5, FS_EmptySet
  <2>4. SUFFICES ASSUME NEW b \in bitmap, b \notin Manos PROVE b \in Usados
    BY DEF Manos
  <2>5. PICK f \in Archivos : \E k \in Sitios(Directos[f], Alturas[f]) :
           b = Nombra(bloques, Directos[f], Indirectos[f], k)
    BY <2>2, <2>3, <2>4 DEF Perdidos, SinPerdidos
  <2>6. PICK k \in Sitios(Directos[f], Alturas[f]) :
           b = Nombra(bloques, Directos[f], Indirectos[f], k)
    BY <2>5
  <2>7. k \in Lugares(f) /\ b = BloqueEn(f, k)
    BY <2>1, <2>6, LugaresSitios
  <2>8. PICK u : u = <<f, k>>
    OBVIOUS
  <2>9. u \in Usos /\ b = BloqueEn(u[1], u[2])
    BY <2>7, <2>8 DEF Usos
  <2>. QED  BY <2>9 DEF Usados
<1>. QED  BY <1>1, TrabajoSiempre, PTL

(* When manejar_f_truncate has answered, the pointers of the file reach    *)
(* the blocks its size needs, so that leer_datos and escribir_datos find a *)
(* block for each byte: for any sizes above one byte, though what          *)
(* asignar_bloques adds is rounded up from the difference of the two       *)
(* sizes.  It ends with a restart in the last step of a truncation, and    *)
(* where the pointers no longer fit in the block: asignar_bloques does not *)
(* look, and what it writes past its copy is not saved.                    *)
THEOREM BloquesDeSobra ==
    ASSUME UsoPrevisto, DiscoGrande
    PROVE  Spec => []BloquesSuficientes
<1>1. ASSUME TrabajoInv PROVE BloquesSuficientes
  <2>. SUFFICES ASSUME vivo, sano, NEW f \in Archivos, fcb[f].tamanio > 0,
                       ~ EnTruncado(f)
                PROVE  /\ fcb[f].directo # SinPuntero
                       /\ 1..Necesarios(fcb[f].tamanio) \subseteq Lugares(f)
    BY DEF BloquesSuficientes, Direccionable
  <2>1. BloquesInv /\ VivoInv
    BY <1>1 DEF TrabajoInv, BloquesInv
  <2>2. fcb[f].directo # SinPuntero
    BY <2>1 DEF VivoInv, FcbsInv, FcbBien
  <2>3. PICK h, n : h = Alturas[f] /\ n = Necesarios(fcb[f].tamanio)
    OBVIOUS
  <2>4. h >= n /\ h \in 0..CAPACIDAD /\ Directos[f] = fcb[f].directo
    BY <2>1, <2>3, DiscoDe, AlturaTipo DEF TamanioVisto
  <2>5. Lugares(f) = Sitios(Directos[f], h)
    BY <2>1, <2>3, LugaresSitios
  <2>6. Sitios(Directos[f], h) = (-1)..h
    BY <2>2, <2>4 DEF Sitios
  <2>7. h \in Nat /\ n \in Nat
    <3>1. fcb[f].tamanio \in Nat
      BY <2>1 DEF BloquesInv, TipoEstado, TipoGuardado, TipoFcb
    <3>. QED  BY <2>3, <2>4, <3>1, MedidasBien, NecesariosBien
  <2>8. 1..n \subseteq (-1)..h
    BY <2>4, <2>7
  <2>. QED  BY <2>2, <2>3, <2>5, <2>6, <2>8
<1>. QED  BY <1>1, TrabajoSiempre, PTL

(* buscar_bloque_libre, which returns block 0 when it finds none, is       *)
(* never called without a free block, for pointers that fit: a disk with   *)
(* room for each file at its largest, and two blocks more for each         *)
(* restart, is enough.                                                     *)
THEOREM SiempreHayLugar ==
    ASSUME UsoPrevisto, DiscoGrande
    PROVE  Spec => []HayLugar
<1>1. TrabajoInv => HayLugar
  BY LugarSobra DEF TrabajoInv, HayLugar
<1>. QED  BY <1>1, TrabajoSiempre, PTL

-----------------------------------------------------------------------------
(* The refinement of the store of bytes: Contenido, with the invariant of  *)
(* the blocks above, is what the requests of Almacen say.                  *)

(* Byte i of a file, as its FCB and its blocks give it. *)
ByteDe(f, i) ==
    bloques[BuscarBloque(f, i \div BLOCK_SIZE)].datos[i % BLOCK_SIZE]

(* The bytes that the request being served has in memory. *)
DatosInv ==
    vivo =>
      /\ IF paso = "escribe"
         THEN /\ DOMAIN traido = 0..(peticion.tamanio - 1)
              /\ \/ hecho = 0
                 \/ (peticion.puntero + hecho) % BLOCK_SIZE = 0
         ELSE traido = SinDatos
      /\ IF paso = "fin_escritura"
         THEN enviado = LeerDatos(Servido, peticion.puntero, peticion.tamanio)
         ELSE enviado = SinDatos

(* The contents of the files, byte by byte: before a step, *)
LEMMA ContenidoDe ==
    /\ DOMAIN Contenido = {g \in Archivos : fcb[g].existe}
    /\ \A f \in DOMAIN Contenido :
          Contenido[f] = [i \in 0..(TamanioVisto(f) - 1) |-> ByteDe(f, i)]
BY DEF Contenido, ByteDe

(* and after it. *)
LEMMA ContenidoLuego ==
    /\ DOMAIN Contenido' = {g \in Archivos : fcb'[g].existe}
    /\ \A f \in DOMAIN Contenido' :
          Contenido'[f] = [i \in 0..(TamanioVisto(f)' - 1) |-> ByteDe(f, i)']
BY DEF Contenido, ByteDe

(* The size of a file that a user sees is a natural. *)
LEMMA VistoTipo ==
    ASSUME BloquesInv, NEW f \in Archivos, vivo
    PROVE  TamanioVisto(f) \in Nat
<1>1. fcb[f].tamanio \in Nat
  BY DEF BloquesInv, TipoEstado, TipoGuardado, TipoFcb
<1>2. CASE EnTruncado(f)
  <2>1. locales[3] \in Tamanios[f] \cup {0}
    BY <1>2 DEF BloquesInv, VivoInv, EtapaInv, EnTruncado
  <2>2. Tamanios[f] \subseteq Nat
    BY FileSystemAssumption
  <2>3. TamanioVisto(f) = locales[3]
    BY <1>2 DEF TamanioVisto, Viejo
  <2>. QED  BY <2>1, <2>2, <2>3
<1>. QED  BY <1>1, <1>2 DEF TamanioVisto

(* A byte of the size seen is in one of the places of its file. *)
LEMMA ByteVisto ==
    ASSUME UsoPrevisto, RespuestasInv, BloquesInv, vivo, NEW f \in Archivos,
           NEW i \in Nat, i < TamanioVisto(f), NEW k, k = i \div BLOCK_SIZE
    PROVE  /\ k \in 0..CAPACIDAD
           /\ k \in Sitios(Directos[f], Alturas[f])
           /\ ByteDe(f, i) =
                 bloques[Nombra(bloques, Directos[f], Indirectos[f], k)]
                     .datos[i % BLOCK_SIZE]
<1>1. TamanioVisto(f) \in Nat
  BY VistoTipo
<1>3. k \in 0..Necesarios(TamanioVisto(f))
  BY <1>1, BloqueDentro
<1>4. Alturas[f] >= Necesarios(TamanioVisto(f))
  BY AlturaTipo DEF BloquesInv
<1>5. /\ Alturas[f] \in 0..CAPACIDAD /\ CAPACIDAD \in Nat
      /\ Necesarios(TamanioVisto(f)) \in Nat
  BY <1>1, MedidasBien, NecesariosBien, AlturaTipo DEF BloquesInv
<1>6. fcb[f].directo # SinPuntero
  <2>1. fcb[f].tamanio # 0
    <3>1. CASE EnTruncado(f)
      <4>1. /\ fcb[f].tamanio = peticion.tamanio /\ peticion.op = "TRUNCATE"
            /\ f = Servido
        BY <3>1 DEF BloquesInv, VivoInv, EtapaInv, EnTruncado
      <4>2. peticion \in Peticiones
        BY <3>1, ServidoTipo DEF EnTruncado
      <4>3. peticion.tamanio \in Tamanios[f]
        BY <4>1, <4>2, PeticionCampos DEF Servido
      <4>4. \A t \in Tamanios[f] : t # 0
        BY FileSystemAssumption DEF UsoPrevisto
      <4>. QED  BY <4>1, <4>3, <4>4
    <3>2. CASE ~ EnTruncado(f)
      <4>1. TamanioVisto(f) = fcb[f].tamanio
        BY <3>2 DEF TamanioVisto
      <4>. QED  BY <1>1, <4>1
    <3>. QED  BY <3>1, <3>2
  <2>. QED  BY <2>1 DEF BloquesInv, VivoInv, FcbsInv, FcbBien
<1>7. Directos[f] = fcb[f].directo /\ Indirectos[f] = fcb[f].indirecto
  BY DEF Directos, Indirectos
<1>8. k \in 0..Alturas[f] /\ k \in Nat /\ (k # 0 => k \in 1..CAPACIDAD)
  BY <1>3, <1>4, <1>5
<1>9. k \in Sitios(Directos[f], Alturas[f])
  BY <1>5, <1>6, <1>7, <1>8 DEF Sitios
<1>10. BuscarBloque(f, k) = Nombra(bloques, Directos[f], Indirectos[f], k)
  BY <1>7, <1>8 DEF BuscarBloque, Nombra
<1>11. k \in 0..CAPACIDAD
  BY <1>5, <1>8
<1>. QED  BY <1>9, <1>10, <1>11 DEF ByteDe

(* Two functions with the bytes of a file are one if the bytes are. *)
LEMMA MismoContenido ==
    ASSUME NEW g \in Archivos, fcb[g].existe, fcb'[g].existe,
           TamanioVisto(g)' = TamanioVisto(g),
           ASSUME NEW i \in 0..(TamanioVisto(g) - 1)
           PROVE  ByteDe(g, i)' = ByteDe(g, i)
    PROVE  Contenido'[g] = Contenido[g]
<1>1. Contenido[g] = [i \in 0..(TamanioVisto(g) - 1) |-> ByteDe(g, i)]
  BY ContenidoDe
<1>2. Contenido'[g] = [i \in 0..(TamanioVisto(g)' - 1) |-> ByteDe(g, i)']
  BY ContenidoLuego
<1>3. Contenido'[g] = [i \in 0..(TamanioVisto(g) - 1) |-> ByteDe(g, i)']
  BY <1>2
<1>. QED  BY <1>1, <1>3

(* A step that touches neither the blocks nor what is seen of a file. *)
LEMMA ContenidoQuieto ==
    ASSUME bloques' = bloques,
           \A g \in Archivos : fcb'[g].existe = fcb[g].existe,
           ASSUME NEW g \in Archivos
           PROVE  /\ TamanioVisto(g)' = TamanioVisto(g)
                  /\ \/ TamanioVisto(g) = 0
                     \/ /\ fcb'[g].directo = fcb[g].directo
                        /\ fcb'[g].indirecto = fcb[g].indirecto
    PROVE  Contenido' = Contenido
<1>1. DOMAIN Contenido' = DOMAIN Contenido
  BY ContenidoDe, ContenidoLuego
<1>2. ASSUME NEW g \in DOMAIN Contenido PROVE Contenido'[g] = Contenido[g]
  <2>1. g \in Archivos /\ fcb[g].existe /\ fcb'[g].existe
    BY ContenidoDe
  <2>2. TamanioVisto(g)' = TamanioVisto(g)
    BY <2>1
  <2>3. ASSUME NEW i \in 0..(TamanioVisto(g) - 1)
        PROVE  ByteDe(g, i)' = ByteDe(g, i)
    <3>1. TamanioVisto(g) # 0
      BY <2>3
    <3>2. fcb'[g].directo = fcb[g].directo /\ fcb'[g].indirecto = fcb[g].indirecto
      BY <2>1, <3>1
    <3>3. BuscarBloque(g, i \div BLOCK_SIZE)' = BuscarBloque(g, i \div BLOCK_SIZE)
      BY <3>2 DEF BuscarBloque
    <3>. QED  BY <3>3 DEF ByteDe
  <2>. QED  BY <2>1, <2>2, <2>3, MismoContenido
<1>. QED  BY <1>1, <1>2 DEF Contenido

(* In particular one that leaves the disk as it is, when no truncation is  *)
(* about to assign blocks.                                                 *)
LEMMA ContenidoIgual ==
    ASSUME UNCHANGED <<bloques, fcb>>, paso # "bloques", paso' # "bloques"
    PROVE  Contenido' = Contenido
<1>1. ASSUME NEW g \in Archivos PROVE TamanioVisto(g)' = TamanioVisto(g)
  BY DEF TamanioVisto, EnTruncado
<1>. QED  BY <1>1, ContenidoQuieto

(* The steps that a user of the files does not see. *)
Quieto == UNCHANGED <<Contenido, peticion, traido, hecho, enviado, caidas>>

(* A request with no bytes is the same in both specifications. *)
LEMMA VacioEsSinDatos == Abstracto!Vacio = SinDatos
<1>1. Abstracto!Vacio = [i \in 0..(-1) |-> i]
  BY DEF Abstracto!Vacio, Abstracto!Bytes
<1>2. 0..(-1) = {}
  OBVIOUS
<1>. QED  BY <1>1, <1>2 DEF SinDatos

(* Those that leave the request, the disk and the step it is at. *)
LEMMA CopiaQuieta ==
    ASSUME DatosInv,
           UNCHANGED <<bloques, fcb, peticion, paso, locales, traido, hecho,
                       enviado, vivo, caidas>>
    PROVE  Quieto /\ DatosInv'
<1>1. ASSUME NEW g \in Archivos PROVE TamanioVisto(g)' = TamanioVisto(g)
  BY DEF TamanioVisto, EnTruncado, Servido, Viejo
<1>2. Contenido' = Contenido
  BY <1>1, ContenidoQuieto
<1>3. ASSUME NEW f, NEW p, NEW n PROVE LeerDatos(f, p, n)' = LeerDatos(f, p, n)
  BY DEF LeerDatos, BloqueDe, BuscarBloque
<1>4. DatosInv'
  BY <1>3 DEF DatosInv, Servido
<1>. QED  BY <1>2, <1>4 DEF Quieto

(* Receiving a request and closing a file are not seen. *)
LEMMA RecibeQuieto ==
    ASSUME Recibe \/ Postea \/ \E f \in Archivos : FClose(f), DatosInv
    PROVE  Quieto /\ DatosInv'
<1>1. UNCHANGED <<bloques, fcb, peticion, paso, locales, traido, hecho, enviado,
                  vivo, caidas>>
  BY DEF Recibe, Postea, FClose, disco, datos
<1>. QED  BY <1>1, CopiaQuieta

(* A segmentation fault changes no byte, and nothing follows it. *)
LEMMA MuereQuieto ==
    ASSUME Muere, DatosInv
    PROVE  Quieto /\ DatosInv'
<1>1. UNCHANGED <<bloques, fcb, peticion, paso, locales, traido, hecho, enviado,
                  caidas>> /\ vivo' = FALSE
  BY DEF Muere, datos
<1>2. ASSUME NEW g \in Archivos PROVE TamanioVisto(g)' = TamanioVisto(g)
  BY <1>1 DEF TamanioVisto, EnTruncado, Servido, Viejo
<1>3. Contenido' = Contenido
  BY <1>1, <1>2, ContenidoQuieto
<1>. QED  BY <1>1, <1>3 DEF Quieto, DatosInv

(* Marking the first two blocks of a file is not seen. *)
LEMMA AsignarPunterosQuieto ==
    ASSUME DatosInv, AsignarPunteros
    PROVE  Quieto /\ DatosInv'
<1>1. /\ vivo /\ paso = "TRUNCATE" /\ paso' = "fcb"
      /\ UNCHANGED <<bloques, fcb, peticion, traido, hecho, enviado, caidas>>
  BY DEF AsignarPunteros, datos, ajeno
<1>2. Contenido' = Contenido
  BY <1>1, ContenidoIgual
<1>. QED  BY <1>1, <1>2 DEF Quieto, DatosInv

(* The file has size 0: whatever its blocks, it has no byte. *)
LEMMA GuardarPunterosQuieto ==
    ASSUME RespuestasInv, BloquesInv, DatosInv, GuardarPunteros
    PROVE  Quieto /\ DatosInv'
<1>1. /\ vivo /\ paso = "fcb" /\ paso' = "tamanio"
      /\ fcb' = [fcb EXCEPT ![Servido].directo = locales[1],
                            ![Servido].indirecto = locales[2]]
      /\ UNCHANGED <<bloques, peticion, traido, hecho, enviado, caidas>>
  BY DEF GuardarPunteros, datos, ajeno
<1>2. fcb[Servido].tamanio = 0 /\ fcb \in [Archivos -> TipoFcb]
  BY <1>1 DEF BloquesInv, VivoInv, EtapaInv, TipoEstado, TipoGuardado
<1>3. ASSUME NEW g \in Archivos
      PROVE  /\ fcb'[g].existe = fcb[g].existe
             /\ fcb'[g].tamanio = fcb[g].tamanio
             /\ g # Servido => fcb'[g] = fcb[g]
  BY <1>1, <1>2 DEF TipoFcb
<1>4. ASSUME NEW g \in Archivos
      PROVE  /\ TamanioVisto(g)' = TamanioVisto(g)
             /\ TamanioVisto(g) = fcb[g].tamanio
  BY <1>1, <1>3 DEF TamanioVisto, EnTruncado
<1>5. Contenido' = Contenido
  BY <1>1, <1>2, <1>3, <1>4, ContenidoQuieto
<1>. QED  BY <1>1, <1>5 DEF Quieto, DatosInv

(* The new size is not seen yet. *)
LEMMA GuardarTamanioQuieto ==
    ASSUME RespuestasInv, BloquesInv, DatosInv, GuardarTamanio
    PROVE  Quieto /\ DatosInv'
<1>1. /\ vivo /\ paso \in {"tamanio", "TRUNCATE"} /\ paso' = "bloques"
      /\ fcb' = [fcb EXCEPT ![Servido].tamanio = peticion.tamanio]
      /\ locales' = [locales EXCEPT ![3] = fcb[Servido].tamanio]
      /\ UNCHANGED <<bloques, peticion, traido, hecho, enviado, caidas>>
  BY DEF GuardarTamanio, datos, ajeno
<1>2. fcb \in [Archivos -> TipoFcb] /\ locales \in [1..3 -> Int]
  BY <1>1 DEF BloquesInv, TipoEstado, TipoGuardado
<1>3. ASSUME NEW g \in Archivos
      PROVE  /\ fcb'[g].existe = fcb[g].existe
             /\ fcb'[g].directo = fcb[g].directo
             /\ fcb'[g].indirecto = fcb[g].indirecto
             /\ g # Servido => fcb'[g] = fcb[g]
  BY <1>1, <1>2 DEF TipoFcb
<1>6. locales'[3] = fcb[Servido].tamanio
  BY <1>1, <1>2
<1>4. ASSUME NEW g \in Archivos
      PROVE  TamanioVisto(g)' = TamanioVisto(g)
  <2>1. TamanioVisto(g) = fcb[g].tamanio
    BY <1>1 DEF TamanioVisto, EnTruncado
  <2>2. CASE g = Servido
    BY <1>1, <1>6, <2>1, <2>2 DEF TamanioVisto, EnTruncado, Viejo, Servido
  <2>3. CASE g # Servido
    BY <1>1, <1>3, <2>1, <2>3 DEF TamanioVisto, EnTruncado, Servido
  <2>. QED  BY <2>2, <2>3
<1>5. Contenido' = Contenido
  BY <1>1, <1>3, <1>4, ContenidoQuieto
<1>. QED  BY <1>1, <1>5 DEF Quieto, DatosInv

(* Taking a request from the queue is attending to it: in the order in     *)
(* which they came, so it is one that somebody made.                       *)
LEMMA SacaAtiende ==
    ASSUME RespuestasInv, DatosInv, Saca
    PROVE  Abstracto!Atender /\ DatosInv'
<1>1. /\ vivo /\ paso = "espera" /\ contador > 0 /\ peticion = <<>>
      /\ peticion' = Head(pendientes) /\ paso' = Head(pendientes).op
      /\ UNCHANGED <<bloques, fcb, traido, hecho, enviado, caidas>>
  BY DEF Saca, RespuestasInv, TipoCola, disco, datos
<1>2. pendientes \in Seq(Peticiones) /\ pendientes # <<>>
  <2>1. pendientes \in Seq(Peticiones) /\ Len(pendientes) > 0
    BY <1>1 DEF RespuestasInv, TipoCola, RespuestaAlPrimero
  <2>. QED  BY <2>1, EmptySeq
<1>3. peticion' \in Peticiones
  BY <1>1, <1>2, HeadTailProperties
<1>4. paso' \in {"OPEN", "TRUNCATE", "READ", "WRITE"}
  BY <1>1, <1>3, PeticionTipo
<1>5. Contenido' = Contenido
  BY <1>1, <1>4, ContenidoIgual
<1>6. DatosInv'
  BY <1>1, <1>4 DEF DatosInv
<1>. QED  BY <1>1, <1>3, <1>5, <1>6 DEF Abstracto!Atender

(* What the end of a request leaves in memory: nothing. *)
LEMMA RespondeNada ==
    ASSUME Responde
    PROVE  /\ peticion' = <<>> /\ paso' = "espera" /\ hecho' = 0
           /\ traido' = SinDatos /\ enviado' = SinDatos /\ caidas' = caidas
           /\ DatosInv'
BY DEF Responde, Libera, DatosInv

(* manejar_f_open leaves a file that exists as it is, and creates an       *)
(* empty one.                                                              *)
LEMMA CreadoConserva ==
    ASSUME RespuestasInv, BloquesInv, vivo, paso = "OPEN", fcb' = Creado,
           bloques' = bloques, paso' # "bloques"
    PROVE  peticion # <<>> /\ peticion.op = "OPEN"
           /\ Abstracto!Creado(peticion.archivo)
<1>1. fcb' = IF fcb[Servido].existe THEN fcb
             ELSE [fcb EXCEPT ![Servido] = [NoExiste EXCEPT !.existe = TRUE]]
  BY DEF Creado
<1>2. PICK f \in Archivos : f = peticion.archivo /\ f = Servido
  BY ServidoTipo DEF Servido
<1>3. peticion # <<>> /\ peticion.op = "OPEN"
  BY ServidoTipo DEF BloquesInv, VivoInv, EtapaInv
<1>4. fcb \in [Archivos -> TipoFcb] /\ (~ fcb[f].existe => fcb[f] = NoExiste)
  BY DEF BloquesInv, TipoEstado, TipoGuardado, VivoInv, FcbsInv, FcbBien
<1>5. /\ fcb'[f].existe
      /\ fcb[f].existe => fcb'[f] = fcb[f]
      /\ ~ fcb[f].existe => fcb'[f].tamanio = 0
      /\ \A g \in Archivos : g # f => fcb'[g] = fcb[g]
  BY <1>1, <1>2, <1>4 DEF NoExiste
<1>6. ASSUME NEW g \in Archivos
      PROVE  TamanioVisto(g) = fcb[g].tamanio /\ TamanioVisto(g)' = fcb'[g].tamanio
  BY DEF TamanioVisto, EnTruncado
<1>7. DOMAIN Contenido' = DOMAIN Contenido \cup {f}
  BY <1>5, ContenidoDe, ContenidoLuego
<1>8. ASSUME NEW g \in Archivos, fcb[g].existe
      PROVE  Contenido'[g] = Contenido[g]
  <2>1. fcb'[g] = fcb[g]
    BY <1>5, <1>8
  <2>2. ASSUME NEW i \in 0..(TamanioVisto(g) - 1)
        PROVE  ByteDe(g, i)' = ByteDe(g, i)
    <3>1. BuscarBloque(g, i \div BLOCK_SIZE)' = BuscarBloque(g, i \div BLOCK_SIZE)
      BY <2>1 DEF BuscarBloque
    <3>. QED  BY <2>1, <3>1 DEF ByteDe
  <2>. QED  BY <1>6, <1>8, <2>1, <2>2, MismoContenido
<1>9. ~ fcb[f].existe => Contenido'[f] = Abstracto!Vacio
  <2>. SUFFICES ASSUME ~ fcb[f].existe PROVE Contenido'[f] = Abstracto!Vacio
    OBVIOUS
  <2>1. f \in DOMAIN Contenido' /\ TamanioVisto(f)' = 0
    BY <1>5, <1>6, <1>7
  <2>2. Contenido'[f] = [i \in 0..(TamanioVisto(f)' - 1) |-> ByteDe(f, i)']
    BY <2>1, ContenidoLuego
  <2>3. Contenido'[f] = [i \in 0..(-1) |-> ByteDe(f, i)']
    BY <2>1, <2>2
  <2>4. 0..(-1) = {}
    OBVIOUS
  <2>5. Contenido'[f] = SinDatos
    BY <2>3, <2>4 DEF SinDatos
  <2>. QED  BY <2>5, VacioEsSinDatos
<1>10. Abstracto!SoloCambia(f)
  BY <1>7, <1>8, ContenidoDe DEF Abstracto!SoloCambia
<1>11. Contenido'[f] = IF f \in DOMAIN Contenido THEN Contenido[f]
                       ELSE Abstracto!Vacio
  BY <1>8, <1>9, ContenidoDe
<1>. QED  BY <1>2, <1>3, <1>10, <1>11 DEF Abstracto!Creado

LEMMA FOpenAbre ==
    ASSUME RespuestasInv, BloquesInv, DatosInv, ManejarFOpen
    PROVE  Abstracto!Abrir /\ DatosInv'
<1>1. /\ vivo /\ paso = "OPEN" /\ Responde /\ bloques' = bloques
      /\ fcb' = Creado
  BY DEF ManejarFOpen
<1>2. hecho = 0 /\ traido = SinDatos /\ enviado = SinDatos
  BY <1>1 DEF BloquesInv, VivoInv, EtapaInv, DatosInv
<1>3. paso' # "bloques"
  BY <1>1, RespondeNada
<1>4. peticion # <<>> /\ peticion.op = "OPEN" /\ Abstracto!Creado(peticion.archivo)
  BY <1>1, <1>3, CreadoConserva
<1>. QED  BY <1>1, <1>2, <1>4, RespondeNada DEF Abstracto!Abrir, Abstracto!Sirve

(* leer_datos gives the bytes of the file from the pointer on. *)
LEMMA LeerDatosBien ==
    ASSUME UsoPrevisto, RespuestasInv, BloquesInv, vivo,
           paso \in {"READ", "fin_escritura"}
    PROVE  /\ peticion # <<>> /\ peticion.op = "READ"
           /\ LeerDatos(Servido, peticion.puntero, peticion.tamanio) =
                [i \in Abstracto!Bytes(peticion.tamanio) |->
                    Contenido[peticion.archivo][peticion.puntero + i]]
<1>1. PICK f \in Archivos : f = peticion.archivo /\ f = Servido
  BY ServidoTipo DEF Servido
<1>2. PICK pos, n : pos = peticion.puntero /\ n = peticion.tamanio
  OBVIOUS
<1>3. peticion # <<>> /\ peticion.op = "READ" /\ peticion \in Peticiones
  BY ServidoTipo DEF BloquesInv, VivoInv, EtapaInv
<1>4. pos \in Nat /\ n \in Nat
  BY <1>2, <1>3, PeticionCampos
<1>5. fcb[f].existe /\ pos + n <= fcb[f].tamanio
  BY <1>1, <1>2, <1>3 DEF BloquesInv, VivoInv, PedidosInv, ValidaEn
<1>6. TamanioVisto(f) = fcb[f].tamanio /\ TamanioVisto(f) \in Nat
  BY VistoTipo DEF TamanioVisto, EnTruncado
<1>7. f \in DOMAIN Contenido
  BY <1>5, ContenidoDe
<1>8. Contenido[f] = [j \in 0..(TamanioVisto(f) - 1) |-> ByteDe(f, j)]
  BY <1>7, ContenidoDe
<1>9. ASSUME NEW i \in 0..(n - 1)
      PROVE  bloques[BloqueDe(f, pos, i)].datos[OffsetDe(pos, i)]
                = Contenido[f][pos + i]
  <2>1. i \in Nat /\ pos + i \in 0..(TamanioVisto(f) - 1)
    BY <1>4, <1>5, <1>6, <1>9
  <2>2. /\ BloqueDe(f, pos, i) = BuscarBloque(f, (pos + i) \div BLOCK_SIZE)
        /\ OffsetDe(pos, i) = (pos + i) % BLOCK_SIZE
    BY <1>4, <2>1, ByteEnSuBloque
  <2>3. Contenido[f][pos + i] = ByteDe(f, pos + i)
    BY <1>8, <2>1
  <2>. QED  BY <2>2, <2>3 DEF ByteDe
<1>10. LeerDatos(f, pos, n) = [i \in 0..(n - 1) |-> Contenido[f][pos + i]]
  BY <1>9 DEF LeerDatos
<1>. QED  BY <1>1, <1>2, <1>3, <1>10 DEF Abstracto!Bytes

(* manejar_f_read sends the bytes of the file ... *)
LEMMA FReadLee ==
    ASSUME UsoPrevisto, RespuestasInv, BloquesInv, DatosInv, ManejarFRead
    PROVE  Abstracto!Leer /\ DatosInv'
<1>1. /\ vivo /\ paso = "READ" /\ paso' = "fin_escritura"
      /\ enviado' = LeerDatos(Servido, peticion.puntero, peticion.tamanio)
      /\ UNCHANGED <<bloques, fcb, peticion, traido, hecho, caidas>>
  BY DEF ManejarFRead, disco, ajeno
<1>2. Contenido' = Contenido
  BY <1>1, ContenidoIgual
<1>3. LeerDatos(Servido, peticion.puntero, peticion.tamanio)'
        = LeerDatos(Servido, peticion.puntero, peticion.tamanio)
  BY <1>1 DEF LeerDatos, BloqueDe, BuscarBloque, Servido
<1>4. DatosInv'
  BY <1>1, <1>3 DEF DatosInv
<1>. QED  BY <1>1, <1>2, <1>4, LeerDatosBien DEF Abstracto!Leer, Abstracto!Sirve

(* ... and, until the memory answers, nobody changes them. *)
LEMMA FinEscrituraTermina ==
    ASSUME UsoPrevisto, RespuestasInv, BloquesInv, DatosInv, RecvFinEscritura
    PROVE  Abstracto!FinLeer /\ DatosInv'
<1>1. /\ vivo /\ paso = "fin_escritura" /\ Responde /\ UNCHANGED <<bloques, fcb>>
  BY DEF RecvFinEscritura, disco
<1>2. Contenido' = Contenido
  BY <1>1, RespondeNada, ContenidoIgual
<1>3. /\ enviado = LeerDatos(Servido, peticion.puntero, peticion.tamanio)
      /\ traido = SinDatos /\ hecho = 0
  BY <1>1 DEF DatosInv, BloquesInv, VivoInv, EtapaInv
<1>. QED  BY <1>1, <1>2, <1>3, RespondeNada, LeerDatosBien, VacioEsSinDatos
          DEF Abstracto!FinLeer, Abstracto!Sirve

(* manejar_f_write brings the bytes that it will write. *)
LEMMA FWriteTrae ==
    ASSUME RespuestasInv, BloquesInv, DatosInv, ManejarFWrite
    PROVE  Abstracto!Traer /\ DatosInv'
<1>1. /\ vivo /\ paso = "WRITE" /\ paso' = "escribe"
      /\ DOMAIN traido' = 0..(peticion.tamanio - 1)
      /\ UNCHANGED <<bloques, fcb, peticion, hecho, enviado, caidas>>
  BY DEF ManejarFWrite, disco, ajeno
<1>2. Contenido' = Contenido
  BY <1>1, ContenidoIgual
<1>3. peticion # <<>> /\ peticion.op = "WRITE" /\ hecho = 0 /\ enviado = SinDatos
  BY <1>1, ServidoTipo DEF BloquesInv, VivoInv, EtapaInv, DatosInv
<1>4. DatosInv'
  BY <1>1, <1>3 DEF DatosInv
<1>. QED  BY <1>1, <1>2, <1>3, <1>4
          DEF Abstracto!Traer, Abstracto!Sirve, Abstracto!Bytes

(* A restart forgets the request and keeps the bytes, but between the size *)
(* of a file and its blocks (sano): the file would be seen with bytes that *)
(* are not its own.                                                        *)
LEMMA CaeCae ==
    ASSUME CaeYReinicia, sano'
    PROVE  Abstracto!Caer /\ DatosInv'
<1>1. /\ paso # "bloques" /\ caidas' = caidas + 1 /\ Libera
      /\ UNCHANGED <<bloques, fcb>>
  BY DEF CaeYReinicia, Reinicia, disco
<1>2. Contenido' = Contenido
  BY <1>1, ContenidoIgual DEF Libera
<1>. QED  BY <1>1, <1>2, VacioEsSinDatos DEF Libera, Abstracto!Caer, DatosInv

(* One that finds manejar_f_create at work keeps the file it had created.  *)
LEMMA CaeCreandoCae ==
    ASSUME RespuestasInv, BloquesInv, CaeCreando
    PROVE  Abstracto!Caer /\ DatosInv'
<1>1. /\ vivo /\ paso = "OPEN" /\ caidas' = caidas + 1 /\ Libera
      /\ bloques' = bloques /\ fcb' = Creado
  BY DEF CaeCreando, Reinicia
<1>2. paso' # "bloques"
  BY <1>1 DEF Libera
<1>3. peticion # <<>> /\ peticion.op = "OPEN" /\ Abstracto!Creado(peticion.archivo)
  BY <1>1, <1>2, CreadoConserva
<1>. QED  BY <1>1, <1>3, VacioEsSinDatos
          DEF Libera, Abstracto!Caer, Abstracto!Sirve, DatosInv

(* The end of a truncation, if the bytes that stay are as they were. *)
LEMMA TruncarBien ==
    ASSUME UsoPrevisto, RespuestasInv, BloquesInv, DatosInv, vivo,
           paso = "bloques", Responde, fcb' = fcb,
           ASSUME NEW g \in Archivos, NEW i \in 0..(TamanioVisto(g) - 1),
                  g = Servido => i < peticion.tamanio
           PROVE  ByteDe(g, i)' = ByteDe(g, i)
    PROVE  Abstracto!Truncar /\ DatosInv'
<1>1. PICK f \in Archivos : f = peticion.archivo /\ f = Servido
  BY ServidoTipo DEF Servido
<1>2. PICK n : n = peticion.tamanio
  OBVIOUS
<1>3. /\ peticion # <<>> /\ peticion.op = "TRUNCATE" /\ peticion \in Peticiones
      /\ fcb[f].tamanio = n /\ fcb[f].existe /\ hecho = 0
      /\ traido = SinDatos /\ enviado = SinDatos
  BY <1>1, <1>2, ServidoTipo
  DEF BloquesInv, VivoInv, EtapaInv, PedidosInv, ValidaEn, DatosInv
<1>4. ASSUME NEW g \in Archivos
      PROVE  /\ TamanioVisto(g)' = fcb[g].tamanio
             /\ g # f => TamanioVisto(g) = fcb[g].tamanio
  BY <1>1, RespondeNada DEF TamanioVisto, EnTruncado
<1>5. DOMAIN Contenido' = DOMAIN Contenido /\ f \in DOMAIN Contenido
  BY <1>3, ContenidoDe, ContenidoLuego
<1>6. ASSUME NEW g \in DOMAIN Contenido, g # f
      PROVE  Contenido'[g] = Contenido[g]
  <2>1. g \in Archivos /\ fcb[g].existe /\ fcb'[g].existe
    BY ContenidoDe
  <2>2. TamanioVisto(g)' = TamanioVisto(g)
    BY <1>4, <1>6, <2>1
  <2>3. ASSUME NEW i \in 0..(TamanioVisto(g) - 1)
        PROVE  ByteDe(g, i)' = ByteDe(g, i)
    BY <1>1, <1>6, <2>1
  <2>. QED  BY <2>1, <2>2, <2>3, MismoContenido
<1>7. Contenido'[f] = [i \in 0..(n - 1) |-> ByteDe(f, i)']
  <2>1. Contenido'[f] = [i \in 0..(TamanioVisto(f)' - 1) |-> ByteDe(f, i)']
    BY <1>5, ContenidoLuego
  <2>. QED  BY <1>3, <1>4, <2>1
<1>8. Contenido[f] = [i \in 0..(TamanioVisto(f) - 1) |-> ByteDe(f, i)]
  BY <1>5, ContenidoDe
<1>9. n \in Nat /\ TamanioVisto(f) \in Nat
  BY <1>1, <1>2, <1>3, VistoTipo, PeticionCampos, FileSystemAssumption
<1>10. ASSUME NEW i \in 0..(n - 1), i \in DOMAIN Contenido[f]
       PROVE  Contenido'[f][i] = Contenido[f][i]
  <2>1. i \in 0..(TamanioVisto(f) - 1) /\ i < n
    BY <1>8, <1>9, <1>10
  <2>2. ByteDe(f, i)' = ByteDe(f, i)
    BY <1>2, <2>1
  <2>. QED  BY <1>7, <1>8, <2>1, <2>2
<1>11. Abstracto!SoloCambia(f)
  BY <1>5, <1>6 DEF Abstracto!SoloCambia
<1>12. DOMAIN Contenido'[f] = 0..(n - 1)
  BY <1>7
<1>. QED  BY <1>1, <1>2, <1>3, <1>10, <1>11, <1>12, RespondeNada
          DEF Abstracto!Truncar, Abstracto!Sirve, Abstracto!Bytes

(* The blocks of data that stay in their places keep what they hold. *)
LEMMA FinDeTruncarConserva ==
    ASSUME UsoPrevisto, RespuestasInv, BloquesInv, vivo, paso = "bloques",
           NEW f, NEW t, NEW v, NEW x, Truncando(f, t, v),
           NEW n \in 0..CAPACIDAD, n >= Necesarios(t),
           Cambio(bitmap, bloques, Indirectos, Alturas, f, n, x, bitmap'),
           bloques' = [bloques EXCEPT ![Indirecto] = x], fcb' = fcb,
           NEW g \in Archivos, NEW i \in 0..(TamanioVisto(g) - 1),
           g = f => i < t
    PROVE  ByteDe(g, i)' = ByteDe(g, i)
<1>1. /\ f \in Archivos /\ Directos[f] # SinPuntero /\ t \in Nat
      /\ Indirecto = Indirectos[f] /\ Manos = {}
  BY FileSystemAssumption DEF Truncando
<1>2. PICK bm, bl, di, in, h :
         /\ bm = bitmap /\ bl = bloques
         /\ di = Directos /\ in = Indirectos /\ h = Alturas
  OBVIOUS
<1>3. PICK bj, blj : bj = bitmap' /\ blj = bloques'
  OBVIOUS
<1>4. DiscoBien(bm, bl, di, in, h, {})
  BY <1>1, <1>2 DEF BloquesInv, VivoInv, DiscoInv
<1>5. Cambio(bm, bl, in, h, f, n, x, bj) /\ blj = Puesto(bl, in[f], x)
  BY <1>1, <1>2, <1>3 DEF Puesto
<1>6. PICK k : k = i \div BLOCK_SIZE
  OBVIOUS
<1>7. TamanioVisto(g) \in Nat /\ i \in Nat /\ i < TamanioVisto(g)
  BY VistoTipo
<1>8. /\ k \in 0..CAPACIDAD /\ k \in Sitios(di[g], h[g])
      /\ ByteDe(g, i) = bl[Nombra(bl, di[g], in[g], k)].datos[i % BLOCK_SIZE]
  BY <1>2, <1>6, <1>7, ByteVisto
<1>9. k >= 0 /\ (g = f => k <= n)
  <2>1. g = f => k \in 0..Necesarios(t)
    BY <1>1, <1>6, <1>7, BloqueDentro
  <2>2. CAPACIDAD \in Nat /\ (g = f => Necesarios(t) \in Nat)
    BY <1>1, MedidasBien, NecesariosBien
  <2>. QED  BY <1>8, <2>1, <2>2
<1>10. /\ Nombra(blj, di[g], in[g], k) = Nombra(bl, di[g], in[g], k)
       /\ blj[Nombra(bl, di[g], in[g], k)] = bl[Nombra(bl, di[g], in[g], k)]
  <2>1. di[f] # SinPuntero
    BY <1>1, <1>2
  <2>. QED  BY <1>1, <1>4, <1>5, <1>8, <1>9, <2>1, CambiaConserva
<1>11. BuscarBloque(g, k)' = Nombra(blj, di[g], in[g], k)
  <2>1. di[g] = fcb'[g].directo /\ in[g] = fcb'[g].indirecto
    BY <1>2 DEF Directos, Indirectos
  <2>. QED  BY <1>3, <1>8, <2>1, MedidasBien DEF BuscarBloque, Nombra
<1>12. ByteDe(g, i)' = blj[Nombra(blj, di[g], in[g], k)].datos[i % BLOCK_SIZE]
  BY <1>3, <1>6, <1>11 DEF ByteDe
<1>. QED  BY <1>8, <1>10, <1>12

(* So the end of a truncation truncates the file, or the process dies. *)
LEMMA FinDeTruncarTrunca ==
    ASSUME UsoPrevisto, RespuestasInv, BloquesInv, DatosInv, vivo,
           paso = "bloques", FinDeTruncar
    PROVE  (Quieto \/ Abstracto!Truncar) /\ DatosInv'
<1>1. CASE Muere
  BY <1>1, MuereQuieto
<1>2. CASE ~ Muere
  <2>1. PICK f, t, v, x : \E n \in 0..CAPACIDAD :
            /\ Truncando(f, t, v) /\ n >= Necesarios(t)
            /\ Cambio(bitmap, bloques, Indirectos, Alturas, f, n, x, bitmap')
            /\ bloques' = [bloques EXCEPT ![Indirecto] = x]
    BY <1>2 DEF FinDeTruncar
  <2>2. fcb' = fcb /\ Responde
    BY <1>2 DEF FinDeTruncar
  <2>3. f = Servido /\ t = peticion.tamanio
    BY <2>1 DEF Truncando
  <2>4. ASSUME NEW g \in Archivos, NEW i \in 0..(TamanioVisto(g) - 1),
               g = Servido => i < peticion.tamanio
        PROVE  ByteDe(g, i)' = ByteDe(g, i)
    BY <2>1, <2>2, <2>3, <2>4, FinDeTruncarConserva
  <2>. QED  BY <2>2, <2>4, TruncarBien
<1>. QED  BY <1>1, <1>2

(* And so does one that changes no block. *)
LEMMA MismosBloquesTrunca ==
    ASSUME UsoPrevisto, RespuestasInv, BloquesInv, DatosInv, MismosBloques
    PROVE  Abstracto!Truncar /\ DatosInv'
<1>1. vivo /\ paso = "bloques" /\ Responde /\ bloques' = bloques /\ fcb' = fcb
  BY DEF MismosBloques, disco
<1>2. ASSUME NEW g, NEW i PROVE ByteDe(g, i)' = ByteDe(g, i)
  BY <1>1 DEF ByteDe, BuscarBloque
<1>. QED  BY <1>1, <1>2, TruncarBien

(* What is left of a block, added, leads to the beginning of the next.     *)
LEMMA AlSiguiente ==
    ASSUME NEW b \in Nat, b > 0, NEW a \in Nat, NEW c, c = a + (b - (a % b))
    PROVE  c \in Nat /\ c % b = 0
<1>1. PICK q \in Nat, r \in Nat : r = a % b /\ r < b /\ a = b * q + r
  BY DivNat
<1>2. PICK p \in Nat : p = q + 1
  OBVIOUS
<1>3. b * p = b * q + b
  BY <1>2
<1>4. PICK x \in Nat : x = b * q
  OBVIOUS
<1>5. c = x + b
  BY <1>1, <1>4
<1>6. c = b * p + 0
  BY <1>3, <1>4, <1>5
<1>7. c \in Nat
  BY <1>5
<1>8. c % b = 0
  BY <1>6, DivUnico
<1>. QED  BY <1>7, <1>8

(* A memcpy of escribir_datos that begins at byte i of the access ends     *)
(* with the block or with the access, if the bytes before it ended with    *)
(* the block before.                                                       *)
LEMMA TramoEnUnBloque ==
    ASSUME NEW pos \in Nat, NEW n \in Nat, NEW i \in Nat, i < n,
           i = 0 \/ (pos + i) % BLOCK_SIZE = 0,
           NEW s, s = FinTramo(pos, n, i)
    PROVE  /\ s - i <= BLOCK_SIZE - ((pos + i) % BLOCK_SIZE)
           /\ s < n => (pos + s) % BLOCK_SIZE = 0
<1>1. PICK b \in Nat : b = BLOCK_SIZE /\ b > 0
  BY MedidasBien
<1>2. PICK a \in Nat : a = pos + i
  OBVIOUS
<1>3. PICK r \in Nat : r = a % b /\ r < b
  BY <1>1, Cociente
<1>4. PICK e : e = i + (b - r)
  OBVIOUS
<1>5. FinTramo(pos, n, i) = IF n < e THEN n ELSE e
  <2>1. CASE i = 0
    <3>1. a = pos
      BY <1>2, <2>1
    <3>2. RestanteComienzo(pos) = e
      BY <1>1, <1>3, <1>4, <2>1, <3>1 DEF RestanteComienzo
    <3>. QED  BY <2>1, <3>2 DEF FinTramo
  <2>2. CASE i # 0
    <3>1. r = 0
      BY <1>1, <1>2, <1>3, <2>2
    <3>2. e = i + BLOCK_SIZE
      BY <1>1, <1>4, <3>1
    <3>. QED  BY <2>2, <3>2 DEF FinTramo
  <2>. QED  BY <2>1, <2>2
<1>6. PICK c : c = a + (b - (a % b))
  OBVIOUS
<1>7. c \in Nat /\ c % b = 0
  BY <1>1, <1>6, AlSiguiente
<1>8. pos + e = c
  BY <1>2, <1>3, <1>4, <1>6
<1>9. s = IF n < e THEN n ELSE e
  BY <1>5
<1>10. e \in Int /\ s \in Int
  BY <1>3, <1>4, <1>9
<1>11. s - i <= b - r
  BY <1>3, <1>4, <1>9
<1>12. s < n => s = e
  BY <1>9, <1>10
<1>. QED  BY <1>1, <1>2, <1>3, <1>7, <1>8, <1>11, <1>12

(* The bytes from a on that fit in its block, by their positions in the    *)
(* file and in the block.                                                  *)
LEMMA EnSuTramo ==
    ASSUME NEW b \in Nat, b > 0, NEW a \in Nat, NEW w \in Nat,
           w <= b - (a % b), NEW j \in Nat
    PROVE  /\ j - a \in 0..(w - 1) => j \div b = a \div b
           /\ j \div b = a \div b =>
                 /\ (j - a \in 0..(w - 1)) = ((j % b) - (a % b) \in 0..(w - 1))
                 /\ j - a = (j % b) - (a % b)
<1>1. PICK q \in Nat, r \in Nat :
          q = a \div b /\ r = a % b /\ r < b /\ a = b * q + r
  BY DivNat
<1>2. PICK p \in Nat, t \in Nat :
          p = j \div b /\ t = j % b /\ t < b /\ j = b * p + t
  BY DivNat
<1>3. ASSUME j - a \in 0..(w - 1) PROVE j \div b = a \div b
  <2>1. PICK m \in Nat : m = j - a /\ m < w
    BY <1>3
  <2>2. (a % b) + m < b
    BY <1>1, <2>1
  <2>3. (a + m) \div b = a \div b
    BY <2>2, EnElPrimero
  <2>4. a + m = j
    BY <2>1
  <2>. QED  BY <2>3, <2>4
<1>4. ASSUME p = q PROVE j - a = t - r
  <2>1. PICK x \in Nat : x = b * q
    OBVIOUS
  <2>2. a = x + r /\ j = x + t
    BY <1>1, <1>2, <1>4, <2>1
  <2>. QED  BY <2>2
<1>. QED  BY <1>1, <1>2, <1>3, <1>4

(* What escribir_datos does to a byte of any file: it takes the value      *)
(* brought for it if it is one that this memcpy writes, and stays          *)
(* otherwise.                                                              *)
LEMMA EscribeByte ==
    ASSUME UsoPrevisto, RespuestasInv, BloquesInv, DatosInv, EscribirDatos,
           NEW s, s = FinTramo(peticion.puntero, peticion.tamanio, hecho),
           NEW g \in Archivos, NEW j \in 0..(TamanioVisto(g) - 1)
    PROVE  ByteDe(g, j)' =
              IF g = Servido /\ j - peticion.puntero \in hecho..(s - 1)
              THEN traido[j - peticion.puntero] ELSE ByteDe(g, j)
<1>1. PICK pos, n, i, f : /\ pos = peticion.puntero /\ n = peticion.tamanio
                          /\ i = hecho /\ f = Servido
  OBVIOUS
<1>2. PICK b, d, x :
        /\ b = BloqueDe(f, pos, i)
        /\ d = [o \in Offsets |->
                  IF o - OffsetDe(pos, i) \in 0..(s - i - 1)
                  THEN traido[i + o - OffsetDe(pos, i)] ELSE bloques[b].datos[o]]
        /\ x = BloqueDeDatos(d)
  OBVIOUS
<1>3. /\ vivo /\ paso = "escribe"
      /\ bloques' = [bloques EXCEPT ![b] = x] /\ fcb' = fcb
  BY <1>1, <1>2 DEF EscribirDatos
<1>4. VivoInv /\ TipoEstado
  BY <1>3 DEF BloquesInv
<1>5. f \in Archivos /\ peticion \in Peticiones /\ peticion # <<>>
  BY <1>1, <1>3, ServidoTipo
<1>6. peticion.op = "WRITE" /\ i < n /\ i \in Nat
  BY <1>1, <1>3, <1>4 DEF VivoInv, EtapaInv, TipoEstado
<1>7. pos \in Nat /\ n \in Nat
  BY <1>1, <1>5, <1>6, PeticionCampos
<1>8. PICK a \in Nat : a = pos + i
  BY <1>6, <1>7
<1>9. PICK B \in Nat : B = BLOCK_SIZE /\ B > 0
  BY MedidasBien
<1>10. TamanioVisto(f) = fcb[f].tamanio /\ a < TamanioVisto(f)
  <2>1. TamanioVisto(f) = fcb[f].tamanio /\ fcb[f].tamanio \in Nat
    BY <1>3, <1>4, <1>5 DEF TamanioVisto, EnTruncado, TipoEstado, TipoGuardado,
       TipoFcb
  <2>2. pos + n <= fcb[f].tamanio
    BY <1>1, <1>4, <1>5, <1>6 DEF VivoInv, PedidosInv, ValidaEn, Servido
  <2>. QED  BY <1>6, <1>7, <1>8, <2>1, <2>2
<1>11. PICK k, r : k = a \div B /\ r = a % B
  OBVIOUS
<1>12. BloqueDe(f, pos, i) = BuscarBloque(f, k) /\ OffsetDe(pos, i) = r
  BY <1>6, <1>7, <1>8, <1>9, <1>11, ByteEnSuBloque
<1>13. PICK bm, bl, blj, di, in, h :
         /\ bm = bitmap /\ bl = bloques /\ blj = bloques'
         /\ di = Directos /\ in = Indirectos /\ h = Alturas
  OBVIOUS
<1>14. /\ k \in 0..CAPACIDAD /\ k >= 0 /\ k \in Sitios(di[f], h[f])
       /\ b = Nombra(bl, di[f], in[f], k)
  <2>1. k \in 0..CAPACIDAD /\ k \in Sitios(di[f], h[f])
    BY <1>3, <1>5, <1>9, <1>10, <1>11, <1>13, ByteVisto
  <2>2. k \in Nat /\ (k # 0 => k \in 1..CAPACIDAD)
    BY <2>1, MedidasBien
  <2>3. di[f] = fcb[f].directo /\ in[f] = fcb[f].indirecto
    BY <1>5, <1>13 DEF Directos, Indirectos
  <2>4. BuscarBloque(f, k) = Nombra(bl, di[f], in[f], k)
    BY <1>13, <2>2, <2>3 DEF BuscarBloque, Nombra
  <2>. QED  BY <1>2, <1>12, <2>1, <2>2, <2>4
<1>15. DiscoBien(bm, bl, di, in, h, {})
  <2>1. Manos = {}
    BY <1>3 DEF Manos
  <2>. QED  BY <1>4, <1>13, <2>1 DEF VivoInv, DiscoInv
<1>16. blj = Puesto(bl, Nombra(bl, di[f], in[f], k), x)
  BY <1>3, <1>13, <1>14 DEF Puesto
<1>17. TipoBloque(x) /\ EsDatos(x) /\ x.datos = d
  <2>1. DOMAIN d = Offsets
    BY <1>2
  <2>. QED  BY <1>2, <2>1, DatosBien DEF BloqueDeDatos
<1>18. PICK w \in Nat : w = s - i /\ w <= B - r
  <2>1. i = 0 \/ (pos + i) % BLOCK_SIZE = 0
    BY <1>1, <1>3 DEF DatosInv
  <2>2. s - i <= BLOCK_SIZE - ((pos + i) % BLOCK_SIZE)
    BY <1>1, <1>6, <1>7, <2>1, TramoEnUnBloque
  <2>3. s - i \in Nat
    <3>1. s \in Nat /\ i < s
      BY <1>1, <1>6, <1>7, TramoBien
    <3>. QED  BY <1>6, <3>1
  <2>. QED  BY <1>8, <1>9, <1>11, <2>2, <2>3
<1>19. TamanioVisto(g) \in Nat /\ j \in Nat /\ j < TamanioVisto(g)
  BY <1>3, VistoTipo
<1>20. PICK l, t, c : /\ l = j \div B /\ t = j % B
                      /\ c = Nombra(bl, di[g], in[g], l)
  OBVIOUS
<1>21. /\ l \in 0..CAPACIDAD /\ l \in Sitios(di[g], h[g])
       /\ ByteDe(g, j) = bl[c].datos[t]
  BY <1>3, <1>9, <1>13, <1>19, <1>20, ByteVisto
<1>22. ByteDe(g, j)' = blj[c].datos[t]
  <2>1. Nombra(blj, di[g], in[g], l) = c
    BY <1>5, <1>14, <1>15, <1>16, <1>17, <1>20, <1>21, Escribe
  <2>2. l \in Nat /\ (l # 0 => l \in 1..CAPACIDAD)
    BY <1>21, MedidasBien
  <2>3. di[g] = fcb'[g].directo /\ in[g] = fcb'[g].indirecto
    BY <1>3, <1>13 DEF Directos, Indirectos
  <2>4. BuscarBloque(g, l)' = c
    BY <1>13, <2>1, <2>2, <2>3 DEF BuscarBloque, Nombra
  <2>. QED  BY <1>9, <1>13, <1>20, <2>4 DEF ByteDe
<1>23. c = b => g = f /\ l = k
  BY <1>5, <1>14, <1>15, <1>20, <1>21 DEF DiscoBien, UnSitio
<1>24. b \in Bloques /\ c \in Bloques /\ DOMAIN bl = Bloques
  BY <1>5, <1>14, <1>15, <1>20, <1>21
     DEF DiscoBien, TipoDisco, Marcados
<1>25. PICK z \in Int : z = j - a
  BY <1>8, <1>19
<1>26. /\ (j - pos \in i..(s - 1)) = (z \in 0..(w - 1))
       /\ j - pos = i + z
  <2>1. s \in Nat
    BY <1>1, <1>6, <1>7, TramoBien
  <2>. QED  BY <1>6, <1>7, <1>8, <1>18, <1>19, <1>25, <2>1
<1>27. /\ z \in 0..(w - 1) => l = k
       /\ l = k => (z \in 0..(w - 1)) = (t - r \in 0..(w - 1)) /\ z = t - r
  BY <1>8, <1>9, <1>11, <1>18, <1>19, <1>20, <1>25, EnSuTramo
<1>28. CASE c = b
  <2>1. g = f /\ l = k
    BY <1>23, <1>28
  <2>2. blj[c] = x
    BY <1>14, <1>16, <1>24, <1>28 DEF Puesto
  <2>3. t \in Offsets
    BY <1>9, <1>19, <1>20, Cociente DEF Offsets
  <2>4. ByteDe(g, j)' = IF t - r \in 0..(s - i - 1)
                        THEN traido[i + t - r] ELSE bloques[b].datos[t]
    BY <1>2, <1>12, <1>17, <1>22, <2>2, <2>3
  <2>5. t \in Nat /\ r \in Nat
    BY <1>8, <1>9, <1>11, <1>19, <1>20, Cociente
  <2>6. i + t - r = j - pos
    BY <1>6, <1>26, <1>27, <2>1, <2>5
  <2>7. (t - r \in 0..(s - i - 1)) = (j - pos \in i..(s - 1))
    BY <1>18, <1>26, <1>27, <2>1
  <2>8. bloques[b].datos[t] = ByteDe(g, j)
    BY <1>13, <1>21, <1>28
  <2>. QED  BY <1>1, <2>1, <2>4, <2>6, <2>7, <2>8
<1>29. CASE c # b
  <2>1. blj[c] = bl[c]
    BY <1>14, <1>16, <1>24, <1>29 DEF Puesto
  <2>2. ByteDe(g, j)' = ByteDe(g, j)
    BY <1>21, <1>22, <2>1
  <2>3. ~ (g = f /\ j - pos \in i..(s - 1))
    BY <1>14, <1>20, <1>26, <1>27, <1>29
  <2>. QED  BY <1>1, <2>2, <2>3
<1>. QED  BY <1>28, <1>29

(* So escribir_datos writes in its file the next of the bytes brought.     *)
LEMMA EscribirDatosEscribe ==
    ASSUME UsoPrevisto, RespuestasInv, BloquesInv, DatosInv, EscribirDatos
    PROVE  Abstracto!Escribir /\ DatosInv'
<1>1. PICK f \in Archivos : f = peticion.archivo /\ f = Servido
  BY ServidoTipo DEF EscribirDatos, Servido
<1>2. PICK pos, n, i : pos = peticion.puntero /\ n = peticion.tamanio /\ i = hecho
  OBVIOUS
<1>3. PICK s : s = FinTramo(pos, n, i)
  OBVIOUS
<1>4. /\ vivo /\ paso = "escribe" /\ fcb' = fcb
      /\ IF s = n THEN Responde
         ELSE /\ hecho' = s
              /\ UNCHANGED <<peticion, paso, locales, traido, enviado, ajeno>>
  BY <1>2, <1>3 DEF EscribirDatos
<1>5. peticion \in Peticiones /\ peticion # <<>> /\ peticion.op = "WRITE"
  BY <1>4, ServidoTipo DEF BloquesInv, VivoInv, EtapaInv
<1>6. pos \in Nat /\ n \in Nat
  BY <1>2, <1>5, PeticionCampos
<1>7. i \in Nat /\ i < n
  BY <1>2, <1>4 DEF BloquesInv, TipoEstado, VivoInv, EtapaInv
<1>8. /\ DOMAIN traido = 0..(n - 1) /\ enviado = SinDatos
      /\ i = 0 \/ (pos + i) % BLOCK_SIZE = 0
  BY <1>2, <1>4 DEF DatosInv
<1>9. s \in Nat /\ s <= n /\ i < s
  BY <1>3, <1>6, <1>7, TramoBien
<1>10. fcb[f].existe /\ fcb'[f].existe
  BY <1>1, <1>4, <1>5 DEF BloquesInv, VivoInv, PedidosInv, ValidaEn
<1>11. ASSUME NEW g \in Archivos
       PROVE  TamanioVisto(g)' = TamanioVisto(g)
  <2>1. paso' # "bloques"
    BY <1>4, RespondeNada
  <2>. QED  BY <1>4, <2>1 DEF TamanioVisto, EnTruncado
<1>12. DOMAIN Contenido' = DOMAIN Contenido /\ f \in DOMAIN Contenido
  BY <1>4, <1>10, ContenidoDe, ContenidoLuego
<1>13. ASSUME NEW g \in Archivos, NEW j \in 0..(TamanioVisto(g) - 1)
       PROVE  ByteDe(g, j)' = IF g = f /\ j - pos \in i..(s - 1)
                              THEN traido[j - pos] ELSE ByteDe(g, j)
  BY <1>1, <1>2, <1>3, EscribeByte
<1>14. ASSUME NEW g \in DOMAIN Contenido, g # f
       PROVE  Contenido'[g] = Contenido[g]
  <2>1. g \in Archivos /\ fcb[g].existe /\ fcb'[g].existe
    BY <1>4, ContenidoDe
  <2>2. ASSUME NEW j \in 0..(TamanioVisto(g) - 1)
        PROVE  ByteDe(g, j)' = ByteDe(g, j)
    BY <1>13, <1>14, <2>1
  <2>. QED  BY <1>11, <2>1, <2>2, MismoContenido
<1>15. Abstracto!SoloCambia(f)
  BY <1>12, <1>14 DEF Abstracto!SoloCambia
<1>16. Contenido[f] = [j \in 0..(TamanioVisto(f) - 1) |-> ByteDe(f, j)]
  BY <1>12, ContenidoDe
<1>17. Contenido'[f] = [j \in 0..(TamanioVisto(f) - 1) |-> ByteDe(f, j)']
  <2>1. Contenido'[f] = [j \in 0..(TamanioVisto(f)' - 1) |-> ByteDe(f, j)']
    BY <1>12, ContenidoLuego
  <2>. QED  BY <1>11, <2>1
<1>18. Contenido'[f] = [j \in DOMAIN Contenido[f] |->
                           IF j - pos \in i..(s - 1)
                           THEN traido[j - pos] ELSE Contenido[f][j]]
  <2>1. ASSUME NEW j \in 0..(TamanioVisto(f) - 1)
        PROVE  ByteDe(f, j)' = IF j - pos \in i..(s - 1)
                               THEN traido[j - pos] ELSE Contenido[f][j]
    <3>1. Contenido[f][j] = ByteDe(f, j)
      BY <1>16
    <3>. QED  BY <1>13, <3>1
  <2>2. DOMAIN Contenido[f] = 0..(TamanioVisto(f) - 1)
    BY <1>16
  <2>. QED  BY <1>17, <2>1, <2>2
<1>19. IF s = n THEN peticion' = <<>> /\ hecho' = 0 /\ traido' = SinDatos
       ELSE peticion' = peticion /\ hecho' = s /\ traido' = traido
  BY <1>4, RespondeNada
<1>20. enviado' = enviado /\ caidas' = caidas
  BY <1>4, <1>8, RespondeNada DEF ajeno
<1>21. s \in (i + 1)..n
  BY <1>6, <1>7, <1>9
<1>22. DatosInv'
  <2>1. CASE s = n
    BY <1>4, <2>1, RespondeNada
  <2>2. CASE s # n
    <3>1. s < n
      BY <1>6, <1>9, <2>2
    <3>2. (pos + s) % BLOCK_SIZE = 0
      BY <1>3, <1>6, <1>7, <1>8, <3>1, TramoEnUnBloque
    <3>. QED  BY <1>2, <1>4, <1>8, <2>2, <3>2 DEF DatosInv
  <2>. QED  BY <2>1, <2>2
<1>23. /\ Abstracto!Sirve("WRITE")
       /\ DOMAIN traido = Abstracto!Bytes(peticion.tamanio)
  BY <1>2, <1>5, <1>8 DEF Abstracto!Sirve, Abstracto!Bytes
<1>24. \E hasta \in (hecho + 1) .. peticion.tamanio :
         /\ Contenido'[f] = [j \in DOMAIN Contenido[f] |->
                                IF j - peticion.puntero \in hecho..(hasta - 1)
                                THEN traido[j - peticion.puntero]
                                ELSE Contenido[f][j]]
         /\ IF hasta = peticion.tamanio
            THEN peticion' = <<>> /\ hecho' = 0 /\ traido' = Abstracto!Vacio
            ELSE peticion' = peticion /\ hecho' = hasta /\ traido' = traido
  BY <1>2, <1>18, <1>19, <1>21, VacioEsSinDatos
<1>. QED  BY <1>1, <1>15, <1>20, <1>22, <1>23, <1>24 DEF Abstracto!Escribir

(* The process starts with no file and no request. *)
LEMMA AlmacenInicio == Init => Abstracto!Init /\ DatosInv
<1>. SUFFICES ASSUME Init PROVE Abstracto!Init /\ DatosInv
  OBVIOUS
<1>1. /\ fcb = [f \in Archivos |-> NoExiste] /\ peticion = <<>>
      /\ paso = "espera" /\ traido = SinDatos /\ hecho = 0
      /\ enviado = SinDatos /\ caidas = 0 /\ sano = TRUE
  BY DEF Init
<1>2. DOMAIN Contenido = {}
  <2>1. \A f \in Archivos : ~ fcb[f].existe
    BY <1>1 DEF NoExiste
  <2>. QED  BY <2>1, ContenidoDe
<1>3. Contenido = [f \in {} |-> Abstracto!Vacio]
  <2>1. Contenido = [f \in DOMAIN Contenido |-> Contenido[f]]
    BY DEF Contenido
  <2>. QED  BY <1>2, <2>1
<1>4. Abstracto!Init
  BY <1>1, <1>3, VacioEsSinDatos DEF Abstracto!Init
<1>5. DatosInv
  BY <1>1 DEF DatosInv
<1>. QED  BY <1>4, <1>5

(* Every step does one thing to the store, or nothing. *)
LEMMA AlmacenPaso ==
    ASSUME UsoPrevisto, DiscoGrande, TrabajoInv, BloquesInv, DatosInv, Next,
           sano, sano'
    PROVE  (Quieto \/ Abstracto!Promete) /\ DatosInv'
<1>. RespuestasInv
  BY DEF TrabajoInv
<1>1. HayLugar
  BY LugarSobra
<1>2. CASE Recibe \/ Postea \/ \E f \in Archivos : FClose(f)
  BY <1>2, RecibeQuieto
<1>3. CASE Saca
  BY <1>3, SacaAtiende DEF Abstracto!Promete
<1>4. CASE ManejarFOpen
  BY <1>4, FOpenAbre DEF Abstracto!Promete
<1>5. CASE AsignarPunteros
  BY <1>5, AsignarPunterosQuieto
<1>6. CASE GuardarPunteros
  BY <1>6, GuardarPunterosQuieto
<1>7. CASE GuardarTamanio
  BY <1>7, GuardarTamanioQuieto
<1>8. CASE AsignarBloques
  <2>1. vivo /\ paso = "bloques"
    BY <1>8 DEF AsignarBloques
  <2>. QED  BY <1>1, <1>8, <2>1, AsignarBloquesHace, FinDeTruncarTrunca
            DEF Abstracto!Promete
<1>9. CASE SacarBloques
  <2>1. vivo /\ paso = "bloques"
    BY <1>9 DEF SacarBloques
  <2>. QED  BY <1>9, <2>1, SacarBloquesHace, FinDeTruncarTrunca
            DEF Abstracto!Promete
<1>10. CASE MismosBloques
  BY <1>10, MismosBloquesTrunca DEF Abstracto!Promete
<1>11. CASE ManejarFRead
  BY <1>11, FReadLee DEF Abstracto!Promete
<1>12. CASE RecvFinEscritura
  BY <1>12, FinEscrituraTermina DEF Abstracto!Promete
<1>13. CASE ManejarFWrite
  BY <1>13, FWriteTrae DEF Abstracto!Promete
<1>14. CASE EscribirDatos
  BY <1>14, EscribirDatosEscribe DEF Abstracto!Promete
<1>15. CASE CaeYReinicia
  BY <1>15, CaeCae DEF Abstracto!Promete
<1>16. CASE CaeCreando
  BY <1>16, CaeCreandoCae DEF Abstracto!Promete
<1>17. CASE CaeEnBloques
  BY <1>17 DEF CaeEnBloques, Reinicia
<1>18. CASE TruncaSinTamanio
  BY <1>18, MuereQuieto DEF TruncaSinTamanio
<1>. QED  BY <1>2, <1>3, <1>4, <1>5, <1>6, <1>7, <1>8, <1>9, <1>10, <1>11,
          <1>12, <1>13, <1>14, <1>15, <1>16, <1>17, <1>18 DEF Next, Trabaja

(* A stutter does nothing. *)
LEMMA AlmacenQuieto ==
    ASSUME DatosInv, UNCHANGED vars
    PROVE  Quieto /\ DatosInv'
<1>1. UNCHANGED <<bloques, fcb, peticion, paso, locales, traido, hecho, enviado,
                  vivo, caidas>>
  BY DEF vars, ajeno, datos, disco
<1>. QED  BY <1>1, CopiaQuieta

(* The file system implements the store of the module Almacen: whatever    *)
(* the sizes, the files and the order of requests and restarts, each       *)
(* file holds the bytes written in it at the places they were written,     *)
(* reads give them back, a truncation keeps those that fit, and no         *)
(* request touches the bytes of another file; while sano.                  *)
THEOREM FsImplementaAlmacen ==
    ASSUME UsoPrevisto, DiscoGrande
    PROVE  Spec => ImplementaAlmacen
<1>1. Init => Abstracto!Init /\ (sano => DatosInv)
  BY AlmacenInicio
<1>2. TrabajoInv /\ (sano => DatosInv) /\ [Next]_vars
        => (sano => DatosInv)' /\ [Abstracto!Next]_(Abstracto!vars)
  <2>. SUFFICES ASSUME TrabajoInv, sano => DatosInv, [Next]_vars
                PROVE  (sano => DatosInv)' /\ [Abstracto!Next]_(Abstracto!vars)
    OBVIOUS
  <2>1. CASE ~ sano'
    BY <2>1 DEF Abstracto!Next
  <2>2. CASE sano' /\ Next
    <3>1. sano /\ BloquesInv
      BY <2>2, SanoAntes DEF TrabajoInv
    <3>2. (Quieto \/ Abstracto!Promete) /\ DatosInv'
      BY <2>2, <3>1, AlmacenPaso
    <3>3. sano' = sano
      BY <2>2, <3>1, <2>2 DEF TrabajoInv, RestoInv
    <3>4. Quieto => UNCHANGED Abstracto!vars
      BY <3>3 DEF Quieto, Abstracto!vars
    <3>. QED  BY <3>1, <3>2, <3>4 DEF Abstracto!Next
  <2>3. CASE sano' /\ UNCHANGED vars
    <3>1. sano' = sano
      BY <2>3 DEF vars, ajeno, averias
    <3>2. Quieto /\ DatosInv'
      BY <2>3, <3>1, AlmacenQuieto
    <3>. QED  BY <3>1, <3>2 DEF Quieto, Abstracto!vars
  <2>. QED  BY <2>1, <2>2, <2>3
<1>3. Spec => []TrabajoInv
  BY TrabajoSiempre
<1>. QED  BY <1>1, <1>2, <1>3, PTL DEF Spec, ImplementaAlmacen, Abstracto!Spec

=============================================================================
