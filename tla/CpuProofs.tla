----------------------------- MODULE CpuProofs -----------------------------
(***************************************************************************)
(* For any number of processes, registers, segments and instructions: the  *)
(* CPU answers each dispatch once, and MOV_IN and MOV_OUT reach only       *)
(* memory of the process that executes.                                    *)
(***************************************************************************)
EXTENDS Cpu, SequenceTheorems, TLAPS

(* Who holds the context: the CPU's loop, the wire to it or the wire back, *)
(* one of them at a time, and always for the process the kernel chose.     *)
Turno ==
    /\ proceso # Nadie /\ flagExecute =>
         /\ despachado = proceso /\ enCamino = Nadie /\ enviados = <<>>
    /\ enCamino # Nadie => despachado = enCamino /\ enviados = <<>>
    /\ UnaRespuestaPorDespacho
    /\ pedido # <<>> => proceso # Nadie /\ flagExecute

(* While the memory has a request, the table it was translated with stays. *)
CpuInv == TipoCpu /\ Turno /\ AccesoEnSuSegmento

(* The invariant holds at first: nothing is sent and nobody executes.      *)
LEMMA CpuInicial == Init => CpuInv
  BY CpuAssumption DEF Init, CpuInv, TipoCpu, Turno, AccesoEnSuSegmento,
                       UnaRespuestaPorDespacho

(* An address that passes the test of MOV lies in the segment it names,    *)
(* all of its bytes (traducir_direccion, cpu.c:286-297, 435, 454).         *)
LEMMA Traduccion ==
  ASSUME NEW t \in Tablas, NEW d \in Direcciones, NEW n \in Nat,
         NumSegmento(d) \in DOMAIN t, ~Excede(t, d, n)
  PROVE  /\ DirFisica(t, d) \in Nat
         /\ t[NumSegmento(d)].base <= DirFisica(t, d)
         /\ DirFisica(t, d) + n
              <= t[NumSegmento(d)].base + t[NumSegmento(d)].tamanio
<1>1. t[NumSegmento(d)] \in Segmento
  BY CpuAssumption
<1>2. Desplazamiento(d) \in Nat
  BY CpuAssumption DEF Desplazamiento
<1>3. t[NumSegmento(d)].base \in Nat /\ t[NumSegmento(d)].tamanio \in Nat
  BY <1>1 DEF Segmento
<1>4. QED
  BY <1>2, <1>3 DEF Excede, DirFisica

(* A queue with one message, and its only element. *)
LEMMA ColaUnitaria ==
  ASSUME NEW S, NEW s \in Seq(S), Len(s) = 1
  PROVE  s # <<>> /\ s[1] \in S /\ Head(s) \in S /\ Tail(s) = <<>>
<1>1. s # <<>> /\ s[1] \in S
  BY EmptySeq, ElementOfSeq
<1>2. Head(s) \in S /\ Tail(s) \in Seq(S) /\ Len(Tail(s)) = 0
  BY <1>1, HeadTailProperties
<1>3. Tail(s) = <<>>
  BY <1>2, EmptySeq
<1>4. QED
  BY <1>1, <1>2, <1>3

(* What fetch does to the type of the program counter. *)
LEMMA FetchTipo ==
  ASSUME CpuInv, NEW p \in Pid, Fetch(p)
  PROVE  pedido = <<>> /\ pc' \in [Pid -> 0..(MaxPc + 1)]
  BY CpuAssumption DEF CpuInv, TipoCpu, Fetch

(* With the CPU free for the kernel to give, nothing is going on in it.    *)
LEMMA NadaSinDespachar ==
  ASSUME CpuInv, despachado = Nadie
  PROVE  enviados = <<>> /\ pedido = <<>> /\ ~(proceso # Nadie /\ flagExecute)
<1>1. ~(proceso # Nadie /\ flagExecute) /\ pedido = <<>>
  BY DEF CpuInv, Turno
<1>2. ASSUME enviados # <<>> PROVE FALSE
  <2>1. Len(enviados) = 1 /\ enviados[1].pid = Nadie
    BY <1>2 DEF CpuInv, Turno, UnaRespuestaPorDespacho
  <2>2. enviados[1] \in [pid : Pid, op : Operaciones, dir : Nat, n : Nat]
    BY <2>1, ColaUnitaria DEF CpuInv, TipoCpu
  <2>3. QED
    BY <2>1, <2>2, CpuAssumption
<1>3. QED
  BY <1>1, <1>2

(* Every step keeps the invariant, action by action.                       *)
LEMMA CpuPaso == CpuInv /\ [Next]_vars => CpuInv'
<1> SUFFICES ASSUME CpuInv, [Next]_vars PROVE CpuInv'
  OBVIOUS
<1> USE CpuAssumption
<1>1. ASSUME NEW p \in Pid, KernelDespacha(p) PROVE CpuInv'
  <2>1. enviados = <<>> /\ pedido = <<>> /\ ~(proceso # Nadie /\ flagExecute)
    BY <1>1, NadaSinDespachar DEF KernelDespacha
  <2>2. TipoCpu'
    BY <1>1 DEF CpuInv, TipoCpu, KernelDespacha
  <2>3. Turno'
    BY <1>1, <2>1 DEF Turno, UnaRespuestaPorDespacho, KernelDespacha
  <2>4. AccesoEnSuSegmento'
    BY <1>1, <2>1 DEF AccesoEnSuSegmento, KernelDespacha
  <2>5. QED
    BY <2>2, <2>3, <2>4 DEF CpuInv
<1>2. CASE KernelRecibe
  <2> DEFINE Mensaje == [pid : Pid, op : Operaciones, dir : Nat, n : Nat]
  <2>1. enviados \in Seq(Mensaje) /\ enviados # <<>> /\ Len(enviados) = 1
    BY <1>2 DEF CpuInv, TipoCpu, Turno, UnaRespuestaPorDespacho, KernelRecibe
  <2>2. Head(enviados) \in Mensaje /\ Tail(enviados) = <<>>
    BY <2>1, ColaUnitaria
  <2>3. Tail(enviados) \in Seq(Mensaje) /\ Head(enviados).pid \in Pid
    <3>1. <<>> \in Seq(Mensaje)
      BY EmptySeq
    <3>2. QED
      BY <2>2, <3>1
  <2>4. TipoCpu'
    BY <1>2, <2>3 DEF CpuInv, TipoCpu, KernelRecibe, contextos
  <2>5. ~(proceso # Nadie /\ flagExecute) /\ pedido = <<>> /\ enCamino = Nadie
    BY <2>1 DEF CpuInv, Turno, UnaRespuestaPorDespacho
  <2>6. Turno'
    BY <1>2, <2>2, <2>5 DEF Turno, UnaRespuestaPorDespacho, KernelRecibe
  <2>7. AccesoEnSuSegmento'
    BY <1>2, <2>5 DEF AccesoEnSuSegmento, KernelRecibe
  <2>8. QED
    BY <2>4, <2>6, <2>7 DEF CpuInv
<1>3. CASE RecibeContexto
  BY <1>3 DEF CpuInv, TipoCpu, Turno, AccesoEnSuSegmento,
              UnaRespuestaPorDespacho, RecibeContexto, contextos
<1>4. CASE FinCiclo
  BY <1>4 DEF CpuInv, TipoCpu, Turno, AccesoEnSuSegmento,
              UnaRespuestaPorDespacho, FinCiclo, contextos, kernel
<1>5. CASE FinEscritura
  BY <1>5 DEF CpuInv, TipoCpu, Turno, AccesoEnSuSegmento,
              UnaRespuestaPorDespacho, FinEscritura, contextos, kernel
<1>6. ASSUME NEW v \in Valores, FinLectura(v) PROVE CpuInv'
  BY <1>6 DEF CpuInv, TipoCpu, Turno, AccesoEnSuSegmento,
              UnaRespuestaPorDespacho, FinLectura, SetValor, contextos, kernel
<1>7. ASSUME NEW p \in Pid, NEW r \in Registros, NEW v \in Valores, Set(p, r, v)
      PROVE CpuInv'
  BY <1>7 DEF CpuInv, TipoCpu, Turno, AccesoEnSuSegmento,
              UnaRespuestaPorDespacho, Set, Fetch, SetValor, kernel
<1>8. ASSUME NEW p \in Pid, NEW op \in {"MOV_IN", "MOV_OUT"},
             NEW r \in Registros, NEW d \in Direcciones, Mov(p, op, r, d)
      PROVE CpuInv'
  <2>1. TamRegistro(r) \in Nat
    BY DEF TamRegistro
  <2>2. tabla[p] \in Tablas
    BY DEF CpuInv, TipoCpu
  <2>3. /\ DirFisica(tabla[p], d) \in Nat
        /\ tabla[p][NumSegmento(d)].base <= DirFisica(tabla[p], d)
        /\ DirFisica(tabla[p], d) + TamRegistro(r)
             <= tabla[p][NumSegmento(d)].base + tabla[p][NumSegmento(d)].tamanio
    BY <1>8, <2>1, <2>2, Traduccion DEF Mov
  <2>4. TipoCpu'
    BY <1>8, <2>3 DEF CpuInv, TipoCpu, Mov, Fetch, kernel
  <2>5. Turno'
    BY <1>8 DEF CpuInv, Turno, UnaRespuestaPorDespacho, Mov, Fetch, kernel
  <2>6. AccesoEnSuSegmento'
    BY <1>8, <2>3 DEF AccesoEnSuSegmento, Mov, Fetch, kernel
  <2>7. QED
    BY <2>4, <2>5, <2>6 DEF CpuInv
<1>9. ASSUME NEW p \in Pid, NEW r \in Registros, NEW d \in Direcciones,
             SegFault(p, r, d)
      PROVE CpuInv'
  <2>1. enviados = <<>>
    BY <1>9 DEF CpuInv, Turno, SegFault, Fetch
  <2>2. enviados' = <<[pid |-> p, op |-> "SEG_FAULT", dir |-> 0, n |-> 0]>>
        /\ enviados' \in Seq([pid : Pid, op : Operaciones, dir : Nat, n : Nat])
    <3>1. "SEG_FAULT" \in Operaciones /\ 0 \in Nat
      BY DEF Operaciones
    <3>2. enviados' = Envia(enviados, p, "SEG_FAULT", 0, 0)
      BY <1>9 DEF SegFault
    <3>3. QED
      BY <2>1, <3>1, <3>2 DEF Envia
  <2>3. TipoCpu'
    BY <1>9, <2>2, FetchTipo DEF CpuInv, TipoCpu, SegFault,
              FlagTrasSegFault, kernel
  <2>4. Turno'
    BY <1>9, <2>2 DEF CpuInv, Turno, UnaRespuestaPorDespacho, SegFault, Fetch,
              FlagTrasSegFault, kernel
  <2>5. AccesoEnSuSegmento'
    BY <1>9, <2>2 DEF AccesoEnSuSegmento, SegFault, Fetch,
              FlagTrasSegFault, kernel
  <2>6. QED
    BY <2>3, <2>4, <2>5 DEF CpuInv
<1>10. ASSUME NEW p \in Pid, NEW d \in Direcciones, SegmentoInexistente(p, d)
       PROVE CpuInv'
  <2>1. TipoCpu'
    BY <1>10, FetchTipo DEF CpuInv, TipoCpu, SegmentoInexistente, kernel
  <2>2. Turno'
    BY <1>10 DEF CpuInv, Turno, UnaRespuestaPorDespacho, SegmentoInexistente, Fetch,
              kernel
  <2>3. AccesoEnSuSegmento'
    BY <1>10 DEF AccesoEnSuSegmento, SegmentoInexistente, Fetch,
              kernel
  <2>4. QED
    BY <2>1, <2>2, <2>3 DEF CpuInv
<1>11. ASSUME NEW p \in Pid, NEW op \in Devoluciones, Devuelve(p, op)
       PROVE CpuInv'
  <2>1. enviados = <<>>
    BY <1>11 DEF CpuInv, Turno, Devuelve, Fetch
  <2>2. enviados' = <<[pid |-> p, op |-> op, dir |-> 0, n |-> 0]>>
        /\ enviados' \in Seq([pid : Pid, op : Operaciones, dir : Nat, n : Nat])
    <3>1. op \in Operaciones /\ 0 \in Nat
      BY DEF Operaciones
    <3>2. enviados' = Envia(enviados, p, op, 0, 0)
      BY <1>11 DEF Devuelve
    <3>3. QED
      BY <2>1, <3>1, <3>2 DEF Envia
  <2>3. TipoCpu'
    BY <1>11, <2>2, FetchTipo DEF CpuInv, TipoCpu, Devuelve, kernel
  <2>4. Turno'
    BY <1>11, <2>2 DEF CpuInv, Turno, UnaRespuestaPorDespacho, Devuelve, Fetch, kernel
  <2>5. AccesoEnSuSegmento'
    BY <1>11, <2>2 DEF AccesoEnSuSegmento, Devuelve, Fetch, kernel
  <2>6. QED
    BY <2>3, <2>4, <2>5 DEF CpuInv
<1>12. ASSUME NEW p \in Pid, NEW op \in AccesosFs, NEW d \in Direcciones,
              NEW n \in Cantidades, DevuelveAccesoFs(p, op, d, n)
       PROVE CpuInv'
  <2> DEFINE dir == DirFisica(tabla[p], d)
  <2>1. enviados = <<>>
    BY <1>12 DEF CpuInv, Turno, DevuelveAccesoFs, Fetch
  <2>2. dir \in Nat /\ n \in Nat
    <3>1. tabla[p] \in Tablas /\ NumSegmento(d) \in DOMAIN tabla[p]
      BY <1>12 DEF CpuInv, TipoCpu, DevuelveAccesoFs
    <3>2. tabla[p][NumSegmento(d)].base \in Nat
      BY <3>1 DEF Segmento
    <3>3. Desplazamiento(d) \in Nat
      BY DEF Desplazamiento
    <3>4. QED
      BY <3>2, <3>3 DEF DirFisica
  <2>3. enviados' = <<[pid |-> p, op |-> op, dir |-> dir, n |-> n]>>
        /\ enviados' \in Seq([pid : Pid, op : Operaciones, dir : Nat, n : Nat])
    <3>1. op \in Operaciones
      BY DEF Operaciones
    <3>2. enviados' = Envia(enviados, p, op, dir, n)
      BY <1>12 DEF DevuelveAccesoFs
    <3>3. QED
      BY <2>1, <2>2, <3>1, <3>2 DEF Envia
  <2>4. TipoCpu'
    BY <1>12, <2>3, FetchTipo DEF CpuInv, TipoCpu, DevuelveAccesoFs, kernel
  <2>5. Turno'
    BY <1>12, <2>3 DEF CpuInv, Turno, UnaRespuestaPorDespacho, DevuelveAccesoFs,
              Fetch, kernel
  <2>6. AccesoEnSuSegmento'
    BY <1>12, <2>3 DEF AccesoEnSuSegmento, DevuelveAccesoFs, Fetch, kernel
  <2>7. QED
    BY <2>4, <2>5, <2>6 DEF CpuInv
<1>13. CASE UNCHANGED vars
  BY <1>13 DEF CpuInv, TipoCpu, Turno, AccesoEnSuSegmento,
              UnaRespuestaPorDespacho, vars, contextos, kernel
<1>14. CASE Reposo
  BY <1>13, <1>14 DEF Reposo
<1>15. QED
  BY <1>1, <1>2, <1>3, <1>4, <1>5, <1>6, <1>7, <1>8, <1>9, <1>10, <1>11,
     <1>12, <1>13, <1>14 DEF Next, Ciclo

(* In every behaviour the invariant holds. *)
THEOREM CpuInvariante == Spec => []CpuInv
  BY CpuInicial, CpuPaso, PTL DEF Spec

(* Registers, tables and messages of cpu.c keep their types, whatever the  *)
(* program does.                                                           *)
THEOREM TipoCpuCorrecto == Spec => []TipoCpu
<1>1. CpuInv => TipoCpu
  BY DEF CpuInv
<1>2. QED
  BY <1>1, CpuInvariante, PTL

(* One context and one operation come back for each context the kernel     *)
(* sends, of the process it sent (cpu.c:64-69, 414-421, 561-565).          *)
THEOREM RespuestaUnica == Spec => []UnaRespuestaPorDespacho
<1>1. CpuInv => UnaRespuestaPorDespacho
  BY DEF CpuInv, Turno
<1>2. QED
  BY <1>1, CpuInvariante, PTL

(* MOV_IN and MOV_OUT touch only bytes of the executing process's own      *)
(* segments, whatever the addresses in its program (cpu.c:430-467).        *)
THEOREM AccesoPropio == Spec => []AccesoEnSuSegmento
<1>1. CpuInv => AccesoEnSuSegmento
  BY DEF CpuInv
<1>2. QED
  BY <1>1, CpuInvariante, PTL
=============================================================================
