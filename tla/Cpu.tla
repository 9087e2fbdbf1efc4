-------------------------------- MODULE Cpu --------------------------------
(***************************************************************************)
(* The CPU process of TUKI (cpu/src/cpu.c): one thread that receives the   *)
(* context of a process, executes its instructions one after another, and  *)
(* sends it back with the operation that made it stop.                     *)
(*                                                                         *)
(* The processor's registers are ONE global structure; each context has a  *)
(* copy of its own.  Programs are open: a process executes any             *)
(* instructions, at most MaxPc of them before its EXIT.  What the kernel   *)
(* and the memory do is reduced to what the CPU can see of it.             *)
(***************************************************************************)
EXTENDS Integers, Sequences

CONSTANTS
    Pid, Nadie,
    Registros,         \* the registers the programs use
    Valores, Vacio,    \* what a register may hold, and what it holds at first
    Direcciones,       \* logical addresses the programs use
    Cantidades,        \* numbers of bytes the programs read or write in files
    TAM_MAX_SEGMENTO,
    Tablas,            \* segment tables the memory may give a process
    MaxPc              \* bound: length of a program

Nombres4  == {"AX", "BX", "CX", "DX"}
Nombres8  == {"EAX", "EBX", "ECX", "EDX"}
Nombres16 == {"RAX", "RBX", "RCX", "RDX"}

Segmento == [base : Nat, tamanio : Nat]

ASSUME CpuAssumption ==
    /\ Nadie \notin Pid
    /\ Registros \subseteq Nombres4 \cup Nombres8 \cup Nombres16
    /\ Vacio \in Valores
    /\ Direcciones \subseteq Nat /\ Cantidades \subseteq Nat
    /\ TAM_MAX_SEGMENTO \in Nat \ {0}
    /\ \A t \in Tablas : DOMAIN t \subseteq Nat /\ \A s \in DOMAIN t : t[s] \in Segmento
    /\ MaxPc \in Nat

VARIABLES
    pc,          \* contexto->program_counter
    regContexto, \* contexto->registros
    tabla,       \* contexto->tabla_de_segmentos
    registros,   \* the global registros
    proceso,     \* the process whose instructions are being executed
    flagExecute, \* flag_execute
    pedido,      \* the request the memory has not answered, or <<>>
    enviados,    \* contexts and operations sent, not yet received
    enCamino,    \* the process whose context the kernel sent, not yet received
    despachado,  \* the process the kernel has given the CPU to
    terminados,  \* processes that ended
    viva,        \* FALSE: the CPU dereferenced a null pointer
    propios      \* history: what each process last put in its registers

contextos == <<pc, regContexto, tabla>>
kernel    == <<enCamino, despachado, terminados>>
vars == <<contextos, registros, proceso, flagExecute, pedido, enviados, kernel,
          viva, propios>>

(* The operations that give the context back (send_* after it), those that *)
(* carry an address of the memory apart.                                   *)
Devoluciones ==
    {"YIELD", "EXIT", "IO", "WAIT", "SIGNAL", "CREATE_SEGMENT",
     "DELETE_SEGMENT", "F_OPEN", "F_CLOSE", "F_SEEK", "F_TRUNCATE"}

AccesosFs == {"F_READ", "F_WRITE"}

Operaciones == Devoluciones \cup AccesosFs \cup {"SEG_FAULT"}

Finales == {"EXIT", "SEG_FAULT"}

-----------------------------------------------------------------------------
(* obtener_tamanio_registro. *)
TamRegistro(r) == IF r \in Nombres4 THEN 4 ELSE IF r \in Nombres8 THEN 8 ELSE 16

(* The two parts of a logical address (traducir_direccion). *)
NumSegmento(d)    == d \div TAM_MAX_SEGMENTO
Desplazamiento(d) == d % TAM_MAX_SEGMENTO

(* Faulty variants of the definitions that follow, for the mutation runs. *)
DirFisicaRestada(t, d) == t[NumSegmento(d)].base - Desplazamiento(d)
ExcedeSinTamanio(t, d, n) == Desplazamiento(d) >= t[NumSegmento(d)].tamanio
SigueEjecutando == TRUE
EnviaSinSegFault(s, p, op, d, n) ==
    IF op = "SEG_FAULT" THEN s
    ELSE Append(s, [pid |-> p, op |-> op, dir |-> d, n |-> n])

DirFisica(t, d) == t[NumSegmento(d)].base + Desplazamiento(d)

(* The test of ejecutar_mov_in and ejecutar_mov_out. *)
Excede(t, d, n) == n + Desplazamiento(d) > t[NumSegmento(d)].tamanio

(* What manejar_seg_fault leaves in flag_execute. *)
FlagTrasSegFault == FALSE

(* send_contexto_ejecucion followed by the operation, with the physical    *)
(* address and the size an access to a file carries (0 and 0 otherwise).   *)
Envia(s, p, op, d, n) ==
    Append(s, [pid |-> p, op |-> op, dir |-> d, n |-> n])

(* set_valor_registro. *)
SetValor(regs, r, v) == [regs EXCEPT ![r] = v]

Init ==
    /\ pc = [p \in Pid |-> 0]
    /\ regContexto = [p \in Pid |-> [r \in Registros |-> Vacio]]
    /\ tabla \in [Pid -> Tablas]
    /\ registros = [r \in Registros |-> Vacio]
    /\ proceso = Nadie /\ flagExecute = TRUE
    /\ pedido = <<>> /\ enviados = <<>>
    /\ enCamino = Nadie /\ despachado = Nadie /\ terminados = {}
    /\ viva = TRUE
    /\ propios = [p \in Pid |-> [r \in Registros |-> Vacio]]

-----------------------------------------------------------------------------
(* The kernel gives the CPU to a process, whose segments it may have       *)
(* created, deleted or moved since, and takes back what the CPU sends.     *)

KernelDespacha(p) ==
    /\ despachado = Nadie /\ p \notin terminados
    /\ despachado' = p /\ enCamino' = p
    /\ \E t \in Tablas : tabla' = [tabla EXCEPT ![p] = t]
    /\ UNCHANGED <<pc, regContexto, registros, proceso, flagExecute, pedido,
                   enviados, terminados, viva, propios>>

KernelRecibe ==
    /\ enviados # <<>>
    /\ enviados' = Tail(enviados)
    /\ despachado' = Nadie
    /\ terminados' = IF Head(enviados).op \in Finales
                     THEN terminados \cup {Head(enviados).pid} ELSE terminados
    /\ UNCHANGED <<contextos, registros, proceso, flagExecute, pedido, enCamino,
                   viva, propios>>

-----------------------------------------------------------------------------
(* CONTEXTO_EJECUCION: the global registers keep what they had. *)
RecibeContexto ==
    /\ viva /\ proceso = Nadie /\ enCamino # Nadie
    /\ proceso' = enCamino /\ enCamino' = Nadie
    /\ flagExecute' = TRUE
    /\ UNCHANGED <<contextos, registros, pedido, enviados, despachado,
                   terminados, viva, propios>>

(* fetch, when the loop of ejecutar_ciclo_de_instrucciones goes on.  The   *)
(* last instruction of every program is its EXIT.                          *)
Fetch(p) ==
    /\ viva /\ flagExecute /\ pedido = <<>>
    /\ proceso = p
    /\ pc[p] <= MaxPc
    /\ pc' = [pc EXCEPT ![p] = @ + 1]

Set(p, r, v) ==
    /\ Fetch(p) /\ pc[p] < MaxPc
    /\ registros' = SetValor(registros, r, v)
    /\ regContexto' = [regContexto EXCEPT ![p] = registros']
    /\ propios' = [propios EXCEPT ![p][r] = v]
    /\ UNCHANGED <<tabla, proceso, flagExecute, pedido, enviados, kernel, viva>>

(* MOV_IN and MOV_OUT send the request and wait for the memory's answer. *)
Mov(p, op, r, d) ==
    /\ Fetch(p) /\ pc[p] < MaxPc
    /\ NumSegmento(d) \in DOMAIN tabla[p]
    /\ ~Excede(tabla[p], d, TamRegistro(r))
    /\ pedido' = <<op, r, DirFisica(tabla[p], d)>>
    /\ UNCHANGED <<regContexto, tabla, registros, proceso, flagExecute,
                   enviados, kernel, viva, propios>>

(* The value read goes to the global register, not to the context. *)
FinLectura(v) ==
    /\ viva /\ pedido # <<>> /\ pedido[1] = "MOV_IN"
    /\ registros' = SetValor(registros, pedido[2], v)
    /\ propios' = [propios EXCEPT ![proceso][pedido[2]] = v]
    /\ pedido' = <<>>
    /\ UNCHANGED <<contextos, proceso, flagExecute, enviados, kernel, viva>>

FinEscritura ==
    /\ viva /\ pedido # <<>> /\ pedido[1] = "MOV_OUT"
    /\ pedido' = <<>>
    /\ UNCHANGED <<contextos, registros, proceso, flagExecute, enviados, kernel,
                   viva, propios>>

(* manejar_seg_fault. *)
SegFault(p, r, d) ==
    /\ Fetch(p) /\ pc[p] < MaxPc
    /\ NumSegmento(d) \in DOMAIN tabla[p]
    /\ Excede(tabla[p], d, TamRegistro(r))
    /\ enviados' = Envia(enviados, p, "SEG_FAULT", 0, 0)
    /\ flagExecute' = FlagTrasSegFault
    /\ UNCHANGED <<regContexto, tabla, registros, proceso, pedido, kernel, viva,
                   propios>>

(* obtener_segmento_de_tabla returned NULL and traducir_direccion uses it: *)
(* in MOV_IN, MOV_OUT, F_READ or F_WRITE.                                  *)
SegmentoInexistente(p, d) ==
    /\ Fetch(p) /\ pc[p] < MaxPc
    /\ NumSegmento(d) \notin DOMAIN tabla[p]
    /\ viva' = FALSE
    /\ UNCHANGED <<regContexto, tabla, registros, proceso, flagExecute, pedido,
                   enviados, kernel, propios>>

(* The remaining instructions clear the flag, then send the context. *)
Devuelve(p, op) ==
    /\ Fetch(p) /\ (pc[p] = MaxPc => op = "EXIT")
    /\ flagExecute' = FALSE
    /\ enviados' = Envia(enviados, p, op, 0, 0)
    /\ UNCHANGED <<regContexto, tabla, registros, proceso, pedido, kernel, viva,
                   propios>>

(* ejecutar_f_read and ejecutar_f_write translate the address and send it  *)
(* with the size: the test of MOV is not made here.                        *)
DevuelveAccesoFs(p, op, d, n) ==
    /\ Fetch(p) /\ pc[p] < MaxPc
    /\ NumSegmento(d) \in DOMAIN tabla[p]
    /\ flagExecute' = FALSE
    /\ enviados' = Envia(enviados, p, op, DirFisica(tabla[p], d), n)
    /\ UNCHANGED <<regContexto, tabla, registros, proceso, pedido, kernel, viva,
                   propios>>

(* The loop ends and the thread goes back to recv. *)
FinCiclo ==
    /\ viva /\ proceso # Nadie /\ ~flagExecute
    /\ proceso' = Nadie
    /\ UNCHANGED <<contextos, registros, flagExecute, pedido, enviados, kernel,
                   viva, propios>>

-----------------------------------------------------------------------------
Reposo == terminados = Pid /\ UNCHANGED vars

Ciclo ==
    \/ RecibeContexto \/ FinCiclo \/ FinEscritura
    \/ \E v \in Valores : FinLectura(v)
    \/ \E p \in Pid :
         \/ \E r \in Registros, v \in Valores : Set(p, r, v)
         \/ \E r \in Registros, d \in Direcciones :
              \/ Mov(p, "MOV_IN", r, d) \/ Mov(p, "MOV_OUT", r, d)
              \/ SegFault(p, r, d)
         \/ \E d \in Direcciones : SegmentoInexistente(p, d)
         \/ \E op \in Devoluciones : Devuelve(p, op)
         \/ \E op \in AccesosFs, d \in Direcciones, n \in Cantidades :
              DevuelveAccesoFs(p, op, d, n)

Next ==
    \/ \E p \in Pid : KernelDespacha(p)
    \/ KernelRecibe
    \/ Ciclo
    \/ Reposo

Spec == Init /\ [][Next]_vars

(* The CPU executes what it has and the memory answers it. *)
FairSpec == Spec /\ WF_vars(Ciclo)

-----------------------------------------------------------------------------
(* Every variable of cpu.c keeps its type. *)
TipoCpu ==
    /\ pc \in [Pid -> 0..(MaxPc + 1)]
    /\ regContexto \in [Pid -> [Registros -> Valores]]
    /\ tabla \in [Pid -> Tablas]
    /\ registros \in [Registros -> Valores]
    /\ proceso \in Pid \cup {Nadie}
    /\ flagExecute \in BOOLEAN
    /\ pedido = <<>> \/ pedido \in {"MOV_IN", "MOV_OUT"} \X Registros \X Nat
    /\ enviados \in Seq([pid : Pid, op : Operaciones, dir : Nat, n : Nat])
    /\ enCamino \in Pid \cup {Nadie} /\ despachado \in Pid \cup {Nadie}
    /\ terminados \subseteq Pid
    /\ viva \in BOOLEAN
    /\ propios \in [Pid -> [Registros -> Valores]]

(* Every byte MOV_IN reads and MOV_OUT writes is inside a segment of the   *)
(* process that executes it (cpu.c:435, 454).  It says nothing of F_READ   *)
(* and F_WRITE, which are not tested: see AccesoFsEnSuSegmento.            *)
AccesoEnSuSegmento ==
    pedido # <<>> =>
        \E s \in DOMAIN tabla[proceso] :
            LET seg == tabla[proceso][s] IN
            /\ seg.base <= pedido[3]
            /\ pedido[3] + TamRegistro(pedido[2]) <= seg.base + seg.tamanio

(* The same of the bytes F_READ and F_WRITE name, which go to the memory   *)
(* through the kernel and the file system.  The code does not keep it:     *)
(* nobody compares the offset and the size with the segment                *)
(* (cpu.c:498-514, kernel.c:291-333).                                      *)
AccesoFsEnSuSegmento ==
    \A i \in DOMAIN enviados :
        enviados[i].op \in AccesosFs =>
            \E s \in DOMAIN tabla[enviados[i].pid] :
                LET seg == tabla[enviados[i].pid][s] IN
                /\ seg.base <= enviados[i].dir
                /\ enviados[i].dir + enviados[i].n <= seg.base + seg.tamanio

(* One answer for each dispatch: what is on its way to the kernel is one   *)
(* operation, of the process the kernel gave the CPU to, and no context is *)
(* on its way back (cpu.c:64-69, 414-421, 561-565).                        *)
UnaRespuestaPorDespacho ==
    enviados # <<>> =>
        /\ Len(enviados) = 1
        /\ enviados[1].pid = despachado
        /\ enCamino = Nadie

(* While a process executes, the registers hold what it last put in them.  *)
(* It is so while only one process exists (cpu.c:64-69).                   *)
RegistrosDelProceso ==
    proceso # Nadie /\ flagExecute => registros = propios[proceso]

(* A process given the CPU comes back to the kernel, unless it names a     *)
(* segment it does not have, which kills the CPU (cpu.c:291-294).          *)
TodoDespachoVuelve ==
    \A p \in Pid :
        enCamino = p ~> \/ ~viva
                        \/ \E i \in DOMAIN enviados : enviados[i].pid = p
=============================================================================
