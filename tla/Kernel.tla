------------------------------- MODULE Kernel -------------------------------
(***************************************************************************)
(* The kernel process of TUKI (kernel/src/kernel.c): its process control   *)
(* blocks, the lists they travel through, the semaphores that pace the     *)
(* threads, and every operation the CPU, the file system and the memory    *)
(* ask of it.                                                              *)
(*                                                                         *)
(* One action is one step of one thread: the thread's semaphore waits, one *)
(* access to data another thread also touches, and the semaphore posts     *)
(* that follow it.  A wait can be delayed and a post advanced without any  *)
(* thread noticing, and each list operation runs under the list's mutex,   *)
(* so the longer runs of code between two shared accesses are one step.    *)
(* Where the code accesses shared data WITHOUT a lock (fs_mem_op_count,    *)
(* and cola_block when the file-system thread adds to it) the load and     *)
(* the store are steps of their own.                                       *)
(***************************************************************************)
EXTENDS Integers, Sequences, FiniteSets

CONSTANTS
    Pid,            \* the processes consoles may start
    Nadie,          \* "no process", what an idle thread or CPU holds
    Recursos,       \* RECURSOS: names of the configured resources
    UltimoRecurso,  \* the last entry of RECURSOS
    INSTANCIAS_RECURSOS,  \* their initial instances
    Pedidos,        \* resource names the programs use in WAIT and SIGNAL
    Archivos,       \* file names
    GRADO_MAX_MULTIPROGRAMACION,
    ALGORITMO_PLANIFICACION,
    Programa,       \* the instructions each process may execute
    MaxInstancias,  \* bound: no SIGNAL beyond this many instances
    MaxCuenta       \* bound: no F_READ/F_WRITE once the counter drifts past it

Instrucciones ==
    {"YIELD", "EXIT", "SEG_FAULT", "IO", "WAIT", "SIGNAL",
     "CREATE_SEGMENT", "DELETE_SEGMENT", "F_OPEN", "F_CLOSE", "F_SEEK",
     "F_RW", "F_TRUNCATE"}

ASSUME KernelAssumption ==
    /\ Nadie \notin Pid
    /\ UltimoRecurso \in Recursos
    /\ INSTANCIAS_RECURSOS \in [Recursos -> Nat]
    /\ GRADO_MAX_MULTIPROGRAMACION \in Nat \ {0}
    /\ ALGORITMO_PLANIFICACION \in {"FIFO", "HRRN"}
    /\ Programa \in [Pid -> SUBSET Instrucciones]
    /\ MaxInstancias \in Nat
    /\ MaxCuenta \in Nat \ {0}

ASSUME PidFinito == IsFiniteSet(Pid)

VARIABLES
    estado,        \* contexto_de_ejecucion->estado of each process
    motivo,        \* contexto_de_ejecucion->motivo_exit
    cola,          \* the kernel's lists of PCBs
    sem,           \* its semaphores
    mano,          \* the PCB each thread holds outside every list
    cpu,           \* the process whose context the CPU has
    pcCpu,         \* where the CPU-connection thread (procesar_conexion) is
    regCpu,        \* its register copy of fs_mem_op_count
    archCpu,       \* the file it waits for in ejecutar_f_open
    paso,          \* the list it scans next in actualizar_ts_de_pcbs
    pcFs,          \* where the file-system thread (procesar_conexion_fs) is
    regFs,         \* its register copy of fs_mem_op_count
    previa,        \* cola_block as its list_add found it
    fsMemOpCount,  \* fs_mem_op_count
    instancias,    \* recurso->instancias
    idValido,      \* recurso->id # -1
    enRecurso,     \* recurso->cola_block_asignada
    abiertos,      \* archivos_abiertos, the global table
    archivosDe,    \* pcb->archivos_abiertos
    enArchivo,     \* archivo->cola_block_asignada
    puntero,       \* archivo->puntero
    io,            \* processes whose exec_io thread sleeps
    peticiones,    \* requests sent to the file system, not yet served
    respuestas,    \* its answers, not yet received
    conSegmentos,  \* processes that own segments in memory
    tsObsoleta,    \* processes whose kernel segment table is out of date
    perdidos,      \* PCBs a racing list_add dropped from cola_block
    vivo           \* FALSE once a thread has taken a PCB from an empty list

pcbs       == <<estado, motivo>>
hiloCpu    == <<pcCpu, regCpu, archCpu, paso>>
hiloFs     == <<pcFs, regFs, previa>>
recursos   == <<instancias, idValido, enRecurso>>
archivos   == <<abiertos, archivosDe, enArchivo, puntero>>
fileSystem == <<peticiones, respuestas>>
memoria    == <<conSegmentos, tsObsoleta>>

vars == <<pcbs, cola, sem, mano, cpu, hiloCpu, hiloFs, fsMemOpCount, recursos,
          archivos, io, fileSystem, memoria, perdidos, vivo>>

-----------------------------------------------------------------------------
(* Names of things. *)

Estados == {"NO_CREADO", "NEW", "READY", "EXEC", "BLOCK",
            "FINISH_EXIT", "FINISH_ERROR", "DESTRUIDO"}

Motivos == {"NINGUNO", "SUCCESS", "SEG_FAULT", "RECURSO_INEXISTENTE",
            "OUT_OF_MEMORY"}

Colas == {"listos", "ready", "exec", "blockIo", "block", "exit", "blockFs"}

Semaforos == {"multiprog", "listos", "ready", "exec", "exit", "block",
              "ongoing", "finFOpen"}

Hilos == {"ready", "block", "exec", "cpu", "fs"}

(* Faulty variants of the definitions below, for the mutation runs. *)
AgregaAlFrente(c, q, p) ==
    [c EXCEPT ![q] = IF q = "blockFs" THEN <<p>> \o @ ELSE Append(@, p)]
SacaSinQuitar(c, q) == IF q = "block" THEN c ELSE [c EXCEPT ![q] = Tail(@)]
PostBinario(s, k) == [s EXCEPT ![k] = 1]
PostSin(s, k, olvidado) == IF k = olvidado THEN s ELSE [s EXCEPT ![k] = @ + 1]
PostSinMultiprog(s, k) == PostSin(s, k, "multiprog")
PostSinBlock(s, k)     == PostSin(s, k, "block")
PostSinOngoing(s, k)   == PostSin(s, k, "ongoing")
PostSinFinFOpen(s, k)  == PostSin(s, k, "finFOpen")
EsperaDoble(s, k) == [s EXCEPT ![k] = @ - 2]
EsperaSin(s, k, olvidado) ==
    IF k = olvidado THEN s ELSE [s EXCEPT ![k] = @ - 1]
EsperaSinBlock(s, k)     == EsperaSin(s, k, "block")
EsperaSinExec(s, k)      == EsperaSin(s, k, "exec")
EsperaSinMultiprog(s, k) == EsperaSin(s, k, "multiprog")
EsperaSinOngoing(s, k)   == EsperaSin(s, k, "ongoing")
DesalojaABlock(p, q) ==
    /\ cola' = [cola EXCEPT !["exec"] = Tail(@),
                            ![IF q = "exit" THEN "block" ELSE q] = Append(@, p)]
    /\ cpu' = Nadie
DebeEsperarDeMas(r) == instancias[r] - 1 <= 0
AbiertoSiEsperan(a) == enArchivo[a] # <<>>
OrdenTsSinReady ==
    <<"listos", "exec", "blockIo", "block", "exit", "blockFs", "blockFs">>

(* The lists actualizar_ts_de_pcbs walks, one lock at a time, before the   *)
(* queues of the resources and of the files.                               *)
OrdenTs == <<"ready", "listos", "exec", "blockIo", "block", "exit", "blockFs">>

Peticion == [op : {"F_OPEN", "F_RW", "F_TRUNCATE"}, pid : Pid]

Ocupantes(s) == {s[i] : i \in DOMAIN s}

(* Steps on the lists and semaphores: list_add, list_remove of the head,   *)
(* sem_post and sem_wait (taken only where the semaphore is positive).     *)
Agrega(c, q, p) == [c EXCEPT ![q] = Append(@, p)]
Saca(c, q)      == [c EXCEPT ![q] = Tail(@)]
Post(s, k)      == [s EXCEPT ![k] = @ + 1]
Espera(s, k)    == [s EXCEPT ![k] = @ - 1]

(* manejar_wait and manejar_signal test the count they have just changed. *)
DebeEsperar(r)    == instancias[r] - 1 < 0
HayQuienEspera(r) == instancias[r] + 1 <= 0

EstaAbierto(a) == a \in abiertos

Init ==
    /\ estado = [p \in Pid |-> "NO_CREADO"]
    /\ motivo = [p \in Pid |-> "NINGUNO"]
    /\ cola = [q \in Colas |-> <<>>]
    /\ sem = [k \in Semaforos |->
                IF k = "multiprog" THEN GRADO_MAX_MULTIPROGRAMACION
                ELSE IF k \in {"exec", "ongoing"} THEN 1 ELSE 0]
    /\ mano = [h \in Hilos |-> Nadie]
    /\ cpu = Nadie
    /\ pcCpu = "recv" /\ regCpu = 0 /\ archCpu = Nadie /\ paso = 1
    /\ pcFs = "recv" /\ regFs = 0 /\ previa = <<>>
    /\ fsMemOpCount = 0
    /\ instancias = INSTANCIAS_RECURSOS
    /\ idValido = [r \in Recursos |-> TRUE]
    /\ enRecurso = [r \in Recursos |-> <<>>]
    /\ abiertos = {}
    /\ archivosDe = [p \in Pid |-> {}]
    /\ enArchivo = [a \in Archivos |-> <<>>]
    /\ puntero = [a \in Archivos |-> 0]
    /\ io = {}
    /\ peticiones = <<>> /\ respuestas = <<>>
    /\ conSegmentos = {} /\ tsObsoleta = {}
    /\ perdidos = {} /\ vivo = TRUE

-----------------------------------------------------------------------------
(* Long-term planning: a console's thread builds the PCB, ready_pcb admits *)
(* it while the degree of multiprogramming allows, exit_pcb destroys it.   *)

(* armar_pcb: the memory creates the process, its PCB joins the queue. *)
ArmarPcb(p) ==
    /\ vivo /\ estado[p] = "NO_CREADO"
    /\ estado' = [estado EXCEPT ![p] = "NEW"]
    /\ cola' = Agrega(cola, "listos", p)
    /\ sem' = Post(sem, "listos")
    /\ UNCHANGED <<motivo, mano, cpu, hiloCpu, hiloFs, fsMemOpCount,
                   recursos, archivos, io, fileSystem, memoria, perdidos,
                   vivo>>

ReadyToma ==
    /\ vivo /\ mano["ready"] = Nadie
    /\ sem["listos"] > 0 /\ cola["listos"] # <<>>
    /\ sem' = Espera(sem, "listos")
    /\ mano' = [mano EXCEPT !["ready"] = Head(cola["listos"])]
    /\ cola' = Saca(cola, "listos")
    /\ UNCHANGED <<pcbs, cpu, hiloCpu, hiloFs, fsMemOpCount, recursos,
                   archivos, io, fileSystem, memoria, perdidos, vivo>>

ReadyAdmite ==
    LET p == mano["ready"] IN
    /\ vivo /\ p # Nadie
    /\ sem["multiprog"] > 0
    /\ estado' = [estado EXCEPT ![p] = "READY"]
    /\ cola' = Agrega(cola, "ready", p)
    /\ sem' = Post(Espera(sem, "multiprog"), "ready")
    /\ mano' = [mano EXCEPT !["ready"] = Nadie]
    /\ UNCHANGED <<motivo, cpu, hiloCpu, hiloFs, fsMemOpCount, recursos,
                   archivos, io, fileSystem, memoria, perdidos, vivo>>

(* exit_pcb: tells the console, has the memory drop the process, frees the *)
(* PCB and gives its place back.  Neither the resource instances nor the   *)
(* files the process holds are given back.                                 *)
HiloExit ==
    LET p == Head(cola["exit"]) IN
    /\ vivo /\ sem["exit"] > 0 /\ cola["exit"] # <<>>
    /\ estado' = [estado EXCEPT ![p] = "DESTRUIDO"]
    /\ cola' = Saca(cola, "exit")
    /\ sem' = Post(Espera(sem, "exit"), "multiprog")
    /\ archivosDe' = [archivosDe EXCEPT ![p] = {}]
    /\ conSegmentos' = conSegmentos \ {p}
    /\ tsObsoleta' = tsObsoleta \ {p}
    /\ UNCHANGED <<motivo, mano, cpu, hiloCpu, hiloFs, fsMemOpCount,
                   recursos, abiertos, enArchivo, puntero, io, fileSystem,
                   perdidos, vivo>>

-----------------------------------------------------------------------------
(* Medium-term: the thread of block_return_pcb readies unblocked processes *)
(* and exec_io sleeps.  (An empty cola_block is in Muere, below.)          *)

BlockToma ==
    /\ vivo /\ mano["block"] = Nadie
    /\ sem["block"] > 0 /\ cola["block"] # <<>>
    /\ sem' = Espera(sem, "block")
    /\ mano' = [mano EXCEPT !["block"] = Head(cola["block"])]
    /\ cola' = Saca(cola, "block")
    /\ UNCHANGED <<pcbs, cpu, hiloCpu, hiloFs, fsMemOpCount, recursos,
                   archivos, io, fileSystem, memoria, perdidos, vivo>>

BlockDevuelve ==
    LET p == mano["block"] IN
    /\ vivo /\ p # Nadie
    /\ estado' = [estado EXCEPT ![p] = "READY"]
    /\ cola' = Agrega(cola, "ready", p)
    /\ sem' = Post(sem, "ready")
    /\ mano' = [mano EXCEPT !["block"] = Nadie]
    /\ UNCHANGED <<motivo, cpu, hiloCpu, hiloFs, fsMemOpCount, recursos,
                   archivos, io, fileSystem, memoria, perdidos, vivo>>

(* exec_io after its usleep. *)
FinIO(p) ==
    /\ vivo /\ p \in io
    /\ io' = io \ {p}
    /\ cola' = Agrega(cola, "block", p)
    /\ sem' = Post(sem, "block")
    /\ UNCHANGED <<pcbs, mano, cpu, hiloCpu, hiloFs, fsMemOpCount, recursos,
                   archivos, fileSystem, memoria, perdidos, vivo>>

-----------------------------------------------------------------------------
(* Short-term planning (exec_pcb).  HRRN sorts by a ratio of waiting time, *)
(* which the model leaves open: any waiting process may win.               *)

Elegibles ==
    IF ALGORITMO_PLANIFICACION = "FIFO" THEN DOMAIN cola["ready"] \cap {1}
                                        ELSE DOMAIN cola["ready"]

SinIndice(s, i) == [j \in 1..(Len(s) - 1) |-> IF j < i THEN s[j] ELSE s[j + 1]]

ExecElige ==
    /\ vivo /\ mano["exec"] = Nadie
    /\ sem["ready"] > 0 /\ sem["exec"] > 0
    /\ \E i \in Elegibles :
         /\ mano' = [mano EXCEPT !["exec"] = cola["ready"][i]]
         /\ cola' = [cola EXCEPT !["ready"] = SinIndice(@, i)]
    /\ sem' = Espera(Espera(sem, "ready"), "exec")
    /\ UNCHANGED <<pcbs, cpu, hiloCpu, hiloFs, fsMemOpCount, recursos,
                   archivos, io, fileSystem, memoria, perdidos, vivo>>

ExecDespacha ==
    LET p == mano["exec"] IN
    /\ vivo /\ p # Nadie
    /\ estado' = [estado EXCEPT ![p] = "EXEC"]
    /\ cola' = Agrega(cola, "exec", p)
    /\ cpu' = p
    /\ mano' = [mano EXCEPT !["exec"] = Nadie]
    /\ UNCHANGED <<motivo, sem, hiloCpu, hiloFs, fsMemOpCount, recursos,
                   archivos, io, fileSystem, memoria, perdidos, vivo>>

-----------------------------------------------------------------------------
(* The CPU-connection thread.  A context arrives, the thread takes the     *)
(* HEAD of cola_exec for the PCB it belongs to, and handles the operation. *)

Recibe(p, instruccion) ==
    /\ vivo /\ pcCpu = "recv" /\ cpu # Nadie
    /\ instruccion \in Programa[cpu]
    /\ cola["exec"] # <<>> /\ p = Head(cola["exec"])

(* The process leaves the CPU for list q and the CPU becomes free. *)
Desaloja(p, q) ==
    /\ cola' = Agrega(Saca(cola, "exec"), q, p)
    /\ cpu' = Nadie

(* The process goes back to cola_exec and its context back to the CPU. *)
Reanuda(c, p) ==
    /\ cola' = Agrega(Saca(c, "exec"), "exec", p)
    /\ cpu' = p

(* CAMBIAR_ESTADO to READY. *)
Yield(p) ==
    /\ Recibe(p, "YIELD")
    /\ estado' = [estado EXCEPT ![p] = "READY"]
    /\ Desaloja(p, "ready")
    /\ sem' = Post(Post(sem, "ready"), "exec")
    /\ UNCHANGED <<motivo, mano, hiloCpu, hiloFs, fsMemOpCount, recursos,
                   archivos, io, fileSystem, memoria, perdidos, vivo>>

(* CAMBIAR_ESTADO to FINISH_EXIT, or to FINISH_ERROR after a segmentation  *)
(* fault, whose reason the CPU wrote in the context.                       *)
Termina(p, instruccion, final, causa) ==
    /\ Recibe(p, instruccion)
    /\ estado' = [estado EXCEPT ![p] = final]
    /\ motivo' = [motivo EXCEPT ![p] = causa]
    /\ Desaloja(p, "exit")
    /\ sem' = Post(Post(sem, "exit"), "exec")
    /\ UNCHANGED <<mano, hiloCpu, hiloFs, fsMemOpCount, recursos, archivos,
                   io, fileSystem, memoria, perdidos, vivo>>

Exit(p)     == Termina(p, "EXIT", "FINISH_EXIT", "SUCCESS")
SegFault(p) == Termina(p, "SEG_FAULT", "FINISH_ERROR", "SEG_FAULT")

(* MANEJAR_IO: the PCB is handed to a new thread and is in no list. *)
ManejarIO(p) ==
    /\ Recibe(p, "IO")
    /\ estado' = [estado EXCEPT ![p] = "BLOCK"]
    /\ cola' = Saca(cola, "exec") /\ cpu' = Nadie
    /\ sem' = Post(sem, "exec")
    /\ io' = io \cup {p}
    /\ UNCHANGED <<motivo, mano, hiloCpu, hiloFs, fsMemOpCount, recursos,
                   archivos, fileSystem, memoria, perdidos, vivo>>

-----------------------------------------------------------------------------
(* Resources. *)

(* buscar_recurso does not find r, or finds the one whose id an earlier    *)
(* failed search overwrote: the process ends, its state still EXEC.  The   *)
(* failed search writes -1 into the last resource it looked at.            *)
RecursoFallido(p, r) ==
    /\ \E i \in {"WAIT", "SIGNAL"} : Recibe(p, i)
    /\ r \in Recursos => ~idValido[r]
    /\ motivo' = [motivo EXCEPT ![p] = "RECURSO_INEXISTENTE"]
    /\ idValido' = IF r \in Recursos THEN idValido
                   ELSE [idValido EXCEPT ![UltimoRecurso] = FALSE]
    /\ Desaloja(p, "exit")
    /\ sem' = Post(Post(sem, "exit"), "exec")
    /\ UNCHANGED <<estado, mano, hiloCpu, hiloFs, fsMemOpCount, instancias,
                   enRecurso, archivos, io, fileSystem, memoria, perdidos,
                   vivo>>

WaitObtiene(p, r) ==
    /\ Recibe(p, "WAIT")
    /\ r \in Recursos /\ idValido[r] /\ ~DebeEsperar(r)
    /\ instancias' = [instancias EXCEPT ![r] = @ - 1]
    /\ Reanuda(cola, p)
    /\ UNCHANGED <<pcbs, sem, mano, hiloCpu, hiloFs, fsMemOpCount, idValido,
                   enRecurso, archivos, io, fileSystem, memoria, perdidos,
                   vivo>>

WaitBloquea(p, r) ==
    /\ Recibe(p, "WAIT")
    /\ r \in Recursos /\ idValido[r] /\ DebeEsperar(r)
    /\ instancias' = [instancias EXCEPT ![r] = @ - 1]
    /\ estado' = [estado EXCEPT ![p] = "BLOCK"]
    /\ enRecurso' = [enRecurso EXCEPT ![r] = Append(@, p)]
    /\ cola' = Saca(cola, "exec") /\ cpu' = Nadie
    /\ sem' = Post(sem, "exec")
    /\ UNCHANGED <<motivo, mano, hiloCpu, hiloFs, fsMemOpCount, idValido,
                   archivos, io, fileSystem, memoria, perdidos, vivo>>

SignalLibera(p, r) ==
    /\ Recibe(p, "SIGNAL")
    /\ r \in Recursos /\ idValido[r] /\ ~HayQuienEspera(r)
    /\ instancias[r] < MaxInstancias
    /\ instancias' = [instancias EXCEPT ![r] = @ + 1]
    /\ Reanuda(cola, p)
    /\ UNCHANGED <<pcbs, sem, mano, hiloCpu, hiloFs, fsMemOpCount, idValido,
                   enRecurso, archivos, io, fileSystem, memoria, perdidos,
                   vivo>>

SignalDespierta(p, r) ==
    /\ Recibe(p, "SIGNAL")
    /\ r \in Recursos /\ idValido[r] /\ HayQuienEspera(r)
    /\ enRecurso[r] # <<>>
    /\ instancias' = [instancias EXCEPT ![r] = @ + 1]
    /\ enRecurso' = [enRecurso EXCEPT ![r] = Tail(@)]
    /\ Reanuda(Agrega(cola, "block", Head(enRecurso[r])), p)
    /\ sem' = Post(sem, "block")
    /\ UNCHANGED <<pcbs, mano, hiloCpu, hiloFs, fsMemOpCount, idValido,
                   archivos, io, fileSystem, memoria, perdidos, vivo>>

-----------------------------------------------------------------------------
(* Files.  Programs use a file between their own F_OPEN and F_CLOSE. *)

(* F_OPEN of a file nobody has open: the PCB waits in cola_block_fs, the   *)
(* thread itself waits for the file system's answer.                       *)
FOpenPide(p, a) ==
    /\ Recibe(p, "F_OPEN")
    /\ a \notin archivosDe[p] /\ ~EstaAbierto(a)
    /\ Desaloja(p, "blockFs")
    /\ peticiones' = Append(peticiones, [op |-> "F_OPEN", pid |-> p])
    /\ mano' = [mano EXCEPT !["cpu"] = p]
    /\ pcCpu' = "fOpen" /\ archCpu' = a
    /\ UNCHANGED <<pcbs, sem, regCpu, paso, hiloFs, fsMemOpCount, recursos,
                   archivos, io, respuestas, memoria, perdidos, vivo>>

FOpenFin ==
    LET p == mano["cpu"] IN
    /\ vivo /\ pcCpu = "fOpen"
    /\ sem["finFOpen"] > 0
    /\ sem' = Espera(sem, "finFOpen")
    /\ abiertos' = abiertos \cup {archCpu}
    /\ archivosDe' = [archivosDe EXCEPT ![p] = @ \cup {archCpu}]
    /\ puntero' = [puntero EXCEPT ![archCpu] = 0]
    /\ cola' = Agrega(cola, "exec", p) /\ cpu' = p
    /\ mano' = [mano EXCEPT !["cpu"] = Nadie]
    /\ pcCpu' = "recv" /\ archCpu' = Nadie
    /\ UNCHANGED <<pcbs, regCpu, paso, hiloFs, fsMemOpCount, recursos,
                   enArchivo, io, fileSystem, memoria, perdidos, vivo>>

(* F_OPEN of a file another process has open: wait in its queue. *)
FOpenBloquea(p, a) ==
    /\ Recibe(p, "F_OPEN")
    /\ a \notin archivosDe[p] /\ EstaAbierto(a)
    /\ estado' = [estado EXCEPT ![p] = "BLOCK"]
    /\ archivosDe' = [archivosDe EXCEPT ![p] = @ \cup {a}]
    /\ enArchivo' = [enArchivo EXCEPT ![a] = Append(@, p)]
    /\ cola' = Saca(cola, "exec") /\ cpu' = Nadie
    /\ sem' = Post(sem, "exec")
    /\ UNCHANGED <<motivo, mano, hiloCpu, hiloFs, fsMemOpCount, recursos,
                   abiertos, puntero, io, fileSystem, memoria, perdidos,
                   vivo>>

(* F_CLOSE hands the file to the first process in its queue, or closes it. *)
FClose(p, a) ==
    /\ Recibe(p, "F_CLOSE")
    /\ a \in archivosDe[p]
    /\ archivosDe' = [archivosDe EXCEPT ![p] = @ \ {a}]
    /\ \/ /\ enArchivo[a] # <<>>
          /\ enArchivo' = [enArchivo EXCEPT ![a] = Tail(@)]
          /\ Reanuda(Agrega(cola, "block", Head(enArchivo[a])), p)
          /\ sem' = Post(sem, "block")
          /\ UNCHANGED abiertos
       \/ /\ enArchivo[a] = <<>>
          /\ abiertos' = abiertos \ {a}
          /\ Reanuda(cola, p)
          /\ UNCHANGED <<enArchivo, sem>>
    /\ UNCHANGED <<pcbs, mano, hiloCpu, hiloFs, fsMemOpCount, recursos,
                   puntero, io, fileSystem, memoria, perdidos, vivo>>

FSeek(p, a) ==
    /\ Recibe(p, "F_SEEK")
    /\ a \in archivosDe[p]
    /\ \E n \in {0, 1} : puntero' = [puntero EXCEPT ![a] = n]
    /\ Reanuda(cola, p)
    /\ UNCHANGED <<pcbs, sem, mano, hiloCpu, hiloFs, fsMemOpCount, recursos,
                   abiertos, archivosDe, enArchivo, io, fileSystem, memoria,
                   perdidos, vivo>>

FTruncate(p) ==
    /\ Recibe(p, "F_TRUNCATE")
    /\ archivosDe[p] # {}
    /\ estado' = [estado EXCEPT ![p] = "BLOCK"]
    /\ Desaloja(p, "blockFs")
    /\ peticiones' = Append(peticiones, [op |-> "F_TRUNCATE", pid |-> p])
    /\ sem' = Post(sem, "exec")
    /\ UNCHANGED <<motivo, mano, hiloCpu, hiloFs, fsMemOpCount, recursos,
                   archivos, io, respuestas, memoria, perdidos, vivo>>

(* F_READ and F_WRITE count the operations in flight to keep compaction    *)
(* out: if the counter reads 0, wait for ongoing_fs_mem_op, then increment *)
(* it.  The file-system thread decrements it with no lock between them.    *)
FRwRecibe(p) ==
    /\ Recibe(p, "F_RW")
    /\ archivosDe[p] # {}
    /\ fsMemOpCount \in (-MaxCuenta)..MaxCuenta /\ sem["ongoing"] <= MaxCuenta
    /\ cola' = Saca(cola, "exec") /\ cpu' = Nadie
    /\ mano' = [mano EXCEPT !["cpu"] = p]
    /\ pcCpu' = IF fsMemOpCount = 0 THEN "espera" ELSE "carga"
    /\ UNCHANGED <<pcbs, sem, regCpu, archCpu, paso, hiloFs, fsMemOpCount,
                   recursos, archivos, io, fileSystem, memoria, perdidos,
                   vivo>>

FRwCarga ==
    /\ vivo
    /\ \/ /\ pcCpu = "espera" /\ sem["ongoing"] > 0
          /\ sem' = Espera(sem, "ongoing")
       \/ /\ pcCpu = "carga"
          /\ UNCHANGED sem
    /\ regCpu' = fsMemOpCount
    /\ pcCpu' = "guarda"
    /\ UNCHANGED <<pcbs, cola, mano, cpu, archCpu, paso, hiloFs,
                   fsMemOpCount, recursos, archivos, io, fileSystem, memoria,
                   perdidos, vivo>>

FRwGuarda ==
    LET p == mano["cpu"] IN
    /\ vivo /\ pcCpu = "guarda"
    /\ fsMemOpCount' = regCpu + 1
    /\ estado' = [estado EXCEPT ![p] = "BLOCK"]
    /\ cola' = Agrega(cola, "blockFs", p)
    /\ peticiones' = Append(peticiones, [op |-> "F_RW", pid |-> p])
    /\ sem' = Post(sem, "exec")
    /\ mano' = [mano EXCEPT !["cpu"] = Nadie]
    /\ pcCpu' = "recv" /\ regCpu' = 0
    /\ UNCHANGED <<motivo, cpu, archCpu, paso, hiloFs, recursos, archivos,
                   io, respuestas, memoria, perdidos, vivo>>

-----------------------------------------------------------------------------
(* Segments.  What the memory answers is left open. *)

SegmentoCreado(p) ==
    /\ Recibe(p, "CREATE_SEGMENT")
    /\ conSegmentos' = conSegmentos \cup {p}
    /\ Reanuda(cola, p)
    /\ UNCHANGED <<pcbs, sem, mano, hiloCpu, hiloFs, fsMemOpCount, recursos,
                   archivos, io, fileSystem, tsObsoleta, perdidos, vivo>>

SinMemoria(p) ==
    /\ Recibe(p, "CREATE_SEGMENT")
    /\ motivo' = [motivo EXCEPT ![p] = "OUT_OF_MEMORY"]
    /\ Desaloja(p, "exit")
    /\ sem' = Post(Post(sem, "exit"), "exec")
    /\ UNCHANGED <<estado, mano, hiloCpu, hiloFs, fsMemOpCount, recursos,
                   archivos, io, fileSystem, memoria, perdidos, vivo>>

PideCompactar(p) ==
    /\ Recibe(p, "CREATE_SEGMENT")
    /\ cola' = Saca(cola, "exec") /\ cpu' = Nadie
    /\ mano' = [mano EXCEPT !["cpu"] = p]
    /\ pcCpu' = "compactar"
    /\ UNCHANGED <<pcbs, sem, regCpu, archCpu, paso, hiloFs, fsMemOpCount,
                   recursos, archivos, io, fileSystem, memoria, perdidos,
                   vivo>>

CompactaInicia ==
    /\ vivo /\ pcCpu = "compactar"
    /\ sem["ongoing"] > 0
    /\ sem' = Espera(sem, "ongoing")
    /\ pcCpu' = "compacta"
    /\ UNCHANGED <<pcbs, cola, mano, cpu, regCpu, archCpu, paso, hiloFs,
                   fsMemOpCount, recursos, archivos, io, fileSystem, memoria,
                   perdidos, vivo>>

(* The memory has moved the segments of the processes in M and sent the    *)
(* tables of all; the PCB goes back to cola_exec to be updated with them.  *)
CompactaFin(M) ==
    /\ vivo /\ pcCpu = "compacta"
    /\ tsObsoleta' = tsObsoleta \cup M
    /\ sem' = Post(sem, "ongoing")
    /\ cola' = Agrega(cola, "exec", mano["cpu"])
    /\ mano' = [mano EXCEPT !["cpu"] = Nadie]
    /\ pcCpu' = "actualiza" /\ paso' = 1
    /\ UNCHANGED <<pcbs, cpu, regCpu, archCpu, hiloFs, fsMemOpCount,
                   recursos, archivos, io, fileSystem, conSegmentos,
                   perdidos, vivo>>

(* actualizar_ts_de_pcbs, one list under its lock. *)
ActualizaCola ==
    /\ vivo /\ pcCpu = "actualiza" /\ paso <= Len(OrdenTs)
    /\ tsObsoleta' = tsObsoleta \ Ocupantes(cola[OrdenTs[paso]])
    /\ paso' = paso + 1
    /\ UNCHANGED <<pcbs, cola, sem, mano, cpu, pcCpu, regCpu, archCpu,
                   hiloFs, fsMemOpCount, recursos, archivos, io, fileSystem,
                   conSegmentos, perdidos, vivo>>

(* The queues of resources and files, which only this thread touches; then *)
(* manejar_create_segment again: after compacting, the segment fits.       *)
CompactaSigue ==
    LET p == Head(cola["exec"])
        vistos == UNION ({Ocupantes(enRecurso[r]) : r \in Recursos}
                         \cup {Ocupantes(enArchivo[a]) : a \in abiertos})
    IN
    /\ vivo /\ pcCpu = "actualiza" /\ paso > Len(OrdenTs)
    /\ cola["exec"] # <<>>
    /\ tsObsoleta' = tsObsoleta \ vistos
    /\ conSegmentos' = conSegmentos \cup {p}
    /\ Reanuda(cola, p)
    /\ pcCpu' = "recv" /\ paso' = 1
    /\ UNCHANGED <<pcbs, sem, mano, regCpu, archCpu, hiloFs, fsMemOpCount,
                   recursos, archivos, io, fileSystem, perdidos, vivo>>

(* The memory's answer is the process's whole, current table. *)
DeleteSegment(p) ==
    /\ Recibe(p, "DELETE_SEGMENT")
    /\ p \in conSegmentos
    /\ conSegmentos' \in {conSegmentos, conSegmentos \ {p}}
    /\ tsObsoleta' = tsObsoleta \ {p}
    /\ Reanuda(cola, p)
    /\ UNCHANGED <<pcbs, sem, mano, hiloCpu, hiloFs, fsMemOpCount, recursos,
                   archivos, io, fileSystem, perdidos, vivo>>

-----------------------------------------------------------------------------
(* The file system serves requests one by one, in order, and the kernel's  *)
(* file-system thread takes the head of cola_block_fs for each answer.     *)

FsAtiende ==
    /\ vivo /\ peticiones # <<>>
    /\ respuestas' = Append(respuestas, Head(peticiones))
    /\ peticiones' = Tail(peticiones)
    /\ UNCHANGED <<pcbs, cola, sem, mano, cpu, hiloCpu, hiloFs, fsMemOpCount,
                   recursos, archivos, io, memoria, perdidos, vivo>>

FsRecibe ==
    LET r == Head(respuestas) IN
    /\ vivo /\ pcFs = "recv"
    /\ respuestas # <<>> /\ cola["blockFs"] # <<>>
    /\ respuestas' = Tail(respuestas)
    /\ cola' = Saca(cola, "blockFs")
    /\ \/ /\ r.op = "F_OPEN"
          /\ sem' = Post(sem, "finFOpen")
          /\ UNCHANGED <<mano, hiloFs>>
       \/ /\ r.op = "F_RW"
          /\ mano' = [mano EXCEPT !["fs"] = Head(cola["blockFs"])]
          /\ pcFs' = "guarda" /\ regFs' = fsMemOpCount
          /\ UNCHANGED <<sem, previa>>
       \/ /\ r.op = "F_TRUNCATE"
          /\ mano' = [mano EXCEPT !["fs"] = Head(cola["blockFs"])]
          /\ pcFs' = "agrega" /\ previa' = cola["block"]
          /\ UNCHANGED <<sem, regFs>>
    /\ UNCHANGED <<pcbs, cpu, hiloCpu, fsMemOpCount, recursos, archivos, io,
                   peticiones, memoria, perdidos, vivo>>

FsGuarda ==
    /\ vivo /\ pcFs = "guarda"
    /\ fsMemOpCount' = regFs - 1
    /\ pcFs' = "prueba" /\ regFs' = 0
    /\ UNCHANGED <<pcbs, cola, sem, mano, cpu, hiloCpu, previa, recursos,
                   archivos, io, fileSystem, memoria, perdidos, vivo>>

FsPrueba ==
    /\ vivo /\ pcFs = "prueba"
    /\ sem' = IF fsMemOpCount = 0 THEN Post(sem, "ongoing") ELSE sem
    /\ pcFs' = "agrega" /\ previa' = cola["block"]
    /\ UNCHANGED <<pcbs, cola, mano, cpu, hiloCpu, regFs, fsMemOpCount,
                   recursos, archivos, io, fileSystem, memoria, perdidos,
                   vivo>>

(* list_add to cola_block under the mutex of ANOTHER list.  If some thread *)
(* changed cola_block since the node to link to was found, the new node    *)
(* may be lost, or may take the place of what follows that node.  The      *)
(* list's elements_count is taken to agree with its nodes, although the    *)
(* same race can spoil it too.                                             *)
UltimoVisto(i) ==
    IF previa = <<>> THEN i = 0
    ELSE i \in DOMAIN cola["block"] /\ cola["block"][i] = previa[Len(previa)]

FsAgrega ==
    LET p == mano["fs"]
        b == cola["block"]
    IN
    /\ vivo /\ pcFs = "agrega"
    /\ \/ /\ cola' = Agrega(cola, "block", p)
          /\ UNCHANGED perdidos
       \/ /\ b # previa
          /\ perdidos' = perdidos \cup {p}
          /\ UNCHANGED cola
       \/ \E i \in 0..(Len(b) - 1) :
            /\ UltimoVisto(i)
            /\ cola' = [cola EXCEPT !["block"] = Append(SubSeq(b, 1, i), p)]
            /\ perdidos' = perdidos \cup {b[j] : j \in (i + 1)..Len(b)}
    /\ sem' = Post(sem, "block")
    /\ mano' = [mano EXCEPT !["fs"] = Nadie]
    /\ pcFs' = "recv" /\ previa' = <<>>
    /\ UNCHANGED <<pcbs, cpu, hiloCpu, regFs, fsMemOpCount, recursos,
                   archivos, io, fileSystem, memoria, vivo>>

-----------------------------------------------------------------------------
(* A thread's semaphore lets it through and the list it removes from is    *)
(* empty: list_remove gives NULL (list_get too), the thread reads through  *)
(* it and the kernel dies.  No code looks before it removes.               *)
APuntoDeSacar(q) ==
    /\ q = "listos"  => mano["ready"] = Nadie /\ sem["listos"] > 0
    /\ q = "ready"   => /\ mano["exec"] = Nadie
                        /\ sem["ready"] > 0 /\ sem["exec"] > 0
    /\ q = "exit"    => sem["exit"] > 0
    /\ q = "block"   => mano["block"] = Nadie /\ sem["block"] > 0
    /\ q = "blockFs" => pcFs = "recv" /\ respuestas # <<>>
    /\ q = "exec"    => IF cpu # Nadie THEN pcCpu = "recv"
                        ELSE pcCpu = "actualiza" /\ paso > Len(OrdenTs)

Muere ==
    /\ vivo
    /\ \E q \in Colas \ {"blockIo"} : APuntoDeSacar(q) /\ cola[q] = <<>>
    /\ vivo' = FALSE
    /\ UNCHANGED <<pcbs, cola, sem, mano, cpu, hiloCpu, hiloFs, fsMemOpCount,
                   recursos, archivos, io, fileSystem, memoria, perdidos>>

(* Every process ended: the threads wait for another console. *)
Reposo ==
    /\ \A p \in Pid : estado[p] = "DESTRUIDO"
    /\ UNCHANGED vars

InstruccionCpu(p) ==
    \/ Yield(p) \/ Exit(p) \/ SegFault(p) \/ ManejarIO(p)
    \/ \E r \in Pedidos :
         \/ RecursoFallido(p, r)
         \/ WaitObtiene(p, r) \/ WaitBloquea(p, r)
         \/ SignalLibera(p, r) \/ SignalDespierta(p, r)
    \/ \E a \in Archivos :
         \/ FOpenPide(p, a) \/ FOpenBloquea(p, a)
         \/ FClose(p, a) \/ FSeek(p, a)
    \/ FTruncate(p) \/ FRwRecibe(p)
    \/ SegmentoCreado(p) \/ SinMemoria(p) \/ PideCompactar(p)
    \/ DeleteSegment(p)

HiloCpu ==
    \/ \E p \in Pid : InstruccionCpu(p)
    \/ FOpenFin \/ FRwCarga \/ FRwGuarda
    \/ CompactaInicia
    \/ \E M \in SUBSET conSegmentos : CompactaFin(M)
    \/ ActualizaCola \/ CompactaSigue

HiloReady == ReadyToma \/ ReadyAdmite
HiloBlock == BlockToma \/ BlockDevuelve
HiloExec  == ExecElige \/ ExecDespacha
HiloFs    == FsRecibe \/ FsGuarda \/ FsPrueba \/ FsAgrega

Next ==
    \/ \E p \in Pid : ArmarPcb(p) \/ FinIO(p)
    \/ HiloReady \/ HiloBlock \/ HiloExec \/ HiloExit
    \/ HiloCpu \/ HiloFs \/ FsAtiende
    \/ Muere \/ Reposo

Spec == Init /\ [][Next]_vars

(* Each thread that can go on does, sleeping I/O threads wake, the file    *)
(* system serves what it was sent, and a process given the CPU again and   *)
(* again ends: programs are finite and have no jumps.                      *)
Equidad ==
    /\ WF_vars(HiloReady) /\ WF_vars(HiloBlock) /\ WF_vars(HiloExec)
    /\ WF_vars(HiloExit) /\ WF_vars(HiloCpu) /\ WF_vars(HiloFs)
    /\ WF_vars(FsAtiende)
    /\ \A p \in Pid : WF_vars(FinIO(p)) /\ SF_vars(Exit(p))

FairSpec == Spec /\ Equidad
=============================================================================
