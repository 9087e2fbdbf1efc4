------------------------- MODULE KernelPropiedades -------------------------
(***************************************************************************)
(* What the kernel promises: invariants that tie its lists, semaphores and *)
(* threads together, the exclusion between compaction and the file system, *)
(* and the progress of every process.                                      *)
(***************************************************************************)
EXTENDS Kernel

(* Every variable of kernel.c keeps its type. *)
TipoPcb ==
    /\ estado \in [Pid -> Estados]
    /\ motivo \in [Pid -> Motivos]

TipoListas ==
    /\ cola \in [Colas -> Seq(Pid)]
    /\ sem \in [Semaforos -> Nat]
    /\ mano \in [Hilos -> Pid \cup {Nadie}]
    /\ cpu \in Pid \cup {Nadie}
    /\ io \subseteq Pid
    /\ perdidos \subseteq Pid
    /\ vivo \in BOOLEAN

TipoHilos ==
    /\ pcCpu \in {"recv", "fOpen", "espera", "carga", "guarda", "compactar",
                  "compacta", "actualiza"}
    /\ regCpu \in Int
    /\ archCpu \in Archivos \cup {Nadie}
    /\ paso \in 1..(Len(OrdenTs) + 1)
    /\ pcFs \in {"recv", "guarda", "prueba", "agrega"}
    /\ regFs \in Int
    /\ previa \in Seq(Pid)
    /\ fsMemOpCount \in Int

TipoRecursos ==
    /\ instancias \in [Recursos -> Int]
    /\ idValido \in [Recursos -> BOOLEAN]
    /\ enRecurso \in [Recursos -> Seq(Pid)]

TipoArchivos ==
    /\ abiertos \subseteq Archivos
    /\ archivosDe \in [Pid -> SUBSET Archivos]
    /\ enArchivo \in [Archivos -> Seq(Pid)]
    /\ puntero \in [Archivos -> {0, 1}]

TipoExternos ==
    /\ peticiones \in Seq(Peticion)
    /\ respuestas \in Seq(Peticion)
    /\ conSegmentos \subseteq Pid
    /\ tsObsoleta \subseteq Pid

TypeOK ==
    /\ TipoPcb /\ TipoListas /\ TipoHilos
    /\ TipoRecursos /\ TipoArchivos /\ TipoExternos

-----------------------------------------------------------------------------
(* The steps at which the CPU thread holds a PCB it took out of cola_exec. *)
ConPcbEnMano == {"fOpen", "espera", "carga", "guarda", "compactar", "compacta"}

(* The CPU token: sem_exec is one token that passes from the semaphore to  *)
(* exec_pcb, to the CPU and to the thread that handles the CPU's trap, so  *)
(* at most one process runs or is being served; and each thread holds a    *)
(* PCB exactly at the steps that use it.                                   *)
FichaExec ==
    /\ sem["exec"] = IF mano["exec"] = Nadie /\ cpu = Nadie /\ pcCpu = "recv"
                     THEN 1 ELSE 0
    /\ mano["exec"] # Nadie => cpu = Nadie /\ pcCpu = "recv"
    /\ cpu # Nadie => pcCpu = "recv"
    /\ mano["cpu"] # Nadie <=> pcCpu \in ConPcbEnMano
    /\ pcCpu = "fOpen" => archCpu \in Archivos
    /\ mano["fs"] # Nadie <=> pcFs # "recv"

(* A context that comes back from the CPU is attributed to the process it  *)
(* belongs to: procesar_conexion takes the head of cola_exec without       *)
(* looking at the pid in the context (kernel.c:244).                       *)
ContextoDeSuPcb ==
    /\ cpu # Nadie => cola["exec"] = <<cpu>>
    /\ pcCpu = "actualiza" => Len(cola["exec"]) = 1
    /\ cpu = Nadie /\ pcCpu # "actualiza" => cola["exec"] = <<>>

-----------------------------------------------------------------------------
(* Conservation: a live PCB is in exactly one list, thread's hand or I/O   *)
(* sleep, once, and a dead or lost one in none.  (During F_OPEN the CPU    *)
(* thread keeps a reference to the PCB it put in cola_block_fs: one place, *)
(* the list.)                                                              *)
Sitios ==
    ({"cola"} \X Colas) \cup ({"recurso"} \X Recursos)
    \cup ({"archivo"} \X Archivos) \cup ({"hilo"} \X Hilos)
    \cup ({"io"} \X Pid)

EnMano ==
    [h \in Hilos |->
        IF h = "cpu" /\ pcCpu = "fOpen" /\ mano[h] \in Ocupantes(cola["blockFs"])
        THEN Nadie ELSE mano[h]]

Lista ==
    [s \in Sitios |->
        CASE s[1] = "cola"    -> cola[s[2]]
          [] s[1] = "recurso" -> enRecurso[s[2]]
          [] s[1] = "archivo" -> enArchivo[s[2]]
          [] s[1] = "hilo"    -> IF EnMano[s[2]] = Nadie THEN <<>>
                                 ELSE <<EnMano[s[2]]>>
          [] s[1] = "io"      -> IF s[2] \in io THEN <<s[2]>> ELSE <<>>]

Vivos == {p \in Pid : estado[p] \notin {"NO_CREADO", "DESTRUIDO"}} \ perdidos

SinRepetidos(l) == \A i, j \in DOMAIN l : l[i] = l[j] => i = j

EnUnLugar(lista, pids) ==
    /\ \A s \in Sitios : SinRepetidos(lista[s])
    /\ \A s, t \in Sitios :
          Ocupantes(lista[s]) \cap Ocupantes(lista[t]) # {} => s = t
    /\ UNION {Ocupantes(lista[s]) : s \in Sitios} = pids

CadaPcbEnUnLugar == EnUnLugar(Lista, Vivos)

(* A queue's semaphore counts the PCBs in the queue, whichever threads     *)
(* move them, so none sleeps over a PCB that waits.  That of cola_block    *)
(* also counts those the unlocked list_add dropped: for each of them       *)
(* block_return_pcb is let through once with nothing to take.              *)
SemaforosRespaldados ==
    /\ sem["listos"] = Len(cola["listos"])
    /\ sem["ready"] = Len(cola["ready"])
    /\ sem["exit"] = Len(cola["exit"])
    /\ sem["block"] = Len(cola["block"]) + Cardinality(perdidos)

(* The kernel dies of no other cause: no thread of it ever removes from an *)
(* empty list, not the one that takes the head of cola_exec or of          *)
(* cola_block_fs for granted either, unless that list_add lost a PCB.      *)
SoloMuerePorPerdidos == ~vivo => perdidos # {}

(* The degree of multiprogramming: the places sem_multiprog has left and   *)
(* the processes admitted and not yet destroyed add up to the maximum.     *)
Admitidos == {p \in Pid : estado[p] \notin {"NO_CREADO", "NEW", "DESTRUIDO"}}

CupoRespetado ==
    sem["multiprog"] + Cardinality(Admitidos) = GRADO_MAX_MULTIPROGRAMACION

-----------------------------------------------------------------------------
(* Answers of the file system carry no pid: taking the head of             *)
(* cola_block_fs (kernel.c:444) is right because the list holds exactly    *)
(* the processes of the requests in flight, in order.                      *)
EnVuelo == respuestas \o peticiones

RespuestaDeSuProceso ==
    /\ Len(cola["blockFs"]) = Len(EnVuelo)
    /\ \A i \in DOMAIN EnVuelo : cola["blockFs"][i] = EnVuelo[i].pid

(* The state field tells where the PCB is, although each thread writes it  *)
(* on its own, before or after moving the PCB: a process that is to run    *)
(* was READY, one that is awaited is in BLOCK, and only F_OPEN, whose      *)
(* handler waits with the process, and an error that ends it leave EXEC.   *)
EstadosEnCola ==
    [listos |-> {"NEW"}, ready |-> {"READY"}, exec |-> {"EXEC"}, blockIo |-> {},
     block |-> {"BLOCK"}, blockFs |-> {"BLOCK", "EXEC"},
     exit |-> {"FINISH_EXIT", "FINISH_ERROR", "EXEC"}]

EstadosEnHilo ==
    [ready |-> {"NEW"}, exec |-> {"READY"}, cpu |-> {"EXEC"},
     block |-> {"BLOCK"}, fs |-> {"BLOCK"}]

EstadosEn(s) ==
    CASE s[1] = "cola" -> EstadosEnCola[s[2]]
      [] s[1] = "hilo" -> EstadosEnHilo[s[2]]
      [] s[1] \in {"recurso", "archivo", "io"} -> {"BLOCK"}

EstadoSegunLugar ==
    /\ \A s \in Sitios : \A p \in Ocupantes(Lista[s]) : estado[p] \in EstadosEn(s)
    /\ \A x \in Ocupantes(EnVuelo) :
         estado[x.pid] = IF x.op = "F_OPEN" THEN "EXEC" ELSE "BLOCK"

(* A negative count of instances is the number of processes that wait, so  *)
(* SIGNAL finds someone to wake exactly when it looks for one.             *)
EsperanLosQueFaltan ==
    \A r \in Recursos :
        Len(enRecurso[r]) = IF instancias[r] < 0 THEN -instancias[r] ELSE 0

(* A file has one holder at a time: of the processes that list it as open, *)
(* all but one wait in its queue; a file not in the global table has none. *)
Esperan(a) == Ocupantes(enArchivo[a])
Duenios(a) == {p \in Pid : a \in archivosDe[p]} \ Esperan(a)

ArchivoExclusivo ==
    \A a \in Archivos :
        /\ \A p, q \in Duenios(a) : p = q
        /\ \A p \in Esperan(a) : a \in archivosDe[p]
        /\ a \notin abiertos => Duenios(a) = {} /\ enArchivo[a] = <<>>

(* ejecutar_f_open waits for its answer while the file system still has    *)
(* its request, or has answered and the post is there to take: the thread  *)
(* that serves the CPU never waits for an answer nobody will give.         *)
FOpenConRespuesta ==
    pcCpu = "fOpen" =>
        \/ sem["finFOpen"] = 1
        \/ \E x \in Ocupantes(EnVuelo) : x.op = "F_OPEN" /\ x.pid = mano["cpu"]

(* No file is the subject of two requests at once, whoever made them: what *)
(* module FileSystem takes from the kernel in the guard of its Recibe, and *)
(* what a file opened, read or truncated behind another's back would break.*)
(* A request that is not an F_OPEN may be of any file its process holds.   *)
ArchivosDelPedido(x) ==
    IF x.op = "F_OPEN" THEN {archCpu} ELSE archivosDe[x.pid]

PedidosDisjuntos ==
    \A i, j \in DOMAIN EnVuelo :
        ArchivosDelPedido(EnVuelo[i]) \cap ArchivosDelPedido(EnVuelo[j]) # {}
            => i = j

-----------------------------------------------------------------------------
(* Compaction.  What follows needs one or the other of two conditions on   *)
(* the programs: a single process reads and writes files, the processes    *)
(* that create segments never wait (the runs with two readers, and with    *)
(* input/output and segments, show what the code does without them).       *)
UnSoloLector ==
    \A p, q \in Pid : "F_RW" \in Programa[p] \cap Programa[q] => p = q

SegmentosSinEsperas ==
    \A p \in Pid : "CREATE_SEGMENT" \in Programa[p]
                     => Programa[p] \cap {"IO", "WAIT", "F_OPEN"} = {}

LecturaEnVuelo == \E x \in Ocupantes(EnVuelo) : x.op = "F_RW"

(* The memory does not move segments while the file system has an F_READ   *)
(* or F_WRITE to do: its physical address was translated before the move.  *)
FsSinCompactar ==
    pcCpu = "compacta" =>
        \A i \in DOMAIN peticiones : peticiones[i].op # "F_RW"

(* Whoever waits for ongoing_fs_mem_op finds it free, or somebody is still *)
(* to post it: a request in flight, or its answer being counted.           *)
EsperaConTurno ==
    pcCpu \in {"espera", "compactar"} =>
        sem["ongoing"] > 0 \/ LecturaEnVuelo \/ pcFs \in {"guarda", "prueba"}

(* The CPU translates addresses with the segment table of the context: no  *)
(* process runs with a table older than the last compaction.               *)
CpuConTablaAlDia == cpu # Nadie => cpu \notin tsObsoleta

-----------------------------------------------------------------------------
(* The kernel implements the life cycle of CicloDeVida.  A process in      *)
(* cola_exit has left the CPU even when its state field still says EXEC    *)
(* (RECURSO_INEXISTENTE and OUT_OF_MEMORY do not write it).                *)
Fase ==
    [p \in Pid |->
        IF estado[p] \in {"FINISH_EXIT", "FINISH_ERROR"}
           \/ p \in Ocupantes(cola["exit"])
        THEN "EXIT" ELSE estado[p]]

Ciclo == INSTANCE CicloDeVida WITH fase <- Fase

ImplementaCiclo == Ciclo!Spec

-----------------------------------------------------------------------------
(* Every console eventually hears that its process ended. *)
TodoProcesoTermina ==
    \A p \in Pid : estado[p] = "NEW" ~> estado[p] = "DESTRUIDO"

(* The thread that serves the CPU never waits for ever on the file system. *)
CpuNoQuedaEsperando ==
    pcCpu \in {"espera", "compactar", "fOpen"} ~> pcCpu = "recv"

=============================================================================
