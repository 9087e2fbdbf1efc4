-------------------------- MODULE KernelExclusion ---------------------------
(***************************************************************************)
(* What the thread that serves the CPU and the file system may take for    *)
(* granted of each other, proved for any processes, files and resources:   *)
(* an F_OPEN is answered, no file is asked for twice at once; and, under   *)
(* the hypotheses on the programs that the code needs, a compaction keeps  *)
(* out of the file system's accesses and of stale tables, whoever waits    *)
(* for ongoing_fs_mem_op is woken, and no PCB is lost from cola_block.     *)
(***************************************************************************)
EXTENDS KernelCiclo

-----------------------------------------------------------------------------
(* The requests in flight and cola_block_fs name the same processes, each  *)
(* of them once.                                                           *)
LEMMA VueloDeCola ==
    ASSUME TypeOK, RespuestaDeSuProceso
    PROVE  /\ cola["blockFs"] \in Seq(Pid) /\ EnVuelo \in Seq(Peticion)
           /\ respuestas \in Seq(Peticion) /\ peticiones \in Seq(Peticion)
           /\ DOMAIN EnVuelo = DOMAIN cola["blockFs"]
           /\ \A i \in DOMAIN EnVuelo : EnVuelo[i].pid = cola["blockFs"][i]
           /\ \A x \in Ocupantes(EnVuelo) :
                x.pid \in Ocupantes(cola["blockFs"]) /\ x \in Peticion
           /\ \A p \in Ocupantes(cola["blockFs"]) :
                \E x \in Ocupantes(EnVuelo) : x.pid = p
<1>1. /\ cola["blockFs"] \in Seq(Pid) /\ EnVuelo \in Seq(Peticion)
      /\ respuestas \in Seq(Peticion) /\ peticiones \in Seq(Peticion)
  BY ConcatProperties DEF TypeOK, TipoListas, TipoExternos, Colas, EnVuelo
<1>2. DOMAIN EnVuelo = DOMAIN cola["blockFs"]
  BY <1>1, LenProperties DEF RespuestaDeSuProceso
<1>3. \A i \in DOMAIN EnVuelo : EnVuelo[i] \in Peticion
  BY <1>1, LenProperties, ElementOfSeq
<1>. QED  BY <1>1, <1>2, <1>3 DEF RespuestaDeSuProceso, Ocupantes

(* The first answer is one of the requests in flight, and belongs to the   *)
(* first process of cola_block_fs.                                         *)
LEMMA PrimeraRespuesta ==
    ASSUME TypeOK, RespuestaDeSuProceso, respuestas # <<>>,
           cola["blockFs"] # <<>>
    PROVE  /\ Head(respuestas) \in Ocupantes(EnVuelo)
           /\ Head(cola["blockFs"]) = Head(respuestas).pid
<1>1. /\ EnVuelo \in Seq(Peticion) /\ respuestas \in Seq(Peticion)
      /\ peticiones \in Seq(Peticion)
  BY VueloDeCola
<1>2. Head(EnVuelo) = Head(respuestas)
  BY <1>1, VueloLlega DEF EnVuelo
<1>3. EnVuelo # <<>> /\ Head(cola["blockFs"]) = Head(EnVuelo).pid
  BY <1>1, VueloDeCola, SiguenLlega DEF RespuestaDeSuProceso, Siguen
<1>. QED  BY <1>1, <1>2, <1>3, VueloMengua

(* A process in a list is in no other and in no hand.                      *)
LEMMA SoloEnCola ==
    ASSUME TypeOK, CadaPcbEnUnLugar, NEW q \in Colas,
           NEW x \in Ocupantes(cola[q])
    PROVE  /\ x \in Pid /\ x \in Vivos
           /\ \A k \in Colas : x \in Ocupantes(cola[k]) => k = q
           /\ \A a \in Archivos : x \notin Esperan(a)
           /\ \A h \in Hilos : x # EnMano[h]
<1>. DEFINE y == <<"cola", q>>
<1>1. y \in Sitios /\ x \in Ocupantes(Lista[y])
  BY DEF Sitios, Lista
<1>2. x \in Vivos /\ \A s \in Sitios : x \in Ocupantes(Lista[s]) => s = y
  BY <1>1 DEF CadaPcbEnUnLugar, EnUnLugar
<1>3. x \in Pid
  BY <1>2 DEF Vivos
<1>4. ASSUME NEW k \in Colas, x \in Ocupantes(cola[k]) PROVE k = q
  <2>1. <<"cola", k>> \in Sitios /\ Lista[<<"cola", k>>] = cola[k]
    BY DEF Sitios, Lista
  <2>2. <<"cola", k>> = y
    BY <1>2, <1>4, <2>1
  <2>. QED  BY <2>2
<1>5. ASSUME NEW a \in Archivos, x \in Esperan(a) PROVE FALSE
  <2>1. <<"archivo", a>> \in Sitios /\ Lista[<<"archivo", a>>] = enArchivo[a]
    BY DEF Sitios, Lista
  <2>. QED  BY <1>2, <1>5, <2>1 DEF Esperan
<1>6. ASSUME NEW h \in Hilos, EnMano[h] = x PROVE FALSE
  <2>1. <<"hilo", h>> \in Sitios /\ Lista[<<"hilo", h>>] = <<x>>
    BY <1>3, <1>6, KernelAssumption DEF Sitios, Lista
  <2>2. x \in Ocupantes(<<x>>)
    BY ListaDeUno
  <2>. QED  BY <1>2, <2>1, <2>2
<1>. QED  BY <1>2, <1>3, <1>4, <1>5, <1>6

-----------------------------------------------------------------------------
(* The wait of ejecutar_f_open: until its answer has come, the process the *)
(* CPU thread waits with is in cola_block_fs.                              *)
AperturaPedida ==
    pcCpu = "fOpen" /\ sem["finFOpen"] = 0 =>
        mano["cpu"] \in Ocupantes(cola["blockFs"])

(* The request enters the list as the wait begins, and leaves it only when *)
(* its answer comes: who is first in the list is another until then.       *)
LEMMA AperturaPedidaPaso ==
    ASSUME LugaresInv, AperturaPedida, Next
    PROVE  AperturaPedida'
<1>. DEFINE l == cola["blockFs"]
<1>0. /\ TypeOK /\ FichaExec /\ RespuestaDeSuProceso /\ Apertura
      /\ cola \in [Colas -> Seq(Pid)] /\ l \in Seq(Pid) /\ "blockFs" \in Colas
      /\ mano \in [Hilos -> Pid \cup {Nadie}] /\ "cpu" \in Hilos
      /\ sem["finFOpen"] \in Nat
  BY DEF LugaresInv, ColasInv, Base, TypeOK, TipoListas, Colas, Hilos, Semaforos
<1>1. ASSUME NEW p \in Pid, NEW a \in Archivos, FOpenPide(p, a)
      PROVE  AperturaPedida'
  <2>1. l' = Append(l, p) /\ mano'["cpu"] = p
    BY <1>0, <1>1 DEF FOpenPide, Desaloja, Agrega, Saca, Colas
  <2>. QED  BY <1>0, <2>1, OcupaAppend DEF AperturaPedida
<1>2. ASSUME FOpenFin \/ FRwGuarda \/ \E p \in Pid : FTruncate(p)
      PROVE  AperturaPedida'
  <2>1. pcCpu' # "fOpen"
    BY <1>2 DEF FOpenFin, FRwGuarda, FTruncate, Recibe, hiloCpu
  <2>. QED  BY <2>1 DEF AperturaPedida
<1>3. ASSUME FsRecibe, pcCpu = "fOpen", sem'["finFOpen"] = 0
      PROVE  mano'["cpu"] \in Ocupantes(l')
  <2>. DEFINE r == Head(respuestas)
  <2>1. /\ respuestas # <<>> /\ l # <<>> /\ l' = Tail(l)
        /\ mano'["cpu"] = mano["cpu"]
    BY <1>0, <1>3 DEF FsRecibe, Saca, Colas, Hilos
  <2>2. r.op # "F_OPEN" /\ sem' = sem
    BY <1>0, <1>3 DEF FsRecibe, Post, TypeOK, TipoListas, Semaforos
  <2>3. r \in Ocupantes(EnVuelo) /\ Head(l) = r.pid
    BY <1>0, <2>1, PrimeraRespuesta
  <2>4. Head(l) # mano["cpu"]
    BY <1>0, <1>3, <2>2, <2>3 DEF Apertura
  <2>5. mano["cpu"] \in Ocupantes(l)
    BY <1>3, <2>2 DEF AperturaPedida
  <2>. QED  BY <1>0, <2>1, <2>4, <2>5, OcupaResto
<1>4. ASSUME FsRecibe PROVE AperturaPedida'
  <2>1. pcCpu' = pcCpu
    BY <1>4 DEF FsRecibe, hiloCpu
  <2>. QED  BY <1>3, <1>4, <2>1 DEF AperturaPedida
<1>5. ASSUME l' = l,
             sem'["finFOpen"] = sem["finFOpen"],
             pcCpu' = "fOpen" <=> pcCpu = "fOpen",
             pcCpu = "fOpen" => mano'["cpu"] = mano["cpu"]
      PROVE  AperturaPedida'
  BY <1>5 DEF AperturaPedida
<1>6. FsAtiende => l' = l
  BY DEF FsAtiende
<1>. HIDE DEF l
<1>7. \/ l' = l \/ FRwGuarda \/ FsRecibe
      \/ \E p \in Pid : FTruncate(p) \/ \E a \in Archivos : FOpenPide(p, a)
  BY <1>0, <1>6, FsAjeno DEF l
<1>8. \/ /\ sem'["finFOpen"] = sem["finFOpen"]
         /\ pcCpu' = "fOpen" <=> pcCpu = "fOpen"
         /\ pcCpu = "fOpen" => mano'["cpu"] = mano["cpu"]
      \/ \E p \in Pid, a \in Archivos : FOpenPide(p, a)
      \/ FOpenFin \/ FsRecibe
  BY <1>0, AperturaAjena
<1>. QED  BY <1>1, <1>2, <1>4, <1>5, <1>7, <1>8

(* The process of an F_OPEN is in cola_block_fs in every state of the wait.*)
THEOREM AperturaPedidaInvariante == Spec => []AperturaPedida
<1>1. Init => AperturaPedida
  BY DEF Init, AperturaPedida
<1>2. LugaresInv /\ AperturaPedida /\ [Next]_vars => AperturaPedida'
  <2>. SUFFICES ASSUME LugaresInv, AperturaPedida, [Next]_vars
                PROVE  AperturaPedida'
    OBVIOUS
  <2>1. CASE UNCHANGED vars
    BY <2>1 DEF vars, hiloCpu, AperturaPedida
  <2>. QED  BY <2>1, AperturaPedidaPaso
<1>. QED  BY LugaresInvariante, <1>1, <1>2, PTL DEF Spec

(* The CPU thread never waits for an answer to F_OPEN nobody will give.    *)
THEOREM AperturaRespondida == Spec => []FOpenConRespuesta
<1>1. LugaresInv /\ AperturaPedida => FOpenConRespuesta
  <2>. SUFFICES ASSUME LugaresInv, AperturaPedida, pcCpu = "fOpen",
                       sem["finFOpen"] # 1
                PROVE  \E x \in Ocupantes(EnVuelo) :
                          x.op = "F_OPEN" /\ x.pid = mano["cpu"]
    BY DEF FOpenConRespuesta
  <2>1. TypeOK /\ RespuestaDeSuProceso /\ Apertura
    BY DEF LugaresInv, ColasInv, Base
  <2>2. mano["cpu"] \in Ocupantes(cola["blockFs"])
    BY <2>1 DEF AperturaPedida, Apertura
  <2>3. PICK x \in Ocupantes(EnVuelo) : x.pid = mano["cpu"]
    BY <2>1, <2>2, VueloDeCola
  <2>. QED  BY <2>1, <2>3 DEF Apertura
<1>. QED  BY LugaresInvariante, AperturaPedidaInvariante, <1>1, PTL

-----------------------------------------------------------------------------
(* A process that waits in cola_block_fs holds every file it lists.        *)
LEMMA PedidoDeDuenio ==
    ASSUME TypeOK, CadaPcbEnUnLugar, NEW p \in Ocupantes(cola["blockFs"]),
           NEW a \in archivosDe[p]
    PROVE  p \in Duenios(a) /\ a \in Archivos
<1>1. "blockFs" \in Colas
  BY DEF Colas
<1>2. p \in Pid /\ \A b \in Archivos : p \notin Esperan(b)
  BY <1>1, SoloEnCola
<1>3. a \in Archivos
  BY <1>2 DEF TypeOK, TipoArchivos
<1>. QED  BY <1>2, <1>3 DEF Duenios

(* No file is the subject of two requests at once, for any processes,      *)
(* files and interleaving (ejecutar_f_open, manejar_f_truncate and the     *)
(* rest send a request only for a file that is closed, or the sender's).   *)
THEOREM UnPedidoPorArchivo == Spec => []PedidosDisjuntos
<1>1. LugaresInv /\ ArchivosInv => PedidosDisjuntos
  <2>. SUFFICES ASSUME LugaresInv, ArchivosInv,
                       NEW i \in DOMAIN EnVuelo, NEW j \in DOMAIN EnVuelo,
                       NEW a \in ArchivosDelPedido(EnVuelo[i])
                                 \cap ArchivosDelPedido(EnVuelo[j])
                PROVE  i = j
    BY DEF PedidosDisjuntos
  <2>. DEFINE l == cola["blockFs"]
  <2>0. /\ TypeOK /\ RespuestaDeSuProceso /\ Apertura /\ CadaPcbEnUnLugar
        /\ ArchivoExclusivo /\ AperturaDeCerrado
    BY DEF LugaresInv, ColasInv, Base, ArchivosInv
  <2>1. PICK x \in Ocupantes(EnVuelo), y \in Ocupantes(EnVuelo) :
          x = EnVuelo[i] /\ y = EnVuelo[j]
    BY DEF Ocupantes
  <2>2. /\ i \in DOMAIN l /\ j \in DOMAIN l /\ l[i] = x.pid /\ l[j] = y.pid
        /\ x.pid \in Ocupantes(l) /\ y.pid \in Ocupantes(l)
    BY <2>0, <2>1, VueloDeCola
  <2>3. x.pid = y.pid => i = j
    <3>1. <<"cola", "blockFs">> \in Sitios /\ Lista[<<"cola", "blockFs">>] = l
      BY DEF Sitios, Colas, Lista
    <3>2. SinRepetidos(l)
      BY <2>0, <3>1 DEF CadaPcbEnUnLugar, EnUnLugar
    <3>. QED  BY <2>2, <3>2 DEF SinRepetidos
  <2>4. ASSUME NEW u \in Ocupantes(EnVuelo), a \in ArchivosDelPedido(u),
               u.pid \in Ocupantes(l)
        PROVE  \/ /\ u.op = "F_OPEN" /\ u.pid = mano["cpu"]
                  /\ a \in Archivos /\ Duenios(a) = {}
               \/ u.op # "F_OPEN" /\ a \in Archivos /\ u.pid \in Duenios(a)
    <3>1. CASE u.op = "F_OPEN"
      <4>1. pcCpu = "fOpen" /\ u.pid = mano["cpu"] /\ a = archCpu
        BY <2>0, <2>4, <3>1 DEF Apertura, ArchivosDelPedido
      <4>. QED  BY <2>0, <3>1, <4>1 DEF AperturaDeCerrado, ArchivoExclusivo
    <3>2. CASE u.op # "F_OPEN"
      BY <2>0, <2>4, <3>2, PedidoDeDuenio DEF ArchivosDelPedido
    <3>. QED  BY <3>1, <3>2
  <2>5. a \in ArchivosDelPedido(x) /\ a \in ArchivosDelPedido(y)
    BY <2>1
  <2>6. x.pid = y.pid
    BY <2>0, <2>2, <2>4, <2>5 DEF ArchivoExclusivo
  <2>. QED  BY <2>3, <2>6
<1>. QED  BY LugaresInvariante, ArchivosInvariante, <1>1, PTL

-----------------------------------------------------------------------------
(* The turn of ongoing_fs_mem_op, when a single process reads and writes   *)
(* files. Wherever an F_READ or F_WRITE is, its process is a reader.       *)
EsLector(p) == p \in Pid /\ "F_RW" \in Programa[p]

LectoresLeen ==
    /\ \A x \in Ocupantes(EnVuelo) : x.op = "F_RW" => EsLector(x.pid)
    /\ pcFs \in {"guarda", "prueba"} => EsLector(mano["fs"])
    /\ pcCpu \in {"espera", "guarda"} => EsLector(mano["cpu"])

(* fs_mem_op_count and the copies of it in the registers of the two        *)
(* threads: none is ever stale.                                            *)
CuentaExacta ==
    /\ pcCpu # "carga"
    /\ fsMemOpCount = IF LecturaEnVuelo \/ pcFs = "guarda" THEN 1 ELSE 0
    /\ pcCpu = "guarda" => regCpu = 0
    /\ pcFs = "guarda" => regFs = 1

(* ongoing_fs_mem_op is one token: the semaphore's, the compaction's, or   *)
(* that of the read or write being made.                                   *)
UsaElDisco == LecturaEnVuelo \/ pcFs \in {"guarda", "prueba"}

FichaOngoing ==
    /\ sem["ongoing"] =
         IF pcCpu \in {"compacta", "guarda"} \/ UsaElDisco THEN 0 ELSE 1
    /\ pcCpu = "compacta" => ~UsaElDisco

TurnoInv == LectoresLeen /\ CuentaExacta /\ FichaOngoing

(* Two readers are the same one, and it is in one place.                   *)
LEMMA LectorUnico ==
    ASSUME UnSoloLector, CadaPcbEnUnLugar, NEW s \in Sitios, NEW t \in Sitios,
           NEW p \in Ocupantes(Lista[s]), NEW q \in Ocupantes(Lista[t]),
           EsLector(p), EsLector(q)
    PROVE  s = t
<1>1. p = q
  BY DEF UnSoloLector, EsLector
<1>. QED  BY <1>1 DEF CadaPcbEnUnLugar, EnUnLugar

(* Each stage of a read or write excludes the others.                      *)
LEMMA UnaEtapa ==
    ASSUME UnSoloLector, LugaresInv, LectoresLeen
    PROVE  /\ pcCpu \in {"espera", "guarda"} => ~UsaElDisco
           /\ pcFs \in {"guarda", "prueba"} => ~LecturaEnVuelo
           /\ \A p \in Pid : Recibe(p, "F_RW") => ~UsaElDisco /\ EsLector(p)
<1>. DEFINE sCpu == <<"hilo", "cpu">>
            sFs == <<"hilo", "fs">>
            sEx == <<"cola", "exec">>
            sVu == <<"cola", "blockFs">>
<1>0. /\ TypeOK /\ FichaExec /\ ContextoDeSuPcb /\ RespuestaDeSuProceso
      /\ CadaPcbEnUnLugar
  BY DEF LugaresInv, ColasInv, Base
<1>1. /\ sCpu \in Sitios /\ sFs \in Sitios /\ sEx \in Sitios /\ sVu \in Sitios
      /\ sCpu # sFs /\ sCpu # sVu /\ sFs # sVu /\ sEx # sFs /\ sEx # sVu
      /\ Lista[sEx] = cola["exec"] /\ Lista[sVu] = cola["blockFs"]
      /\ Lista[sCpu] = IF EnMano["cpu"] = Nadie THEN <<>> ELSE <<EnMano["cpu"]>>
      /\ Lista[sFs] = IF EnMano["fs"] = Nadie THEN <<>> ELSE <<EnMano["fs"]>>
  BY DEF Sitios, Lista, Colas, Hilos
<1>2. ASSUME LecturaEnVuelo
      PROVE  \E p \in Ocupantes(Lista[sVu]) : EsLector(p)
  BY <1>0, <1>1, <1>2, VueloDeCola DEF LecturaEnVuelo, LectoresLeen
<1>3. ASSUME pcFs \in {"guarda", "prueba"}
      PROVE  \E p \in Ocupantes(Lista[sFs]) : EsLector(p)
  <2>1. EnMano["fs"] = mano["fs"] /\ mano["fs"] # Nadie /\ EsLector(mano["fs"])
    BY <1>0, <1>3 DEF EnMano, FichaExec, LectoresLeen, Hilos
  <2>. QED  BY <1>1, <2>1, ListaDeUno
<1>4. ASSUME pcCpu \in {"espera", "guarda"}
      PROVE  \E p \in Ocupantes(Lista[sCpu]) : EsLector(p)
  <2>1. /\ EnMano["cpu"] = mano["cpu"] /\ mano["cpu"] # Nadie
        /\ EsLector(mano["cpu"])
    BY <1>0, <1>4 DEF EnMano, FichaExec, ConPcbEnMano, LectoresLeen, Hilos
  <2>. QED  BY <1>1, <2>1, ListaDeUno
<1>5. ASSUME NEW p \in Pid, Recibe(p, "F_RW")
      PROVE  EsLector(p) /\ p \in Ocupantes(Lista[sEx])
  <2>1. cola["exec"] = <<cpu>> /\ p = cpu /\ "F_RW" \in Programa[p]
    BY <1>0, <1>5 DEF ContextoDeSuPcb, Recibe
  <2>2. p \in Ocupantes(<<p>>)
    BY ListaDeUno
  <2>. QED  BY <1>1, <2>1, <2>2 DEF EsLector
<1>. HIDE DEF sCpu, sFs, sEx, sVu
<1>6. pcCpu \in {"espera", "guarda"} => ~UsaElDisco
  BY <1>0, <1>1, <1>2, <1>3, <1>4, LectorUnico DEF UsaElDisco
<1>7. pcFs \in {"guarda", "prueba"} => ~LecturaEnVuelo
  BY <1>0, <1>1, <1>2, <1>3, LectorUnico
<1>8. \A p \in Pid : Recibe(p, "F_RW") => ~UsaElDisco /\ EsLector(p)
  BY <1>0, <1>1, <1>2, <1>3, <1>5, LectorUnico DEF UsaElDisco
<1>. QED  BY <1>6, <1>7, <1>8

(* Who adds reads and writes to what is in flight, and who takes them out. *)
LEMMA LecturasAjenas ==
    ASSUME LugaresInv, Next
    PROVE  \/ \A x \in Peticion : x.op = "F_RW" =>
                 (x \in Ocupantes(EnVuelo') <=> x \in Ocupantes(EnVuelo))
           \/ FRwGuarda \/ FsRecibe
<1>. DEFINE Iguales == \A x \in Peticion : x.op = "F_RW" =>
                 (x \in Ocupantes(EnVuelo') <=> x \in Ocupantes(EnVuelo))
<1>0. /\ TypeOK /\ respuestas \in Seq(Peticion) /\ peticiones \in Seq(Peticion)
  BY VueloDeCola DEF LugaresInv, ColasInv, Base
<1>1. UNCHANGED fileSystem => Iguales
  BY DEF fileSystem, EnVuelo
<1>2. ASSUME NEW x \in Peticion, x.op # "F_RW",
             peticiones' = Append(peticiones, x), respuestas' = respuestas
      PROVE  Iguales
  <2>1. Ocupantes(EnVuelo') = Ocupantes(EnVuelo) \cup {x}
    BY <1>0, <1>2, VueloCrece DEF EnVuelo
  <2>. QED  BY <1>2, <2>1
<1>3. ASSUME NEW p \in Pid, NEW a \in Archivos, FOpenPide(p, a) PROVE Iguales
  <2>. DEFINE x == [op |-> "F_OPEN", pid |-> p]
  <2>1. x \in Peticion /\ x.op # "F_RW"
    BY DEF Peticion
  <2>2. peticiones' = Append(peticiones, x) /\ respuestas' = respuestas
    BY <1>3 DEF FOpenPide
  <2>. HIDE DEF x
  <2>. QED  BY <1>2, <2>1, <2>2
<1>4. ASSUME NEW p \in Pid, FTruncate(p) PROVE Iguales
  <2>. DEFINE x == [op |-> "F_TRUNCATE", pid |-> p]
  <2>1. x \in Peticion /\ x.op # "F_RW"
    BY DEF Peticion
  <2>2. peticiones' = Append(peticiones, x) /\ respuestas' = respuestas
    BY <1>4 DEF FTruncate
  <2>. HIDE DEF x
  <2>. QED  BY <1>2, <2>1, <2>2
<1>5. ASSUME FsAtiende PROVE Iguales
  <2>1. EnVuelo' = EnVuelo
    BY <1>0, <1>5, VueloSirve DEF FsAtiende, EnVuelo
  <2>. QED  BY <2>1
<1>. HIDE DEF Iguales
<1>6. Iguales \/ FRwGuarda \/ FsRecibe
  BY <1>0, <1>1, <1>3, <1>4, <1>5, FsAjeno
<1>. QED  BY <1>6 DEF Iguales

(* A step that neither takes the turn, passes it nor counts.               *)
EnTurno == {"espera", "carga", "guarda", "compacta"}

Neutro ==
    /\ sem'["ongoing"] = sem["ongoing"] /\ fsMemOpCount' = fsMemOpCount
    /\ \/ UNCHANGED <<pcCpu, regCpu>> /\ mano'["cpu"] = mano["cpu"]
       \/ pcCpu \notin EnTurno /\ pcCpu' \notin EnTurno
    /\ \/ UNCHANGED <<pcFs, regFs>> /\ mano'["fs"] = mano["fs"]
       \/ pcFs = "agrega" /\ pcFs' = "recv"

(* Who takes the turn, passes it or counts.                                *)
LEMMA TurnoAjeno ==
    ASSUME TypeOK, Next
    PROVE  \/ Neutro
           \/ \E p \in Pid : FRwRecibe(p)
           \/ FRwCarga \/ FRwGuarda \/ CompactaInicia
           \/ \E M \in SUBSET conSegmentos : CompactaFin(M)
           \/ FsRecibe \/ FsGuarda \/ FsPrueba
<1>. USE DEF Neutro, EnTurno, TypeOK, TipoListas, Semaforos, Hilos, Post,
         Espera, hiloCpu, hiloFs
<1>1. CASE HiloReady
  BY <1>1 DEF HiloReady, ReadyToma, ReadyAdmite
<1>2. CASE HiloBlock
  BY <1>2 DEF HiloBlock, BlockToma, BlockDevuelve
<1>3. CASE HiloExec
  BY <1>3 DEF HiloExec, ExecElige, ExecDespacha
<1>4. CASE HiloExit
  BY <1>4 DEF HiloExit
<1>5. CASE FsAgrega \/ FsAtiende \/ Muere \/ Reposo
  BY <1>5 DEF FsAgrega, FsAtiende, Muere, Reposo, vars
<1>6. ASSUME NEW p \in Pid, ArmarPcb(p) \/ FinIO(p) PROVE Neutro
  BY <1>6 DEF ArmarPcb, FinIO
<1>7. ASSUME FOpenFin \/ ActualizaCola \/ CompactaSigue PROVE Neutro
  BY <1>7 DEF FOpenFin, ActualizaCola, CompactaSigue
<1>8. ASSUME NEW p \in Pid,
             \/ Yield(p) \/ Exit(p) \/ SegFault(p) \/ ManejarIO(p)
             \/ FTruncate(p) \/ SegmentoCreado(p) \/ SinMemoria(p)
             \/ PideCompactar(p) \/ DeleteSegment(p)
      PROVE  Neutro
  BY <1>8 DEF Yield, Exit, SegFault, Termina, ManejarIO, FTruncate,
     SegmentoCreado, SinMemoria, PideCompactar, DeleteSegment, Recibe
<1>9. ASSUME NEW p \in Pid, NEW r \in Pedidos,
             \/ RecursoFallido(p, r) \/ WaitObtiene(p, r)
             \/ WaitBloquea(p, r) \/ SignalLibera(p, r)
             \/ SignalDespierta(p, r)
      PROVE  Neutro
  BY <1>9 DEF RecursoFallido, WaitObtiene, WaitBloquea, SignalLibera,
     SignalDespierta
<1>10. ASSUME NEW p \in Pid, NEW a \in Archivos,
              \/ FOpenPide(p, a) \/ FOpenBloquea(p, a) \/ FClose(p, a)
              \/ FSeek(p, a)
       PROVE  Neutro
  BY <1>10 DEF FOpenPide, FOpenBloquea, FClose, FSeek, Recibe
<1>. HIDE DEF Neutro, EnTurno, TypeOK, TipoListas, Semaforos, Hilos, Post,
         Espera, hiloCpu, hiloFs
<1>. QED  BY <1>1, <1>2, <1>3, <1>4, <1>5, <1>6, <1>7, <1>8, <1>9, <1>10
          DEF Next, HiloCpu, HiloFs, InstruccionCpu

(* What is in flight is the first request and the rest.                    *)
LEMMA RestoDelVuelo ==
    ASSUME NEW v \in Seq(Peticion), v # <<>>
    PROVE  \A x \in Ocupantes(v) : x = Head(v) \/ x \in Ocupantes(Tail(v))
<1>1. /\ Tail(v) \in Seq(Peticion) /\ Len(Tail(v)) = Len(v) - 1
      /\ Len(v) \in Nat \ {0} /\ Head(v) = v[1] /\ DOMAIN v = 1..Len(v)
      /\ \A i \in 1..(Len(v) - 1) : Tail(v)[i] = v[i + 1]
  BY HeadTailProperties, EmptySeq, LenProperties
<1>2. DOMAIN Tail(v) = 1..(Len(v) - 1)
  BY <1>1, LenProperties
<1>. SUFFICES ASSUME NEW i \in 1..Len(v), i # 1
              PROVE  v[i] \in Ocupantes(Tail(v))
  BY <1>1 DEF Ocupantes
<1>3. i - 1 \in 1..(Len(v) - 1) /\ Tail(v)[i - 1] = v[i]
  BY <1>1
<1>. QED  BY <1>2, <1>3 DEF Ocupantes

(* The process of the first request in flight asked for no other.          *)
LEMMA HeadDeVuelo ==
    ASSUME TypeOK, RespuestaDeSuProceso, CadaPcbEnUnLugar, EnVuelo # <<>>,
           NEW x \in Ocupantes(Tail(EnVuelo))
    PROVE  x.pid # Head(EnVuelo).pid
<1>1. /\ EnVuelo \in Seq(Peticion) /\ cola["blockFs"] \in Seq(Pid)
      /\ DOMAIN EnVuelo = DOMAIN cola["blockFs"]
      /\ \A i \in DOMAIN EnVuelo : EnVuelo[i].pid = cola["blockFs"][i]
  BY VueloDeCola
<1>2. SinRepetidos(cola["blockFs"])
  <2>1. <<"cola", "blockFs">> \in Sitios
        /\ Lista[<<"cola", "blockFs">>] = cola["blockFs"]
    BY DEF Sitios, Colas, Lista
  <2>. QED  BY <2>1 DEF CadaPcbEnUnLugar, EnUnLugar
<1>3. PICK v \in Seq(Peticion) : v = EnVuelo
  BY <1>1
<1>4. /\ Tail(v) \in Seq(Peticion) /\ Len(Tail(v)) = Len(v) - 1
      /\ Len(v) \in Nat \ {0} /\ Head(v) = v[1] /\ DOMAIN v = 1..Len(v)
      /\ \A i \in 1..(Len(v) - 1) : Tail(v)[i] = v[i + 1]
  BY <1>3, HeadTailProperties, EmptySeq, LenProperties
<1>5. DOMAIN Tail(v) = 1..(Len(v) - 1)
  BY <1>4, LenProperties
<1>6. PICK i \in 1..(Len(v) - 1) : x = Tail(v)[i]
  BY <1>3, <1>5 DEF Ocupantes
<1>7. i + 1 \in DOMAIN v /\ 1 \in DOMAIN v /\ i + 1 # 1 /\ x = v[i + 1]
  BY <1>4, <1>6
<1>. QED  BY <1>1, <1>2, <1>3, <1>4, <1>7 DEF SinRepetidos

(* The turn and the count, step by step.                                   *)
LEMMA TurnoPaso ==
    ASSUME UnSoloLector, LugaresInv, TurnoInv, Next
    PROVE  TurnoInv'
<1>0. /\ TypeOK /\ FichaExec /\ ContextoDeSuPcb /\ RespuestaDeSuProceso
      /\ LectoresLeen /\ CuentaExacta /\ FichaOngoing
  BY DEF LugaresInv, ColasInv, Base, TurnoInv
<1>1. /\ pcCpu \in {"espera", "guarda"} => ~UsaElDisco
      /\ pcFs \in {"guarda", "prueba"} => ~LecturaEnVuelo
      /\ \A p \in Pid : Recibe(p, "F_RW") => ~UsaElDisco /\ EsLector(p)
  BY <1>0, UnaEtapa
<1>2. /\ EnVuelo \in Seq(Peticion) /\ peticiones \in Seq(Peticion)
      /\ respuestas \in Seq(Peticion) /\ Ocupantes(EnVuelo) \subseteq Peticion
      /\ sem \in [Semaforos -> Nat] /\ "ongoing" \in Semaforos
      /\ mano \in [Hilos -> Pid \cup {Nadie}] /\ "cpu" \in Hilos /\ "fs" \in Hilos
  BY <1>0, VueloDeCola DEF TypeOK, TipoListas, Hilos, Semaforos
<1>3. Ocupantes(EnVuelo') \subseteq Peticion
  <2>1. TypeOK'
    BY <1>0, TipoPaso
  <2>2. EnVuelo' \in Seq(Peticion)
    BY <2>1, ConcatProperties DEF TypeOK, TipoExternos, EnVuelo
  <2>. QED  BY <2>2, ElementOfSeq, LenProperties DEF Ocupantes
<1>4. ASSUME \A x \in Peticion : x.op = "F_RW" =>
                (x \in Ocupantes(EnVuelo') <=> x \in Ocupantes(EnVuelo))
      PROVE  /\ LecturaEnVuelo' <=> LecturaEnVuelo
             /\ \A x \in Ocupantes(EnVuelo') : x.op = "F_RW" => EsLector(x.pid)
  BY <1>0, <1>2, <1>3, <1>4 DEF LecturaEnVuelo, LectoresLeen
<1>5. ASSUME LecturaEnVuelo' <=> LecturaEnVuelo,
             \A x \in Ocupantes(EnVuelo') : x.op = "F_RW" => EsLector(x.pid)
      PROVE  \/ TurnoInv'
             \/ FRwGuarda \/ FsRecibe
  <2>1. CASE Neutro
    BY <1>0, <1>5, <2>1
       DEF Neutro, EnTurno, TurnoInv, LectoresLeen, CuentaExacta, FichaOngoing,
           UsaElDisco, EsLector
  <2>2. ASSUME NEW p \in Pid, FRwRecibe(p) PROVE TurnoInv'
    <3>1. EsLector(p) /\ ~UsaElDisco /\ pcCpu = "recv"
      BY <1>1, <2>2 DEF FRwRecibe, Recibe
    <3>2. fsMemOpCount = 0 /\ sem["ongoing"] = 1
      BY <1>0, <3>1 DEF CuentaExacta, FichaOngoing, UsaElDisco
    <3>3. /\ pcCpu' = "espera" /\ mano'["cpu"] = p /\ mano'["fs"] = mano["fs"]
          /\ UNCHANGED <<sem, pcFs, regFs, fsMemOpCount>>
      BY <1>2, <2>2, <3>2 DEF FRwRecibe, hiloFs, Hilos
    <3>. QED  BY <1>0, <1>5, <3>1, <3>2, <3>3
         DEF TurnoInv, LectoresLeen, CuentaExacta, FichaOngoing, UsaElDisco,
             EsLector
  <2>3. CASE FRwCarga
    <3>1. /\ pcCpu = "espera" /\ sem["ongoing"] > 0
          /\ sem'["ongoing"] = sem["ongoing"] - 1
          /\ regCpu' = fsMemOpCount /\ pcCpu' = "guarda"
          /\ UNCHANGED <<mano, pcFs, regFs, fsMemOpCount>>
      BY <1>0, <1>2, <2>3 DEF FRwCarga, Espera, CuentaExacta, hiloFs
    <3>. QED  BY <1>0, <1>1, <1>5, <3>1
         DEF TurnoInv, LectoresLeen, CuentaExacta, FichaOngoing, UsaElDisco,
             EsLector
  <2>4. CASE CompactaInicia
    <3>1. /\ pcCpu = "compactar" /\ sem["ongoing"] > 0
          /\ sem'["ongoing"] = sem["ongoing"] - 1 /\ pcCpu' = "compacta"
          /\ UNCHANGED <<mano, pcFs, regFs, fsMemOpCount>>
      BY <1>2, <2>4 DEF CompactaInicia, Espera, hiloFs
    <3>. QED  BY <1>0, <1>5, <3>1
         DEF TurnoInv, LectoresLeen, CuentaExacta, FichaOngoing, UsaElDisco,
             EsLector
  <2>5. ASSUME NEW M \in SUBSET conSegmentos, CompactaFin(M) PROVE TurnoInv'
    <3>1. /\ pcCpu = "compacta" /\ sem'["ongoing"] = sem["ongoing"] + 1
          /\ pcCpu' = "actualiza" /\ mano'["fs"] = mano["fs"]
          /\ UNCHANGED <<pcFs, regFs, fsMemOpCount>>
      BY <1>2, <2>5 DEF CompactaFin, Post, hiloFs, Hilos
    <3>. QED  BY <1>0, <1>5, <3>1
         DEF TurnoInv, LectoresLeen, CuentaExacta, FichaOngoing, UsaElDisco,
             EsLector
  <2>6. CASE FsGuarda
    <3>1. /\ pcFs = "guarda" /\ fsMemOpCount' = regFs - 1 /\ pcFs' = "prueba"
          /\ UNCHANGED <<sem, mano, pcCpu, regCpu>>
      BY <2>6 DEF FsGuarda, hiloCpu
    <3>. QED  BY <1>0, <1>1, <1>5, <3>1
         DEF TurnoInv, LectoresLeen, CuentaExacta, FichaOngoing, UsaElDisco,
             EsLector
  <2>7. CASE FsPrueba
    <3>1. pcFs = "prueba" /\ ~LecturaEnVuelo /\ fsMemOpCount = 0
      BY <1>0, <1>1, <2>7 DEF FsPrueba, CuentaExacta
    <3>2. /\ sem'["ongoing"] = sem["ongoing"] + 1 /\ pcFs' = "agrega"
          /\ UNCHANGED <<mano, pcCpu, regCpu, fsMemOpCount>>
      BY <1>2, <2>7, <3>1 DEF FsPrueba, Post, hiloCpu
    <3>. QED  BY <1>0, <1>1, <1>5, <3>1, <3>2
         DEF TurnoInv, LectoresLeen, CuentaExacta, FichaOngoing, UsaElDisco,
             EsLector
  <2>. QED  BY <1>0, <2>1, <2>2, <2>3, <2>4, <2>5, <2>6, <2>7, TurnoAjeno
<1>6. CASE FRwGuarda
  <2>. DEFINE x == [op |-> "F_RW", pid |-> mano["cpu"]]
  <2>1. /\ pcCpu = "guarda" /\ pcCpu' = "recv" /\ fsMemOpCount' = regCpu + 1
        /\ sem'["ongoing"] = sem["ongoing"] /\ mano'["fs"] = mano["fs"]
        /\ peticiones' = Append(peticiones, x) /\ respuestas' = respuestas
        /\ UNCHANGED <<pcFs, regFs>>
    BY <1>2, <1>6 DEF FRwGuarda, Post, hiloFs, Hilos, Semaforos
  <2>2. EsLector(mano["cpu"]) /\ ~UsaElDisco /\ regCpu = 0
    BY <1>0, <1>1, <2>1 DEF LectoresLeen, CuentaExacta
  <2>3. x \in Peticion /\ x.op = "F_RW" /\ x.pid = mano["cpu"]
    BY <2>2 DEF Peticion, EsLector
  <2>. HIDE DEF x
  <2>4. Ocupantes(EnVuelo') = Ocupantes(EnVuelo) \cup {x}
    BY <1>2, <2>1, <2>3, VueloCrece DEF EnVuelo
  <2>5. LecturaEnVuelo'
    BY <2>3, <2>4 DEF LecturaEnVuelo
  <2>6. \A y \in Ocupantes(EnVuelo') : y.op = "F_RW" => EsLector(y.pid)
    BY <1>0, <2>2, <2>3, <2>4 DEF LectoresLeen
  <2>. QED  BY <1>0, <2>1, <2>2, <2>5, <2>6
       DEF TurnoInv, LectoresLeen, CuentaExacta, FichaOngoing, UsaElDisco,
           EsLector
<1>7. CASE FsRecibe
  <2>. DEFINE l == cola["blockFs"]
              r == Head(respuestas)
  <2>1. /\ respuestas # <<>> /\ l # <<>> /\ pcFs = "recv"
        /\ respuestas' = Tail(respuestas) /\ peticiones' = peticiones
        /\ mano'["cpu"] = mano["cpu"]
        /\ sem'["ongoing"] = sem["ongoing"]
        /\ UNCHANGED <<pcCpu, regCpu, fsMemOpCount>>
    BY <1>2, <1>7 DEF FsRecibe, Post, hiloCpu, Hilos, Semaforos
  <2>2. /\ EnVuelo' = Tail(EnVuelo) /\ Head(EnVuelo) = r /\ EnVuelo # <<>>
        /\ Head(l) = r.pid
    <3>1. EnVuelo' = Tail(EnVuelo) /\ Head(EnVuelo) = r
      BY <1>2, <2>1, VueloLlega DEF EnVuelo
    <3>. QED  BY <1>0, <1>2, <2>1, <3>1, VueloDeCola, SiguenLlega
              DEF RespuestaDeSuProceso, Siguen
  <2>3. r \in Ocupantes(EnVuelo) /\ Ocupantes(EnVuelo') \subseteq Ocupantes(EnVuelo)
    BY <1>2, <2>2, VueloMengua
  <2>4. \A x \in Ocupantes(EnVuelo') : x.op = "F_RW" => EsLector(x.pid)
    BY <1>0, <2>3 DEF LectoresLeen
  <2>5. CASE r.op # "F_RW"
    <3>1. LecturaEnVuelo' <=> LecturaEnVuelo
      <4>1. \A x \in Ocupantes(EnVuelo) : x = r \/ x \in Ocupantes(EnVuelo')
        BY <1>2, <2>2, RestoDelVuelo
      <4>. QED  BY <2>3, <2>5, <4>1 DEF LecturaEnVuelo
    <3>2. pcFs' \in {"recv", "agrega"}
      BY <1>7, <2>1, <2>5 DEF FsRecibe, hiloFs
    <3>. QED  BY <1>0, <2>1, <2>4, <3>1, <3>2
         DEF TurnoInv, LectoresLeen, CuentaExacta, FichaOngoing, UsaElDisco,
             EsLector
  <2>6. CASE r.op = "F_RW"
    <3>1. /\ pcFs' = "guarda" /\ regFs' = fsMemOpCount /\ mano'["fs"] = r.pid
      BY <1>2, <1>7, <2>2, <2>6 DEF FsRecibe, Hilos
    <3>2. LecturaEnVuelo /\ EsLector(r.pid)
      BY <1>0, <2>3, <2>6 DEF LecturaEnVuelo, LectoresLeen
    <3>3. ~LecturaEnVuelo'
      <4>1. ASSUME NEW x \in Ocupantes(EnVuelo'), x.op = "F_RW" PROVE FALSE
        <5>1. x.pid = r.pid
          BY <2>4, <3>2, <4>1 DEF UnSoloLector, EsLector
        <5>. QED  BY <1>0, <2>1, <2>2, <4>1, <5>1, HeadDeVuelo DEF LugaresInv
      <4>. QED  BY <4>1 DEF LecturaEnVuelo
    <3>. QED  BY <1>0, <2>1, <2>4, <3>1, <3>2, <3>3
         DEF TurnoInv, LectoresLeen, CuentaExacta, FichaOngoing, UsaElDisco,
             EsLector
  <2>. QED  BY <2>5, <2>6
<1>. QED  BY <1>4, <1>5, <1>6, <1>7, LecturasAjenas

(* With a single reader the counter is exact and the turn is one token.    *)
THEOREM TurnoInvariante ==
    ASSUME UnSoloLector
    PROVE  Spec => []TurnoInv
<1>1. Init => TurnoInv
  <2>. SUFFICES ASSUME Init PROVE TurnoInv
    OBVIOUS
  <2>1. EnVuelo = <<>>
    BY ConcatEmptySeq, EmptySeq DEF Init, EnVuelo
  <2>2. ~LecturaEnVuelo /\ Ocupantes(EnVuelo) = {}
    BY <2>1, ListaVacia DEF LecturaEnVuelo
  <2>. QED  BY <2>2 DEF Init, Semaforos, TurnoInv, LectoresLeen, CuentaExacta,
            FichaOngoing, UsaElDisco
<1>2. LugaresInv /\ TurnoInv /\ [Next]_vars => TurnoInv'
  <2>. SUFFICES ASSUME LugaresInv, TurnoInv, [Next]_vars PROVE TurnoInv'
    OBVIOUS
  <2>1. CASE UNCHANGED vars
    <3>1. EnVuelo' = EnVuelo /\ UNCHANGED <<sem, mano, fsMemOpCount>>
          /\ UNCHANGED <<pcCpu, regCpu, pcFs, regFs>>
      BY <2>1 DEF vars, hiloCpu, hiloFs, fileSystem, EnVuelo
    <3>. QED  BY <3>1 DEF TurnoInv, LectoresLeen, CuentaExacta, FichaOngoing,
              UsaElDisco, LecturaEnVuelo, EsLector
  <2>. QED  BY <2>1, TurnoPaso
<1>. QED  BY LugaresInvariante, <1>1, <1>2, PTL DEF Spec

(* While the memory compacts no F_READ or F_WRITE is left to serve, with   *)
(* any number of processes and files, if only one process reads and writes *)
(* them (the protocol of fs_mem_op_count and ongoing_fs_mem_op).           *)
THEOREM CompactaSinLecturas ==
    ASSUME UnSoloLector
    PROVE  Spec => []FsSinCompactar
<1>1. LugaresInv /\ TurnoInv => FsSinCompactar
  <2>. SUFFICES ASSUME LugaresInv, TurnoInv, pcCpu = "compacta",
                       NEW i \in DOMAIN peticiones, peticiones[i].op = "F_RW"
                PROVE  FALSE
    BY DEF FsSinCompactar
  <2>1. ~LecturaEnVuelo
    BY DEF TurnoInv, FichaOngoing, UsaElDisco
  <2>2. respuestas \in Seq(Peticion) /\ peticiones \in Seq(Peticion)
    BY VueloDeCola DEF LugaresInv, ColasInv, Base
  <2>3. PICK j \in DOMAIN EnVuelo : EnVuelo[j] = peticiones[i]
    <3>1. /\ Len(respuestas) \in Nat /\ Len(peticiones) \in Nat
          /\ i \in 1..Len(peticiones)
      BY <2>2, LenProperties
    <3>2. /\ EnVuelo \in Seq(Peticion)
          /\ Len(EnVuelo) = Len(respuestas) + Len(peticiones)
          /\ \A k \in 1..(Len(respuestas) + Len(peticiones)) :
               EnVuelo[k] = IF k <= Len(respuestas) THEN respuestas[k]
                            ELSE peticiones[k - Len(respuestas)]
      BY <2>2, ConcatProperties DEF EnVuelo
    <3>3. DOMAIN EnVuelo = 1..(Len(respuestas) + Len(peticiones))
      BY <3>2, LenProperties
    <3>4. /\ Len(respuestas) + i \in 1..(Len(respuestas) + Len(peticiones))
          /\ ~(Len(respuestas) + i <= Len(respuestas))
          /\ (Len(respuestas) + i) - Len(respuestas) = i
      BY <3>1
    <3>. QED  BY <3>2, <3>3, <3>4
  <2>. QED  BY <2>1, <2>3 DEF LecturaEnVuelo, Ocupantes
<1>. QED  BY LugaresInvariante, TurnoInvariante, <1>1, PTL

(* Whoever waits for ongoing_fs_mem_op, a reader or a compaction, will be  *)
(* posted: the token is never lost, under the same hypothesis.             *)
THEOREM NadieEsperaEnVano ==
    ASSUME UnSoloLector
    PROVE  Spec => []EsperaConTurno
<1>1. TurnoInv => EsperaConTurno
  BY DEF TurnoInv, FichaOngoing, UsaElDisco, EsperaConTurno
<1>. QED  BY TurnoInvariante, <1>1, PTL

-----------------------------------------------------------------------------
(* The segment tables, when the processes that create segments never wait. *)
Segmentados == {p \in Pid : "CREATE_SEGMENT" \in Programa[p]}

(* Such a process is never blocked nor holds a file, so the CPU thread has *)
(* it in its hand only to compact.                                         *)
SinEsperas ==
    /\ \A p \in Segmentados : estado[p] # "BLOCK" /\ archivosDe[p] = {}
    /\ pcCpu \in {"fOpen", "espera", "carga", "guarda"} =>
         mano["cpu"] \notin Segmentados
    /\ pcCpu \in {"compactar", "compacta"} => mano["cpu"] \in Segmentados
    /\ pcCpu = "actualiza" => Ocupantes(cola["exec"]) \subseteq Segmentados

(* The context that comes back is that of the only process in cola_exec.   *)
LEMMA RecibeElSuyo ==
    ASSUME ContextoDeSuPcb, NEW p \in Pid, NEW i, Recibe(p, i)
    PROVE  /\ pcCpu = "recv" /\ cola["exec"] = <<p>> /\ p = cpu
           /\ i \in Programa[p] /\ p = Head(cola["exec"])
  BY DEF ContextoDeSuPcb, Recibe

(* What the handlers of a trap do to SinEsperas.                           *)
LEMMA SinEsperasInstruccion ==
    ASSUME SegmentosSinEsperas, TypeOK, FichaExec, ContextoDeSuPcb, SinEsperas,
           NEW p \in Pid, InstruccionCpu(p)
    PROVE  SinEsperas'
<1>. USE RecibeElSuyo DEF SinEsperas, SegmentosSinEsperas, TypeOK, TipoPcb,
         TipoArchivos, pcbs, hiloCpu, archivos
<1>0. p \in Segmentados =>
        "IO" \notin Programa[p] /\ "WAIT" \notin Programa[p]
        /\ "F_OPEN" \notin Programa[p]
  BY DEF Segmentados
<1>0a. Segmentados \subseteq Pid /\ mano \in [Hilos -> Pid \cup {Nadie}]
       /\ "cpu" \in Hilos
  BY DEF Segmentados, TipoListas, Hilos
<1>1. CASE Yield(p) \/ Exit(p) \/ SegFault(p) \/ ManejarIO(p)
  BY <1>0, <1>0a, <1>1 DEF Yield, Exit, SegFault, Termina, ManejarIO
<1>2. ASSUME NEW r \in Pedidos,
             \/ RecursoFallido(p, r) \/ WaitObtiene(p, r)
             \/ WaitBloquea(p, r) \/ SignalLibera(p, r)
             \/ SignalDespierta(p, r)
      PROVE  SinEsperas'
  BY <1>0, <1>0a, <1>2 DEF RecursoFallido, WaitObtiene, WaitBloquea,
     SignalLibera, SignalDespierta, Recibe
<1>3. ASSUME NEW a \in Archivos,
             \/ FOpenPide(p, a) \/ FOpenBloquea(p, a) \/ FClose(p, a)
             \/ FSeek(p, a)
      PROVE  SinEsperas'
  BY <1>0, <1>0a, <1>3 DEF FOpenPide, FOpenBloquea, FClose, FSeek
<1>4. CASE FTruncate(p) \/ FRwRecibe(p)
  BY <1>0a, <1>4 DEF FTruncate, FRwRecibe
<1>5. CASE \/ SegmentoCreado(p) \/ SinMemoria(p) \/ DeleteSegment(p)
  BY <1>0a, <1>5 DEF SegmentoCreado, SinMemoria, DeleteSegment
<1>6. CASE PideCompactar(p)
  BY <1>0a, <1>6 DEF PideCompactar, Segmentados
<1>. HIDE DEF SinEsperas
<1>. QED  BY <1>1, <1>2, <1>3, <1>4, <1>5, <1>6 DEF InstruccionCpu

(* Whoever creates segments goes on never waiting, step by step.           *)
LEMMA SinEsperasPaso ==
    ASSUME SegmentosSinEsperas, TypeOK, FichaExec, ContextoDeSuPcb, SinEsperas,
           Next
    PROVE  SinEsperas'
<1>. USE DEF SinEsperas, TypeOK, TipoPcb, TipoArchivos, pcbs, hiloCpu, archivos
<1>0. /\ Segmentados \subseteq Pid /\ mano \in [Hilos -> Pid \cup {Nadie}]
      /\ "cpu" \in Hilos /\ "exec" \in Colas /\ cola \in [Colas -> Seq(Pid)]
      /\ Nadie \notin Segmentados
  BY KernelAssumption DEF Segmentados, TipoListas, Hilos, Colas
<1>1. CASE HiloReady \/ HiloBlock
  BY <1>0, <1>1 DEF HiloReady, HiloBlock, ReadyToma, ReadyAdmite, BlockToma,
     BlockDevuelve, Agrega, Saca, Colas, Hilos
<1>2. CASE HiloExec
  BY <1>0, <1>2 DEF HiloExec, ExecElige, ExecDespacha, FichaExec, Colas, Hilos
<1>3. CASE HiloExit
  BY <1>0, <1>3 DEF HiloExit, Saca, Colas
<1>4. CASE HiloFs \/ FsAtiende \/ Muere \/ Reposo
  BY <1>0, <1>4 DEF HiloFs, FsRecibe, FsGuarda, FsPrueba, FsAgrega, FsAtiende,
     Muere, Reposo, vars, Agrega, Saca, Colas, Hilos
<1>5. ASSUME NEW p \in Pid, ArmarPcb(p) \/ FinIO(p) PROVE SinEsperas'
  BY <1>0, <1>5 DEF ArmarPcb, FinIO, Agrega, Colas
<1>6. CASE FOpenFin \/ FRwCarga \/ FRwGuarda \/ CompactaInicia
           \/ ActualizaCola \/ CompactaSigue
  BY <1>0, <1>6 DEF FOpenFin, FRwCarga, FRwGuarda, CompactaInicia,
     ActualizaCola, CompactaSigue, FichaExec
<1>7. ASSUME NEW M \in SUBSET conSegmentos, CompactaFin(M) PROVE SinEsperas'
  <2>1. PICK p \in Segmentados : p = mano["cpu"]
    BY <1>7 DEF CompactaFin
  <2>2. cola["exec"] = <<>>
    BY <1>7 DEF CompactaFin, FichaExec, ContextoDeSuPcb
  <2>3. cola'["exec"] = <<p>>
    BY <1>0, <1>7, <2>1, <2>2 DEF CompactaFin, Agrega
  <2>4. Ocupantes(cola'["exec"]) = {p}
    BY <2>3, ListaDeUno
  <2>5. pcCpu' = "actualiza" /\ UNCHANGED <<estado, archivosDe>>
    BY <1>7 DEF CompactaFin
  <2>. QED  BY <2>4, <2>5
<1>. HIDE DEF SinEsperas, TypeOK, TipoPcb, TipoArchivos
<1>. QED  BY <1>1, <1>2, <1>3, <1>4, <1>5, <1>6, <1>7, SinEsperasInstruccion
          DEF Next, HiloCpu

(* Only such processes own segments, once admitted and until destroyed.    *)
DeSegmentados ==
    /\ conSegmentos \subseteq Segmentados /\ tsObsoleta \subseteq conSegmentos
    /\ \A p \in conSegmentos : estado[p] \notin {"NO_CREADO", "NEW", "DESTRUIDO"}

(* A table is out of date only in the process about to be destroyed, or    *)
(* ahead of actualizar_ts_de_pcbs, in one of the lists it has still to see.*)
PorActualizar(p) ==
    \/ p \in Ocupantes(cola["exit"])
    \/ /\ pcCpu = "actualiza"
       /\ \/ paso <= 1 /\ p \in Ocupantes(cola["ready"])
          \/ paso <= 3 /\ p \in Ocupantes(cola["exec"])

TablasPorVer == \A p \in tsObsoleta : PorActualizar(p)

TablasInv == SinEsperas /\ DeSegmentados /\ TablasPorVer

(* While memory compacts, whoever owns segments is ready, ending, or the   *)
(* process that asked for the compaction.                                  *)
LEMMA DondeCompacta ==
    ASSUME VidaInv, SinEsperas, pcCpu = "compacta", NEW p \in Segmentados,
           estado[p] \notin {"NO_CREADO", "NEW", "DESTRUIDO"}
    PROVE  \/ p \in Ocupantes(cola["ready"]) \/ p \in Ocupantes(cola["exit"])
           \/ p = mano["cpu"]
<1>1. /\ TypeOK /\ FichaExec /\ ContextoDeSuPcb /\ CadaPcbEnUnLugar
      /\ EstadosBien /\ EstadosFs /\ Apertura /\ RespuestaDeSuProceso
      /\ PerdidosBloqueados
  BY DEF VidaInv, CicloInv, LugaresInv, ColasInv, Base
<1>2. p \in Pid /\ estado[p] # "BLOCK" /\ p \in Vivos
  BY <1>1 DEF Segmentados, SinEsperas, Vivos, PerdidosBloqueados
<1>3. estado[p] \in {"READY", "EXEC", "FINISH_EXIT", "FINISH_ERROR"}
  BY <1>1, <1>2 DEF TypeOK, TipoPcb, Estados
<1>4. PICK s \in Sitios : p \in Ocupantes(Lista[s])
  BY <1>1, <1>2 DEF CadaPcbEnUnLugar, EnUnLugar
<1>5. estado[p] \in EstadosEn(s)
  BY <1>1, <1>4 DEF EstadosBien
<1>6. ASSUME NEW q \in Colas, s = <<"cola", q>>
      PROVE  p \in Ocupantes(cola["ready"]) \/ p \in Ocupantes(cola["exit"])
  <2>1. Lista[s] = cola[q] /\ EstadosEn(s) = EstadosEnCola[q]
    BY <1>6 DEF Lista, Sitios, EstadosEn
  <2>2. q \in {"ready", "exec", "exit", "blockFs"}
    BY <1>3, <1>5, <2>1, <1>6 DEF EstadosEnCola, Colas
  <2>3. cola["exec"] = <<>>
    BY <1>1 DEF FichaExec, ContextoDeSuPcb
  <2>4. CASE q = "blockFs"
    <3>1. PICK x \in Ocupantes(EnVuelo) : x.pid = p
      BY <1>1, <1>4, <2>1, <2>4, VueloDeCola
    <3>2. x.op = "F_OPEN"
      BY <1>1, <1>2, <3>1 DEF EstadosFs
    <3>. QED  BY <1>1, <3>1, <3>2 DEF Apertura
  <2>. QED  BY <1>4, <2>1, <2>2, <2>3, <2>4, ListaVacia
<1>7. ASSUME NEW h \in Hilos, s = <<"hilo", h>> PROVE p = mano["cpu"]
  <2>1. /\ Lista[s] = IF EnMano[h] = Nadie THEN <<>> ELSE <<EnMano[h]>>
        /\ EstadosEn(s) = EstadosEnHilo[h]
    BY <1>7 DEF Lista, Sitios, EstadosEn
  <2>2. h \in {"exec", "cpu"}
    BY <1>3, <1>5, <1>7, <2>1 DEF EstadosEnHilo, Hilos
  <2>3. EnMano["exec"] = Nadie /\ EnMano["cpu"] = mano["cpu"]
    BY <1>1 DEF EnMano, FichaExec, Hilos
  <2>4. EnMano[h] # Nadie => Ocupantes(Lista[s]) = {EnMano[h]}
    BY <2>1, ListaDeUno
  <2>. QED  BY <1>4, <2>1, <2>2, <2>3, <2>4, ListaVacia
<1>8. s[1] \in {"recurso", "archivo", "io"} => EstadosEn(s) = {"BLOCK"}
  BY <1>4 DEF EstadosEn
<1>9. \/ \E q \in Colas : s = <<"cola", q>>
      \/ \E h \in Hilos : s = <<"hilo", h>>
      \/ s[1] \in {"recurso", "archivo", "io"}
  BY <1>4 DEF Sitios
<1>. QED  BY <1>2, <1>5, <1>6, <1>7, <1>8, <1>9

(* The lists actualizar_ts_de_pcbs has still to see only grow.             *)
LEMMA ListasCrecen ==
    ASSUME TypeOK, FichaExec, Next
    PROVE  /\ HiloExit \/ Ocupantes(cola["exit"]) \subseteq Ocupantes(cola'["exit"])
           /\ pcCpu = "actualiza" /\ ~CompactaSigue =>
                /\ pcCpu' = "actualiza"
                /\ Ocupantes(cola["ready"]) \subseteq Ocupantes(cola'["ready"])
                /\ cola'["exec"] = cola["exec"]
                /\ paso' = paso \/ ActualizaCola
<1>. DEFINE Crece(q) == Ocupantes(cola[q]) \subseteq Ocupantes(cola'[q])
            Marcha == /\ pcCpu' = "actualiza" /\ Crece("ready")
                      /\ cola'["exec"] = cola["exec"]
                      /\ paso' = paso \/ ActualizaCola
            Meta == /\ HiloExit \/ Crece("exit")
                    /\ pcCpu = "actualiza" /\ ~CompactaSigue => Marcha
<1>. SUFFICES Meta
  OBVIOUS
<1>0. /\ cola \in [Colas -> Seq(Pid)] /\ mano \in [Hilos -> Pid \cup {Nadie}]
      /\ {"ready", "exit", "exec", "block", "blockFs", "listos"} \subseteq Colas
      /\ {"ready", "block", "exec", "cpu", "fs"} \subseteq Hilos
      /\ io \subseteq Pid
  BY DEF TypeOK, TipoListas, Colas, Hilos
<1>1. ASSUME NEW q \in Colas, NEW p \in Pid, cola' = Agrega(cola, q, p)
      PROVE  /\ \A k \in Colas : Crece(k)
             /\ \A k \in Colas \ {q} : cola'[k] = cola[k]
  BY <1>0, <1>1, OcupaAppendExacto DEF Agrega
<1>2. ASSUME NEW q \in Colas, cola' = Saca(cola, q)
      PROVE  \A k \in Colas \ {q} : cola'[k] = cola[k]
  BY <1>0, <1>2 DEF Saca
<1>3. CASE ReadyToma \/ BlockToma
  <2>1. \A k \in Colas \ {"listos", "block"} : cola'[k] = cola[k]
    BY <1>0, <1>2, <1>3 DEF ReadyToma, BlockToma
  <2>2. UNCHANGED <<pcCpu, paso>>
    BY <1>3 DEF ReadyToma, BlockToma, hiloCpu
  <2>. QED  BY <1>0, <2>1, <2>2
<1>4. CASE ReadyAdmite \/ BlockDevuelve
  <2>1. PICK p \in Pid : cola' = Agrega(cola, "ready", p)
    BY <1>0, <1>4 DEF ReadyAdmite, BlockDevuelve
  <2>2. UNCHANGED <<pcCpu, paso>>
    BY <1>4 DEF ReadyAdmite, BlockDevuelve, hiloCpu
  <2>. QED  BY <1>0, <1>1, <2>1, <2>2
<1>5. CASE HiloExec
  <2>1. pcCpu = "recv"
    BY <1>5 DEF HiloExec, ExecElige, ExecDespacha, FichaExec
  <2>2. cola'["exit"] = cola["exit"]
    BY <1>0, <1>5 DEF HiloExec, ExecElige, ExecDespacha, Agrega
  <2>. QED  BY <2>1, <2>2
<1>6. CASE HiloExit
  <2>1. \A k \in Colas \ {"exit"} : cola'[k] = cola[k]
    BY <1>0, <1>2, <1>6 DEF HiloExit
  <2>2. UNCHANGED <<pcCpu, paso>>
    BY <1>6 DEF HiloExit, hiloCpu
  <2>. QED  BY <1>0, <1>6, <2>1, <2>2
<1>7. ASSUME NEW p \in Pid, ArmarPcb(p) \/ FinIO(p) PROVE Meta
  <2>1. \E q \in {"listos", "block"} : cola' = Agrega(cola, q, p)
    BY <1>7 DEF ArmarPcb, FinIO
  <2>2. UNCHANGED <<pcCpu, paso>>
    BY <1>7 DEF ArmarPcb, FinIO, hiloCpu
  <2>. QED  BY <1>0, <1>1, <2>1, <2>2
<1>8. CASE HiloFs \/ FsAtiende \/ Muere \/ Reposo
  <2>1. \A k \in Colas \ {"block", "blockFs"} : cola'[k] = cola[k]
    BY <1>0, <1>8 DEF HiloFs, FsRecibe, FsGuarda, FsPrueba, FsAgrega, FsAtiende,
       Muere, Reposo, vars, Agrega, Saca
  <2>2. UNCHANGED <<pcCpu, paso>>
    BY <1>8 DEF HiloFs, FsRecibe, FsGuarda, FsPrueba, FsAgrega, FsAtiende,
       Muere, Reposo, vars, hiloCpu
  <2>. QED  BY <1>0, <2>1, <2>2
<1>9. ASSUME NEW p \in Pid, InstruccionCpu(p) PROVE Meta
  <2>1. pcCpu = "recv"
    BY <1>9 DEF InstruccionCpu, Yield, Exit, SegFault, Termina, ManejarIO,
       RecursoFallido, WaitObtiene, WaitBloquea, SignalLibera, SignalDespierta,
       FOpenPide, FOpenBloquea, FClose, FSeek, FTruncate, FRwRecibe,
       SegmentoCreado, SinMemoria, PideCompactar, DeleteSegment, Recibe
  <2>. DEFINE Sale == \/ cola'["exit"] = cola["exit"]
                      \/ cola'["exit"] = Append(cola["exit"], p)
  <2>2. Yield(p) \/ Exit(p) \/ SegFault(p) \/ ManejarIO(p) => Sale
    BY <1>0 DEF Yield, Exit, SegFault, Termina, ManejarIO, Desaloja, Agrega, Saca
  <2>3. ASSUME NEW r \in Pedidos,
               \/ RecursoFallido(p, r) \/ WaitObtiene(p, r)
               \/ WaitBloquea(p, r) \/ SignalLibera(p, r)
               \/ SignalDespierta(p, r)
        PROVE  Sale
    BY <1>0, <2>3 DEF RecursoFallido, WaitObtiene, WaitBloquea, SignalLibera,
       SignalDespierta, Desaloja, Reanuda, Agrega, Saca
  <2>4. ASSUME NEW a \in Archivos,
               \/ FOpenPide(p, a) \/ FOpenBloquea(p, a) \/ FClose(p, a)
               \/ FSeek(p, a)
        PROVE  Sale
    BY <1>0, <2>4 DEF FOpenPide, FOpenBloquea, FClose, FSeek, Desaloja, Reanuda,
       Agrega, Saca
  <2>5. ASSUME \/ FTruncate(p) \/ FRwRecibe(p) \/ SegmentoCreado(p)
               \/ SinMemoria(p) \/ PideCompactar(p) \/ DeleteSegment(p)
        PROVE  Sale
    BY <1>0, <2>5 DEF FTruncate, FRwRecibe, SegmentoCreado, SinMemoria,
       PideCompactar, DeleteSegment, Desaloja, Reanuda, Agrega, Saca
  <2>. HIDE DEF Sale
  <2>6. Sale
    BY <1>9, <2>2, <2>3, <2>4, <2>5 DEF InstruccionCpu
  <2>. USE DEF Sale
  <2>7. CASE cola'["exit"] = cola["exit"]
    BY <2>1, <2>7
  <2>8. CASE cola'["exit"] = Append(cola["exit"], p)
    <3>1. cola["exit"] \in Seq(Pid) /\ p \in Pid
      BY <1>0, <1>9
    <3>2. Ocupantes(Append(cola["exit"], p)) = Ocupantes(cola["exit"]) \cup {p}
      BY <3>1, OcupaAppendExacto
    <3>. QED  BY <2>1, <2>8, <3>2
  <2>. QED  BY <2>6, <2>7, <2>8
<1>10. CASE FOpenFin \/ FRwCarga \/ FRwGuarda \/ CompactaInicia
  <2>1. pcCpu # "actualiza"
    BY <1>10 DEF FOpenFin, FRwCarga, FRwGuarda, CompactaInicia
  <2>2. cola'["exit"] = cola["exit"]
    BY <1>0, <1>10 DEF FOpenFin, FRwCarga, FRwGuarda, CompactaInicia, Agrega
  <2>. QED  BY <2>1, <2>2
<1>11. CASE CompactaSigue \/ \E M \in SUBSET conSegmentos : CompactaFin(M)
  <2>1. pcCpu # "actualiza" \/ CompactaSigue
    BY <1>11 DEF CompactaFin
  <2>2. cola'["exit"] = cola["exit"]
    BY <1>0, <1>11 DEF CompactaSigue, CompactaFin, Reanuda, Agrega, Saca
  <2>. QED  BY <2>1, <2>2
<1>12. CASE ActualizaCola
  BY <1>12 DEF ActualizaCola
<1>. HIDE DEF Meta
<1>. QED  BY <1>3, <1>4, <1>5, <1>6, <1>7, <1>8, <1>9, <1>10, <1>11, <1>12
          DEF Next, HiloReady, HiloBlock, HiloCpu

(* A process admitted stays so until exit_pcb destroys it.                 *)
LEMMA SigueAdmitido ==
    ASSUME TypeOK, Next, NEW p \in Pid,
           estado[p] \notin {"NO_CREADO", "NEW", "DESTRUIDO"}
    PROVE  \/ estado'[p] \notin {"NO_CREADO", "NEW", "DESTRUIDO"}
           \/ HiloExit /\ p = Head(cola["exit"])
<1>. DEFINE Meta == estado'[p] \notin {"NO_CREADO", "NEW", "DESTRUIDO"}
<1>. USE DEF TypeOK, TipoPcb, pcbs
<1>1. CASE HiloReady \/ HiloBlock \/ HiloExec
  BY <1>1 DEF HiloReady, HiloBlock, HiloExec, ReadyToma, ReadyAdmite, BlockToma,
     BlockDevuelve, ExecElige, ExecDespacha
<1>2. CASE HiloExit
  BY <1>2 DEF HiloExit
<1>3. ASSUME NEW x \in Pid, ArmarPcb(x) \/ FinIO(x) PROVE Meta
  BY <1>3 DEF ArmarPcb, FinIO
<1>4. ASSUME NEW x \in Pid, InstruccionCpu(x) PROVE Meta
  BY <1>4 DEF InstruccionCpu, Yield, Exit, SegFault, Termina, ManejarIO,
     RecursoFallido, WaitObtiene, WaitBloquea, SignalLibera, SignalDespierta,
     FOpenPide, FOpenBloquea, FClose, FSeek, FTruncate, FRwRecibe,
     SegmentoCreado, SinMemoria, PideCompactar, DeleteSegment
<1>5. ASSUME HiloCpu PROVE Meta
  BY <1>4, <1>5 DEF HiloCpu, FOpenFin, FRwCarga, FRwGuarda, CompactaInicia,
     CompactaFin, ActualizaCola, CompactaSigue
<1>6. CASE HiloFs \/ FsAtiende \/ Muere \/ Reposo
  BY <1>6 DEF HiloFs, FsRecibe, FsGuarda, FsPrueba, FsAgrega, FsAtiende,
     Muere, Reposo, vars
<1>. HIDE DEF TypeOK, TipoPcb
<1>. QED  BY <1>1, <1>2, <1>3, <1>5, <1>6 DEF Next

(* Who creates and deletes segments, moves them and updates the tables.    *)
LEMMA SegmentosAjenos ==
    ASSUME Next
    PROVE  \/ UNCHANGED memoria
           \/ HiloExit \/ ActualizaCola \/ CompactaSigue
           \/ \E p \in Pid : SegmentoCreado(p) \/ DeleteSegment(p)
           \/ \E M \in SUBSET conSegmentos : CompactaFin(M)
<1>. USE DEF memoria
<1>1. CASE HiloReady \/ HiloBlock \/ HiloExec
  BY <1>1 DEF HiloReady, HiloBlock, HiloExec, ReadyToma, ReadyAdmite, BlockToma,
     BlockDevuelve, ExecElige, ExecDespacha
<1>2. ASSUME NEW p \in Pid, ArmarPcb(p) \/ FinIO(p) PROVE UNCHANGED memoria
  BY <1>2 DEF ArmarPcb, FinIO
<1>3. ASSUME NEW p \in Pid, InstruccionCpu(p)
      PROVE  UNCHANGED memoria \/ SegmentoCreado(p) \/ DeleteSegment(p)
  BY <1>3 DEF InstruccionCpu, Yield, Exit, SegFault, Termina, ManejarIO,
     RecursoFallido, WaitObtiene, WaitBloquea, SignalLibera, SignalDespierta,
     FOpenPide, FOpenBloquea, FClose, FSeek, FTruncate, FRwRecibe, SinMemoria,
     PideCompactar
<1>4. CASE HiloFs \/ FsAtiende \/ Muere \/ Reposo
  BY <1>4 DEF HiloFs, FsRecibe, FsGuarda, FsPrueba, FsAgrega, FsAtiende,
     Muere, Reposo, vars
<1>5. FOpenFin \/ FRwCarga \/ FRwGuarda \/ CompactaInicia => UNCHANGED memoria
  BY DEF FOpenFin, FRwCarga, FRwGuarda, CompactaInicia
<1>. QED  BY <1>1, <1>2, <1>3, <1>4, <1>5 DEF Next, HiloCpu

(* Segments are created for a process that is on the CPU, and dropped with *)
(* the PCB.                                                                *)
LEMMA DeSegmentadosPaso ==
    ASSUME VidaInv, TablasInv, Next
    PROVE  DeSegmentados'
<1>0. /\ TypeOK /\ FichaExec /\ ContextoDeSuPcb /\ CadaPcbEnUnLugar
      /\ EstadosBien /\ DeSegmentados /\ SinEsperas
      /\ Segmentados \subseteq Pid
  BY DEF VidaInv, CicloInv, LugaresInv, ColasInv, Base, TablasInv, Segmentados
<1>1. ASSUME NEW x \in Segmentados, conSegmentos' \subseteq conSegmentos \cup {x},
             tsObsoleta' \subseteq tsObsoleta, tsObsoleta' \subseteq conSegmentos',
             estado[x] = "EXEC", ~HiloExit
      PROVE  DeSegmentados'
  BY <1>0, <1>1, SigueAdmitido DEF DeSegmentados
<1>2. ASSUME conSegmentos' \subseteq conSegmentos,
             tsObsoleta' \subseteq conSegmentos', ~HiloExit
      PROVE  DeSegmentados'
  BY <1>0, <1>2, SigueAdmitido DEF DeSegmentados
<1>3. ASSUME NEW x \in Ocupantes(cola["exec"]) PROVE estado[x] = "EXEC"
  <2>1. estado[x] \in EstadosEnCola["exec"] /\ "exec" \in Colas
    BY <1>0, EstadosDe DEF Colas
  <2>. QED  BY <2>1 DEF EstadosEnCola
<1>4. CASE HiloExit
  <2>. DEFINE h == Head(cola["exit"])
  <2>1. conSegmentos' = conSegmentos \ {h} /\ tsObsoleta' = tsObsoleta \ {h}
    BY <1>4 DEF HiloExit
  <2>. HIDE DEF h
  <2>2. \A p \in Pid \ {h} : estado[p] \notin {"NO_CREADO", "NEW", "DESTRUIDO"}
          => estado'[p] \notin {"NO_CREADO", "NEW", "DESTRUIDO"}
    BY <1>0, SigueAdmitido DEF h
  <2>. QED  BY <1>0, <2>1, <2>2 DEF DeSegmentados
<1>. SUFFICES ASSUME ~HiloExit PROVE DeSegmentados'
  BY <1>4
<1>5. CASE UNCHANGED memoria
  BY <1>0, <1>2, <1>5 DEF memoria, DeSegmentados
<1>6. CASE ActualizaCola
  BY <1>0, <1>2, <1>6 DEF ActualizaCola, DeSegmentados
<1>7. ASSUME NEW M \in SUBSET conSegmentos, CompactaFin(M)
      PROVE  DeSegmentados'
  BY <1>0, <1>2, <1>7 DEF CompactaFin, DeSegmentados
<1>8. ASSUME NEW p \in Pid, SegmentoCreado(p) PROVE DeSegmentados'
  <2>1. cola["exec"] = <<p>> /\ p \in Segmentados
    BY <1>0, <1>8, RecibeElSuyo DEF SegmentoCreado, Segmentados
  <2>2. estado[p] = "EXEC"
    BY <1>3, <2>1, ListaDeUno
  <2>. QED  BY <1>0, <1>1, <1>8, <2>1, <2>2 DEF SegmentoCreado, DeSegmentados
<1>9. ASSUME NEW p \in Pid, DeleteSegment(p) PROVE DeSegmentados'
  BY <1>0, <1>2, <1>9 DEF DeleteSegment, DeSegmentados
<1>10. CASE CompactaSigue
  <2>1. cola["exec"] # <<>> /\ cola["exec"] \in Seq(Pid)
    BY <1>0, <1>10 DEF CompactaSigue, TypeOK, TipoListas, Colas
  <2>2. PICK p \in Ocupantes(cola["exec"]) : p = Head(cola["exec"])
    BY <2>1, OcupaTail
  <2>3. estado[p] = "EXEC" /\ p \in Segmentados
    BY <1>0, <1>3, <1>10, <2>2 DEF SinEsperas, CompactaSigue
  <2>4. conSegmentos' = conSegmentos \cup {p} /\ tsObsoleta' \subseteq tsObsoleta
    BY <1>10, <2>2 DEF CompactaSigue
  <2>. QED  BY <1>0, <1>1, <2>3, <2>4 DEF DeSegmentados
<1>. QED  BY <1>5, <1>6, <1>7, <1>8, <1>9, <1>10, SegmentosAjenos

(* A compaction makes tables old only ahead of actualizar_ts_de_pcbs, and  *)
(* it leaves no list without having updated it.                            *)
LEMMA TablasPorVerPaso ==
    ASSUME VidaInv, TablasInv, Next
    PROVE  TablasPorVer'
<1>0. /\ TypeOK /\ FichaExec /\ ContextoDeSuPcb /\ CadaPcbEnUnLugar
      /\ DeSegmentados /\ SinEsperas /\ TablasPorVer
      /\ Segmentados \subseteq Pid /\ paso \in Nat
  BY DEF VidaInv, CicloInv, LugaresInv, ColasInv, Base, TablasInv, Segmentados,
     TypeOK, TipoHilos
<1>1. /\ HiloExit \/ Ocupantes(cola["exit"]) \subseteq Ocupantes(cola'["exit"])
      /\ pcCpu = "actualiza" /\ ~CompactaSigue =>
           /\ pcCpu' = "actualiza"
           /\ Ocupantes(cola["ready"]) \subseteq Ocupantes(cola'["ready"])
           /\ cola'["exec"] = cola["exec"]
           /\ paso' = paso \/ ActualizaCola
  BY <1>0, ListasCrecen
(* A step that updates no list and ends no process. *)
<1>2. ASSUME tsObsoleta' \subseteq tsObsoleta, ~HiloExit, ~CompactaSigue,
             ~ActualizaCola
      PROVE  TablasPorVer'
  BY <1>0, <1>1, <1>2 DEF TablasPorVer, PorActualizar
<1>3. CASE HiloExit
  <2>. DEFINE h == Head(cola["exit"])
  <2>1. /\ tsObsoleta' = tsObsoleta \ {h} /\ cola["exit"] # <<>>
        /\ cola'["exit"] = Tail(cola["exit"]) /\ UNCHANGED <<pcCpu, paso>>
        /\ cola'["ready"] = cola["ready"] /\ cola'["exec"] = cola["exec"]
    BY <1>0, <1>3 DEF HiloExit, Saca, hiloCpu, TypeOK, TipoListas, Colas
  <2>2. \A x \in Ocupantes(cola["exit"]) : x = h \/ x \in Ocupantes(cola'["exit"])
    BY <1>0, <2>1, OcupaResto DEF TypeOK, TipoListas, Colas
  <2>. HIDE DEF h
  <2>. QED  BY <1>0, <2>1, <2>2 DEF TablasPorVer, PorActualizar
<1>4. CASE ActualizaCola
  <2>1. /\ pcCpu = "actualiza" /\ pcCpu' = "actualiza" /\ UNCHANGED cola
        /\ tsObsoleta' = tsObsoleta \ Ocupantes(cola[OrdenTs[paso]])
        /\ paso' = paso + 1
    BY <1>4 DEF ActualizaCola
  <2>2. /\ paso = 1 => OrdenTs[paso] = "ready"
        /\ paso = 3 => OrdenTs[paso] = "exec"
    BY DEF OrdenTs
  <2>3. /\ paso <= 1 /\ ~(paso' <= 1) => paso = 1
        /\ paso <= 3 /\ ~(paso' <= 3) => paso = 3
    BY <1>0, <2>1
  <2>. QED  BY <1>0, <2>1, <2>2, <2>3 DEF TablasPorVer, PorActualizar
<1>5. CASE CompactaSigue
  <2>1. ~(paso <= 3) /\ tsObsoleta' \subseteq tsObsoleta
    BY <1>0, <1>5 DEF CompactaSigue, OrdenTs
  <2>2. \A x \in tsObsoleta : x \in Ocupantes(cola["exit"])
    BY <1>0, <2>1 DEF TablasPorVer, PorActualizar
  <2>3. cola'["exit"] = cola["exit"]
    BY <1>0, <1>5 DEF CompactaSigue, Reanuda, Agrega, Saca, TypeOK, TipoListas,
       Colas
  <2>. QED  BY <2>1, <2>2, <2>3 DEF TablasPorVer, PorActualizar
<1>6. ASSUME NEW M \in SUBSET conSegmentos, CompactaFin(M)
      PROVE  TablasPorVer'
  <2>1. /\ pcCpu = "compacta" /\ pcCpu' = "actualiza" /\ paso' = 1
        /\ tsObsoleta' = tsObsoleta \cup M
    BY <1>6 DEF CompactaFin
  <2>2. PICK z \in Pid : z = mano["cpu"]
    BY <1>0, <2>1 DEF SinEsperas
  <2>3. /\ cola'["exec"] = Append(cola["exec"], z)
        /\ cola["exec"] \in Seq(Pid)
        /\ cola'["ready"] = cola["ready"] /\ cola'["exit"] = cola["exit"]
    BY <1>0, <1>6, <2>2 DEF CompactaFin, Agrega, TypeOK, TipoListas, Colas
  <2>4. z \in Ocupantes(cola'["exec"])
    BY <2>3, OcupaAppend
  <2>5. \A x \in M : \/ x \in Ocupantes(cola["ready"])
                     \/ x \in Ocupantes(cola["exit"]) \/ x = z
    BY <1>0, <2>1, <2>2, DondeCompacta DEF DeSegmentados
  <2>6. \A x \in tsObsoleta : x \in Ocupantes(cola["exit"])
    BY <1>0, <2>1 DEF TablasPorVer, PorActualizar
  <2>. QED  BY <2>1, <2>3, <2>4, <2>5, <2>6 DEF TablasPorVer, PorActualizar
<1>7. UNCHANGED memoria => tsObsoleta' \subseteq tsObsoleta
  BY DEF memoria
<1>8. ASSUME NEW p \in Pid, SegmentoCreado(p) \/ DeleteSegment(p)
      PROVE  tsObsoleta' \subseteq tsObsoleta
  BY <1>8 DEF SegmentoCreado, DeleteSegment
<1>. QED  BY <1>2, <1>3, <1>4, <1>5, <1>6, <1>7, <1>8, SegmentosAjenos

(* The tables out of date are those still to be seen, in every state.      *)
THEOREM TablasInvariante ==
    ASSUME SegmentosSinEsperas
    PROVE  Spec => []TablasInv
<1>1. Init => TablasInv
  BY DEF Init, TablasInv, SinEsperas, DeSegmentados, TablasPorVer, Segmentados
<1>2. VidaInv /\ TablasInv /\ [Next]_vars => TablasInv'
  <2>. SUFFICES ASSUME VidaInv, TablasInv, [Next]_vars PROVE TablasInv'
    OBVIOUS
  <2>1. CASE Next
    <3>1. TypeOK /\ FichaExec /\ ContextoDeSuPcb /\ SinEsperas
      BY DEF VidaInv, CicloInv, LugaresInv, ColasInv, Base, TablasInv
    <3>. QED  BY <2>1, <3>1, SinEsperasPaso, DeSegmentadosPaso, TablasPorVerPaso
              DEF TablasInv
  <2>2. CASE UNCHANGED vars
    BY <2>2 DEF vars, pcbs, hiloCpu, archivos, memoria, TablasInv, SinEsperas,
       DeSegmentados, TablasPorVer, PorActualizar
  <2>. QED  BY <2>1, <2>2
<1>. QED  BY VidaInvariante, <1>1, <1>2, PTL DEF Spec

(* No process runs with a segment table older than the last compaction,    *)
(* with any number of processes, segments and compactions, if those that   *)
(* create segments never wait (actualizar_ts_de_pcbs, procesar_conexion).  *)
THEOREM TablaAlDia ==
    ASSUME SegmentosSinEsperas
    PROVE  Spec => []CpuConTablaAlDia
<1>1. VidaInv /\ TablasInv => CpuConTablaAlDia
  <2>. SUFFICES ASSUME VidaInv, TablasInv, cpu # Nadie, cpu \in tsObsoleta
                PROVE  FALSE
    BY DEF CpuConTablaAlDia
  <2>1. /\ TypeOK /\ FichaExec /\ ContextoDeSuPcb /\ CadaPcbEnUnLugar
        /\ TablasPorVer
    BY DEF VidaInv, CicloInv, LugaresInv, ColasInv, Base, TablasInv
  <2>2. pcCpu = "recv" /\ cola["exec"] = <<cpu>>
    BY <2>1 DEF FichaExec, ContextoDeSuPcb
  <2>3. cpu \in Ocupantes(cola["exit"]) /\ cpu \in Ocupantes(cola["exec"])
    BY <2>1, <2>2, ListaDeUno DEF TablasPorVer, PorActualizar
  <2>4. "exit" \in Colas /\ "exec" \in Colas
    BY DEF Colas
  <2>. QED  BY <2>1, <2>3, <2>4, SoloEnCola
<1>. QED  BY VidaInvariante, TablasInvariante, <1>1, PTL
=============================================================================
