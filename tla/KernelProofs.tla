---------------------------- MODULE KernelProofs ----------------------------
(***************************************************************************)
(* The kernel's types, the token of sem_exec, the contexts the CPU gives   *)
(* back, and its semaphores and answers against its lists, proved for      *)
(* every set of processes, resources, files and programs. TypeOK,          *)
(* FichaExec and ContextoDeSuPcb are inductive only together: the types    *)
(* need a thread to hold the PCB it uses, and that needs the token of      *)
(* sem_exec to be in one place.                                            *)
(***************************************************************************)
EXTENDS KernelPropiedades, SequenceTheorems, FiniteSetTheorems, TLAPS

-----------------------------------------------------------------------------
(* What the kernel's list and semaphore operations return, and that every  *)
(* step keeps the type of every variable.                                  *)

(* list_add keeps the lists lists of processes (safe_pcb_add). *)
LEMMA AgregaTipo ==
    ASSUME NEW c \in [Colas -> Seq(Pid)], NEW q \in Colas, NEW p \in Pid
    PROVE  Agrega(c, q, p) \in [Colas -> Seq(Pid)]
BY DEF Agrega

(* list_remove of the head of a list that is not empty returns a process  *)
(* and leaves lists of processes (safe_pcb_remove).                       *)
LEMMA SacaTipo ==
    ASSUME NEW c \in [Colas -> Seq(Pid)], NEW q \in Colas, c[q] # <<>>
    PROVE  /\ Saca(c, q) \in [Colas -> Seq(Pid)]
           /\ Head(c[q]) \in Pid
<1>1. c[q] \in Seq(Pid)
  OBVIOUS
<1>2. Tail(c[q]) \in Seq(Pid) /\ Head(c[q]) \in Pid
  BY <1>1
<1>. QED  BY <1>2 DEF Saca

(* sem_post keeps a semaphore a natural number. *)
LEMMA PostTipo ==
    ASSUME NEW s \in [Semaforos -> Nat], NEW k \in Semaforos
    PROVE  Post(s, k) \in [Semaforos -> Nat]
BY DEF Post

(* So does sem_wait, which passes only where the semaphore is positive. *)
LEMMA EsperaTipo ==
    ASSUME NEW s \in [Semaforos -> Nat], NEW k \in Semaforos, s[k] > 0
    PROVE  Espera(s, k) \in [Semaforos -> Nat]
BY DEF Espera

(* Removing one process from the ready list leaves a list one shorter     *)
(* (list_remove after the election of elegir_pcb_segun_hrrn).             *)
LEMMA SinIndiceTipo ==
    ASSUME NEW s \in Seq(Pid), NEW i \in DOMAIN s
    PROVE  /\ SinIndice(s, i) \in Seq(Pid)
           /\ Len(SinIndice(s, i)) = Len(s) - 1
<1>1. Len(s) - 1 \in Nat
  OBVIOUS
<1>2. \A j \in 1..(Len(s) - 1) : (IF j < i THEN s[j] ELSE s[j + 1]) \in Pid
  OBVIOUS
<1>. QED  BY <1>1, <1>2 DEF SinIndice

(* What the racing list_add of the file-system thread may leave of         *)
(* cola_block is still a list of processes.                                *)
LEMMA SubSeqTipo ==
    ASSUME NEW s \in Seq(Pid), NEW n \in 0..Len(s), NEW p \in Pid
    PROVE  Append(SubSeq(s, 1, n), p) \in Seq(Pid)
OBVIOUS

(* A list of one process and its head, as cola_exec is used. *)
LEMMA ListaUnitaria ==
    ASSUME NEW s \in Seq(Pid), NEW p \in Pid
    PROVE  /\ s = <<>> => Append(s, p) = <<p>>
           /\ Len(s) = 1 => Tail(s) = <<>> /\ s = <<Head(s)>>
           /\ Tail(<<p>>) = <<>> /\ Head(<<p>>) = p
<1>1. s = <<>> => Append(s, p) = <<p>>
  OBVIOUS
<1>2. ASSUME NEW t \in Seq(Pid), Len(t) = 1
      PROVE  Tail(t) = <<>> /\ t = <<Head(t)>>
  <2>1. t # <<>>
    <3>. SUFFICES ASSUME t = <<>> PROVE FALSE
      OBVIOUS
    <3>1. Len(t) = 0
      BY EmptySeq
    <3>. QED  BY <1>2, <3>1
  <2>2. Tail(t) \in Seq(Pid) /\ Len(Tail(t)) = 0
    BY <1>2, <2>1, HeadTailProperties
  <2>3. Tail(t) = <<>>
    BY <2>2, EmptySeq
  <2>4. <<Head(t)>> \in Seq(Pid) /\ Len(<<Head(t)>>) = 1 /\ <<Head(t)>>[1] = t[1]
    BY <1>2, <2>1
  <2>5. t = <<Head(t)>>
    BY <1>2, <2>4, SeqEqual
  <2>. QED  BY <2>3, <2>5
<1>3. <<p>> \in Seq(Pid) /\ Len(<<p>>) = 1 /\ Head(<<p>>) = p
  OBVIOUS
<1>. QED  BY <1>1, <1>2, <1>3

-----------------------------------------------------------------------------
(* No step of any thread takes a variable out of its type.  FichaExec is   *)
(* needed to know that the thread that uses a PCB holds one.               *)
LEMMA TipoPaso == ASSUME TypeOK, FichaExec, Next PROVE TypeOK'
<1>. USE KernelAssumption DEF pcbs, hiloCpu, hiloFs, recursos, archivos, fileSystem,
                             memoria
<1>1. ASSUME NEW p \in Pid, ArmarPcb(p) PROVE TypeOK'
  <2>1. TipoPcb'
    BY <1>1 DEF ArmarPcb, TypeOK, TipoPcb, TipoListas, Estados, Motivos
  <2>2. TipoListas'
    BY <1>1, AgregaTipo, PostTipo DEF ArmarPcb, TypeOK, TipoListas, Colas,
         Semaforos, Hilos
  <2>3. TipoHilos' /\ TipoRecursos' /\ TipoArchivos' /\ TipoExternos'
    BY <1>1 DEF ArmarPcb, TypeOK, TipoHilos, TipoRecursos, TipoArchivos,
         TipoExternos
  <2>. QED  BY <2>1, <2>2, <2>3 DEF TypeOK
<1>2. ASSUME NEW p \in Pid, FinIO(p) PROVE TypeOK'
  <2>1. TipoListas'
    BY <1>2, AgregaTipo, PostTipo DEF FinIO, TypeOK, TipoListas, Colas,
         Semaforos, Hilos
  <2>2. TipoPcb' /\ TipoHilos' /\ TipoRecursos' /\ TipoArchivos' /\
          TipoExternos'
    BY <1>2 DEF FinIO, TypeOK, TipoPcb, TipoHilos, TipoRecursos, TipoArchivos,
         TipoExternos
  <2>. QED  BY <2>1, <2>2 DEF TypeOK
<1>3. ASSUME ReadyToma PROVE TypeOK'
  <2>1. TipoListas'
    BY <1>3, SacaTipo, EsperaTipo DEF ReadyToma, TypeOK, TipoListas, Colas,
         Semaforos, Hilos
  <2>2. TipoPcb' /\ TipoHilos' /\ TipoRecursos' /\ TipoArchivos' /\
          TipoExternos'
    BY <1>3 DEF ReadyToma, TypeOK, TipoPcb, TipoHilos, TipoRecursos,
         TipoArchivos, TipoExternos
  <2>. QED  BY <2>1, <2>2 DEF TypeOK
<1>4. ASSUME ReadyAdmite PROVE TypeOK'
  <2>1. TipoPcb'
    BY <1>4 DEF ReadyAdmite, TypeOK, TipoPcb, TipoListas, Estados, Motivos,
         Hilos
  <2>2. TipoListas'
    BY <1>4, AgregaTipo, PostTipo, EsperaTipo DEF ReadyAdmite, TypeOK,
         TipoListas, Colas, Semaforos, Hilos
  <2>3. TipoHilos' /\ TipoRecursos' /\ TipoArchivos' /\ TipoExternos'
    BY <1>4 DEF ReadyAdmite, TypeOK, TipoHilos, TipoRecursos, TipoArchivos,
         TipoExternos
  <2>. QED  BY <2>1, <2>2, <2>3 DEF TypeOK
<1>5. ASSUME BlockToma PROVE TypeOK'
  <2>1. TipoListas'
    BY <1>5, SacaTipo, EsperaTipo DEF BlockToma, TypeOK, TipoListas, Colas,
         Semaforos, Hilos
  <2>2. TipoPcb' /\ TipoHilos' /\ TipoRecursos' /\ TipoArchivos' /\
          TipoExternos'
    BY <1>5 DEF BlockToma, TypeOK, TipoPcb, TipoHilos, TipoRecursos,
         TipoArchivos, TipoExternos
  <2>. QED  BY <2>1, <2>2 DEF TypeOK
<1>6. ASSUME BlockDevuelve PROVE TypeOK'
  <2>1. TipoPcb'
    BY <1>6 DEF BlockDevuelve, TypeOK, TipoPcb, TipoListas, Estados, Motivos,
         Hilos
  <2>2. TipoListas'
    BY <1>6, AgregaTipo, PostTipo DEF BlockDevuelve, TypeOK, TipoListas,
         Colas, Semaforos, Hilos
  <2>3. TipoHilos' /\ TipoRecursos' /\ TipoArchivos' /\ TipoExternos'
    BY <1>6 DEF BlockDevuelve, TypeOK, TipoHilos, TipoRecursos, TipoArchivos,
         TipoExternos
  <2>. QED  BY <2>1, <2>2, <2>3 DEF TypeOK
<1>7. ASSUME ExecElige PROVE TypeOK'
  <2>1. TipoListas'
    <3>1. PICK i \in Elegibles :
            /\ mano' = [mano EXCEPT !["exec"] = cola["ready"][i]]
            /\ cola' = [cola EXCEPT !["ready"] = SinIndice(@, i)]
      BY <1>7 DEF ExecElige
    <3>2. cola["ready"] \in Seq(Pid) /\ i \in DOMAIN cola["ready"]
      BY DEF TypeOK, TipoListas, Colas, Elegibles
    <3>3. cola["ready"][i] \in Pid /\ SinIndice(cola["ready"], i) \in Seq(Pid)
      BY <3>2, SinIndiceTipo
    <3>4. sem' \in [Semaforos -> Nat]
      <4>1. Espera(sem, "ready") \in [Semaforos -> Nat]
        BY <1>7, EsperaTipo DEF ExecElige, TypeOK, TipoListas, Semaforos
      <4>2. Espera(sem, "ready")["exec"] > 0
        BY <1>7 DEF ExecElige, TypeOK, TipoListas, Semaforos, Espera
      <4>. QED  BY <1>7, <4>1, <4>2, EsperaTipo DEF ExecElige, Semaforos
    <3>. QED
      BY <1>7, <3>1, <3>3, <3>4 DEF ExecElige, TypeOK, TipoListas, Colas, Hilos
  <2>2. TipoPcb' /\ TipoHilos' /\ TipoRecursos' /\ TipoArchivos' /\
          TipoExternos'
    BY <1>7 DEF ExecElige, TypeOK, TipoPcb, TipoHilos, TipoRecursos,
         TipoArchivos, TipoExternos
  <2>. QED  BY <2>1, <2>2 DEF TypeOK
<1>8. ASSUME ExecDespacha PROVE TypeOK'
  <2>1. TipoPcb'
    BY <1>8 DEF ExecDespacha, TypeOK, TipoPcb, TipoListas, Estados, Motivos,
         Hilos
  <2>2. TipoListas'
    BY <1>8, AgregaTipo DEF ExecDespacha, TypeOK, TipoListas, Colas,
         Semaforos, Hilos
  <2>3. TipoHilos' /\ TipoRecursos' /\ TipoArchivos' /\ TipoExternos'
    BY <1>8 DEF ExecDespacha, TypeOK, TipoHilos, TipoRecursos, TipoArchivos,
         TipoExternos
  <2>. QED  BY <2>1, <2>2, <2>3 DEF TypeOK
<1>9. ASSUME HiloExit PROVE TypeOK'
  <2>1. TipoPcb'
    BY <1>9, SacaTipo DEF HiloExit, TypeOK, TipoPcb, TipoListas, Estados,
         Motivos, Colas
  <2>2. TipoListas'
    BY <1>9, SacaTipo, PostTipo, EsperaTipo DEF HiloExit, TypeOK, TipoListas,
         Colas, Semaforos, Hilos
  <2>3. TipoArchivos'
    BY <1>9, SacaTipo DEF HiloExit, TypeOK, TipoArchivos, TipoListas, Colas
  <2>4. TipoExternos'
    BY <1>9, SacaTipo DEF HiloExit, TypeOK, TipoExternos, TipoListas,
         Peticion, Colas
  <2>5. TipoHilos' /\ TipoRecursos'
    BY <1>9 DEF HiloExit, TypeOK, TipoHilos, TipoRecursos
  <2>. QED  BY <2>1, <2>2, <2>3, <2>4, <2>5 DEF TypeOK
<1>10. ASSUME NEW p \in Pid, Yield(p) PROVE TypeOK'
  <2>1. TipoPcb'
    BY <1>10 DEF Yield, Recibe, Desaloja, TypeOK, TipoPcb, TipoListas,
         Estados, Motivos
  <2>2. TipoListas'
    BY <1>10, AgregaTipo, SacaTipo, PostTipo DEF Yield, Recibe, Desaloja,
         TypeOK, TipoListas, Colas, Semaforos, Hilos
  <2>3. TipoHilos' /\ TipoRecursos' /\ TipoArchivos' /\ TipoExternos'
    BY <1>10 DEF Yield, TypeOK, TipoHilos, TipoRecursos, TipoArchivos,
         TipoExternos
  <2>. QED  BY <2>1, <2>2, <2>3 DEF TypeOK
<1>11. ASSUME NEW p \in Pid, Exit(p) PROVE TypeOK'
  <2>1. TipoPcb'
    BY <1>11 DEF Exit, Termina, Recibe, Desaloja, TypeOK, TipoPcb, TipoListas,
         Estados, Motivos
  <2>2. TipoListas'
    BY <1>11, AgregaTipo, SacaTipo, PostTipo DEF Exit, Termina, Recibe,
         Desaloja, TypeOK, TipoListas, Colas, Semaforos, Hilos
  <2>3. TipoHilos' /\ TipoRecursos' /\ TipoArchivos' /\ TipoExternos'
    BY <1>11 DEF Exit, Termina, TypeOK, TipoHilos, TipoRecursos, TipoArchivos,
         TipoExternos
  <2>. QED  BY <2>1, <2>2, <2>3 DEF TypeOK
<1>12. ASSUME NEW p \in Pid, SegFault(p) PROVE TypeOK'
  <2>1. TipoPcb'
    BY <1>12 DEF SegFault, Termina, Recibe, Desaloja, TypeOK, TipoPcb,
         TipoListas, Estados, Motivos
  <2>2. TipoListas'
    BY <1>12, AgregaTipo, SacaTipo, PostTipo DEF SegFault, Termina, Recibe,
         Desaloja, TypeOK, TipoListas, Colas, Semaforos, Hilos
  <2>3. TipoHilos' /\ TipoRecursos' /\ TipoArchivos' /\ TipoExternos'
    BY <1>12 DEF SegFault, Termina, TypeOK, TipoHilos, TipoRecursos,
         TipoArchivos, TipoExternos
  <2>. QED  BY <2>1, <2>2, <2>3 DEF TypeOK
<1>13. ASSUME NEW p \in Pid, ManejarIO(p) PROVE TypeOK'
  <2>1. TipoPcb'
    BY <1>13 DEF ManejarIO, Recibe, TypeOK, TipoPcb, TipoListas, Estados,
         Motivos
  <2>2. TipoListas'
    BY <1>13, SacaTipo, PostTipo DEF ManejarIO, Recibe, TypeOK, TipoListas,
         Colas, Semaforos, Hilos
  <2>3. TipoHilos' /\ TipoRecursos' /\ TipoArchivos' /\ TipoExternos'
    BY <1>13 DEF ManejarIO, TypeOK, TipoHilos, TipoRecursos, TipoArchivos,
         TipoExternos
  <2>. QED  BY <2>1, <2>2, <2>3 DEF TypeOK
<1>14. ASSUME NEW p \in Pid, NEW r \in Pedidos, RecursoFallido(p, r)
       PROVE TypeOK'
  <2>1. TipoPcb'
    BY <1>14 DEF RecursoFallido, Recibe, Desaloja, TypeOK, TipoPcb,
         TipoListas, Estados, Motivos
  <2>2. TipoListas'
    BY <1>14, AgregaTipo, SacaTipo, PostTipo DEF RecursoFallido, Recibe,
         Desaloja, TypeOK, TipoListas, Colas, Semaforos, Hilos
  <2>3. TipoRecursos'
    BY <1>14 DEF RecursoFallido, Recibe, Desaloja, TypeOK, TipoRecursos,
         TipoListas
  <2>4. TipoHilos' /\ TipoArchivos' /\ TipoExternos'
    BY <1>14 DEF RecursoFallido, TypeOK, TipoHilos, TipoArchivos, TipoExternos
  <2>. QED  BY <2>1, <2>2, <2>3, <2>4 DEF TypeOK
<1>15. ASSUME NEW p \in Pid, NEW r \in Pedidos, WaitObtiene(p, r)
       PROVE TypeOK'
  <2>1. TipoListas'
    BY <1>15, AgregaTipo, SacaTipo DEF WaitObtiene, Recibe, Reanuda, TypeOK,
         TipoListas, Colas, Semaforos, Hilos
  <2>2. TipoRecursos'
    BY <1>15 DEF WaitObtiene, Recibe, Reanuda, TypeOK, TipoRecursos,
         TipoListas
  <2>3. TipoPcb' /\ TipoHilos' /\ TipoArchivos' /\ TipoExternos'
    BY <1>15 DEF WaitObtiene, TypeOK, TipoPcb, TipoHilos, TipoArchivos,
         TipoExternos
  <2>. QED  BY <2>1, <2>2, <2>3 DEF TypeOK
<1>16. ASSUME NEW p \in Pid, NEW r \in Pedidos, WaitBloquea(p, r)
       PROVE TypeOK'
  <2>1. TipoPcb'
    BY <1>16 DEF WaitBloquea, Recibe, TypeOK, TipoPcb, TipoListas, Estados,
         Motivos
  <2>2. TipoListas'
    BY <1>16, SacaTipo, PostTipo DEF WaitBloquea, Recibe, TypeOK, TipoListas,
         Colas, Semaforos, Hilos
  <2>3. TipoRecursos'
    BY <1>16 DEF WaitBloquea, Recibe, TypeOK, TipoRecursos, TipoListas
  <2>4. TipoHilos' /\ TipoArchivos' /\ TipoExternos'
    BY <1>16 DEF WaitBloquea, TypeOK, TipoHilos, TipoArchivos, TipoExternos
  <2>. QED  BY <2>1, <2>2, <2>3, <2>4 DEF TypeOK
<1>17. ASSUME NEW p \in Pid, NEW r \in Pedidos, SignalLibera(p, r)
       PROVE TypeOK'
  <2>1. TipoListas'
    BY <1>17, AgregaTipo, SacaTipo, EsperaTipo DEF SignalLibera, Recibe,
         Reanuda, TypeOK, TipoListas, Colas, Semaforos, Hilos
  <2>2. TipoRecursos'
    BY <1>17 DEF SignalLibera, Recibe, Reanuda, TypeOK, TipoRecursos,
         TipoListas
  <2>3. TipoPcb' /\ TipoHilos' /\ TipoArchivos' /\ TipoExternos'
    BY <1>17 DEF SignalLibera, TypeOK, TipoPcb, TipoHilos, TipoArchivos,
         TipoExternos
  <2>. QED  BY <2>1, <2>2, <2>3 DEF TypeOK
<1>18. ASSUME NEW p \in Pid, NEW r \in Pedidos, SignalDespierta(p, r)
       PROVE TypeOK'
  <2>1. TipoListas'
    <3>1. Head(enRecurso[r]) \in Pid
      BY <1>18 DEF SignalDespierta, TypeOK, TipoRecursos
    <3>2. Agrega(cola, "block", Head(enRecurso[r])) \in [Colas -> Seq(Pid)]
      BY <3>1, AgregaTipo DEF TypeOK, TipoListas, Colas
    <3>3. Agrega(cola, "block", Head(enRecurso[r]))["exec"] = cola["exec"]
      BY DEF Agrega, TypeOK, TipoListas, Colas
    <3>4. cola' \in [Colas -> Seq(Pid)]
      BY <1>18, <3>2, <3>3, AgregaTipo, SacaTipo
         DEF SignalDespierta, Recibe, Reanuda, Colas
    <3>. QED
      BY <1>18, <3>4, PostTipo
         DEF SignalDespierta, Reanuda, TypeOK, TipoListas, Semaforos
  <2>2. TipoRecursos'
    BY <1>18 DEF SignalDespierta, Recibe, Reanuda, TypeOK, TipoRecursos,
         TipoListas
  <2>3. TipoPcb' /\ TipoHilos' /\ TipoArchivos' /\ TipoExternos'
    BY <1>18 DEF SignalDespierta, TypeOK, TipoPcb, TipoHilos, TipoArchivos,
         TipoExternos
  <2>. QED  BY <2>1, <2>2, <2>3 DEF TypeOK
<1>19. ASSUME NEW p \in Pid, NEW a \in Archivos, FOpenPide(p, a) PROVE TypeOK'
  <2>1. TipoListas'
    BY <1>19, AgregaTipo, SacaTipo DEF FOpenPide, Recibe, Desaloja, TypeOK,
         TipoListas, Colas, Semaforos, Hilos
  <2>2. TipoHilos'
    BY <1>19 DEF FOpenPide, Recibe, Desaloja, TypeOK, TipoHilos, TipoListas,
         OrdenTs
  <2>3. TipoExternos'
    BY <1>19 DEF FOpenPide, Recibe, Desaloja, TypeOK, TipoExternos,
         TipoListas, Peticion
  <2>4. TipoPcb' /\ TipoRecursos' /\ TipoArchivos'
    BY <1>19 DEF FOpenPide, TypeOK, TipoPcb, TipoRecursos, TipoArchivos
  <2>. QED  BY <2>1, <2>2, <2>3, <2>4 DEF TypeOK
<1>20. ASSUME NEW p \in Pid, NEW a \in Archivos, FOpenBloquea(p, a)
       PROVE TypeOK'
  <2>1. TipoPcb'
    BY <1>20 DEF FOpenBloquea, Recibe, TypeOK, TipoPcb, TipoListas, Estados,
         Motivos
  <2>2. TipoListas'
    BY <1>20, SacaTipo, PostTipo DEF FOpenBloquea, Recibe, TypeOK, TipoListas,
         Colas, Semaforos, Hilos
  <2>3. TipoArchivos'
    BY <1>20 DEF FOpenBloquea, Recibe, TypeOK, TipoArchivos, TipoListas
  <2>4. TipoHilos' /\ TipoRecursos' /\ TipoExternos'
    BY <1>20 DEF FOpenBloquea, TypeOK, TipoHilos, TipoRecursos, TipoExternos
  <2>. QED  BY <2>1, <2>2, <2>3, <2>4 DEF TypeOK
<1>21. ASSUME NEW p \in Pid, NEW a \in Archivos, FClose(p, a) PROVE TypeOK'
  <2>1. TipoListas'
    <3>1. cpu' = p /\ UNCHANGED <<mano, io, perdidos, vivo>> /\ cola["exec"] # <<>>
      BY <1>21 DEF FClose, Recibe, Reanuda
    <3>2. cola' \in [Colas -> Seq(Pid)] /\ sem' \in [Semaforos -> Nat]
      <4>1. CASE enArchivo[a] # <<>>
        <5>1. Head(enArchivo[a]) \in Pid
          BY <4>1 DEF TypeOK, TipoArchivos
        <5> DEFINE c == Agrega(cola, "block", Head(enArchivo[a]))
        <5>2. c \in [Colas -> Seq(Pid)]
          BY <5>1, AgregaTipo DEF TypeOK, TipoListas, Colas
        <5>3. c["exec"] = cola["exec"]
          BY DEF Agrega, TypeOK, TipoListas, Colas
        <5>4. cola' = Agrega(Saca(c, "exec"), "exec", p) /\ sem' = Post(sem, "block")
          BY <1>21, <4>1 DEF FClose, Reanuda
        <5>. HIDE DEF c
        <5>5. Saca(c, "exec") \in [Colas -> Seq(Pid)]
          BY <3>1, <5>2, <5>3, SacaTipo DEF Colas
        <5>6. cola' \in [Colas -> Seq(Pid)]
          BY <5>4, <5>5, AgregaTipo DEF Colas
        <5>. QED
          BY <5>4, <5>6, PostTipo DEF TypeOK, TipoListas, Semaforos
      <4>2. CASE enArchivo[a] = <<>>
        <5>1. cola' = Agrega(Saca(cola, "exec"), "exec", p) /\ sem' = sem
          BY <1>21, <4>2 DEF FClose, Reanuda
        <5>. QED
          BY <3>1, <5>1, AgregaTipo, SacaTipo DEF TypeOK, TipoListas, Colas
      <4>. QED  BY <4>1, <4>2
    <3>. QED
      BY <3>1, <3>2 DEF TypeOK, TipoListas
  <2>2. TipoArchivos'
    <3>1. enArchivo' \in [Archivos -> Seq(Pid)]
      <4>1. CASE enArchivo[a] # <<>>
        <5>1. Tail(enArchivo[a]) \in Seq(Pid)
          BY <4>1 DEF TypeOK, TipoArchivos
        <5>. QED  BY <1>21, <4>1, <5>1 DEF FClose, TypeOK, TipoArchivos
      <4>2. CASE enArchivo[a] = <<>>
        BY <1>21, <4>2 DEF FClose, TypeOK, TipoArchivos
      <4>. QED  BY <4>1, <4>2
    <3>2. abiertos' \subseteq Archivos
      BY <1>21 DEF FClose, TypeOK, TipoArchivos
    <3>3. archivosDe' \in [Pid -> SUBSET Archivos]
      BY <1>21 DEF FClose, TypeOK, TipoArchivos
    <3>. QED  BY <1>21, <3>1, <3>2, <3>3 DEF FClose, TypeOK, TipoArchivos
  <2>3. TipoPcb' /\ TipoHilos' /\ TipoRecursos' /\ TipoExternos'
    BY <1>21 DEF FClose, TypeOK, TipoPcb, TipoHilos, TipoRecursos,
         TipoExternos
  <2>. QED  BY <2>1, <2>2, <2>3 DEF TypeOK
<1>22. ASSUME NEW p \in Pid, NEW a \in Archivos, FSeek(p, a) PROVE TypeOK'
  <2>1. TipoListas'
    BY <1>22, AgregaTipo, SacaTipo DEF FSeek, Recibe, Reanuda, TypeOK,
         TipoListas, Colas, Semaforos, Hilos
  <2>2. TipoArchivos'
    BY <1>22 DEF FSeek, Recibe, Reanuda, TypeOK, TipoArchivos, TipoListas
  <2>3. TipoPcb' /\ TipoHilos' /\ TipoRecursos' /\ TipoExternos'
    BY <1>22 DEF FSeek, TypeOK, TipoPcb, TipoHilos, TipoRecursos, TipoExternos
  <2>. QED  BY <2>1, <2>2, <2>3 DEF TypeOK
<1>23. ASSUME NEW p \in Pid, FTruncate(p) PROVE TypeOK'
  <2>1. TipoPcb'
    BY <1>23 DEF FTruncate, Recibe, Desaloja, TypeOK, TipoPcb, TipoListas,
         Estados, Motivos
  <2>2. TipoListas'
    BY <1>23, AgregaTipo, SacaTipo, PostTipo DEF FTruncate, Recibe, Desaloja,
         TypeOK, TipoListas, Colas, Semaforos, Hilos
  <2>3. TipoExternos'
    BY <1>23 DEF FTruncate, Recibe, Desaloja, TypeOK, TipoExternos,
         TipoListas, Peticion
  <2>4. TipoHilos' /\ TipoRecursos' /\ TipoArchivos'
    BY <1>23 DEF FTruncate, TypeOK, TipoHilos, TipoRecursos, TipoArchivos
  <2>. QED  BY <2>1, <2>2, <2>3, <2>4 DEF TypeOK
<1>24. ASSUME NEW p \in Pid, FRwRecibe(p) PROVE TypeOK'
  <2>1. TipoListas'
    BY <1>24, SacaTipo DEF FRwRecibe, Recibe, TypeOK, TipoListas, Colas,
         Semaforos, Hilos
  <2>2. TipoHilos'
    BY <1>24 DEF FRwRecibe, Recibe, TypeOK, TipoHilos, TipoListas, OrdenTs
  <2>3. TipoPcb' /\ TipoRecursos' /\ TipoArchivos' /\ TipoExternos'
    BY <1>24 DEF FRwRecibe, TypeOK, TipoPcb, TipoRecursos, TipoArchivos,
         TipoExternos
  <2>. QED  BY <2>1, <2>2, <2>3 DEF TypeOK
<1>25. ASSUME NEW p \in Pid, SegmentoCreado(p) PROVE TypeOK'
  <2>1. TipoListas'
    BY <1>25, AgregaTipo, SacaTipo DEF SegmentoCreado, Recibe, Reanuda,
         TypeOK, TipoListas, Colas, Semaforos, Hilos
  <2>2. TipoExternos'
    BY <1>25 DEF SegmentoCreado, Recibe, Reanuda, TypeOK, TipoExternos,
         TipoListas, Peticion
  <2>3. TipoPcb' /\ TipoHilos' /\ TipoRecursos' /\ TipoArchivos'
    BY <1>25 DEF SegmentoCreado, TypeOK, TipoPcb, TipoHilos, TipoRecursos,
         TipoArchivos
  <2>. QED  BY <2>1, <2>2, <2>3 DEF TypeOK
<1>26. ASSUME NEW p \in Pid, SinMemoria(p) PROVE TypeOK'
  <2>1. TipoPcb'
    BY <1>26 DEF SinMemoria, Recibe, Desaloja, TypeOK, TipoPcb, TipoListas,
         Estados, Motivos
  <2>2. TipoListas'
    BY <1>26, AgregaTipo, SacaTipo, PostTipo DEF SinMemoria, Recibe, Desaloja,
         TypeOK, TipoListas, Colas, Semaforos, Hilos
  <2>3. TipoHilos' /\ TipoRecursos' /\ TipoArchivos' /\ TipoExternos'
    BY <1>26 DEF SinMemoria, TypeOK, TipoHilos, TipoRecursos, TipoArchivos,
         TipoExternos
  <2>. QED  BY <2>1, <2>2, <2>3 DEF TypeOK
<1>27. ASSUME NEW p \in Pid, PideCompactar(p) PROVE TypeOK'
  <2>1. TipoListas'
    BY <1>27, SacaTipo DEF PideCompactar, Recibe, TypeOK, TipoListas, Colas,
         Semaforos, Hilos
  <2>2. TipoHilos'
    BY <1>27 DEF PideCompactar, Recibe, TypeOK, TipoHilos, TipoListas, OrdenTs
  <2>3. TipoPcb' /\ TipoRecursos' /\ TipoArchivos' /\ TipoExternos'
    BY <1>27 DEF PideCompactar, TypeOK, TipoPcb, TipoRecursos, TipoArchivos,
         TipoExternos
  <2>. QED  BY <2>1, <2>2, <2>3 DEF TypeOK
<1>28. ASSUME NEW p \in Pid, DeleteSegment(p) PROVE TypeOK'
  <2>1. TipoListas'
    BY <1>28, AgregaTipo, SacaTipo DEF DeleteSegment, Recibe, Reanuda, TypeOK,
         TipoListas, Colas, Semaforos, Hilos
  <2>2. TipoExternos'
    BY <1>28 DEF DeleteSegment, Recibe, Reanuda, TypeOK, TipoExternos,
         TipoListas, Peticion
  <2>3. TipoPcb' /\ TipoHilos' /\ TipoRecursos' /\ TipoArchivos'
    BY <1>28 DEF DeleteSegment, TypeOK, TipoPcb, TipoHilos, TipoRecursos,
         TipoArchivos
  <2>. QED  BY <2>1, <2>2, <2>3 DEF TypeOK
<1>29. ASSUME FOpenFin PROVE TypeOK'
  <2>1. TipoListas'
    BY <1>29, AgregaTipo, EsperaTipo DEF FOpenFin, FichaExec, ConPcbEnMano,
         TypeOK, TipoListas, Colas, Semaforos, Hilos
  <2>2. TipoHilos'
    BY <1>29 DEF FOpenFin, FichaExec, ConPcbEnMano, TypeOK, TipoHilos,
         TipoListas, OrdenTs, Hilos
  <2>3. TipoArchivos'
    BY <1>29 DEF FOpenFin, FichaExec, ConPcbEnMano, TypeOK, TipoArchivos,
         TipoListas, Hilos
  <2>4. TipoPcb' /\ TipoRecursos' /\ TipoExternos'
    BY <1>29 DEF FOpenFin, TypeOK, TipoPcb, TipoRecursos, TipoExternos
  <2>. QED  BY <2>1, <2>2, <2>3, <2>4 DEF TypeOK
<1>30. ASSUME FRwCarga PROVE TypeOK'
  <2>1. TipoListas'
    BY <1>30, EsperaTipo DEF FRwCarga, TypeOK, TipoListas, Colas, Semaforos,
         Hilos
  <2>2. TipoHilos'
    BY <1>30 DEF FRwCarga, TypeOK, TipoHilos, TipoListas, OrdenTs
  <2>3. TipoPcb' /\ TipoRecursos' /\ TipoArchivos' /\ TipoExternos'
    BY <1>30 DEF FRwCarga, TypeOK, TipoPcb, TipoRecursos, TipoArchivos,
         TipoExternos
  <2>. QED  BY <2>1, <2>2, <2>3 DEF TypeOK
<1>31. ASSUME FRwGuarda PROVE TypeOK'
  <2>1. TipoPcb'
    BY <1>31 DEF FRwGuarda, FichaExec, ConPcbEnMano, TypeOK, TipoPcb,
         TipoListas, Estados, Motivos, Hilos
  <2>2. TipoListas'
    BY <1>31, AgregaTipo, PostTipo DEF FRwGuarda, FichaExec, ConPcbEnMano,
         TypeOK, TipoListas, Colas, Semaforos, Hilos
  <2>3. TipoHilos'
    BY <1>31 DEF FRwGuarda, FichaExec, ConPcbEnMano, TypeOK, TipoHilos,
         TipoListas, OrdenTs, Hilos
  <2>4. TipoExternos'
    BY <1>31 DEF FRwGuarda, FichaExec, ConPcbEnMano, TypeOK, TipoExternos,
         TipoListas, Peticion, Hilos
  <2>5. TipoRecursos' /\ TipoArchivos'
    BY <1>31 DEF FRwGuarda, TypeOK, TipoRecursos, TipoArchivos
  <2>. QED  BY <2>1, <2>2, <2>3, <2>4, <2>5 DEF TypeOK
<1>32. ASSUME CompactaInicia PROVE TypeOK'
  <2>1. TipoListas'
    BY <1>32, EsperaTipo DEF CompactaInicia, TypeOK, TipoListas, Colas,
         Semaforos, Hilos
  <2>2. TipoHilos'
    BY <1>32 DEF CompactaInicia, TypeOK, TipoHilos, TipoListas, OrdenTs
  <2>3. TipoPcb' /\ TipoRecursos' /\ TipoArchivos' /\ TipoExternos'
    BY <1>32 DEF CompactaInicia, TypeOK, TipoPcb, TipoRecursos, TipoArchivos,
         TipoExternos
  <2>. QED  BY <2>1, <2>2, <2>3 DEF TypeOK
<1>33. ASSUME NEW M \in SUBSET conSegmentos, CompactaFin(M) PROVE TypeOK'
  <2>1. TipoListas'
    BY <1>33, AgregaTipo, PostTipo DEF CompactaFin, FichaExec, ConPcbEnMano,
         TypeOK, TipoListas, Colas, Semaforos, Hilos
  <2>2. TipoHilos'
    BY <1>33 DEF CompactaFin, FichaExec, ConPcbEnMano, TypeOK, TipoHilos,
         TipoListas, OrdenTs, Hilos
  <2>3. TipoExternos'
    BY <1>33 DEF CompactaFin, FichaExec, ConPcbEnMano, TypeOK, TipoExternos,
         TipoListas, Peticion, Hilos
  <2>4. TipoPcb' /\ TipoRecursos' /\ TipoArchivos'
    BY <1>33 DEF CompactaFin, TypeOK, TipoPcb, TipoRecursos, TipoArchivos
  <2>. QED  BY <2>1, <2>2, <2>3, <2>4 DEF TypeOK
<1>34. ASSUME ActualizaCola PROVE TypeOK'
  <2>1. TipoHilos'
    BY <1>34 DEF ActualizaCola, TypeOK, TipoHilos, TipoListas, OrdenTs, Colas
  <2>2. TipoExternos'
    BY <1>34 DEF ActualizaCola, TypeOK, TipoExternos, TipoListas, Peticion,
         Colas
  <2>3. TipoPcb' /\ TipoListas' /\ TipoRecursos' /\ TipoArchivos'
    BY <1>34 DEF ActualizaCola, TypeOK, TipoPcb, TipoListas, TipoRecursos,
         TipoArchivos
  <2>. QED  BY <2>1, <2>2, <2>3 DEF TypeOK
<1>35. ASSUME CompactaSigue PROVE TypeOK'
  <2>1. TipoListas'
    BY <1>35, AgregaTipo, SacaTipo DEF CompactaSigue, Reanuda, TypeOK,
         TipoListas, Colas, Semaforos, Hilos
  <2>2. TipoHilos'
    BY <1>35, SacaTipo DEF CompactaSigue, Reanuda, TypeOK, TipoHilos,
         TipoListas, OrdenTs, Colas
  <2>3. TipoExternos'
    BY <1>35, SacaTipo DEF CompactaSigue, Reanuda, TypeOK, TipoExternos,
         TipoListas, Peticion, Colas
  <2>4. TipoPcb' /\ TipoRecursos' /\ TipoArchivos'
    BY <1>35 DEF CompactaSigue, TypeOK, TipoPcb, TipoRecursos, TipoArchivos
  <2>. QED  BY <2>1, <2>2, <2>3, <2>4 DEF TypeOK
<1>36. ASSUME FsRecibe PROVE TypeOK'
  <2>1. TipoListas'
    <3>1. cola' \in [Colas -> Seq(Pid)] /\ Head(cola["blockFs"]) \in Pid
      BY <1>36, SacaTipo DEF FsRecibe, TypeOK, TipoListas, Colas
    <3>2. sem' \in [Semaforos -> Nat]
      BY <1>36, PostTipo DEF FsRecibe, TypeOK, TipoListas, Semaforos
    <3>3. mano' \in [Hilos -> Pid \cup {Nadie}]
      BY <1>36, <3>1 DEF FsRecibe, TypeOK, TipoListas, Hilos
    <3>. QED  BY <1>36, <3>1, <3>2, <3>3 DEF FsRecibe, TypeOK, TipoListas
  <2>2. TipoHilos'
    BY <1>36, SacaTipo DEF FsRecibe, TypeOK, TipoHilos, TipoListas, OrdenTs,
         Colas
  <2>3. TipoExternos'
    BY <1>36, SacaTipo DEF FsRecibe, TypeOK, TipoExternos, TipoListas,
         Peticion, Colas
  <2>4. TipoPcb' /\ TipoRecursos' /\ TipoArchivos'
    BY <1>36 DEF FsRecibe, TypeOK, TipoPcb, TipoRecursos, TipoArchivos
  <2>. QED  BY <2>1, <2>2, <2>3, <2>4 DEF TypeOK
<1>37. ASSUME FsGuarda PROVE TypeOK'
  <2>1. TipoHilos'
    BY <1>37 DEF FsGuarda, TypeOK, TipoHilos, TipoListas, OrdenTs
  <2>2. TipoPcb' /\ TipoListas' /\ TipoRecursos' /\ TipoArchivos' /\
          TipoExternos'
    BY <1>37 DEF FsGuarda, TypeOK, TipoPcb, TipoListas, TipoRecursos,
         TipoArchivos, TipoExternos
  <2>. QED  BY <2>1, <2>2 DEF TypeOK
<1>38. ASSUME FsPrueba PROVE TypeOK'
  <2>1. TipoListas'
    BY <1>38, PostTipo DEF FsPrueba, TypeOK, TipoListas, Colas, Semaforos,
         Hilos
  <2>2. TipoHilos'
    BY <1>38 DEF FsPrueba, TypeOK, TipoHilos, TipoListas, OrdenTs, Colas
  <2>3. TipoPcb' /\ TipoRecursos' /\ TipoArchivos' /\ TipoExternos'
    BY <1>38 DEF FsPrueba, TypeOK, TipoPcb, TipoRecursos, TipoArchivos,
         TipoExternos
  <2>. QED  BY <2>1, <2>2, <2>3 DEF TypeOK
<1>39. ASSUME FsAgrega PROVE TypeOK'
  <2>1. TipoListas'
    <3>1. mano["fs"] \in Pid
      BY <1>39 DEF FsAgrega, FichaExec, TypeOK, TipoListas, Hilos
    <3>2. cola["block"] \in Seq(Pid)
      BY DEF TypeOK, TipoListas, Colas
    <3>3. cola' \in [Colas -> Seq(Pid)] /\ perdidos' \subseteq Pid
      <4>1. CASE cola' = Agrega(cola, "block", mano["fs"]) /\ UNCHANGED perdidos
        BY <4>1, <3>1, AgregaTipo DEF TypeOK, TipoListas, Colas
      <4>2. CASE perdidos' = perdidos \cup {mano["fs"]} /\ UNCHANGED cola
        BY <4>2, <3>1 DEF TypeOK, TipoListas
      <4>3. ASSUME NEW i \in 0..(Len(cola["block"]) - 1),
                   cola' = [cola EXCEPT !["block"] =
                              Append(SubSeq(cola["block"], 1, i), mano["fs"])],
                   perdidos' = perdidos \cup
                       {cola["block"][j] : j \in (i + 1)..Len(cola["block"])}
            PROVE  cola' \in [Colas -> Seq(Pid)] /\ perdidos' \subseteq Pid
        <5>1. i \in 0..Len(cola["block"])
          BY <3>2
        <5>2. Append(SubSeq(cola["block"], 1, i), mano["fs"]) \in Seq(Pid)
          BY <5>1, <3>1, <3>2, SubSeqTipo
        <5>3. \A j \in (i + 1)..Len(cola["block"]) : cola["block"][j] \in Pid
          BY <3>2
        <5>. QED  BY <4>3, <5>2, <5>3 DEF TypeOK, TipoListas, Colas
      <4>. QED  BY <1>39, <4>1, <4>2, <4>3 DEF FsAgrega
    <3>. QED
      BY <1>39, <3>3, PostTipo DEF FsAgrega, TypeOK, TipoListas, Semaforos, Hilos
  <2>2. TipoHilos'
    BY <1>39 DEF FsAgrega, FichaExec, TypeOK, TipoHilos, TipoListas, OrdenTs,
         Colas, Hilos
  <2>3. TipoPcb' /\ TipoRecursos' /\ TipoArchivos' /\ TipoExternos'
    BY <1>39 DEF FsAgrega, TypeOK, TipoPcb, TipoRecursos, TipoArchivos,
         TipoExternos
  <2>. QED  BY <2>1, <2>2, <2>3 DEF TypeOK
<1>40. ASSUME FsAtiende PROVE TypeOK'
  <2>1. TipoExternos'
    <3>1. Head(peticiones) \in Peticion /\ Tail(peticiones) \in Seq(Peticion)
      BY <1>40 DEF FsAtiende, TypeOK, TipoExternos
    <3>. QED  BY <1>40, <3>1 DEF FsAtiende, TypeOK, TipoExternos
  <2>2. TipoPcb' /\ TipoListas' /\ TipoHilos' /\ TipoRecursos' /\
          TipoArchivos'
    BY <1>40 DEF FsAtiende, TypeOK, TipoPcb, TipoListas, TipoHilos,
         TipoRecursos, TipoArchivos
  <2>. QED  BY <2>1, <2>2 DEF TypeOK
<1>41. CASE Muere \/ Reposo
  BY <1>41 DEF Muere, Reposo, vars, TypeOK, TipoPcb, TipoListas, TipoHilos, TipoRecursos,
     TipoArchivos, TipoExternos
<1>. QED
  BY <1>1, <1>2, <1>3, <1>4, <1>5, <1>6, <1>7, <1>8, <1>9, <1>10, <1>11,
       <1>12, <1>13, <1>14, <1>15, <1>16, <1>17, <1>18, <1>19, <1>20, <1>21,
       <1>22, <1>23, <1>24, <1>25, <1>26, <1>27, <1>28, <1>29, <1>30, <1>31,
       <1>32, <1>33, <1>34, <1>35, <1>36, <1>37, <1>38, <1>39, <1>40, <1>41
       DEF Next, HiloReady, HiloBlock, HiloExec, HiloFs, HiloCpu,
       InstruccionCpu

-----------------------------------------------------------------------------
(* The three facts that are inductive together, and their theorems.        *)
Base == TypeOK /\ FichaExec /\ ContextoDeSuPcb

(* inicializar_variables leaves every list empty and one exec token. *)
LEMMA BaseInicial == Init => Base
<1>. SUFFICES ASSUME Init PROVE Base
  OBVIOUS
<1>. USE KernelAssumption DEF Init
<1>0. \A S : <<>> \in Seq(S)
  BY EmptySeq
<1>1. TipoPcb
  BY DEF TipoPcb, Estados, Motivos
<1>2. TipoListas
  <2>1. sem \in [Semaforos -> Nat]
    BY DEF Semaforos
  <2>. QED  BY <1>0, <2>1 DEF TipoListas, Colas, Hilos
<1>3. TipoHilos /\ TipoRecursos /\ TipoArchivos /\ TipoExternos
  BY <1>0 DEF TipoHilos, TipoRecursos, TipoArchivos, TipoExternos, OrdenTs
<1>4. FichaExec /\ ContextoDeSuPcb
  BY DEF FichaExec, ContextoDeSuPcb, ConPcbEnMano, Hilos, Semaforos, Colas
<1>. QED  BY <1>1, <1>2, <1>3, <1>4 DEF Base, TypeOK

(* Every step keeps the token of sem_exec in one place and cola_exec equal *)
(* to what the CPU runs.                                                   *)
LEMMA FichaPaso ==
    ASSUME TypeOK, FichaExec, ContextoDeSuPcb, Next
    PROVE  FichaExec' /\ ContextoDeSuPcb'
<1>. USE KernelAssumption DEF pcbs, hiloCpu, hiloFs, recursos, archivos, fileSystem,
                             memoria
<1>1. ASSUME NEW p \in Pid, ArmarPcb(p) PROVE FichaExec' /\ ContextoDeSuPcb'
  <2>1. FichaExec'
    BY <1>1 DEF ArmarPcb, FichaExec, ContextoDeSuPcb, ConPcbEnMano, TypeOK,
         TipoListas, TipoHilos, Hilos, Semaforos, Colas, Post, Espera
  <2>2. ContextoDeSuPcb'
    BY <1>1, ListaUnitaria DEF ArmarPcb, FichaExec, ContextoDeSuPcb,
         ConPcbEnMano, TypeOK, TipoListas, TipoHilos, Colas, Hilos, Agrega,
         Saca
  <2>. QED  BY <2>1, <2>2
<1>2. ASSUME NEW p \in Pid, FinIO(p) PROVE FichaExec' /\ ContextoDeSuPcb'
  <2>1. FichaExec'
    BY <1>2 DEF FinIO, FichaExec, ContextoDeSuPcb, ConPcbEnMano, TypeOK,
         TipoListas, TipoHilos, Hilos, Semaforos, Colas, Post, Espera
  <2>2. ContextoDeSuPcb'
    BY <1>2, ListaUnitaria DEF FinIO, FichaExec, ContextoDeSuPcb,
         ConPcbEnMano, TypeOK, TipoListas, TipoHilos, Colas, Hilos, Agrega,
         Saca
  <2>. QED  BY <2>1, <2>2
<1>3. ASSUME ReadyToma PROVE FichaExec' /\ ContextoDeSuPcb'
  <2>1. FichaExec'
    BY <1>3 DEF ReadyToma, FichaExec, ContextoDeSuPcb, ConPcbEnMano, TypeOK,
         TipoListas, TipoHilos, Hilos, Semaforos, Colas, Post, Espera
  <2>2. ContextoDeSuPcb'
    BY <1>3, ListaUnitaria DEF ReadyToma, FichaExec, ContextoDeSuPcb,
         ConPcbEnMano, TypeOK, TipoListas, TipoHilos, Colas, Hilos, Agrega,
         Saca
  <2>. QED  BY <2>1, <2>2
<1>4. ASSUME ReadyAdmite PROVE FichaExec' /\ ContextoDeSuPcb'
  <2>1. FichaExec'
    BY <1>4 DEF ReadyAdmite, FichaExec, ContextoDeSuPcb, ConPcbEnMano, TypeOK,
         TipoListas, TipoHilos, Hilos, Semaforos, Colas, Post, Espera
  <2>2. ContextoDeSuPcb'
    BY <1>4, ListaUnitaria DEF ReadyAdmite, FichaExec, ContextoDeSuPcb,
         ConPcbEnMano, TypeOK, TipoListas, TipoHilos, Colas, Hilos, Agrega,
         Saca
  <2>. QED  BY <2>1, <2>2
<1>5. ASSUME BlockToma PROVE FichaExec' /\ ContextoDeSuPcb'
  <2>1. FichaExec'
    BY <1>5 DEF BlockToma, FichaExec, ContextoDeSuPcb, ConPcbEnMano, TypeOK,
         TipoListas, TipoHilos, Hilos, Semaforos, Colas, Post, Espera
  <2>2. ContextoDeSuPcb'
    BY <1>5, ListaUnitaria DEF BlockToma, FichaExec, ContextoDeSuPcb,
         ConPcbEnMano, TypeOK, TipoListas, TipoHilos, Colas, Hilos, Agrega,
         Saca
  <2>. QED  BY <2>1, <2>2
<1>6. ASSUME BlockDevuelve PROVE FichaExec' /\ ContextoDeSuPcb'
  <2>1. FichaExec'
    BY <1>6 DEF BlockDevuelve, FichaExec, ContextoDeSuPcb, ConPcbEnMano,
         TypeOK, TipoListas, TipoHilos, Hilos, Semaforos, Colas, Post, Espera
  <2>2. ContextoDeSuPcb'
    BY <1>6, ListaUnitaria DEF BlockDevuelve, FichaExec, ContextoDeSuPcb,
         ConPcbEnMano, TypeOK, TipoListas, TipoHilos, Colas, Hilos, Agrega,
         Saca
  <2>. QED  BY <2>1, <2>2
<1>7. ASSUME ExecElige PROVE FichaExec' /\ ContextoDeSuPcb'
  <2>1. FichaExec'
    <3>1. PICK i \in Elegibles : mano' = [mano EXCEPT !["exec"] = cola["ready"][i]]
      BY <1>7 DEF ExecElige
    <3>2. cola["ready"][i] \in Pid
      BY DEF Elegibles, TypeOK, TipoListas, Colas
    <3>. QED
      BY <1>7, <3>1, <3>2
         DEF ExecElige, FichaExec, ConPcbEnMano, TypeOK, TipoListas, Hilos,
             Semaforos, Espera
  <2>2. ContextoDeSuPcb'
    BY <1>7, ListaUnitaria DEF ExecElige, Elegibles, SinIndice, FichaExec,
         ContextoDeSuPcb, ConPcbEnMano, TypeOK, TipoListas, TipoHilos, Colas,
         Hilos, Agrega, Saca
  <2>. QED  BY <2>1, <2>2
<1>8. ASSUME ExecDespacha PROVE FichaExec' /\ ContextoDeSuPcb'
  <2>1. FichaExec'
    BY <1>8 DEF ExecDespacha, FichaExec, ContextoDeSuPcb, ConPcbEnMano,
         TypeOK, TipoListas, TipoHilos, Hilos, Semaforos, Colas, Post, Espera
  <2>2. ContextoDeSuPcb'
    BY <1>8, ListaUnitaria DEF ExecDespacha, FichaExec, ContextoDeSuPcb,
         ConPcbEnMano, TypeOK, TipoListas, TipoHilos, Colas, Hilos, Agrega,
         Saca
  <2>. QED  BY <2>1, <2>2
<1>9. ASSUME HiloExit PROVE FichaExec' /\ ContextoDeSuPcb'
  <2>1. FichaExec'
    BY <1>9 DEF HiloExit, FichaExec, ContextoDeSuPcb, ConPcbEnMano, TypeOK,
         TipoListas, TipoHilos, Hilos, Semaforos, Colas, Post, Espera
  <2>2. ContextoDeSuPcb'
    BY <1>9, ListaUnitaria DEF HiloExit, FichaExec, ContextoDeSuPcb,
         ConPcbEnMano, TypeOK, TipoListas, TipoHilos, Colas, Hilos, Agrega,
         Saca
  <2>. QED  BY <2>1, <2>2
<1>10. ASSUME NEW p \in Pid, Yield(p) PROVE FichaExec' /\ ContextoDeSuPcb'
  <2>1. FichaExec'
    BY <1>10 DEF Yield, Recibe, Desaloja, FichaExec, ContextoDeSuPcb,
         ConPcbEnMano, TypeOK, TipoListas, TipoHilos, Hilos, Semaforos, Colas,
         Post, Espera
  <2>2. ContextoDeSuPcb'
    BY <1>10, ListaUnitaria DEF Yield, Recibe, Desaloja, FichaExec,
         ContextoDeSuPcb, ConPcbEnMano, TypeOK, TipoListas, TipoHilos, Colas,
         Hilos, Agrega, Saca
  <2>. QED  BY <2>1, <2>2
<1>11. ASSUME NEW p \in Pid, Exit(p) PROVE FichaExec' /\ ContextoDeSuPcb'
  <2>1. FichaExec'
    BY <1>11 DEF Exit, Termina, Recibe, Desaloja, FichaExec, ContextoDeSuPcb,
         ConPcbEnMano, TypeOK, TipoListas, TipoHilos, Hilos, Semaforos, Colas,
         Post, Espera
  <2>2. ContextoDeSuPcb'
    BY <1>11, ListaUnitaria DEF Exit, Termina, Recibe, Desaloja, FichaExec,
         ContextoDeSuPcb, ConPcbEnMano, TypeOK, TipoListas, TipoHilos, Colas,
         Hilos, Agrega, Saca
  <2>. QED  BY <2>1, <2>2
<1>12. ASSUME NEW p \in Pid, SegFault(p) PROVE FichaExec' /\ ContextoDeSuPcb'
  <2>1. FichaExec'
    BY <1>12 DEF SegFault, Termina, Recibe, Desaloja, FichaExec,
         ContextoDeSuPcb, ConPcbEnMano, TypeOK, TipoListas, TipoHilos, Hilos,
         Semaforos, Colas, Post, Espera
  <2>2. ContextoDeSuPcb'
    BY <1>12, ListaUnitaria DEF SegFault, Termina, Recibe, Desaloja,
         FichaExec, ContextoDeSuPcb, ConPcbEnMano, TypeOK, TipoListas,
         TipoHilos, Colas, Hilos, Agrega, Saca
  <2>. QED  BY <2>1, <2>2
<1>13. ASSUME NEW p \in Pid, ManejarIO(p) PROVE FichaExec' /\ ContextoDeSuPcb'
  <2>1. FichaExec'
    BY <1>13 DEF ManejarIO, Recibe, FichaExec, ContextoDeSuPcb, ConPcbEnMano,
         TypeOK, TipoListas, TipoHilos, Hilos, Semaforos, Colas, Post, Espera
  <2>2. ContextoDeSuPcb'
    BY <1>13, ListaUnitaria DEF ManejarIO, Recibe, FichaExec, ContextoDeSuPcb,
         ConPcbEnMano, TypeOK, TipoListas, TipoHilos, Colas, Hilos, Agrega,
         Saca
  <2>. QED  BY <2>1, <2>2
<1>14. ASSUME NEW p \in Pid, NEW r \in Pedidos, RecursoFallido(p, r)
       PROVE FichaExec' /\ ContextoDeSuPcb'
  <2>1. FichaExec'
    BY <1>14 DEF RecursoFallido, Recibe, Desaloja, FichaExec, ContextoDeSuPcb,
         ConPcbEnMano, TypeOK, TipoListas, TipoHilos, Hilos, Semaforos, Colas,
         Post, Espera
  <2>2. ContextoDeSuPcb'
    BY <1>14, ListaUnitaria DEF RecursoFallido, Recibe, Desaloja, FichaExec,
         ContextoDeSuPcb, ConPcbEnMano, TypeOK, TipoListas, TipoHilos, Colas,
         Hilos, Agrega, Saca
  <2>. QED  BY <2>1, <2>2
<1>15. ASSUME NEW p \in Pid, NEW r \in Pedidos, WaitObtiene(p, r)
       PROVE FichaExec' /\ ContextoDeSuPcb'
  <2>1. FichaExec'
    BY <1>15 DEF WaitObtiene, Recibe, Reanuda, FichaExec, ContextoDeSuPcb,
         ConPcbEnMano, TypeOK, TipoListas, TipoHilos, Hilos, Semaforos, Colas,
         Post, Espera
  <2>2. ContextoDeSuPcb'
    BY <1>15, ListaUnitaria DEF WaitObtiene, Recibe, Reanuda, FichaExec,
         ContextoDeSuPcb, ConPcbEnMano, TypeOK, TipoListas, TipoHilos, Colas,
         Hilos, Agrega, Saca
  <2>. QED  BY <2>1, <2>2
<1>16. ASSUME NEW p \in Pid, NEW r \in Pedidos, WaitBloquea(p, r)
       PROVE FichaExec' /\ ContextoDeSuPcb'
  <2>1. FichaExec'
    BY <1>16 DEF WaitBloquea, Recibe, FichaExec, ContextoDeSuPcb,
         ConPcbEnMano, TypeOK, TipoListas, TipoHilos, Hilos, Semaforos, Colas,
         Post, Espera
  <2>2. ContextoDeSuPcb'
    BY <1>16, ListaUnitaria DEF WaitBloquea, Recibe, FichaExec,
         ContextoDeSuPcb, ConPcbEnMano, TypeOK, TipoListas, TipoHilos, Colas,
         Hilos, Agrega, Saca
  <2>. QED  BY <2>1, <2>2
<1>17. ASSUME NEW p \in Pid, NEW r \in Pedidos, SignalLibera(p, r)
       PROVE FichaExec' /\ ContextoDeSuPcb'
  <2>1. FichaExec'
    BY <1>17 DEF SignalLibera, Recibe, Reanuda, FichaExec, ContextoDeSuPcb,
         ConPcbEnMano, TypeOK, TipoListas, TipoHilos, Hilos, Semaforos, Colas,
         Post, Espera
  <2>2. ContextoDeSuPcb'
    BY <1>17, ListaUnitaria DEF SignalLibera, Recibe, Reanuda, FichaExec,
         ContextoDeSuPcb, ConPcbEnMano, TypeOK, TipoListas, TipoHilos, Colas,
         Hilos, Agrega, Saca
  <2>. QED  BY <2>1, <2>2
<1>18. ASSUME NEW p \in Pid, NEW r \in Pedidos, SignalDespierta(p, r)
       PROVE FichaExec' /\ ContextoDeSuPcb'
  <2>1. FichaExec'
    BY <1>18 DEF SignalDespierta, Recibe, Reanuda, FichaExec, ContextoDeSuPcb,
         ConPcbEnMano, TypeOK, TipoListas, TipoHilos, Hilos, Semaforos, Colas,
         Post, Espera
  <2>2. ContextoDeSuPcb'
    BY <1>18, ListaUnitaria DEF SignalDespierta, Recibe, Reanuda, FichaExec,
         ContextoDeSuPcb, ConPcbEnMano, TypeOK, TipoListas, TipoHilos, Colas,
         Hilos, Agrega, Saca
  <2>. QED  BY <2>1, <2>2
<1>19. ASSUME NEW p \in Pid, NEW a \in Archivos, FOpenPide(p, a)
       PROVE FichaExec' /\ ContextoDeSuPcb'
  <2>1. FichaExec'
    BY <1>19 DEF FOpenPide, Recibe, Desaloja, FichaExec, ContextoDeSuPcb,
         ConPcbEnMano, TypeOK, TipoListas, TipoHilos, Hilos, Semaforos, Colas,
         Post, Espera
  <2>2. ContextoDeSuPcb'
    BY <1>19, ListaUnitaria DEF FOpenPide, Recibe, Desaloja, FichaExec,
         ContextoDeSuPcb, ConPcbEnMano, TypeOK, TipoListas, TipoHilos, Colas,
         Hilos, Agrega, Saca
  <2>. QED  BY <2>1, <2>2
<1>20. ASSUME NEW p \in Pid, NEW a \in Archivos, FOpenBloquea(p, a)
       PROVE FichaExec' /\ ContextoDeSuPcb'
  <2>1. FichaExec'
    BY <1>20 DEF FOpenBloquea, Recibe, FichaExec, ContextoDeSuPcb,
         ConPcbEnMano, TypeOK, TipoListas, TipoHilos, Hilos, Semaforos, Colas,
         Post, Espera
  <2>2. ContextoDeSuPcb'
    BY <1>20, ListaUnitaria DEF FOpenBloquea, Recibe, FichaExec,
         ContextoDeSuPcb, ConPcbEnMano, TypeOK, TipoListas, TipoHilos, Colas,
         Hilos, Agrega, Saca
  <2>. QED  BY <2>1, <2>2
<1>21. ASSUME NEW p \in Pid, NEW a \in Archivos, FClose(p, a)
       PROVE FichaExec' /\ ContextoDeSuPcb'
  <2>1. FichaExec'
    BY <1>21 DEF FClose, Recibe, Reanuda, FichaExec, ContextoDeSuPcb,
         ConPcbEnMano, TypeOK, TipoListas, TipoHilos, Hilos, Semaforos, Colas,
         Post, Espera
  <2>2. ContextoDeSuPcb'
    BY <1>21, ListaUnitaria DEF FClose, Recibe, Reanuda, FichaExec,
         ContextoDeSuPcb, ConPcbEnMano, TypeOK, TipoListas, TipoHilos, Colas,
         Hilos, Agrega, Saca
  <2>. QED  BY <2>1, <2>2
<1>22. ASSUME NEW p \in Pid, NEW a \in Archivos, FSeek(p, a)
       PROVE FichaExec' /\ ContextoDeSuPcb'
  <2>1. FichaExec'
    BY <1>22 DEF FSeek, Recibe, Reanuda, FichaExec, ContextoDeSuPcb,
         ConPcbEnMano, TypeOK, TipoListas, TipoHilos, Hilos, Semaforos, Colas,
         Post, Espera
  <2>2. ContextoDeSuPcb'
    BY <1>22, ListaUnitaria DEF FSeek, Recibe, Reanuda, FichaExec,
         ContextoDeSuPcb, ConPcbEnMano, TypeOK, TipoListas, TipoHilos, Colas,
         Hilos, Agrega, Saca
  <2>. QED  BY <2>1, <2>2
<1>23. ASSUME NEW p \in Pid, FTruncate(p) PROVE FichaExec' /\ ContextoDeSuPcb'
  <2>1. FichaExec'
    BY <1>23 DEF FTruncate, Recibe, Desaloja, FichaExec, ContextoDeSuPcb,
         ConPcbEnMano, TypeOK, TipoListas, TipoHilos, Hilos, Semaforos, Colas,
         Post, Espera
  <2>2. ContextoDeSuPcb'
    BY <1>23, ListaUnitaria DEF FTruncate, Recibe, Desaloja, FichaExec,
         ContextoDeSuPcb, ConPcbEnMano, TypeOK, TipoListas, TipoHilos, Colas,
         Hilos, Agrega, Saca
  <2>. QED  BY <2>1, <2>2
<1>24. ASSUME NEW p \in Pid, FRwRecibe(p) PROVE FichaExec' /\ ContextoDeSuPcb'
  <2>1. FichaExec'
    BY <1>24 DEF FRwRecibe, Recibe, FichaExec, ContextoDeSuPcb, ConPcbEnMano,
         TypeOK, TipoListas, TipoHilos, Hilos, Semaforos, Colas, Post, Espera
  <2>2. ContextoDeSuPcb'
    BY <1>24, ListaUnitaria DEF FRwRecibe, Recibe, FichaExec, ContextoDeSuPcb,
         ConPcbEnMano, TypeOK, TipoListas, TipoHilos, Colas, Hilos, Agrega,
         Saca
  <2>. QED  BY <2>1, <2>2
<1>25. ASSUME NEW p \in Pid, SegmentoCreado(p)
       PROVE FichaExec' /\ ContextoDeSuPcb'
  <2>1. FichaExec'
    BY <1>25 DEF SegmentoCreado, Recibe, Reanuda, FichaExec, ContextoDeSuPcb,
         ConPcbEnMano, TypeOK, TipoListas, TipoHilos, Hilos, Semaforos, Colas,
         Post, Espera
  <2>2. ContextoDeSuPcb'
    BY <1>25, ListaUnitaria DEF SegmentoCreado, Recibe, Reanuda, FichaExec,
         ContextoDeSuPcb, ConPcbEnMano, TypeOK, TipoListas, TipoHilos, Colas,
         Hilos, Agrega, Saca
  <2>. QED  BY <2>1, <2>2
<1>26. ASSUME NEW p \in Pid, SinMemoria(p)
       PROVE FichaExec' /\ ContextoDeSuPcb'
  <2>1. FichaExec'
    BY <1>26 DEF SinMemoria, Recibe, Desaloja, FichaExec, ContextoDeSuPcb,
         ConPcbEnMano, TypeOK, TipoListas, TipoHilos, Hilos, Semaforos, Colas,
         Post, Espera
  <2>2. ContextoDeSuPcb'
    BY <1>26, ListaUnitaria DEF SinMemoria, Recibe, Desaloja, FichaExec,
         ContextoDeSuPcb, ConPcbEnMano, TypeOK, TipoListas, TipoHilos, Colas,
         Hilos, Agrega, Saca
  <2>. QED  BY <2>1, <2>2
<1>27. ASSUME NEW p \in Pid, PideCompactar(p)
       PROVE FichaExec' /\ ContextoDeSuPcb'
  <2>1. FichaExec'
    BY <1>27 DEF PideCompactar, Recibe, FichaExec, ContextoDeSuPcb,
         ConPcbEnMano, TypeOK, TipoListas, TipoHilos, Hilos, Semaforos, Colas,
         Post, Espera
  <2>2. ContextoDeSuPcb'
    BY <1>27, ListaUnitaria DEF PideCompactar, Recibe, FichaExec,
         ContextoDeSuPcb, ConPcbEnMano, TypeOK, TipoListas, TipoHilos, Colas,
         Hilos, Agrega, Saca
  <2>. QED  BY <2>1, <2>2
<1>28. ASSUME NEW p \in Pid, DeleteSegment(p)
       PROVE FichaExec' /\ ContextoDeSuPcb'
  <2>1. FichaExec'
    BY <1>28 DEF DeleteSegment, Recibe, Reanuda, FichaExec, ContextoDeSuPcb,
         ConPcbEnMano, TypeOK, TipoListas, TipoHilos, Hilos, Semaforos, Colas,
         Post, Espera
  <2>2. ContextoDeSuPcb'
    BY <1>28, ListaUnitaria DEF DeleteSegment, Recibe, Reanuda, FichaExec,
         ContextoDeSuPcb, ConPcbEnMano, TypeOK, TipoListas, TipoHilos, Colas,
         Hilos, Agrega, Saca
  <2>. QED  BY <2>1, <2>2
<1>29. ASSUME FOpenFin PROVE FichaExec' /\ ContextoDeSuPcb'
  <2>1. FichaExec'
    BY <1>29 DEF FOpenFin, FichaExec, ContextoDeSuPcb, ConPcbEnMano, TypeOK,
         TipoListas, TipoHilos, Hilos, Semaforos, Colas, Post, Espera
  <2>2. ContextoDeSuPcb'
    BY <1>29, ListaUnitaria DEF FOpenFin, FichaExec, ContextoDeSuPcb,
         ConPcbEnMano, TypeOK, TipoListas, TipoHilos, Colas, Hilos, Agrega,
         Saca
  <2>. QED  BY <2>1, <2>2
<1>30. ASSUME FRwCarga PROVE FichaExec' /\ ContextoDeSuPcb'
  <2>1. FichaExec'
    BY <1>30 DEF FRwCarga, FichaExec, ContextoDeSuPcb, ConPcbEnMano, TypeOK,
         TipoListas, TipoHilos, Hilos, Semaforos, Colas, Post, Espera
  <2>2. ContextoDeSuPcb'
    BY <1>30, ListaUnitaria DEF FRwCarga, FichaExec, ContextoDeSuPcb,
         ConPcbEnMano, TypeOK, TipoListas, TipoHilos, Colas, Hilos, Agrega,
         Saca
  <2>. QED  BY <2>1, <2>2
<1>31. ASSUME FRwGuarda PROVE FichaExec' /\ ContextoDeSuPcb'
  <2>1. FichaExec'
    BY <1>31 DEF FRwGuarda, FichaExec, ContextoDeSuPcb, ConPcbEnMano, TypeOK,
         TipoListas, TipoHilos, Hilos, Semaforos, Colas, Post, Espera
  <2>2. ContextoDeSuPcb'
    BY <1>31, ListaUnitaria DEF FRwGuarda, FichaExec, ContextoDeSuPcb,
         ConPcbEnMano, TypeOK, TipoListas, TipoHilos, Colas, Hilos, Agrega,
         Saca
  <2>. QED  BY <2>1, <2>2
<1>32. ASSUME CompactaInicia PROVE FichaExec' /\ ContextoDeSuPcb'
  <2>1. FichaExec'
    BY <1>32 DEF CompactaInicia, FichaExec, ContextoDeSuPcb, ConPcbEnMano,
         TypeOK, TipoListas, TipoHilos, Hilos, Semaforos, Colas, Post, Espera
  <2>2. ContextoDeSuPcb'
    BY <1>32, ListaUnitaria DEF CompactaInicia, FichaExec, ContextoDeSuPcb,
         ConPcbEnMano, TypeOK, TipoListas, TipoHilos, Colas, Hilos, Agrega,
         Saca
  <2>. QED  BY <2>1, <2>2
<1>33. ASSUME NEW M \in SUBSET conSegmentos, CompactaFin(M)
       PROVE FichaExec' /\ ContextoDeSuPcb'
  <2>1. FichaExec'
    BY <1>33 DEF CompactaFin, FichaExec, ContextoDeSuPcb, ConPcbEnMano,
         TypeOK, TipoListas, TipoHilos, Hilos, Semaforos, Colas, Post, Espera
  <2>2. ContextoDeSuPcb'
    BY <1>33, ListaUnitaria DEF CompactaFin, FichaExec, ContextoDeSuPcb,
         ConPcbEnMano, TypeOK, TipoListas, TipoHilos, Colas, Hilos, Agrega,
         Saca
  <2>. QED  BY <2>1, <2>2
<1>34. ASSUME ActualizaCola PROVE FichaExec' /\ ContextoDeSuPcb'
  <2>1. FichaExec'
    BY <1>34 DEF ActualizaCola, FichaExec, ContextoDeSuPcb, ConPcbEnMano,
         TypeOK, TipoListas, TipoHilos, Hilos, Semaforos, Colas, Post, Espera
  <2>2. ContextoDeSuPcb'
    BY <1>34, ListaUnitaria DEF ActualizaCola, FichaExec, ContextoDeSuPcb,
         ConPcbEnMano, TypeOK, TipoListas, TipoHilos, Colas, Hilos, Agrega,
         Saca
  <2>. QED  BY <2>1, <2>2
<1>35. ASSUME CompactaSigue PROVE FichaExec' /\ ContextoDeSuPcb'
  <2>1. FichaExec'
    <3>1. Head(cola["exec"]) \in Pid
      BY <1>35 DEF CompactaSigue, TypeOK, TipoListas, Colas
    <3>. QED
      BY <1>35, <3>1 DEF CompactaSigue, Reanuda, FichaExec, ConPcbEnMano, TypeOK,
         TipoListas, Hilos
  <2>2. ContextoDeSuPcb'
    BY <1>35, ListaUnitaria DEF CompactaSigue, Reanuda, FichaExec,
         ContextoDeSuPcb, ConPcbEnMano, TypeOK, TipoListas, TipoHilos, Colas,
         Hilos, Agrega, Saca
  <2>. QED  BY <2>1, <2>2
<1>36. ASSUME FsRecibe PROVE FichaExec' /\ ContextoDeSuPcb'
  <2>1. FichaExec'
    <3>1. Head(cola["blockFs"]) \in Pid
      BY <1>36 DEF FsRecibe, TypeOK, TipoListas, Colas
    <3>. QED
      BY <1>36, <3>1 DEF FsRecibe, FichaExec, ConPcbEnMano, TypeOK, TipoListas,
         Hilos, Semaforos, Post
  <2>2. ContextoDeSuPcb'
    BY <1>36, ListaUnitaria DEF FsRecibe, FichaExec, ContextoDeSuPcb,
         ConPcbEnMano, TypeOK, TipoListas, TipoHilos, Colas, Hilos, Agrega,
         Saca
  <2>. QED  BY <2>1, <2>2
<1>37. ASSUME FsGuarda PROVE FichaExec' /\ ContextoDeSuPcb'
  <2>1. FichaExec'
    BY <1>37 DEF FsGuarda, FichaExec, ContextoDeSuPcb, ConPcbEnMano, TypeOK,
         TipoListas, TipoHilos, Hilos, Semaforos, Colas, Post, Espera
  <2>2. ContextoDeSuPcb'
    BY <1>37, ListaUnitaria DEF FsGuarda, FichaExec, ContextoDeSuPcb,
         ConPcbEnMano, TypeOK, TipoListas, TipoHilos, Colas, Hilos, Agrega,
         Saca
  <2>. QED  BY <2>1, <2>2
<1>38. ASSUME FsPrueba PROVE FichaExec' /\ ContextoDeSuPcb'
  <2>1. FichaExec'
    BY <1>38 DEF FsPrueba, FichaExec, ContextoDeSuPcb, ConPcbEnMano, TypeOK,
         TipoListas, TipoHilos, Hilos, Semaforos, Colas, Post, Espera
  <2>2. ContextoDeSuPcb'
    BY <1>38, ListaUnitaria DEF FsPrueba, FichaExec, ContextoDeSuPcb,
         ConPcbEnMano, TypeOK, TipoListas, TipoHilos, Colas, Hilos, Agrega,
         Saca
  <2>. QED  BY <2>1, <2>2
<1>39. ASSUME FsAgrega PROVE FichaExec' /\ ContextoDeSuPcb'
  <2>1. FichaExec'
    BY <1>39 DEF FsAgrega, FichaExec, ContextoDeSuPcb, ConPcbEnMano, TypeOK,
         TipoListas, TipoHilos, Hilos, Semaforos, Colas, Post, Espera
  <2>2. ContextoDeSuPcb'
    BY <1>39, ListaUnitaria DEF FsAgrega, FichaExec, ContextoDeSuPcb,
         ConPcbEnMano, TypeOK, TipoListas, TipoHilos, Colas, Hilos, Agrega,
         Saca
  <2>. QED  BY <2>1, <2>2
<1>40. ASSUME FsAtiende PROVE FichaExec' /\ ContextoDeSuPcb'
  <2>1. FichaExec'
    BY <1>40 DEF FsAtiende, FichaExec, ContextoDeSuPcb, ConPcbEnMano, TypeOK,
         TipoListas, TipoHilos, Hilos, Semaforos, Colas, Post, Espera
  <2>2. ContextoDeSuPcb'
    BY <1>40, ListaUnitaria DEF FsAtiende, FichaExec, ContextoDeSuPcb,
         ConPcbEnMano, TypeOK, TipoListas, TipoHilos, Colas, Hilos, Agrega,
         Saca
  <2>. QED  BY <2>1, <2>2
<1>41. CASE Muere \/ Reposo
  BY <1>41 DEF Muere, Reposo, vars, FichaExec, ContextoDeSuPcb
<1>. QED
  BY <1>1, <1>2, <1>3, <1>4, <1>5, <1>6, <1>7, <1>8, <1>9, <1>10, <1>11,
       <1>12, <1>13, <1>14, <1>15, <1>16, <1>17, <1>18, <1>19, <1>20, <1>21,
       <1>22, <1>23, <1>24, <1>25, <1>26, <1>27, <1>28, <1>29, <1>30, <1>31,
       <1>32, <1>33, <1>34, <1>35, <1>36, <1>37, <1>38, <1>39, <1>40, <1>41
       DEF Next, HiloReady, HiloBlock, HiloExec, HiloFs, HiloCpu,
       InstruccionCpu

(* The three facts hold in every reachable state. *)
THEOREM BaseInvariante == Spec => []Base
<1>1. Base /\ [Next]_vars => Base'
  <2>. SUFFICES ASSUME Base, [Next]_vars PROVE Base'
    OBVIOUS
  <2>1. CASE Next
    BY <2>1, TipoPaso, FichaPaso DEF Base
  <2>2. CASE UNCHANGED vars
    BY <2>2 DEF vars, pcbs, hiloCpu, hiloFs, recursos, archivos, fileSystem,
       memoria, Base, TypeOK, TipoPcb, TipoListas, TipoHilos, TipoRecursos,
       TipoArchivos, TipoExternos, FichaExec, ContextoDeSuPcb
  <2>. QED  BY <2>1, <2>2
<1>. QED  BY BaseInicial, <1>1, PTL DEF Spec

(* Every variable of the kernel keeps its type, for any configuration. *)
THEOREM TipoCorrecto == Spec => []TypeOK
BY BaseInvariante, PTL DEF Base

(* At most one process runs or is being served by the CPU thread: the one  *)
(* token of sem_exec is never duplicated nor lost (kernel.c:772-779).      *)
THEOREM UnaSolaFicha == Spec => []FichaExec
BY BaseInvariante, PTL DEF Base

(* The context that comes back from the CPU is always stored in the PCB it *)
(* belongs to, although the kernel never compares their pids: cola_exec    *)
(* holds that process and no other (kernel.c:241-247).                     *)
THEOREM ContextoBienAtribuido == Spec => []ContextoDeSuPcb
BY BaseInvariante, PTL DEF Base

-----------------------------------------------------------------------------
(* Counts and queues: each semaphore of a queue counts its list, a         *)
(* negative count of instances is the length of the resource's queue, and  *)
(* cola_block_fs follows the requests in flight.                           *)

(* Lengths of a list after list_add and list_remove. *)
LEMMA Largos ==
    ASSUME NEW s \in Seq(Pid), NEW p \in Pid
    PROVE  /\ Append(s, p) \in Seq(Pid)
           /\ Len(s) \in Nat
           /\ Len(Append(s, p)) = Len(s) + 1
           /\ s # <<>> => /\ Len(s) > 0
                          /\ Tail(s) \in Seq(Pid)
                          /\ Head(s) \in Pid
                          /\ Len(Tail(s)) = Len(s) - 1
BY EmptySeq, HeadTailProperties, AppendProperties

-----------------------------------------------------------------------------
(* Only WAIT and SIGNAL change the instances or the queues of resources. *)
LEMMA RecursosAjenos ==
    ASSUME Next
    PROVE  \/ UNCHANGED <<instancias, enRecurso>>
           \/ \E p \in Pid, r \in Pedidos :
                 \/ WaitObtiene(p, r) \/ WaitBloquea(p, r)
                 \/ SignalLibera(p, r) \/ SignalDespierta(p, r)
<1>. DEFINE Iguales == UNCHANGED <<instancias, enRecurso>>
<1>. USE DEF recursos
<1>1. CASE HiloReady \/ HiloBlock \/ HiloExec \/ HiloExit
  BY <1>1 DEF HiloReady, HiloBlock, HiloExec, ReadyToma, ReadyAdmite,
     BlockToma, BlockDevuelve, ExecElige, ExecDespacha, HiloExit
<1>2. CASE HiloFs \/ FsAtiende \/ Muere \/ Reposo
  BY <1>2 DEF HiloFs, FsRecibe, FsGuarda, FsPrueba, FsAgrega, FsAtiende,
     Muere, Reposo, vars
<1>3. ASSUME NEW p \in Pid, ArmarPcb(p) \/ FinIO(p) PROVE Iguales
  BY <1>3 DEF ArmarPcb, FinIO
<1>4. ASSUME HiloCpu PROVE Iguales \/ \E p \in Pid : InstruccionCpu(p)
  BY <1>4 DEF HiloCpu, FOpenFin, FRwCarga, FRwGuarda, CompactaInicia,
     CompactaFin, ActualizaCola, CompactaSigue
<1>5. ASSUME NEW p \in Pid, InstruccionCpu(p)
      PROVE  \/ Iguales
             \/ \E r \in Pedidos : \/ WaitObtiene(p, r) \/ WaitBloquea(p, r)
                                   \/ SignalLibera(p, r) \/ SignalDespierta(p, r)
  <2>1. ASSUME \/ Yield(p) \/ Exit(p) \/ SegFault(p) \/ ManejarIO(p)
               \/ FTruncate(p) \/ FRwRecibe(p) \/ SegmentoCreado(p)
               \/ SinMemoria(p) \/ PideCompactar(p) \/ DeleteSegment(p)
        PROVE  Iguales
    BY <2>1 DEF Yield, Exit, SegFault, Termina, ManejarIO, FTruncate, FRwRecibe,
       SegmentoCreado, SinMemoria, PideCompactar, DeleteSegment
  <2>2. ASSUME NEW a \in Archivos,
               \/ FOpenPide(p, a) \/ FOpenBloquea(p, a)
               \/ FClose(p, a) \/ FSeek(p, a)
        PROVE  Iguales
    BY <2>2 DEF FOpenPide, FOpenBloquea, FClose, FSeek
  <2>3. ASSUME NEW r \in Pedidos, RecursoFallido(p, r) PROVE Iguales
    BY <2>3 DEF RecursoFallido
  <2>. QED  BY <1>5, <2>1, <2>2, <2>3 DEF InstruccionCpu
<1>. QED  BY <1>1, <1>2, <1>3, <1>4, <1>5 DEF Next

(* EsperanLosQueFaltan is inductive with the types. *)
LEMMA EsperanPaso ==
    ASSUME TypeOK, EsperanLosQueFaltan, Next
    PROVE  EsperanLosQueFaltan'
<1>1. CASE UNCHANGED <<instancias, enRecurso>>
  BY <1>1 DEF EsperanLosQueFaltan
<1>2. ASSUME NEW p \in Pid, NEW r \in Pedidos,
             \/ WaitObtiene(p, r) \/ WaitBloquea(p, r)
             \/ SignalLibera(p, r) \/ SignalDespierta(p, r)
      PROVE  EsperanLosQueFaltan'
  <2>. SUFFICES ASSUME NEW s \in Recursos
                PROVE  Len(enRecurso'[s]) =
                           IF instancias'[s] < 0 THEN -instancias'[s] ELSE 0
    BY DEF EsperanLosQueFaltan
  <2>1. /\ enRecurso[s] \in Seq(Pid) /\ instancias[s] \in Int
        /\ Len(enRecurso[s]) = IF instancias[s] < 0 THEN -instancias[s] ELSE 0
    BY DEF EsperanLosQueFaltan, TypeOK, TipoRecursos
  <2>2. CASE s # r
    BY <1>2, <2>1, <2>2 DEF WaitObtiene, WaitBloquea, SignalLibera,
       SignalDespierta, TypeOK, TipoRecursos
  <2>3. CASE s = r /\ WaitObtiene(p, r)
    BY <2>1, <2>3 DEF WaitObtiene, DebeEsperar, TypeOK, TipoRecursos
  <2>4. CASE s = r /\ SignalLibera(p, r)
    BY <2>1, <2>4 DEF SignalLibera, HayQuienEspera, TypeOK, TipoRecursos
  <2>5. CASE s = r /\ WaitBloquea(p, r)
    BY <2>1, <2>5, Largos DEF WaitBloquea, DebeEsperar, TypeOK, TipoRecursos
  <2>6. CASE s = r /\ SignalDespierta(p, r)
    BY <2>1, <2>6, Largos DEF SignalDespierta, HayQuienEspera, TypeOK,
       TipoRecursos
  <2>. QED  BY <1>2, <2>2, <2>3, <2>4, <2>5, <2>6
<1>. QED  BY <1>1, <1>2, RecursosAjenos

-----------------------------------------------------------------------------
(* The PCBs the racing list_add cuts off are as many as the nodes it cuts. *)
LEMMA LargoDelResto ==
    ASSUME NEW s \in Seq(Pid), SinRepetidos(s), NEW i \in 0..(Len(s) - 1)
    PROVE  /\ IsFiniteSet({s[j] : j \in (i + 1)..Len(s)})
           /\ Cardinality({s[j] : j \in (i + 1)..Len(s)}) = Len(s) - i
<1>. DEFINE J == (i + 1)..Len(s)
            R == {s[j] : j \in J}
            g == [j \in J |-> s[j]]
<1>1. Len(s) \in Nat /\ J \subseteq DOMAIN s
  OBVIOUS
<1>2. IsFiniteSet(J) /\ Cardinality(J) = Len(s) - i
  BY <1>1, FS_Interval
<1>3. g \in Bijection(J, R)
  <2>1. g \in [J -> R] /\ \A y \in R : \E j \in J : g[j] = y
    OBVIOUS
  <2>2. \A j, k \in J : g[j] = g[k] => j = k
    BY <1>1 DEF SinRepetidos
  <2>. QED  BY <2>1, <2>2 DEF Bijection, Injection, Surjection, IsInjective
<1>4. ExistsBijection(J, R)
  BY <1>3 DEF ExistsBijection
<1>. QED  BY <1>2, <1>4, FS_Bijection

(* No PCB in the list or about to be added to it is a lost one. *)
BlockSinPerdidos ==
    /\ IsFiniteSet(perdidos)
    /\ SinRepetidos(cola["block"])
    /\ Ocupantes(cola["block"]) \cap perdidos = {}
    /\ mano["fs"] \notin perdidos

(* A queue's semaphore counts its list: one case per operation, as each    *)
(* changes a list and its semaphore together.                              *)
LEMMA RespaldoPaso ==
    ASSUME TypeOK, FichaExec, ContextoDeSuPcb, SemaforosRespaldados,
           BlockSinPerdidos, Next
    PROVE  SemaforosRespaldados'
<1>. USE DEF pcbs, hiloCpu, hiloFs, recursos, archivos, fileSystem, memoria
<1>0. Cardinality(perdidos) \in Nat
  BY FS_CardinalityType DEF BlockSinPerdidos
<1>1. ASSUME NEW p \in Pid, ArmarPcb(p) PROVE SemaforosRespaldados'
  BY <1>0, <1>1, Largos DEF ArmarPcb, SemaforosRespaldados, TypeOK, TipoListas,
     Colas, Semaforos, Agrega, Saca, Post, Espera
<1>2. ASSUME NEW p \in Pid, FinIO(p) PROVE SemaforosRespaldados'
  BY <1>0, <1>2, Largos DEF FinIO, SemaforosRespaldados, TypeOK, TipoListas,
     Colas, Semaforos, Agrega, Saca, Post, Espera
<1>3. ASSUME ReadyToma PROVE SemaforosRespaldados'
  BY <1>0, <1>3, Largos DEF ReadyToma, SemaforosRespaldados, TypeOK, TipoListas,
     Colas, Semaforos, Agrega, Saca, Post, Espera
<1>4. ASSUME ReadyAdmite PROVE SemaforosRespaldados'
  BY <1>0, <1>4, Largos DEF ReadyAdmite, SemaforosRespaldados, TypeOK,
     TipoListas, Colas, Semaforos, Agrega, Saca, Post, Espera
<1>5. ASSUME BlockToma PROVE SemaforosRespaldados'
  BY <1>0, <1>5, Largos DEF BlockToma, SemaforosRespaldados, TypeOK, TipoListas,
     Colas, Semaforos, Agrega, Saca, Post, Espera
<1>6. ASSUME BlockDevuelve PROVE SemaforosRespaldados'
  BY <1>0, <1>6, Largos DEF BlockDevuelve, SemaforosRespaldados, TypeOK,
     TipoListas, Colas, Semaforos, Agrega, Saca, Post, Espera
<1>7. ASSUME ExecElige PROVE SemaforosRespaldados'
  <2>1. PICK i \in DOMAIN cola["ready"] :
            cola' = [cola EXCEPT !["ready"] = SinIndice(@, i)]
    BY <1>7 DEF ExecElige, Elegibles
  <2>2. cola["ready"] \in Seq(Pid)
    BY DEF TypeOK, TipoListas, Colas
  <2>3. Len(SinIndice(cola["ready"], i)) = Len(cola["ready"]) - 1
    BY <2>2, SinIndiceTipo
  <2>. QED
    BY <1>0, <1>7, <2>1, <2>3 DEF ExecElige, SemaforosRespaldados, TypeOK,
       TipoListas, Colas, Semaforos, Espera
<1>8. ASSUME ExecDespacha PROVE SemaforosRespaldados'
  BY <1>0, <1>8, Largos DEF ExecDespacha, SemaforosRespaldados, TypeOK,
     TipoListas, Colas, Semaforos, Agrega, Saca, Post, Espera
<1>9. ASSUME HiloExit PROVE SemaforosRespaldados'
  <2>1. /\ cola["exit"] # <<>> /\ cola' = Saca(cola, "exit")
        /\ sem' = Post(Espera(sem, "exit"), "multiprog")
        /\ perdidos' = perdidos
    BY <1>9 DEF HiloExit
  <2>2. /\ cola'["exit"] = Tail(cola["exit"]) /\ cola'["block"] = cola["block"]
        /\ cola'["listos"] = cola["listos"] /\ cola'["ready"] = cola["ready"]
    BY <2>1 DEF Saca, TypeOK, TipoListas, Colas
  <2>3. /\ sem'["exit"] = sem["exit"] - 1 /\ sem'["block"] = sem["block"]
        /\ sem'["listos"] = sem["listos"] /\ sem'["ready"] = sem["ready"]
    BY <2>1 DEF Post, Espera, TypeOK, TipoListas, Semaforos
  <2>4. Len(cola'["exit"]) = Len(cola["exit"]) - 1
    BY <2>1, <2>2, Largos DEF TypeOK, TipoListas, Colas
  <2>. QED  BY <2>1, <2>2, <2>3, <2>4 DEF SemaforosRespaldados
<1>10. ASSUME NEW p \in Pid, Yield(p) PROVE SemaforosRespaldados'
  BY <1>0, <1>10, Largos DEF Yield, Recibe, Desaloja, SemaforosRespaldados,
     TypeOK, TipoListas, Colas, Semaforos, Agrega, Saca, Post, Espera
<1>11. ASSUME NEW p \in Pid, Exit(p) \/ SegFault(p)
      PROVE  SemaforosRespaldados'
  <2>1. ASSUME NEW i, NEW e, NEW m, Termina(p, i, e, m)
        PROVE  SemaforosRespaldados'
    <3>1. /\ cola' = Agrega(Saca(cola, "exec"), "exit", p)
          /\ sem' = Post(Post(sem, "exit"), "exec")
          /\ perdidos' = perdidos
      BY <2>1 DEF Termina, Desaloja
    <3>. QED  BY <3>1, Largos DEF SemaforosRespaldados, TypeOK, TipoListas,
              Colas, Semaforos, Agrega, Saca, Post
  <2>. QED  BY <1>0, <1>11, <2>1 DEF Exit, SegFault
<1>12. ASSUME NEW p \in Pid, ManejarIO(p) PROVE SemaforosRespaldados'
  BY <1>0, <1>12, Largos DEF ManejarIO, Recibe, SemaforosRespaldados, TypeOK,
     TipoListas, Colas, Semaforos, Agrega, Saca, Post, Espera
<1>13. ASSUME NEW p \in Pid, NEW r \in Pedidos, RecursoFallido(p, r)
      PROVE  SemaforosRespaldados'
  BY <1>0, <1>13, Largos DEF RecursoFallido, Recibe, Desaloja,
     SemaforosRespaldados, TypeOK, TipoListas, Colas, Semaforos, Agrega,
     Saca, Post, Espera
<1>14. ASSUME NEW p \in Pid, NEW r \in Pedidos,
             WaitObtiene(p, r) \/ SignalLibera(p, r)
      PROVE  SemaforosRespaldados'
  BY <1>0, <1>14, Largos DEF WaitObtiene, SignalLibera, Recibe, Reanuda,
     SemaforosRespaldados, TypeOK, TipoListas, Colas, Semaforos, Agrega,
     Saca, Post, Espera
<1>15. ASSUME NEW p \in Pid, NEW r \in Pedidos, WaitBloquea(p, r)
      PROVE  SemaforosRespaldados'
  BY <1>0, <1>15, Largos DEF WaitBloquea, Recibe, SemaforosRespaldados, TypeOK,
     TipoListas, Colas, Semaforos, Agrega, Saca, Post, Espera
<1>16. ASSUME NEW p \in Pid, NEW r \in Pedidos, SignalDespierta(p, r)
      PROVE  SemaforosRespaldados'
  BY <1>0, <1>16, Largos DEF SignalDespierta, Recibe, Reanuda, TipoRecursos,
     SemaforosRespaldados, TypeOK, TipoListas, Colas, Semaforos, Agrega,
     Saca, Post, Espera
<1>17. ASSUME NEW p \in Pid, NEW a \in Archivos, FOpenPide(p, a)
      PROVE  SemaforosRespaldados'
  BY <1>0, <1>17, Largos DEF FOpenPide, Recibe, Desaloja, SemaforosRespaldados,
     TypeOK, TipoListas, Colas, Semaforos, Agrega, Saca, Post, Espera
<1>18. ASSUME NEW p \in Pid, NEW a \in Archivos, FOpenBloquea(p, a)
      PROVE  SemaforosRespaldados'
  BY <1>0, <1>18, Largos DEF FOpenBloquea, Recibe, SemaforosRespaldados, TypeOK,
     TipoListas, Colas, Semaforos, Agrega, Saca, Post, Espera
<1>19. ASSUME NEW p \in Pid, NEW a \in Archivos, FClose(p, a)
      PROVE  SemaforosRespaldados'
  BY <1>0, <1>19, Largos DEF FClose, Recibe, Reanuda, TipoArchivos,
     SemaforosRespaldados, TypeOK, TipoListas, Colas, Semaforos, Agrega,
     Saca, Post, Espera
<1>20. ASSUME NEW p \in Pid, NEW a \in Archivos, FSeek(p, a)
      PROVE  SemaforosRespaldados'
  BY <1>0, <1>20, Largos DEF FSeek, Recibe, Reanuda, SemaforosRespaldados,
     TypeOK, TipoListas, Colas, Semaforos, Agrega, Saca, Post, Espera
<1>21. ASSUME NEW p \in Pid, FTruncate(p) PROVE SemaforosRespaldados'
  BY <1>0, <1>21, Largos DEF FTruncate, Recibe, Desaloja, SemaforosRespaldados,
     TypeOK, TipoListas, Colas, Semaforos, Agrega, Saca, Post, Espera
<1>22. ASSUME NEW p \in Pid, FRwRecibe(p) \/ PideCompactar(p)
      PROVE  SemaforosRespaldados'
  BY <1>0, <1>22, Largos DEF FRwRecibe, PideCompactar, Recibe,
     SemaforosRespaldados, TypeOK, TipoListas, Colas, Semaforos, Agrega,
     Saca, Post, Espera
<1>23. ASSUME NEW p \in Pid, SegmentoCreado(p) \/ DeleteSegment(p)
      PROVE  SemaforosRespaldados'
  BY <1>0, <1>23, Largos DEF SegmentoCreado, DeleteSegment, Recibe, Reanuda,
     SemaforosRespaldados, TypeOK, TipoListas, Colas, Semaforos, Agrega,
     Saca, Post, Espera
<1>24. ASSUME NEW p \in Pid, SinMemoria(p) PROVE SemaforosRespaldados'
  BY <1>0, <1>24, Largos DEF SinMemoria, Recibe, Desaloja, SemaforosRespaldados,
     TypeOK, TipoListas, Colas, Semaforos, Agrega, Saca, Post, Espera
<1>25. ASSUME FOpenFin PROVE SemaforosRespaldados'
  BY <1>0, <1>25, Largos DEF FOpenFin, FichaExec, SemaforosRespaldados, TypeOK,
     TipoListas, Colas, Semaforos, Agrega, Saca, Post, Espera
<1>26. ASSUME FRwCarga \/ CompactaInicia \/ ActualizaCola
      PROVE  SemaforosRespaldados'
  BY <1>0, <1>26, Largos DEF FRwCarga, CompactaInicia, ActualizaCola,
     SemaforosRespaldados, TypeOK, TipoListas, Colas, Semaforos, Agrega,
     Saca, Post, Espera
<1>27. ASSUME FRwGuarda PROVE SemaforosRespaldados'
  BY <1>0, <1>27, Largos DEF FRwGuarda, SemaforosRespaldados, TypeOK,
     TipoListas, Colas, Semaforos, Agrega, Saca, Post, Espera
<1>28. ASSUME NEW M \in SUBSET conSegmentos, CompactaFin(M)
      PROVE  SemaforosRespaldados'
  BY <1>0, <1>28, Largos DEF CompactaFin, SemaforosRespaldados, TypeOK,
     TipoListas, Colas, Semaforos, Agrega, Saca, Post, Espera
<1>29. ASSUME CompactaSigue PROVE SemaforosRespaldados'
  BY <1>0, <1>29, Largos DEF CompactaSigue, Reanuda, SemaforosRespaldados,
     TypeOK, TipoListas, Colas, Semaforos, Agrega, Saca, Post, Espera
<1>30. ASSUME FsRecibe PROVE SemaforosRespaldados'
  BY <1>0, <1>30, Largos DEF FsRecibe, SemaforosRespaldados, TypeOK, TipoListas,
     Colas, Semaforos, Agrega, Saca, Post, Espera
<1>31. ASSUME FsGuarda \/ FsPrueba PROVE SemaforosRespaldados'
  BY <1>0, <1>31, Largos DEF FsGuarda, FsPrueba, SemaforosRespaldados, TypeOK,
     TipoListas, Colas, Semaforos, Agrega, Saca, Post, Espera
<1>32. ASSUME FsAgrega PROVE SemaforosRespaldados'
  <2>1. /\ cola["block"] \in Seq(Pid) /\ Len(cola["block"]) \in Nat
        /\ mano["fs"] \in Pid
    BY <1>32 DEF FsAgrega, FichaExec, TypeOK, TipoListas, Colas, Hilos
  <2>2. CASE cola' = Agrega(cola, "block", mano["fs"]) /\ UNCHANGED perdidos
    BY <1>0, <1>32, <2>1, <2>2, Largos DEF FsAgrega, SemaforosRespaldados,
       TypeOK, TipoListas, Colas, Semaforos, Agrega, Post
  <2>3. CASE perdidos' = perdidos \cup {mano["fs"]} /\ UNCHANGED cola
    <3>1. Cardinality(perdidos') = Cardinality(perdidos) + 1
      BY <2>3, FS_AddElement DEF BlockSinPerdidos
    <3>. QED
      BY <1>0, <1>32, <2>1, <2>3, <3>1 DEF FsAgrega, SemaforosRespaldados,
         TypeOK, TipoListas, Semaforos, Post
  <2>4. ASSUME NEW i \in 0..(Len(cola["block"]) - 1),
               cola' = [cola EXCEPT !["block"] =
                           Append(SubSeq(cola["block"], 1, i), mano["fs"])],
               perdidos' = perdidos \cup
                           {cola["block"][j] : j \in (i + 1)..Len(cola["block"])}
        PROVE  SemaforosRespaldados'
    <3>. DEFINE b == cola["block"]
                R == {b[j] : j \in (i + 1)..Len(b)}
    <3>1. Cardinality(perdidos') = Cardinality(perdidos) + (Len(b) - i)
      <4>1. IsFiniteSet(R) /\ Cardinality(R) = Len(b) - i
        BY <2>1, LargoDelResto DEF BlockSinPerdidos
      <4>2. perdidos \cap R = {}
        BY <2>1 DEF BlockSinPerdidos, Ocupantes
      <4>3. Cardinality(perdidos \cup R)
               = Cardinality(perdidos) + Cardinality(R)
                 - Cardinality(perdidos \cap R)
        BY <4>1, FS_Union DEF BlockSinPerdidos
      <4>4. Cardinality(perdidos \cap R) = 0
        BY <4>2, FS_EmptySet
      <4>. QED  BY <1>0, <2>1, <2>4, <4>1, <4>3, <4>4
    <3>2. Len(cola'["block"]) = i + 1
      <4>1. /\ SubSeq(b, 1, i) \in Seq(Pid)
            /\ Len(SubSeq(b, 1, i)) = i
        BY <2>1
      <4>. QED  BY <2>1, <2>4, <4>1, Largos DEF TypeOK, TipoListas, Colas
    <3>3. /\ cola'["listos"] = cola["listos"] /\ cola'["ready"] = cola["ready"]
          /\ cola'["exit"] = cola["exit"]
      BY <2>4 DEF TypeOK, TipoListas, Colas
    <3>4. /\ sem'["block"] = sem["block"] + 1 /\ sem'["exit"] = sem["exit"]
          /\ sem'["ready"] = sem["ready"] /\ sem'["listos"] = sem["listos"]
      BY <1>32 DEF FsAgrega, TypeOK, TipoListas, Semaforos, Post
    <3>5. sem["block"] = Len(b) + Cardinality(perdidos) /\ Len(b) \in Nat
      BY <2>1 DEF SemaforosRespaldados
    <3>. HIDE DEF b, R
    <3>6. sem'["block"] = Len(cola'["block"]) + Cardinality(perdidos')
      BY <1>0, <3>1, <3>2, <3>4, <3>5
    <3>. QED  BY <3>3, <3>4, <3>6 DEF SemaforosRespaldados
  <2>. QED  BY <1>0, <1>32, <2>2, <2>3, <2>4 DEF FsAgrega
<1>33. ASSUME FsAtiende PROVE SemaforosRespaldados'
  BY <1>0, <1>33, Largos DEF FsAtiende, SemaforosRespaldados, TypeOK,
     TipoListas, Colas, Semaforos, Agrega, Saca, Post, Espera
<1>34. ASSUME Muere \/ Reposo PROVE SemaforosRespaldados'
  BY <1>0, <1>34, Largos DEF Muere, Reposo, vars, SemaforosRespaldados, TypeOK,
     TipoListas, Colas, Semaforos, Agrega, Saca, Post, Espera
<1>. QED
  BY <1>1, <1>2, <1>3, <1>4, <1>5, <1>6, <1>7, <1>8, <1>9, <1>10, <1>11,
     <1>12, <1>13, <1>14, <1>15, <1>16, <1>17, <1>18, <1>19, <1>20, <1>21,
     <1>22, <1>23, <1>24, <1>25, <1>26, <1>27, <1>28, <1>29, <1>30, <1>31,
     <1>32, <1>33, <1>34 DEF Next, HiloReady, HiloBlock, HiloExec, HiloFs,
     HiloCpu, InstruccionCpu

-----------------------------------------------------------------------------
(* Sequences of requests: what is asked goes to the end of what is in      *)
(* flight, what is answered leaves its front, and serving changes nothing. *)
LEMMA VueloPide ==
    ASSUME NEW r \in Seq(Peticion), NEW q \in Seq(Peticion), NEW x \in Peticion
    PROVE  r \o Append(q, x) = Append(r \o q, x)
<1>1. Append(q, x) = q \o <<x>> /\ <<x>> \in Seq(Peticion)
  BY AppendIsConcat
<1>2. r \o (q \o <<x>>) = (r \o q) \o <<x>>
  BY <1>1, ConcatAssociative
<1>3. r \o q \in Seq(Peticion)
  BY ConcatProperties
<1>. QED  BY <1>1, <1>2, <1>3, AppendIsConcat

LEMMA VueloLlega ==
    ASSUME NEW r \in Seq(Peticion), NEW q \in Seq(Peticion), r # <<>>
    PROVE  Tail(r) \o q = Tail(r \o q) /\ Head(r \o q) = Head(r)
<1>1. /\ r \o q \in Seq(Peticion) /\ Len(r \o q) = Len(r) + Len(q)
      /\ \A i \in 1..(Len(r) + Len(q)) :
            (r \o q)[i] = IF i <= Len(r) THEN r[i] ELSE q[i - Len(r)]
  BY ConcatProperties
<1>2. /\ Tail(r) \in Seq(Peticion) /\ Len(Tail(r)) = Len(r) - 1
      /\ Len(r) \in Nat \ {0} /\ Len(q) \in Nat
      /\ \A i \in 1..(Len(r) - 1) : Tail(r)[i] = r[i + 1]
  BY HeadTailProperties, EmptySeq, LenProperties
<1>3. r \o q # <<>>
  BY <1>1, <1>2, EmptySeq
<1>4. /\ Tail(r \o q) \in Seq(Peticion) /\ Len(Tail(r \o q)) = Len(r \o q) - 1
      /\ \A i \in 1..(Len(r \o q) - 1) : Tail(r \o q)[i] = (r \o q)[i + 1]
  BY <1>1, <1>3, HeadTailProperties
<1>5. /\ Tail(r) \o q \in Seq(Peticion)
      /\ Len(Tail(r) \o q) = Len(r) - 1 + Len(q)
      /\ \A i \in 1..(Len(r) - 1 + Len(q)) :
            (Tail(r) \o q)[i] = IF i <= Len(r) - 1 THEN Tail(r)[i]
                                ELSE q[i - (Len(r) - 1)]
  BY <1>2, ConcatProperties
<1>6. \A i \in 1..Len(Tail(r) \o q) : (Tail(r) \o q)[i] = Tail(r \o q)[i]
  <2>. SUFFICES ASSUME NEW i \in 1..(Len(r) - 1 + Len(q))
                PROVE  (Tail(r) \o q)[i] = Tail(r \o q)[i]
    BY <1>5
  <2>1. Tail(r \o q)[i] = (r \o q)[i + 1]
    BY <1>1, <1>2, <1>4
  <2>2. (r \o q)[i + 1] = IF i + 1 <= Len(r) THEN r[i + 1] ELSE q[i + 1 - Len(r)]
    BY <1>1, <1>2
  <2>3. CASE i <= Len(r) - 1
    BY <2>1, <2>2, <2>3, <1>2, <1>5
  <2>4. CASE ~(i <= Len(r) - 1)
    <3>1. i - (Len(r) - 1) = i + 1 - Len(r)
      BY <1>2
    <3>. QED  BY <2>1, <2>2, <2>4, <3>1, <1>2, <1>5
  <2>. QED  BY <2>3, <2>4
<1>7. Tail(r) \o q = Tail(r \o q)
  BY <1>1, <1>2, <1>4, <1>5, <1>6, SeqEqual
<1>8. Head(r \o q) = (r \o q)[1] /\ Head(r) = r[1]
  OBVIOUS
<1>9. (r \o q)[1] = r[1]
  BY <1>1, <1>2
<1>. QED  BY <1>7, <1>8, <1>9

LEMMA VueloSirve ==
    ASSUME NEW r \in Seq(Peticion), NEW q \in Seq(Peticion), q # <<>>
    PROVE  Append(r, Head(q)) \o Tail(q) = r \o q
<1>1. /\ Head(q) \in Peticion /\ Tail(q) \in Seq(Peticion)
      /\ <<Head(q)>> \in Seq(Peticion)
  BY HeadTailProperties
<1>2. Append(r, Head(q)) \o Tail(q) = r \o (<<Head(q)>> \o Tail(q))
  BY <1>1, AppendIsConcat, ConcatAssociative
<1>3. <<Head(q)>> \o Tail(q) = q
  <2>1. /\ Len(q) \in Nat \ {0} /\ Len(Tail(q)) = Len(q) - 1
        /\ \A i \in 1..(Len(q) - 1) : Tail(q)[i] = q[i + 1]
    BY HeadTailProperties, EmptySeq
  <2>2. /\ Len(<<Head(q)>>) = 1 /\ <<Head(q)>>[1] = q[1]
    OBVIOUS
  <2>3. /\ <<Head(q)>> \o Tail(q) \in Seq(Peticion)
        /\ Len(<<Head(q)>> \o Tail(q)) = Len(q)
        /\ \A i \in 1..Len(q) : (<<Head(q)>> \o Tail(q))[i] =
               IF i <= 1 THEN <<Head(q)>>[i] ELSE Tail(q)[i - 1]
    BY <1>1, <2>1, <2>2, ConcatProperties
  <2>4. \A i \in 1..Len(q) : (<<Head(q)>> \o Tail(q))[i] = q[i]
    BY <2>1, <2>2, <2>3
  <2>. QED  BY <2>3, <2>4, SeqEqual
<1>. QED  BY <1>2, <1>3

(* cola_block_fs and the requests in flight, in parallel. *)
Siguen(l, v) == Len(l) = Len(v) /\ \A i \in DOMAIN v : l[i] = v[i].pid

LEMMA SiguenPide ==
    ASSUME NEW l \in Seq(Pid), NEW v \in Seq(Peticion), Siguen(l, v),
           NEW x \in Peticion
    PROVE  Siguen(Append(l, x.pid), Append(v, x))
<1>0. x.pid \in Pid
  BY DEF Peticion
<1>1. /\ Len(Append(l, x.pid)) = Len(l) + 1
      /\ \A i \in 1..Len(l) : Append(l, x.pid)[i] = l[i]
      /\ Append(l, x.pid)[Len(l) + 1] = x.pid
  BY <1>0, AppendProperties
<1>2. /\ Len(Append(v, x)) = Len(v) + 1 /\ Append(v, x) \in Seq(Peticion)
      /\ \A i \in 1..Len(v) : Append(v, x)[i] = v[i]
      /\ Append(v, x)[Len(v) + 1] = x
  BY AppendProperties
<1>3. DOMAIN v = 1..Len(v) /\ Len(v) \in Nat
      /\ DOMAIN Append(v, x) = 1..(Len(v) + 1)
  BY <1>2, LenProperties
<1>. QED  BY <1>1, <1>2, <1>3 DEF Siguen

LEMMA SiguenLlega ==
    ASSUME NEW l \in Seq(Pid), NEW v \in Seq(Peticion), Siguen(l, v), l # <<>>
    PROVE  v # <<>> /\ Head(l) = Head(v).pid /\ Siguen(Tail(l), Tail(v))
<1>1. Len(l) \in Nat \ {0} /\ Len(v) = Len(l) /\ v # <<>>
  BY EmptySeq DEF Siguen
<1>2. /\ Len(Tail(l)) = Len(l) - 1
      /\ \A i \in 1..(Len(l) - 1) : Tail(l)[i] = l[i + 1]
  BY HeadTailProperties
<1>3. /\ Tail(v) \in Seq(Peticion) /\ Len(Tail(v)) = Len(v) - 1
      /\ \A i \in 1..(Len(v) - 1) : Tail(v)[i] = v[i + 1]
  BY <1>1, HeadTailProperties
<1>4. DOMAIN v = 1..Len(v) /\ DOMAIN Tail(v) = 1..(Len(v) - 1)
  BY <1>3, LenProperties
<1>5. Head(l) = l[1] /\ Head(v) = v[1]
  OBVIOUS
<1>. QED  BY <1>1, <1>2, <1>3, <1>4, <1>5 DEF Siguen

(* Only F_OPEN of a closed file, F_TRUNCATE, F_READ and F_WRITE, and the   *)
(* file system's own steps change cola_block_fs or the requests.           *)
LEMMA FsAjeno ==
    ASSUME TypeOK, Next
    PROVE  \/ cola'["blockFs"] = cola["blockFs"] /\ UNCHANGED fileSystem
           \/ \E p \in Pid : FTruncate(p) \/ \E a \in Archivos : FOpenPide(p, a)
           \/ FRwGuarda \/ FsRecibe \/ FsAtiende
<1>. DEFINE Iguales == cola'["blockFs"] = cola["blockFs"] /\ UNCHANGED fileSystem
<1>. USE DEF TypeOK, TipoListas, Colas, Agrega, Saca, fileSystem
<1>1. CASE HiloReady \/ HiloBlock \/ HiloExec \/ HiloExit
  BY <1>1 DEF HiloReady, HiloBlock, HiloExec, ReadyToma, ReadyAdmite,
     BlockToma, BlockDevuelve, ExecElige, ExecDespacha, HiloExit
<1>2. ASSUME FsGuarda \/ FsPrueba \/ FsAgrega \/ Muere \/ Reposo PROVE Iguales
  BY <1>2 DEF FsGuarda, FsPrueba, FsAgrega, Muere, Reposo, vars
<1>3. ASSUME NEW p \in Pid, ArmarPcb(p) \/ FinIO(p) PROVE Iguales
  BY <1>3 DEF ArmarPcb, FinIO
<1>4. ASSUME HiloCpu
      PROVE  Iguales \/ FRwGuarda \/ \E p \in Pid : InstruccionCpu(p)
  BY <1>4 DEF HiloCpu, FOpenFin, FRwCarga, CompactaInicia, CompactaFin,
     ActualizaCola, CompactaSigue, Reanuda
<1>5. ASSUME NEW p \in Pid, InstruccionCpu(p)
      PROVE  Iguales \/ FTruncate(p) \/ \E a \in Archivos : FOpenPide(p, a)
  <2>1. ASSUME \/ Yield(p) \/ Exit(p) \/ SegFault(p) \/ ManejarIO(p)
               \/ FRwRecibe(p) \/ SegmentoCreado(p)
               \/ SinMemoria(p) \/ PideCompactar(p) \/ DeleteSegment(p)
        PROVE  Iguales
    BY <2>1 DEF Yield, Exit, SegFault, Termina, ManejarIO, FRwRecibe,
       SegmentoCreado, SinMemoria, PideCompactar, DeleteSegment, Desaloja,
       Reanuda
  <2>2. ASSUME NEW a \in Archivos,
               FOpenBloquea(p, a) \/ FClose(p, a) \/ FSeek(p, a)
        PROVE  Iguales
    BY <2>2 DEF FOpenBloquea, FClose, FSeek, Reanuda
  <2>3. ASSUME NEW r \in Pedidos,
               \/ RecursoFallido(p, r) \/ WaitObtiene(p, r) \/ WaitBloquea(p, r)
               \/ SignalLibera(p, r) \/ SignalDespierta(p, r)
        PROVE  Iguales
    BY <2>3 DEF RecursoFallido, WaitObtiene, WaitBloquea, SignalLibera,
       SignalDespierta, Desaloja, Reanuda
  <2>. HIDE DEF TypeOK, TipoListas, Colas, Agrega, Saca
  <2>. QED  BY <1>5, <2>1, <2>2, <2>3 DEF InstruccionCpu
<1>. HIDE DEF Iguales, TypeOK, TipoListas, Colas, Agrega, Saca
<1>. QED  BY <1>1, <1>2, <1>3, <1>4, <1>5 DEF Next, HiloFs, Iguales

(* cola_block_fs keeps following the requests in flight. *)
LEMMA RespuestaPaso ==
    ASSUME TypeOK, FichaExec, RespuestaDeSuProceso, Next
    PROVE  RespuestaDeSuProceso'
<1>. DEFINE l == cola["blockFs"]
<1>0. /\ l \in Seq(Pid) /\ respuestas \in Seq(Peticion)
      /\ peticiones \in Seq(Peticion) /\ EnVuelo \in Seq(Peticion)
  BY ConcatProperties DEF TypeOK, TipoListas, TipoExternos, Colas, EnVuelo
<1>1. Siguen(l, EnVuelo)
  BY DEF RespuestaDeSuProceso, Siguen
<1>. SUFFICES Siguen(l', EnVuelo')
  BY DEF RespuestaDeSuProceso, Siguen
<1>2. ASSUME NEW x \in Peticion, l' = Append(l, x.pid),
             peticiones' = Append(peticiones, x), respuestas' = respuestas
      PROVE  Siguen(l', EnVuelo')
  BY <1>0, <1>1, <1>2, VueloPide, SiguenPide DEF EnVuelo
<1>3. CASE cola'["blockFs"] = cola["blockFs"] /\ UNCHANGED fileSystem
  BY <1>1, <1>3 DEF fileSystem, EnVuelo
<1>4. ASSUME NEW p \in Pid, NEW a \in Archivos, FOpenPide(p, a)
      PROVE  Siguen(l', EnVuelo')
  <2>. DEFINE x == [op |-> "F_OPEN", pid |-> p]
  <2>1. /\ x \in Peticion /\ x.pid = p
        /\ peticiones' = Append(peticiones, x) /\ respuestas' = respuestas
    BY <1>4 DEF FOpenPide, Peticion
  <2>2. l' = Append(l, p)
    BY <1>4 DEF FOpenPide, Desaloja, TypeOK, TipoListas, Colas, Agrega, Saca
  <2>. QED  BY <1>2, <2>1, <2>2
<1>5. ASSUME NEW p \in Pid, FTruncate(p) PROVE Siguen(l', EnVuelo')
  <2>. DEFINE x == [op |-> "F_TRUNCATE", pid |-> p]
  <2>1. /\ x \in Peticion /\ x.pid = p
        /\ peticiones' = Append(peticiones, x) /\ respuestas' = respuestas
    BY <1>5 DEF FTruncate, Peticion
  <2>2. l' = Append(l, p)
    BY <1>5 DEF FTruncate, Desaloja, TypeOK, TipoListas, Colas, Agrega, Saca
  <2>. QED  BY <1>2, <2>1, <2>2
<1>6. ASSUME FRwGuarda PROVE Siguen(l', EnVuelo')
  <2>. DEFINE p == mano["cpu"]
              x == [op |-> "F_RW", pid |-> p]
  <2>0. p \in Pid
    BY <1>6 DEF FRwGuarda, FichaExec, ConPcbEnMano, TypeOK, TipoListas, Hilos
  <2>1. /\ x \in Peticion /\ x.pid = p
        /\ peticiones' = Append(peticiones, x) /\ respuestas' = respuestas
    BY <1>6, <2>0 DEF FRwGuarda, Peticion
  <2>2. l' = Append(l, p)
    BY <1>6 DEF FRwGuarda, TypeOK, TipoListas, Colas, Agrega
  <2>. QED  BY <1>2, <2>1, <2>2
<1>7. ASSUME FsRecibe PROVE Siguen(l', EnVuelo')
  <2>1. /\ respuestas # <<>> /\ l # <<>>
        /\ respuestas' = Tail(respuestas) /\ peticiones' = peticiones
        /\ l' = Tail(l)
    BY <1>7 DEF FsRecibe, TypeOK, TipoListas, Colas, Saca
  <2>2. Tail(respuestas) \o peticiones = Tail(EnVuelo)
    BY <1>0, <2>1, VueloLlega DEF EnVuelo
  <2>3. EnVuelo' = Tail(EnVuelo)
    BY <2>1, <2>2 DEF EnVuelo
  <2>4. Siguen(Tail(l), Tail(EnVuelo))
    BY <1>0, <1>1, <2>1, SiguenLlega
  <2>. HIDE DEF l
  <2>. QED  BY <2>1, <2>3, <2>4
<1>8. ASSUME FsAtiende PROVE Siguen(l', EnVuelo')
  <2>1. /\ peticiones # <<>> /\ cola' = cola
        /\ respuestas' = Append(respuestas, Head(peticiones))
        /\ peticiones' = Tail(peticiones)
    BY <1>8 DEF FsAtiende
  <2>. QED  BY <1>0, <1>1, <2>1, VueloSirve DEF EnVuelo
<1>. QED  BY <1>3, <1>4, <1>5, <1>6, <1>7, <1>8, FsAjeno

-----------------------------------------------------------------------------
(* The waits on resources and the order of the file system's requests,     *)
(* together with the types and the token.                                  *)
ColasInv == Base /\ EsperanLosQueFaltan /\ RespuestaDeSuProceso

THEOREM ColasInvariante == Spec => []ColasInv
<1>1. Init => EsperanLosQueFaltan /\ RespuestaDeSuProceso
  BY KernelAssumption, EmptySeq, ConcatEmptySeq
     DEF Init, EsperanLosQueFaltan, RespuestaDeSuProceso, EnVuelo, Colas
<1>2. ColasInv /\ [Next]_vars => ColasInv'
  <2>. SUFFICES ASSUME ColasInv, [Next]_vars PROVE ColasInv'
    OBVIOUS
  <2>1. CASE Next
    BY <2>1, TipoPaso, FichaPaso, EsperanPaso, RespuestaPaso
       DEF ColasInv, Base
  <2>2. CASE UNCHANGED vars
    BY <2>2, SMTT(20) DEF vars, pcbs, hiloCpu, hiloFs, recursos, archivos,
       fileSystem, memoria, ColasInv, Base, TypeOK, TipoPcb, TipoListas,
       TipoHilos, TipoRecursos, TipoArchivos, TipoExternos, FichaExec, ContextoDeSuPcb,
       EsperanLosQueFaltan, RespuestaDeSuProceso, EnVuelo
  <2>. QED  BY <2>1, <2>2
<1>. QED  BY BaseInicial, <1>1, <1>2, PTL DEF Spec, ColasInv

(* SIGNAL finds somebody to wake exactly when the count says so, for any   *)
(* resources and programs (manejar_wait, manejar_signal).                  *)
THEOREM EsperasContadas == Spec => []EsperanLosQueFaltan
BY ColasInvariante, PTL DEF ColasInv

(* The answer of the file system is given to the process that asked, for   *)
(* any number of requests in flight (procesar_conexion_fs).                *)
THEOREM RespuestaBienDada == Spec => []RespuestaDeSuProceso
BY ColasInvariante, PTL DEF ColasInv
=============================================================================
