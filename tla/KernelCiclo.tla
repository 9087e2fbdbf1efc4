---------------------------- MODULE KernelCiclo -----------------------------
(***************************************************************************)
(* Proof that a PCB's state field agrees with the place the PCB is in: the *)
(* strengthening of KernelLugares from which the life cycle of each        *)
(* process follows. Then, that the kernel implements the life cycle of     *)
(* CicloDeVida, keeps the degree of multiprogramming, and gives a file one *)
(* holder.                                                                 *)
(***************************************************************************)
EXTENDS KernelLugares, FiniteSetTheorems

-----------------------------------------------------------------------------
(* What the steps on a list do to the set of PCBs in it. *)
LEMMA OcupaAppend ==
    ASSUME NEW l \in Seq(Pid), NEW p \in Pid
    PROVE  /\ Append(l, p) \in Seq(Pid) /\ p \in Ocupantes(Append(l, p))
           /\ Ocupantes(Append(l, p)) \subseteq Ocupantes(l) \cup {p}
<1>1. /\ Append(l, p) \in Seq(Pid) /\ Len(Append(l, p)) = Len(l) + 1
      /\ Len(l) \in Nat /\ Append(l, p)[Len(l) + 1] = p
      /\ \A i \in 1..Len(l) : Append(l, p)[i] = l[i]
  BY AppendProperties, LenProperties
<1>2. DOMAIN l = 1..Len(l) /\ DOMAIN Append(l, p) = 1..(Len(l) + 1)
  BY <1>1, LenProperties
<1>3. \A i \in 1..(Len(l) + 1) : i \in 1..Len(l) \/ i = Len(l) + 1
  BY <1>1
<1>4. Len(l) + 1 \in 1..(Len(l) + 1)
  BY <1>1
<1>. QED  BY <1>1, <1>2, <1>3, <1>4 DEF Ocupantes

LEMMA OcupaAgrega ==
    ASSUME NEW c \in [Colas -> Seq(Pid)], NEW q \in Colas, NEW p \in Pid
    PROVE  /\ Agrega(c, q, p) \in [Colas -> Seq(Pid)]
           /\ p \in Ocupantes(Agrega(c, q, p)[q])
           /\ \A k \in Colas : Ocupantes(Agrega(c, q, p)[k])
                                 \subseteq Ocupantes(c[k]) \cup {p}
BY OcupaAppend DEF Agrega

LEMMA OcupaTail ==
    ASSUME NEW l \in Seq(Pid), l # <<>>
    PROVE  /\ Tail(l) \in Seq(Pid) /\ Head(l) \in Ocupantes(l)
           /\ Ocupantes(Tail(l)) \subseteq Ocupantes(l) /\ Head(l) \in Pid
<1>1. /\ Tail(l) \in Seq(Pid) /\ Len(Tail(l)) = Len(l) - 1
      /\ Len(l) \in Nat \ {0} /\ Head(l) = l[1] /\ Head(l) \in Pid
      /\ \A i \in 1..(Len(l) - 1) : Tail(l)[i] = l[i + 1]
  BY HeadTailProperties, EmptySeq, LenProperties
<1>2. DOMAIN l = 1..Len(l) /\ DOMAIN Tail(l) = 1..(Len(l) - 1)
  BY <1>1, LenProperties
<1>3. 1 \in 1..Len(l) /\ \A i \in 1..(Len(l) - 1) : i + 1 \in 1..Len(l)
  BY <1>1
<1>. QED  BY <1>1, <1>2, <1>3 DEF Ocupantes

LEMMA OcupaSaca ==
    ASSUME NEW c \in [Colas -> Seq(Pid)], NEW q \in Colas, c[q] # <<>>
    PROVE  /\ Saca(c, q) \in [Colas -> Seq(Pid)]
           /\ Head(c[q]) \in Ocupantes(c[q]) /\ Head(c[q]) \in Pid
           /\ \A k \in Colas : Ocupantes(Saca(c, q)[k]) \subseteq Ocupantes(c[k])
BY OcupaTail DEF Saca

-----------------------------------------------------------------------------
(* The two parts of EstadoSegunLugar. *)
EstadosBien ==
    \A s \in Sitios : \A p \in Ocupantes(Lista[s]) : estado[p] \in EstadosEn(s)

EstadosFs ==
    \A x \in Ocupantes(EnVuelo) :
        estado[x.pid] = IF x.op = "F_OPEN" THEN "EXEC" ELSE "BLOCK"

(* EstadosBien read list by list. *)
LEMMA EstadosDe ==
    ASSUME TypeOK, EstadosBien
    PROVE  /\ \A q \in Colas : \A p \in Ocupantes(cola[q]) :
                estado[p] \in EstadosEnCola[q]
           /\ \A h \in Hilos : EnMano[h] # Nadie =>
                estado[EnMano[h]] \in EstadosEnHilo[h]
           /\ \A r \in Recursos : \A p \in Ocupantes(enRecurso[r]) :
                estado[p] = "BLOCK"
           /\ \A a \in Archivos : \A p \in Ocupantes(enArchivo[a]) :
                estado[p] = "BLOCK"
           /\ \A p \in io : estado[p] = "BLOCK"
<1>1. ASSUME NEW q \in Colas, NEW p \in Ocupantes(cola[q])
      PROVE  estado[p] \in EstadosEnCola[q]
  <2>1. /\ <<"cola", q>> \in Sitios /\ Lista[<<"cola", q>>] = cola[q]
        /\ EstadosEn(<<"cola", q>>) = EstadosEnCola[q]
    BY DEF Sitios, Lista, EstadosEn
  <2>. QED  BY <2>1 DEF EstadosBien
<1>2. ASSUME NEW h \in Hilos, EnMano[h] # Nadie
      PROVE  estado[EnMano[h]] \in EstadosEnHilo[h]
  <2>. DEFINE m == EnMano[h]
  <2>1. /\ <<"hilo", h>> \in Sitios /\ Lista[<<"hilo", h>>] = <<m>>
        /\ EstadosEn(<<"hilo", h>>) = EstadosEnHilo[h]
    BY <1>2 DEF Sitios, Lista, EstadosEn
  <2>2. m \in Ocupantes(<<m>>)
    BY ListaDeUno
  <2>. HIDE DEF m
  <2>3. estado[m] \in EstadosEnHilo[h]
    BY <2>1, <2>2 DEF EstadosBien
  <2>. QED  BY <2>3 DEF m
<1>3. ASSUME NEW r \in Recursos, NEW p \in Ocupantes(enRecurso[r])
      PROVE  estado[p] = "BLOCK"
  <2>1. /\ <<"recurso", r>> \in Sitios /\ Lista[<<"recurso", r>>] = enRecurso[r]
        /\ EstadosEn(<<"recurso", r>>) = {"BLOCK"}
    BY DEF Sitios, Lista, EstadosEn
  <2>. QED  BY <2>1 DEF EstadosBien
<1>4. ASSUME NEW a \in Archivos, NEW p \in Ocupantes(enArchivo[a])
      PROVE  estado[p] = "BLOCK"
  <2>1. /\ <<"archivo", a>> \in Sitios /\ Lista[<<"archivo", a>>] = enArchivo[a]
        /\ EstadosEn(<<"archivo", a>>) = {"BLOCK"}
    BY DEF Sitios, Lista, EstadosEn
  <2>. QED  BY <2>1 DEF EstadosBien
<1>5. ASSUME NEW p \in io PROVE estado[p] = "BLOCK"
  <2>1. /\ <<"io", p>> \in Sitios /\ Lista[<<"io", p>>] = <<p>>
        /\ EstadosEn(<<"io", p>>) = {"BLOCK"}
    BY DEF Sitios, Lista, EstadosEn, TypeOK, TipoListas
  <2>2. p \in Ocupantes(<<p>>)
    BY ListaDeUno
  <2>. QED  BY <2>1, <2>2 DEF EstadosBien
<1>. QED  BY <1>1, <1>2, <1>3, <1>4, <1>5

(* Only the processes in P are in a list they were not in. *)
Entran(P) ==
    /\ \A q \in Colas : Ocupantes(cola'[q]) \subseteq Ocupantes(cola[q]) \cup P
    /\ \A r \in Recursos :
         Ocupantes(enRecurso'[r]) \subseteq Ocupantes(enRecurso[r]) \cup P
    /\ \A a \in Archivos :
         Ocupantes(enArchivo'[a]) \subseteq Ocupantes(enArchivo[a]) \cup P
    /\ \A h \in Hilos : EnMano'[h] \in {Nadie, EnMano[h]} \cup P
    /\ io' \subseteq io \cup P

LEMMA EntranEnLista ==
    ASSUME NEW P, Entran(P), NEW s \in Sitios
    PROVE  Ocupantes(Lista'[s]) \subseteq Ocupantes(Lista[s]) \cup P
<1>1. CASE s[1] = "cola"
  BY <1>1 DEF Sitios, Lista, Entran
<1>2. CASE s[1] = "recurso"
  BY <1>2 DEF Sitios, Lista, Entran
<1>3. CASE s[1] = "archivo"
  BY <1>3 DEF Sitios, Lista, Entran
<1>4. CASE s[1] = "hilo"
  <2>. DEFINE m == EnMano[s[2]]
              n == EnMano'[s[2]]
  <2>1. /\ Lista[s] = IF m = Nadie THEN <<>> ELSE <<m>>
        /\ Lista'[s] = IF n = Nadie THEN <<>> ELSE <<n>>
        /\ n \in {Nadie, m} \cup P
    BY <1>4 DEF Sitios, Lista, Entran
  <2>2. Ocupantes(<<m>>) = {m} /\ Ocupantes(<<n>>) = {n} /\ Ocupantes(<<>>) = {}
    BY ListaDeUno, ListaVacia
  <2>. HIDE DEF m, n
  <2>. QED  BY <2>1, <2>2
<1>5. CASE s[1] = "io"
  <2>. DEFINE p == s[2]
  <2>1. /\ Lista[s] = IF p \in io THEN <<p>> ELSE <<>>
        /\ Lista'[s] = IF p \in io' THEN <<p>> ELSE <<>>
        /\ io' \subseteq io \cup P
    BY <1>5 DEF Sitios, Lista, Entran
  <2>2. Ocupantes(<<p>>) = {p} /\ Ocupantes(<<>>) = {}
    BY ListaDeUno, ListaVacia
  <2>. HIDE DEF p
  <2>. QED  BY <2>1, <2>2
<1>. QED  BY <1>1, <1>2, <1>3, <1>4, <1>5 DEF Sitios

(* Nobody enters a list, or one process enters y with a state that suits.  *)
LEMMA NingunoEntra ==
    ASSUME EstadosBien, Entran({}),
           \A x \in UNION {Ocupantes(Lista'[s]) : s \in Sitios} :
              estado'[x] = estado[x]
    PROVE  EstadosBien'
<1>1. \A s \in Sitios : Ocupantes(Lista'[s]) \subseteq Ocupantes(Lista[s])
  BY EntranEnLista
<1>. QED  BY <1>1 DEF EstadosBien, EstadosEn, EstadosEnCola, EstadosEnHilo

LEMMA UnoEntra ==
    ASSUME EstadosBien, CadaPcbEnUnLugar', NEW p, Entran({p}),
           NEW y \in Sitios, p \in Ocupantes(Lista'[y]),
           estado'[p] \in EstadosEn(y),
           \A x \in Pid \ {p} : estado'[x] = estado[x]
    PROVE  EstadosBien'
<1>1. \A s \in Sitios : Ocupantes(Lista'[s]) \subseteq Ocupantes(Lista[s]) \cup {p}
  BY EntranEnLista
<1>2. \A s \in Sitios : p \in Ocupantes(Lista'[s]) => s = y
  BY DEF CadaPcbEnUnLugar, EnUnLugar
<1>3. \A s \in Sitios : Ocupantes(Lista'[s]) \subseteq Pid
  BY DEF CadaPcbEnUnLugar, EnUnLugar, Vivos
<1>4. ASSUME NEW s \in Sitios, NEW x \in Ocupantes(Lista'[s])
      PROVE  estado'[x] \in EstadosEn(s)
  BY <1>1, <1>2, <1>3 DEF EstadosBien
<1>. QED  BY <1>4 DEF EstadosBien, EstadosEn, EstadosEnCola, EstadosEnHilo

(* The same, for a process that ends in a list or in a thread's hand. *)
LEMMA EntraEnCola ==
    ASSUME EstadosBien, CadaPcbEnUnLugar', NEW p, Entran({p}),
           NEW q \in Colas, p \in Ocupantes(cola'[q]),
           estado'[p] \in EstadosEnCola[q],
           \A x \in Pid \ {p} : estado'[x] = estado[x]
    PROVE  EstadosBien'
<1>1. /\ <<"cola", q>> \in Sitios /\ Lista'[<<"cola", q>>] = cola'[q]
      /\ EstadosEn(<<"cola", q>>) = EstadosEnCola[q]
  BY DEF Sitios, Lista, EstadosEn
<1>. QED  BY <1>1, UnoEntra

LEMMA EntraEnMano ==
    ASSUME EstadosBien, CadaPcbEnUnLugar', NEW p \in Pid, Entran({p}),
           NEW h \in Hilos, EnMano'[h] = p, estado'[p] \in EstadosEnHilo[h],
           \A x \in Pid \ {p} : estado'[x] = estado[x]
    PROVE  EstadosBien'
<1>1. /\ <<"hilo", h>> \in Sitios /\ Lista'[<<"hilo", h>>] = <<p>>
      /\ EstadosEn(<<"hilo", h>>) = EstadosEnHilo[h]
  BY KernelAssumption DEF Sitios, Lista, EstadosEn
<1>2. p \in Ocupantes(<<p>>)
  BY ListaDeUno
<1>. QED  BY <1>1, <1>2, UnoEntra

-----------------------------------------------------------------------------
(* The planning threads: each PCB they move has, when it arrives, the      *)
(* state of the place it arrives at.                                       *)
LEMMA EstadosPlanes ==
    ASSUME TypeOK, FichaExec, EstadosBien, CadaPcbEnUnLugar',
           \/ \E p \in Pid : ArmarPcb(p) \/ FinIO(p)
           \/ HiloReady \/ HiloBlock \/ HiloExec \/ HiloExit
    PROVE  EstadosBien'
<1>. DEFINE E == EnMano
<1>n. /\ {"listos", "exec", "ready", "exit", "block"} \subseteq Colas
      /\ {"ready", "block", "exec"} \subseteq Hilos
      /\ cola \in [Colas -> Seq(Pid)] /\ Nadie \notin Pid
      /\ estado \in [Pid -> Estados]
      /\ mano \in [Hilos -> Pid \cup {Nadie}]
      /\ E \in [Hilos -> Pid \cup {Nadie}]
  BY KernelAssumption
     DEF Colas, Hilos, TypeOK, TipoListas, TipoPcb, EnMano
<1>r. E["ready"] = mano["ready"] /\ E["block"] = mano["block"]
      /\ E["exec"] = mano["exec"]
  BY DEF EnMano, Hilos
<1>d. /\ \A q \in Colas : cola[q] # <<>> =>
            Head(cola[q]) \in Pid /\ estado[Head(cola[q])] \in EstadosEnCola[q]
      /\ \A q \in Colas : \A p \in Ocupantes(cola[q]) :
            estado[p] \in EstadosEnCola[q]
      /\ \A h \in Hilos : E[h] # Nadie => estado[E[h]] \in EstadosEnHilo[h]
      /\ \A p \in io : estado[p] = "BLOCK"
  BY <1>n, EstadosDe, OcupaSaca
<1>. HIDE DEF E
<1>1. ASSUME NEW p \in Pid, ArmarPcb(p) PROVE EstadosBien'
  <2>1. cola' = Agrega(cola, "listos", p) /\ EnMano' = EnMano
    BY <1>1, <1>n, ManoIgual DEF ArmarPcb, Agrega, Colas, hiloCpu
  <2>2. Entran({p}) /\ p \in Ocupantes(cola'["listos"])
    BY <1>1, <1>n, <2>1, OcupaAgrega DEF ArmarPcb, Entran, recursos, archivos
  <2>. QED  BY <1>1, <1>n, <2>2, EntraEnCola DEF ArmarPcb, EstadosEnCola
<1>2. ASSUME NEW p \in Pid, FinIO(p) PROVE EstadosBien'
  <2>1. cola' = Agrega(cola, "block", p) /\ EnMano' = EnMano
    BY <1>2, <1>n, ManoIgual DEF FinIO, Agrega, Colas, hiloCpu
  <2>2. Entran({p}) /\ p \in Ocupantes(cola'["block"])
    BY <1>2, <1>n, <2>1, OcupaAgrega DEF FinIO, Entran, recursos, archivos
  <2>. QED  BY <1>2, <1>n, <1>d, <2>2, EntraEnCola DEF FinIO, EstadosEnCola, pcbs
<1>3. ASSUME ReadyToma PROVE EstadosBien'
  <2>. DEFINE p == Head(cola["listos"])
  <2>0. cola["listos"] # <<>> /\ p \in Pid /\ estado[p] \in EstadosEnHilo["ready"]
    BY <1>3, <1>d, <1>n DEF ReadyToma, EstadosEnCola, EstadosEnHilo
  <2>1. cola' = Saca(cola, "listos") /\ mano' = [mano EXCEPT !["ready"] = p]
    BY <1>3 DEF ReadyToma
  <2>2. EnMano' = [EnMano EXCEPT !["ready"] = p]
    BY <1>3, <1>n, <2>1, ManoCambia DEF ReadyToma, Saca, Colas, Hilos, hiloCpu
  <2>. HIDE DEF p
  <2>3. Entran({p}) /\ EnMano'["ready"] = p
    BY <1>3, <1>n, <2>0, <2>1, <2>2, OcupaSaca
       DEF ReadyToma, Entran, recursos, archivos, E
  <2>. QED  BY <1>3, <1>n, <2>0, <2>3, EntraEnMano DEF ReadyToma, pcbs
<1>4. ASSUME ReadyAdmite PROVE EstadosBien'
  <2>. DEFINE p == mano["ready"]
  <2>0. p \in Pid /\ estado'[p] \in EstadosEnCola["ready"]
        /\ \A x \in Pid \ {p} : estado'[x] = estado[x]
    BY <1>4, <1>n DEF ReadyAdmite, EstadosEnCola
  <2>1. cola' = Agrega(cola, "ready", p) /\ mano' = [mano EXCEPT !["ready"] = Nadie]
    BY <1>4 DEF ReadyAdmite
  <2>2. EnMano' = [EnMano EXCEPT !["ready"] = Nadie]
    BY <1>4, <1>n, <2>1, ManoCambia DEF ReadyAdmite, Agrega, Colas, Hilos, hiloCpu
  <2>. HIDE DEF p
  <2>u. UNCHANGED <<enRecurso, enArchivo, io>>
    BY <1>4 DEF ReadyAdmite, recursos, archivos
  <2>o. \A k \in Colas : Ocupantes(cola'[k]) \subseteq Ocupantes(cola[k]) \cup {p}
        /\ p \in Ocupantes(cola'["ready"])
    BY <1>n, <2>0, <2>1, OcupaAgrega
  <2>3. Entran({p})
    BY <1>n, <2>2, <2>u, <2>o DEF Entran, E
  <2>. QED  BY <1>n, <2>0, <2>3, <2>o, EntraEnCola
<1>5. ASSUME BlockToma PROVE EstadosBien'
  <2>. DEFINE p == Head(cola["block"])
  <2>0. cola["block"] # <<>> /\ p \in Pid /\ estado[p] \in EstadosEnHilo["block"]
    BY <1>5, <1>d, <1>n DEF BlockToma, EstadosEnCola, EstadosEnHilo
  <2>1. cola' = Saca(cola, "block") /\ mano' = [mano EXCEPT !["block"] = p]
    BY <1>5 DEF BlockToma
  <2>2. EnMano' = [EnMano EXCEPT !["block"] = p]
    BY <1>5, <1>n, <2>1, ManoCambia DEF BlockToma, Saca, Colas, Hilos, hiloCpu
  <2>. HIDE DEF p
  <2>3. Entran({p}) /\ EnMano'["block"] = p
    BY <1>5, <1>n, <2>0, <2>1, <2>2, OcupaSaca
       DEF BlockToma, Entran, recursos, archivos, E
  <2>. QED  BY <1>5, <1>n, <2>0, <2>3, EntraEnMano DEF BlockToma, pcbs
<1>6. ASSUME BlockDevuelve PROVE EstadosBien'
  <2>. DEFINE p == mano["block"]
  <2>0. p \in Pid /\ estado'[p] \in EstadosEnCola["ready"]
        /\ \A x \in Pid \ {p} : estado'[x] = estado[x]
    BY <1>6, <1>n DEF BlockDevuelve, EstadosEnCola
  <2>1. cola' = Agrega(cola, "ready", p) /\ mano' = [mano EXCEPT !["block"] = Nadie]
    BY <1>6 DEF BlockDevuelve
  <2>2. EnMano' = [EnMano EXCEPT !["block"] = Nadie]
    BY <1>6, <1>n, <2>1, ManoCambia DEF BlockDevuelve, Agrega, Colas, Hilos, hiloCpu
  <2>. HIDE DEF p
  <2>u. UNCHANGED <<enRecurso, enArchivo, io>>
    BY <1>6 DEF BlockDevuelve, recursos, archivos
  <2>o. \A k \in Colas : Ocupantes(cola'[k]) \subseteq Ocupantes(cola[k]) \cup {p}
        /\ p \in Ocupantes(cola'["ready"])
    BY <1>n, <2>0, <2>1, OcupaAgrega
  <2>3. Entran({p})
    BY <1>n, <2>2, <2>u, <2>o DEF Entran, E
  <2>. QED  BY <1>n, <2>0, <2>3, <2>o, EntraEnCola
<1>7. ASSUME ExecElige PROVE EstadosBien'
  <2>1. PICK i \in DOMAIN cola["ready"] :
          /\ mano' = [mano EXCEPT !["exec"] = cola["ready"][i]]
          /\ cola' = [cola EXCEPT !["ready"] = SinIndice(@, i)]
    BY <1>7 DEF ExecElige, Elegibles
  <2>. DEFINE l == cola["ready"]
              p == l[i]
  <2>2. l \in Seq(Pid) /\ p \in Pid /\ p \in Ocupantes(l)
    BY <1>n, ElementOfSeq, LenProperties DEF Ocupantes
  <2>3. estado[p] \in EstadosEnHilo["exec"]
    BY <1>d, <1>n, <2>2 DEF EstadosEnCola, EstadosEnHilo
  <2>4. Ocupantes(SinIndice(l, i)) \subseteq Ocupantes(l)
    <3>1. DOMAIN l = 1..Len(l) /\ Len(l) \in Nat
      BY <2>2, LenProperties
    <3>. DEFINE z == SinIndice(l, i)
    <3>2. /\ DOMAIN z = 1..(Len(l) - 1)
          /\ \A j \in 1..(Len(l) - 1) : z[j] = IF j < i THEN l[j] ELSE l[j + 1]
      BY DEF SinIndice
    <3>3. \A j \in 1..(Len(l) - 1) : j \in 1..Len(l) /\ j + 1 \in 1..Len(l)
      BY <3>1
    <3>. HIDE DEF z
    <3>4. Ocupantes(z) \subseteq Ocupantes(l)
      BY <3>1, <3>2, <3>3 DEF Ocupantes
    <3>. QED  BY <3>4 DEF z
  <2>5. EnMano' = [EnMano EXCEPT !["exec"] = p]
    BY <1>7, <1>n, <2>1, ManoCambia DEF ExecElige, Colas, Hilos, hiloCpu
  <2>. HIDE DEF p
  <2>6. Entran({p}) /\ EnMano'["exec"] = p
    BY <1>7, <1>n, <2>1, <2>4, <2>5
       DEF ExecElige, Entran, recursos, archivos, E
  <2>. QED  BY <1>7, <1>n, <2>2, <2>3, <2>6, EntraEnMano DEF ExecElige, pcbs
<1>8. ASSUME ExecDespacha PROVE EstadosBien'
  <2>. DEFINE p == mano["exec"]
  <2>0. p \in Pid /\ estado'[p] \in EstadosEnCola["exec"]
        /\ \A x \in Pid \ {p} : estado'[x] = estado[x]
    BY <1>8, <1>n DEF ExecDespacha, EstadosEnCola
  <2>1. cola' = Agrega(cola, "exec", p) /\ mano' = [mano EXCEPT !["exec"] = Nadie]
    BY <1>8 DEF ExecDespacha
  <2>2. EnMano' = [EnMano EXCEPT !["exec"] = Nadie]
    BY <1>8, <1>n, <2>1, ManoCambia DEF ExecDespacha, Agrega, Colas, Hilos, hiloCpu
  <2>. HIDE DEF p
  <2>u. UNCHANGED <<enRecurso, enArchivo, io>>
    BY <1>8 DEF ExecDespacha, recursos, archivos
  <2>o. \A k \in Colas : Ocupantes(cola'[k]) \subseteq Ocupantes(cola[k]) \cup {p}
        /\ p \in Ocupantes(cola'["exec"])
    BY <1>n, <2>0, <2>1, OcupaAgrega
  <2>3. Entran({p})
    BY <1>n, <2>2, <2>u, <2>o DEF Entran, E
  <2>. QED  BY <1>n, <2>0, <2>3, <2>o, EntraEnCola
<1>9. ASSUME HiloExit PROVE EstadosBien'
  <2>. DEFINE p == Head(cola["exit"])
  <2>1. cola' = Saca(cola, "exit") /\ EnMano' = EnMano /\ cola["exit"] # <<>>
    BY <1>9, <1>n, ManoIgual DEF HiloExit, Saca, Colas, hiloCpu
  <2>2. Entran({})
    BY <1>9, <1>n, <2>1, OcupaSaca DEF HiloExit, Entran, recursos
  <2>3. \A x \in Pid \ {p} : estado'[x] = estado[x]
    BY <1>9, <1>n DEF HiloExit
  <2>4. p \notin Vivos' /\ Vivos' \subseteq Pid
    BY <1>9, <1>n, <1>d DEF HiloExit, Vivos
  <2>. HIDE DEF p
  <2>5. \A x \in UNION {Ocupantes(Lista'[s]) : s \in Sitios} : x \in Pid \ {p}
    BY <2>4 DEF CadaPcbEnUnLugar, EnUnLugar
  <2>. QED  BY <2>2, <2>3, <2>5, NingunoEntra
<1>. QED
  BY <1>1, <1>2, <1>3, <1>4, <1>5, <1>6, <1>7, <1>8, <1>9
     DEF HiloReady, HiloBlock, HiloExec

(* The operations of the CPU and their states. *)
LEMMA EstadosInstruccion ==
    ASSUME TypeOK, FichaExec, EstadosBien, CadaPcbEnUnLugar', NEW p \in Pid,
           InstruccionCpu(p)
    PROVE  EstadosBien'
<1>. DEFINE E == EnMano
            c == Saca(cola, "exec")
            Otros == \A x \in Pid \ {p} : estado'[x] = estado[x]
<1>n. /\ {"exec", "ready", "exit", "block", "blockFs"} \subseteq Colas
      /\ "cpu" \in Hilos
      /\ cola \in [Colas -> Seq(Pid)] /\ Nadie \notin Pid
      /\ estado \in [Pid -> Estados]
      /\ E \in [Hilos -> Pid \cup {Nadie}]
      /\ enRecurso \in [Recursos -> Seq(Pid)]
      /\ enArchivo \in [Archivos -> Seq(Pid)]
  BY KernelAssumption
     DEF Colas, Hilos, TypeOK, TipoListas, TipoPcb, TipoRecursos, TipoArchivos,
         EnMano
<1>r. /\ cola["exec"] # <<>> /\ p = Head(cola["exec"]) /\ pcCpu = "recv"
      /\ mano["cpu"] = Nadie /\ E["cpu"] = Nadie
  BY DEF InstruccionCpu, Yield, Exit, SegFault, Termina, ManejarIO,
     RecursoFallido, WaitObtiene, WaitBloquea, SignalLibera, SignalDespierta,
     FOpenPide, FOpenBloquea, FClose, FSeek, FTruncate, FRwRecibe,
     SegmentoCreado, SinMemoria, PideCompactar, DeleteSegment, Recibe,
     FichaExec, ConPcbEnMano, EnMano, Hilos
<1>s. /\ c \in [Colas -> Seq(Pid)] /\ p \in Ocupantes(cola["exec"])
      /\ \A k \in Colas : Ocupantes(c[k]) \subseteq Ocupantes(cola[k])
      /\ estado[p] = "EXEC"
  <2>1. /\ c \in [Colas -> Seq(Pid)] /\ p \in Ocupantes(cola["exec"])
        /\ \A k \in Colas : Ocupantes(c[k]) \subseteq Ocupantes(cola[k])
    BY <1>n, <1>r, OcupaSaca
  <2>2. estado[p] \in EstadosEnCola["exec"]
    BY <1>n, <2>1, EstadosDe
  <2>. QED  BY <2>1, <2>2 DEF EstadosEnCola
<1>m. UNCHANGED <<mano, pcCpu>> => EnMano' = E
  BY <1>r, ManoIgual
<1>a. ASSUME NEW q \in Colas
      PROVE  /\ p \in Ocupantes(Agrega(c, q, p)[q])
             /\ \A k \in Colas :
                  Ocupantes(Agrega(c, q, p)[k]) \subseteq Ocupantes(cola[k]) \cup {p}
  <2>. HIDE DEF c
  <2>. QED  BY <1>s, OcupaAgrega
<1>. HIDE DEF E, c
<1>1. ASSUME NEW q \in Colas, cola' = Agrega(c, q, p),
             UNCHANGED <<enRecurso, enArchivo, io>>, EnMano' = E,
             estado'[p] \in EstadosEnCola[q], Otros
      PROVE  EstadosBien'
  <2>1. Entran({p})
    BY <1>1, <1>a, <1>n DEF Entran, E
  <2>. QED  BY <1>1, <1>a, <2>1, EntraEnCola
<1>2. ASSUME Yield(p) PROVE EstadosBien'
  BY <1>1, <1>2, <1>n, <1>m
     DEF Yield, Desaloja, hiloCpu, recursos, archivos, c, EstadosEnCola
<1>3. ASSUME Exit(p) \/ SegFault(p) PROVE EstadosBien'
  BY <1>1, <1>3, <1>n, <1>m
     DEF Exit, SegFault, Termina, Desaloja, hiloCpu, recursos, archivos, c,
         EstadosEnCola
<1>4. ASSUME NEW r \in Pedidos, RecursoFallido(p, r) PROVE EstadosBien'
  BY <1>1, <1>4, <1>n, <1>m, <1>s
     DEF RecursoFallido, Desaloja, hiloCpu, archivos, c, EstadosEnCola
<1>5. ASSUME SinMemoria(p) PROVE EstadosBien'
  BY <1>1, <1>5, <1>n, <1>m, <1>s
     DEF SinMemoria, Desaloja, hiloCpu, recursos, archivos, c, EstadosEnCola
<1>6. ASSUME FTruncate(p) PROVE EstadosBien'
  BY <1>1, <1>6, <1>n, <1>m
     DEF FTruncate, Desaloja, hiloCpu, recursos, archivos, c, EstadosEnCola
<1>7. ASSUME NEW r \in Pedidos, WaitObtiene(p, r) \/ SignalLibera(p, r)
      PROVE  EstadosBien'
  BY <1>1, <1>7, <1>n, <1>m, <1>s
     DEF WaitObtiene, SignalLibera, Reanuda, hiloCpu, archivos, pcbs, c,
         EstadosEnCola
<1>8. ASSUME NEW a \in Archivos, FSeek(p, a) PROVE EstadosBien'
  BY <1>1, <1>8, <1>n, <1>m, <1>s
     DEF FSeek, Reanuda, hiloCpu, recursos, pcbs, c, EstadosEnCola
<1>9. ASSUME SegmentoCreado(p) \/ DeleteSegment(p) PROVE EstadosBien'
  BY <1>1, <1>9, <1>n, <1>m, <1>s
     DEF SegmentoCreado, DeleteSegment, Reanuda, hiloCpu, recursos, archivos,
         pcbs, c, EstadosEnCola
<1>10. ASSUME ManejarIO(p) PROVE EstadosBien'
  <2>1. /\ cola' = c /\ io' = io \cup {p} /\ EnMano' = E
        /\ UNCHANGED <<enRecurso, enArchivo>>
        /\ estado' = [estado EXCEPT ![p] = "BLOCK"]
    BY <1>10, <1>m DEF ManejarIO, hiloCpu, recursos, archivos, c
  <2>2. Entran({p})
    BY <1>n, <1>s, <2>1 DEF Entran, E
  <2>3. /\ <<"io", p>> \in Sitios /\ Lista'[<<"io", p>>] = <<p>>
        /\ EstadosEn(<<"io", p>>) = {"BLOCK"}
    BY <2>1 DEF Sitios, Lista, EstadosEn
  <2>4. p \in Ocupantes(<<p>>)
    BY ListaDeUno
  <2>. QED  BY <1>n, <2>1, <2>2, <2>3, <2>4, UnoEntra
<1>11. ASSUME NEW r \in Pedidos, WaitBloquea(p, r) PROVE EstadosBien'
  <2>1. /\ cola' = c /\ r \in Recursos /\ EnMano' = E
        /\ enRecurso' = [enRecurso EXCEPT ![r] = Append(@, p)]
        /\ UNCHANGED <<enArchivo, io>>
        /\ estado' = [estado EXCEPT ![p] = "BLOCK"]
    BY <1>11, <1>m DEF WaitBloquea, hiloCpu, archivos, c
  <2>2. /\ p \in Ocupantes(enRecurso'[r])
        /\ \A k \in Recursos :
             Ocupantes(enRecurso'[k]) \subseteq Ocupantes(enRecurso[k]) \cup {p}
    BY <1>n, <2>1, OcupaAppend
  <2>3. Entran({p})
    BY <1>n, <1>s, <2>1, <2>2 DEF Entran, E
  <2>4. /\ <<"recurso", r>> \in Sitios /\ Lista'[<<"recurso", r>>] = enRecurso'[r]
        /\ EstadosEn(<<"recurso", r>>) = {"BLOCK"}
    BY <2>1 DEF Sitios, Lista, EstadosEn
  <2>. QED  BY <1>n, <2>1, <2>2, <2>3, <2>4, UnoEntra
<1>12. ASSUME NEW a \in Archivos, FOpenBloquea(p, a) PROVE EstadosBien'
  <2>1. /\ cola' = c /\ EnMano' = E
        /\ enArchivo' = [enArchivo EXCEPT ![a] = Append(@, p)]
        /\ UNCHANGED <<enRecurso, io>>
        /\ estado' = [estado EXCEPT ![p] = "BLOCK"]
    BY <1>12, <1>m DEF FOpenBloquea, hiloCpu, recursos, c
  <2>2. /\ p \in Ocupantes(enArchivo'[a])
        /\ \A k \in Archivos :
             Ocupantes(enArchivo'[k]) \subseteq Ocupantes(enArchivo[k]) \cup {p}
    BY <1>n, <2>1, OcupaAppend
  <2>3. Entran({p})
    BY <1>n, <1>s, <2>1, <2>2 DEF Entran, E
  <2>4. /\ <<"archivo", a>> \in Sitios /\ Lista'[<<"archivo", a>>] = enArchivo'[a]
        /\ EstadosEn(<<"archivo", a>>) = {"BLOCK"}
    BY <2>1 DEF Sitios, Lista, EstadosEn
  <2>. QED  BY <1>n, <2>1, <2>2, <2>3, <2>4, UnoEntra
<1>13. ASSUME NEW d \in Pid, estado[d] = "BLOCK",
              cola' = Agrega(Saca(Agrega(cola, "block", d), "exec"), "exec", p),
              \A r \in Recursos :
                Ocupantes(enRecurso'[r]) \subseteq Ocupantes(enRecurso[r]),
              \A a \in Archivos :
                Ocupantes(enArchivo'[a]) \subseteq Ocupantes(enArchivo[a]),
              UNCHANGED <<io, estado>>, EnMano' = E
       PROVE  EstadosBien'
  <2>. DEFINE b == Agrega(cola, "block", d)
              z == Saca(b, "exec")
  <2>1. /\ b \in [Colas -> Seq(Pid)] /\ d \in Ocupantes(b["block"])
        /\ \A k \in Colas : Ocupantes(b[k]) \subseteq Ocupantes(cola[k]) \cup {d}
        /\ b["exec"] = cola["exec"]
    BY <1>n, OcupaAgrega, ZenonT(30) DEF Agrega, Colas
  <2>. HIDE DEF b
  <2>2. /\ z \in [Colas -> Seq(Pid)] /\ z["block"] = b["block"]
        /\ \A k \in Colas : Ocupantes(z[k]) \subseteq Ocupantes(b[k])
    BY <1>n, <1>r, <2>1, OcupaSaca DEF Saca, Colas
  <2>. HIDE DEF z
  <2>3. cola' = Agrega(z, "exec", p)
    BY <1>13 DEF z, b
  <2>4. /\ \A k \in Colas : Ocupantes(cola'[k]) \subseteq Ocupantes(z[k]) \cup {p}
        /\ \A k \in Colas \ {"exec"} : cola'[k] = z[k]
    BY <1>n, <2>2, <2>3, OcupaAgrega DEF Agrega
  <2>5. \A k \in Colas : Ocupantes(cola'[k]) \subseteq Ocupantes(cola[k]) \cup {d}
    BY <1>s, <2>1, <2>2, <2>4
  <2>6. d \in Ocupantes(cola'["block"])
    BY <1>n, <2>1, <2>2, <2>4
  <2>7. Entran({d})
    BY <1>13, <1>n, <2>5 DEF Entran, E
  <2>. QED  BY <1>13, <1>n, <2>6, <2>7, EntraEnCola DEF EstadosEnCola
<1>14. ASSUME NEW r \in Pedidos, SignalDespierta(p, r) PROVE EstadosBien'
  <2>. DEFINE d == Head(enRecurso[r])
  <2>1. /\ r \in Recursos /\ enRecurso[r] # <<>>
        /\ cola' = Agrega(Saca(Agrega(cola, "block", d), "exec"), "exec", p)
        /\ enRecurso' = [enRecurso EXCEPT ![r] = Tail(@)]
        /\ UNCHANGED <<enArchivo, io, estado>> /\ EnMano' = E
    BY <1>14, <1>m DEF SignalDespierta, Reanuda, hiloCpu, archivos, pcbs
  <2>2. d \in Pid /\ d \in Ocupantes(enRecurso[r])
    BY <1>n, <2>1, OcupaTail
  <2>3. \A k \in Recursos : Ocupantes(enRecurso'[k]) \subseteq Ocupantes(enRecurso[k])
    BY <1>n, <2>1, OcupaTail
  <2>4. estado[d] = "BLOCK"
    BY <2>1, <2>2, EstadosDe
  <2>. HIDE DEF d
  <2>. QED  BY <1>13, <2>1, <2>2, <2>3, <2>4
<1>15. ASSUME NEW a \in Archivos, FClose(p, a) PROVE EstadosBien'
  <2>1. EnMano' = E /\ UNCHANGED <<enRecurso, io, estado>>
    BY <1>15, <1>m DEF FClose, hiloCpu, recursos, pcbs
  <2>2. CASE enArchivo[a] = <<>>
    <3>1. cola' = Agrega(c, "exec", p) /\ UNCHANGED enArchivo
      BY <1>15, <2>2 DEF FClose, Reanuda, c
    <3>. QED  BY <1>1, <1>n, <1>s, <2>1, <3>1 DEF EstadosEnCola
  <2>3. CASE enArchivo[a] # <<>>
    <3>. DEFINE d == Head(enArchivo[a])
    <3>1. /\ cola' = Agrega(Saca(Agrega(cola, "block", d), "exec"), "exec", p)
          /\ enArchivo' = [enArchivo EXCEPT ![a] = Tail(@)]
      BY <1>15, <2>3 DEF FClose, Reanuda
    <3>2. d \in Pid /\ d \in Ocupantes(enArchivo[a])
      BY <1>n, <2>3, OcupaTail
    <3>3. \A k \in Archivos : Ocupantes(enArchivo'[k]) \subseteq Ocupantes(enArchivo[k])
      BY <1>n, <2>3, <3>1, OcupaTail
    <3>4. estado[d] = "BLOCK"
      BY <3>2, EstadosDe
    <3>. HIDE DEF d
    <3>. QED  BY <1>13, <2>1, <3>1, <3>2, <3>3, <3>4
  <2>. QED  BY <2>2, <2>3
<1>16. ASSUME FRwRecibe(p) \/ PideCompactar(p) PROVE EstadosBien'
  <2>1. /\ mano' = [mano EXCEPT !["cpu"] = p] /\ pcCpu' # "fOpen"
        /\ cola' = c /\ UNCHANGED <<enRecurso, enArchivo, io, estado>>
    BY <1>16 DEF FRwRecibe, PideCompactar, recursos, archivos, pcbs, c
  <2>2. EnMano' = [E EXCEPT !["cpu"] = p]
    BY <2>1, ManoCpu DEF E
  <2>3. Entran({p}) /\ EnMano'["cpu"] = p
    BY <1>n, <1>s, <2>1, <2>2 DEF Entran, E
  <2>. QED  BY <1>n, <1>s, <2>1, <2>3, EntraEnMano DEF EstadosEnHilo
<1>17. ASSUME NEW a \in Archivos, FOpenPide(p, a) PROVE EstadosBien'
  <2>1. /\ cola' = Agrega(c, "blockFs", p) /\ mano' = [mano EXCEPT !["cpu"] = p]
        /\ pcCpu' = "fOpen" /\ UNCHANGED <<enRecurso, enArchivo, io, estado>>
    BY <1>17 DEF FOpenPide, Desaloja, recursos, archivos, pcbs, c
  <2>2. p \in Ocupantes(cola'["blockFs"])
    BY <1>a, <1>n, <2>1
  <2>3. EnMano' = E
    BY <1>r, <2>1, <2>2 DEF E, EnMano, TypeOK, TipoListas, Hilos
  <2>. QED  BY <1>1, <1>n, <1>s, <2>1, <2>3 DEF EstadosEnCola
<1>. QED
  BY <1>2, <1>3, <1>4, <1>5, <1>6, <1>7, <1>8, <1>9, <1>10, <1>11, <1>12,
     <1>14, <1>15, <1>16, <1>17 DEF InstruccionCpu

(* The rest of the steps and their states. *)
LEMMA EstadosHiloCpu ==
    ASSUME TypeOK, FichaExec, Apertura, EstadosBien, CadaPcbEnUnLugar',
           \/ FOpenFin \/ FRwCarga \/ FRwGuarda \/ CompactaInicia
           \/ \E M \in SUBSET conSegmentos : CompactaFin(M)
           \/ ActualizaCola \/ CompactaSigue
    PROVE  EstadosBien'
<1>. DEFINE E == EnMano
            p == mano["cpu"]
<1>n. /\ {"exec", "blockFs"} \subseteq Colas /\ "cpu" \in Hilos
      /\ cola \in [Colas -> Seq(Pid)] /\ estado \in [Pid -> Estados]
      /\ E \in [Hilos -> Pid \cup {Nadie}] /\ p \in Pid \cup {Nadie}
  BY DEF Colas, Hilos, TypeOK, TipoListas, TipoPcb, EnMano
<1>1. ASSUME p # Nadie, E["cpu"] = p, NEW q \in Colas,
             cola' = Agrega(cola, q, p), mano' = [mano EXCEPT !["cpu"] = Nadie],
             pcCpu' # "fOpen", UNCHANGED <<enRecurso, enArchivo, io>>,
             \/ UNCHANGED estado /\ q = "exec"
             \/ estado' = [estado EXCEPT ![p] = "BLOCK"] /\ q = "blockFs"
      PROVE  EstadosBien'
  <2>1. EnMano' = [E EXCEPT !["cpu"] = Nadie]
    BY <1>1, ManoCpu
  <2>2. estado[p] = "EXEC"
    BY <1>1, <1>n, EstadosDe DEF EstadosEnHilo
  <2>. HIDE DEF E, p
  <2>3. p \in Pid
    BY <1>1, <1>n
  <2>4. /\ p \in Ocupantes(cola'[q])
        /\ \A k \in Colas : Ocupantes(cola'[k]) \subseteq Ocupantes(cola[k]) \cup {p}
    BY <1>1, <1>n, <2>3, OcupaAgrega
  <2>5. Entran({p})
    BY <1>1, <1>n, <2>1, <2>4 DEF Entran, E
  <2>6. /\ estado'[p] \in EstadosEnCola[q]
        /\ \A x \in Pid \ {p} : estado'[x] = estado[x]
    BY <1>1, <1>n, <2>2, <2>3 DEF EstadosEnCola
  <2>. QED  BY <2>4, <2>5, <2>6, EntraEnCola
<1>2. pcCpu # "fOpen" => E["cpu"] = p
  BY DEF EnMano, Hilos
<1>3. ASSUME FOpenFin PROVE EstadosBien'
  <2>1. sem["finFOpen"] = 1 /\ pcCpu = "fOpen"
    BY <1>3 DEF FOpenFin, Apertura
  <2>2. p # Nadie /\ E["cpu"] = p
    BY <2>1 DEF Apertura, FichaExec, ConPcbEnMano, EnMano, Hilos
  <2>. HIDE DEF E
  <2>. QED  BY <1>1, <1>3, <1>n, <2>2 DEF FOpenFin, recursos, pcbs
<1>4. ASSUME FRwGuarda PROVE EstadosBien'
  <2>1. p # Nadie /\ E["cpu"] = p
    BY <1>2, <1>4 DEF FRwGuarda, FichaExec, ConPcbEnMano
  <2>. HIDE DEF E
  <2>. QED  BY <1>1, <1>4, <1>n, <2>1 DEF FRwGuarda, recursos, archivos
<1>5. ASSUME NEW M \in SUBSET conSegmentos, CompactaFin(M) PROVE EstadosBien'
  <2>1. p # Nadie /\ E["cpu"] = p
    BY <1>2, <1>5 DEF CompactaFin, FichaExec, ConPcbEnMano
  <2>. HIDE DEF E
  <2>. QED  BY <1>1, <1>5, <1>n, <2>1
            DEF CompactaFin, recursos, archivos, pcbs
<1>6. ASSUME FRwCarga \/ CompactaInicia \/ ActualizaCola PROVE EstadosBien'
  <2>1. pcCpu # "fOpen" /\ pcCpu' # "fOpen"
        /\ UNCHANGED <<cola, mano, enRecurso, enArchivo, io, estado>>
    BY <1>6 DEF FRwCarga, CompactaInicia, ActualizaCola, recursos, archivos, pcbs
  <2>2. EnMano' = EnMano
    BY <2>1 DEF EnMano
  <2>. QED  BY <2>1, <2>2 DEF EstadosBien, Lista, EstadosEn, EstadosEnCola,
            EstadosEnHilo
<1>7. ASSUME CompactaSigue PROVE EstadosBien'
  <2>. DEFINE c == Saca(cola, "exec")
              h == Head(cola["exec"])
  <2>1. /\ cola["exec"] # <<>> /\ cola' = Agrega(c, "exec", h)
        /\ UNCHANGED <<enRecurso, enArchivo, io, estado>>
    BY <1>7 DEF CompactaSigue, Reanuda, recursos, archivos, pcbs
  <2>2. EnMano' = E
    BY <1>7 DEF CompactaSigue, EnMano
  <2>3. /\ c \in [Colas -> Seq(Pid)] /\ h \in Pid /\ h \in Ocupantes(cola["exec"])
        /\ \A k \in Colas : Ocupantes(c[k]) \subseteq Ocupantes(cola[k])
    BY <1>n, <2>1, OcupaSaca
  <2>. HIDE DEF c, h, E
  <2>4. /\ h \in Ocupantes(cola'["exec"])
        /\ \A k \in Colas : Ocupantes(cola'[k]) \subseteq Ocupantes(cola[k]) \cup {h}
    BY <1>n, <2>1, <2>3, OcupaAgrega
  <2>5. Entran({h})
    BY <1>n, <2>1, <2>2, <2>4 DEF Entran, E
  <2>6. estado'[h] \in EstadosEnCola["exec"]
    BY <1>n, <2>1, <2>3, EstadosDe
  <2>. QED  BY <1>n, <2>1, <2>4, <2>5, <2>6, EntraEnCola
<1>. QED  BY <1>3, <1>4, <1>5, <1>6, <1>7

LEMMA OcupaResto ==
    ASSUME NEW l \in Seq(Pid), l # <<>>, NEW x \in Ocupantes(l), x # Head(l)
    PROVE  x \in Ocupantes(Tail(l))
<1>1. /\ Tail(l) \in Seq(Pid) /\ Len(Tail(l)) = Len(l) - 1
      /\ Len(l) \in Nat \ {0} /\ Head(l) = l[1] /\ DOMAIN l = 1..Len(l)
      /\ \A i \in 1..(Len(l) - 1) : Tail(l)[i] = l[i + 1]
  BY HeadTailProperties, EmptySeq, LenProperties
<1>2. DOMAIN Tail(l) = 1..(Len(l) - 1)
  BY <1>1, LenProperties
<1>3. PICK i \in 1..Len(l) : x = l[i]
  BY <1>1 DEF Ocupantes
<1>4. i - 1 \in 1..(Len(l) - 1) /\ Tail(l)[i - 1] = x
  BY <1>1, <1>3
<1>. QED  BY <1>2, <1>4 DEF Ocupantes

LEMMA EstadosHiloFs ==
    ASSUME TypeOK, FichaExec, RespuestaDeSuProceso, Apertura, EstadosBien,
           EstadosFs, CadaPcbEnUnLugar', Apertura', HiloFs
    PROVE  EstadosBien'
<1>. DEFINE E == EnMano
<1>n. /\ {"block", "blockFs"} \subseteq Colas /\ {"cpu", "fs"} \subseteq Hilos
      /\ cola \in [Colas -> Seq(Pid)] /\ estado \in [Pid -> Estados]
      /\ E \in [Hilos -> Pid \cup {Nadie}] /\ mano \in [Hilos -> Pid \cup {Nadie}]
  BY DEF Colas, Hilos, TypeOK, TipoListas, TipoPcb, EnMano
<1>1. ASSUME FsRecibe PROVE EstadosBien'
  <2>. DEFINE l == cola["blockFs"]
              p == Head(l)
              r == Head(respuestas)
  <2>1. /\ l # <<>> /\ respuestas # <<>> /\ cola' = Saca(cola, "blockFs")
        /\ UNCHANGED <<enRecurso, enArchivo, io, estado, pcCpu>>
    BY <1>1 DEF FsRecibe, recursos, archivos, hiloCpu, pcbs
  <2>2. /\ p \in Pid /\ l \in Seq(Pid)
        /\ \A k \in Colas : Ocupantes(cola'[k]) \subseteq Ocupantes(cola[k])
        /\ Ocupantes(cola'["blockFs"]) \subseteq Ocupantes(l)
    BY <1>n, <2>1, OcupaSaca
  <2>3. r \in Ocupantes(EnVuelo) /\ r.pid = p
    <3>1. respuestas \in Seq(Peticion) /\ peticiones \in Seq(Peticion)
          /\ EnVuelo \in Seq(Peticion)
      BY ConcatProperties DEF TypeOK, TipoExternos, EnVuelo
    <3>2. Head(EnVuelo) = r
      BY <2>1, <3>1, VueloLlega DEF EnVuelo
    <3>3. EnVuelo # <<>> /\ Head(l) = Head(EnVuelo).pid
      BY <2>1, <2>2, <3>1, SiguenLlega DEF RespuestaDeSuProceso, Siguen
    <3>. QED  BY <3>1, <3>2, <3>3, VueloMengua
  <2>4. estado[p] = IF r.op = "F_OPEN" THEN "EXEC" ELSE "BLOCK"
    BY <2>3 DEF EstadosFs
  <2>5. r.op = "F_OPEN" <=> pcCpu = "fOpen" /\ p = mano["cpu"]
    BY <2>3 DEF Apertura
  <2>6. CASE r.op = "F_OPEN"
    <3>1. mano' = mano /\ pcCpu' = "fOpen" /\ sem'["finFOpen"] = 1
      <4>1. sem["finFOpen"] \in Nat /\ sem'["finFOpen"] = sem["finFOpen"] + 1
            /\ mano' = mano
        BY <1>1, <2>6 DEF FsRecibe, Post, TypeOK, TipoListas, Semaforos
      <4>. QED  BY <2>1, <2>5, <2>6, <4>1 DEF Apertura
    <3>2. p \notin Ocupantes(cola'["blockFs"])
      BY <2>5, <2>6, <3>1 DEF Apertura
    <3>3. EnMano' = [E EXCEPT !["cpu"] = p]
      BY <1>n, <2>1, <2>5, <2>6, <3>1, <3>2 DEF EnMano, Hilos
    <3>. HIDE DEF p
    <3>4. Entran({p}) /\ EnMano'["cpu"] = p
      BY <1>n, <2>1, <2>2, <3>3 DEF Entran
    <3>. QED  BY <1>n, <2>1, <2>2, <2>4, <2>6, <3>4, EntraEnMano
              DEF EstadosEnHilo
  <2>7. CASE r.op # "F_OPEN"
    <3>1. mano' = [mano EXCEPT !["fs"] = p]
      BY <1>1, <2>7 DEF FsRecibe
    <3>2. /\ EnMano'["fs"] = p
          /\ \A h \in Hilos \ {"fs"} : EnMano'[h] \in {Nadie, EnMano[h]} \cup {p}
      <4>1. ASSUME pcCpu = "fOpen", mano["cpu"] \in Ocupantes(cola["blockFs"])
            PROVE  mano["cpu"] \in Ocupantes(cola'["blockFs"])
        <5>1. cola'["blockFs"] = Tail(l)
          BY <1>n, <2>1 DEF Saca
        <5>2. mano["cpu"] # Head(l)
          BY <2>5, <2>7, <4>1
        <5>. QED  BY <2>1, <2>2, <4>1, <5>1, <5>2, OcupaResto
      <4>. QED  BY <1>n, <2>1, <3>1, <4>1 DEF EnMano, Hilos
    <3>. HIDE DEF p
    <3>3. Entran({p})
      BY <1>n, <2>1, <2>2, <3>2 DEF Entran
    <3>. QED  BY <1>n, <2>1, <2>2, <2>4, <2>7, <3>2, <3>3, EntraEnMano
              DEF EstadosEnHilo
  <2>. QED  BY <2>6, <2>7
<1>2. ASSUME FsGuarda \/ FsPrueba PROVE EstadosBien'
  <2>1. UNCHANGED <<cola, mano, pcCpu, enRecurso, enArchivo, io, estado>>
    BY <1>2 DEF FsGuarda, FsPrueba, recursos, archivos, hiloCpu, pcbs
  <2>2. EnMano' = EnMano
    BY <2>1 DEF EnMano
  <2>. QED  BY <2>1, <2>2 DEF EstadosBien, Lista, EstadosEn, EstadosEnCola,
            EstadosEnHilo
<1>3. ASSUME FsAgrega PROVE EstadosBien'
  <2>. DEFINE p == mano["fs"]
              b == cola["block"]
  <2>1. /\ mano' = [mano EXCEPT !["fs"] = Nadie]
        /\ UNCHANGED <<enRecurso, enArchivo, io, estado, pcCpu>>
        /\ \A k \in Colas \ {"block"} : cola'[k] = cola[k]
    BY <1>3, <1>n
       DEF FsAgrega, Agrega, recursos, archivos, hiloCpu, pcbs
  <2>2. EnMano' = [E EXCEPT !["fs"] = Nadie]
    BY <1>n, <2>1, ManoCambia DEF Hilos, Colas
  <2>3. p \in Pid /\ estado[p] = "BLOCK"
    <3>1. p # Nadie /\ E["fs"] = p
      BY <1>3, <1>n DEF FsAgrega, FichaExec, EnMano, Hilos
    <3>2. estado[E["fs"]] \in EstadosEnHilo["fs"]
      BY <1>n, <3>1, EstadosDe
    <3>. QED  BY <1>n, <3>1, <3>2 DEF EstadosEnHilo
  <2>. HIDE DEF p, E
  <2>4. ASSUME p \in Ocupantes(cola'["block"]),
               Ocupantes(cola'["block"]) \subseteq Ocupantes(b) \cup {p}
        PROVE  EstadosBien'
    <3>1. Entran({p})
      BY <1>n, <2>1, <2>2, <2>4 DEF Entran, E
    <3>. QED  BY <1>n, <2>1, <2>3, <2>4, <3>1, EntraEnCola DEF EstadosEnCola
  <2>5. CASE cola' = Agrega(cola, "block", p)
    <3>1. /\ p \in Ocupantes(cola'["block"])
          /\ Ocupantes(cola'["block"]) \subseteq Ocupantes(b) \cup {p}
      BY <1>n, <2>3, <2>5, OcupaAgrega
    <3>. QED  BY <2>4, <3>1
  <2>6. CASE UNCHANGED cola
    <3>1. Entran({})
      BY <1>n, <2>1, <2>2, <2>6 DEF Entran, E
    <3>. QED  BY <2>1, <3>1, NingunoEntra
  <2>7. ASSUME NEW i \in 0..(Len(b) - 1),
               cola' = [cola EXCEPT !["block"] = Append(SubSeq(b, 1, i), p)]
        PROVE  EstadosBien'
    <3>. DEFINE z == SubSeq(b, 1, i)
    <3>1. b \in Seq(Pid) /\ Len(b) \in Nat /\ DOMAIN b = 1..Len(b)
      BY <1>n, LenProperties
    <3>2. /\ z \in Seq(Pid) /\ Len(z) = i /\ \A j \in 1..i : z[j] = b[j]
      <4>1. \A j \in 1..i : j \in 1..Len(b) /\ b[j] \in Pid
        BY <3>1, ElementOfSeq
      <4>. QED  BY <3>1, <4>1, SubSeqProperties
    <3>. HIDE DEF z
    <3>3. DOMAIN z = 1..i /\ 1..i \subseteq 1..Len(b)
      BY <3>1, <3>2, LenProperties
    <3>4. Ocupantes(z) \subseteq Ocupantes(b)
      BY <3>1, <3>2, <3>3 DEF Ocupantes
    <3>5. cola'["block"] = Append(z, p)
      BY <1>n, <2>7 DEF z
    <3>6. /\ p \in Ocupantes(cola'["block"])
          /\ Ocupantes(cola'["block"]) \subseteq Ocupantes(b) \cup {p}
      BY <2>3, <3>2, <3>4, <3>5, OcupaAppend
    <3>. QED  BY <2>4, <3>6
  <2>. QED  BY <1>3, <2>5, <2>6, <2>7 DEF FsAgrega, p
<1>. QED  BY <1>1, <1>2, <1>3 DEF HiloFs

-----------------------------------------------------------------------------
(* No step writes the state of a process that is in cola_block_fs.         *)
LEMMA FueraDeFs ==
    ASSUME TypeOK, CadaPcbEnUnLugar, NEW x \in Ocupantes(cola["blockFs"])
    PROVE  /\ x \in Pid /\ estado[x] # "NO_CREADO"
           /\ \A h \in {"ready", "block", "exec"} : x # mano[h]
           /\ \A q \in {"exec", "exit"} : cola[q] # <<>> => x # Head(cola[q])
           /\ pcCpu # "fOpen" => x # mano["cpu"]
<1>. DEFINE y == <<"cola", "blockFs">>
<1>1. y \in Sitios /\ x \in Ocupantes(Lista[y])
  BY DEF Sitios, Lista, Colas
<1>2. x \in Pid /\ estado[x] # "NO_CREADO"
  BY <1>1 DEF CadaPcbEnUnLugar, EnUnLugar, Vivos
<1>3. \A s \in Sitios : x \in Ocupantes(Lista[s]) => s = y
  BY <1>1 DEF CadaPcbEnUnLugar, EnUnLugar
<1>4. ASSUME NEW h \in Hilos, EnMano[h] = x PROVE FALSE
  <2>1. <<"hilo", h>> \in Sitios /\ Lista[<<"hilo", h>>] = <<x>>
    BY <1>2, <1>4, KernelAssumption DEF Sitios, Lista
  <2>2. x \in Ocupantes(<<x>>)
    BY ListaDeUno
  <2>. QED  BY <1>3, <2>1, <2>2
<1>5. ASSUME NEW q \in {"exec", "exit"}, cola[q] # <<>> PROVE x # Head(cola[q])
  <2>1. /\ <<"cola", q>> \in Sitios /\ Lista[<<"cola", q>>] = cola[q]
        /\ cola[q] \in Seq(Pid)
    BY DEF Sitios, Lista, Colas, TypeOK, TipoListas
  <2>2. Head(cola[q]) \in Ocupantes(cola[q])
    BY <1>5, <2>1, OcupaTail
  <2>. QED  BY <1>3, <2>1, <2>2
<1>6. /\ {"ready", "block", "exec", "cpu"} \subseteq Hilos
      /\ EnMano["ready"] = mano["ready"] /\ EnMano["block"] = mano["block"]
      /\ EnMano["exec"] = mano["exec"]
      /\ pcCpu # "fOpen" => EnMano["cpu"] = mano["cpu"]
  BY DEF Hilos, EnMano
<1>. QED  BY <1>2, <1>4, <1>5, <1>6

LEMMA EstadoAjeno ==
    ASSUME TypeOK, CadaPcbEnUnLugar, Next
    PROVE  \A x \in Ocupantes(cola["blockFs"]) : estado'[x] = estado[x]
<1>. SUFFICES ASSUME NEW x \in Ocupantes(cola["blockFs"])
              PROVE  estado'[x] = estado[x]
  OBVIOUS
<1>1. ASSUME NEW p \in Pid, ArmarPcb(p) PROVE estado'[x] = estado[x]
  BY <1>1, FueraDeFs DEF ArmarPcb, TypeOK, TipoPcb, pcbs
<1>2. ASSUME NEW p \in Pid, FinIO(p) PROVE estado'[x] = estado[x]
  BY <1>2, FueraDeFs DEF FinIO, TypeOK, TipoPcb, pcbs
<1>3. ASSUME ReadyToma PROVE estado'[x] = estado[x]
  BY <1>3, FueraDeFs DEF ReadyToma, TypeOK, TipoPcb, pcbs
<1>4. ASSUME ReadyAdmite PROVE estado'[x] = estado[x]
  BY <1>4, FueraDeFs DEF ReadyAdmite, TypeOK, TipoPcb, pcbs
<1>5. ASSUME BlockToma PROVE estado'[x] = estado[x]
  BY <1>5, FueraDeFs DEF BlockToma, TypeOK, TipoPcb, pcbs
<1>6. ASSUME BlockDevuelve PROVE estado'[x] = estado[x]
  BY <1>6, FueraDeFs DEF BlockDevuelve, TypeOK, TipoPcb, pcbs
<1>7. ASSUME ExecElige PROVE estado'[x] = estado[x]
  BY <1>7, FueraDeFs DEF ExecElige, Elegibles, TypeOK, TipoPcb, pcbs
<1>8. ASSUME ExecDespacha PROVE estado'[x] = estado[x]
  BY <1>8, FueraDeFs DEF ExecDespacha, TypeOK, TipoPcb, pcbs
<1>9. ASSUME HiloExit PROVE estado'[x] = estado[x]
  BY <1>9, FueraDeFs DEF HiloExit, TypeOK, TipoPcb, pcbs
<1>10. ASSUME NEW p \in Pid, Yield(p) PROVE estado'[x] = estado[x]
  BY <1>10, FueraDeFs DEF Yield, Recibe, Desaloja, TypeOK, TipoPcb, pcbs
<1>11. ASSUME NEW p \in Pid, Exit(p) \/ SegFault(p)
      PROVE  estado'[x] = estado[x]
  BY <1>11, FueraDeFs DEF Exit, SegFault, Termina, Recibe, Desaloja,
     TypeOK, TipoPcb, pcbs
<1>12. ASSUME NEW p \in Pid, ManejarIO(p) PROVE estado'[x] = estado[x]
  BY <1>12, FueraDeFs DEF ManejarIO, Recibe, TypeOK, TipoPcb, pcbs
<1>13. ASSUME NEW p \in Pid, NEW r \in Pedidos, RecursoFallido(p, r)
      PROVE  estado'[x] = estado[x]
  BY <1>13, FueraDeFs DEF RecursoFallido, Recibe, Desaloja, TypeOK,
     TipoPcb, pcbs
<1>14. ASSUME NEW p \in Pid, NEW r \in Pedidos,
             WaitObtiene(p, r) \/ SignalLibera(p, r)
      PROVE  estado'[x] = estado[x]
  BY <1>14, FueraDeFs DEF WaitObtiene, SignalLibera, Recibe, Reanuda,
     TypeOK, TipoPcb, pcbs
<1>15. ASSUME NEW p \in Pid, NEW r \in Pedidos, WaitBloquea(p, r)
      PROVE  estado'[x] = estado[x]
  BY <1>15, FueraDeFs DEF WaitBloquea, Recibe, TypeOK, TipoPcb, pcbs
<1>16. ASSUME NEW p \in Pid, NEW r \in Pedidos, SignalDespierta(p, r)
      PROVE  estado'[x] = estado[x]
  BY <1>16, FueraDeFs DEF SignalDespierta, Recibe, Reanuda, TipoRecursos,
     TypeOK, TipoPcb, pcbs
<1>17. ASSUME NEW p \in Pid, NEW a \in Archivos, FOpenPide(p, a)
      PROVE  estado'[x] = estado[x]
  BY <1>17, FueraDeFs DEF FOpenPide, Recibe, Desaloja, TypeOK, TipoPcb,
     pcbs
<1>18. ASSUME NEW p \in Pid, NEW a \in Archivos, FOpenBloquea(p, a)
      PROVE  estado'[x] = estado[x]
  BY <1>18, FueraDeFs DEF FOpenBloquea, Recibe, TypeOK, TipoPcb, pcbs
<1>19. ASSUME NEW p \in Pid, NEW a \in Archivos, FClose(p, a)
      PROVE  estado'[x] = estado[x]
  BY <1>19, FueraDeFs DEF FClose, Recibe, Reanuda, TipoArchivos, TypeOK,
     TipoPcb, pcbs
<1>20. ASSUME NEW p \in Pid, NEW a \in Archivos, FSeek(p, a)
      PROVE  estado'[x] = estado[x]
  BY <1>20, FueraDeFs DEF FSeek, Recibe, Reanuda, TypeOK, TipoPcb, pcbs
<1>21. ASSUME NEW p \in Pid, FTruncate(p) PROVE estado'[x] = estado[x]
  BY <1>21, FueraDeFs DEF FTruncate, Recibe, Desaloja, TypeOK, TipoPcb,
     pcbs
<1>22. ASSUME NEW p \in Pid, FRwRecibe(p) \/ PideCompactar(p)
      PROVE  estado'[x] = estado[x]
  BY <1>22, FueraDeFs DEF FRwRecibe, PideCompactar, Recibe, TypeOK,
     TipoPcb, pcbs
<1>23. ASSUME NEW p \in Pid, SegmentoCreado(p) \/ DeleteSegment(p)
      PROVE  estado'[x] = estado[x]
  BY <1>23, FueraDeFs DEF SegmentoCreado, DeleteSegment, Recibe, Reanuda,
     TypeOK, TipoPcb, pcbs
<1>24. ASSUME NEW p \in Pid, SinMemoria(p) PROVE estado'[x] = estado[x]
  BY <1>24, FueraDeFs DEF SinMemoria, Recibe, Desaloja, TypeOK, TipoPcb,
     pcbs
<1>25. ASSUME FOpenFin PROVE estado'[x] = estado[x]
  BY <1>25, FueraDeFs DEF FOpenFin, FichaExec, TypeOK, TipoPcb, pcbs
<1>26. ASSUME FRwCarga \/ CompactaInicia \/ ActualizaCola
      PROVE  estado'[x] = estado[x]
  BY <1>26, FueraDeFs DEF FRwCarga, CompactaInicia, ActualizaCola, TypeOK,
     TipoPcb, pcbs
<1>27. ASSUME FRwGuarda PROVE estado'[x] = estado[x]
  BY <1>27, FueraDeFs DEF FRwGuarda, TypeOK, TipoPcb
<1>28. ASSUME NEW M \in SUBSET conSegmentos, CompactaFin(M)
      PROVE  estado'[x] = estado[x]
  BY <1>28, FueraDeFs DEF CompactaFin, TypeOK, TipoPcb, pcbs
<1>29. ASSUME CompactaSigue PROVE estado'[x] = estado[x]
  BY <1>29, FueraDeFs DEF CompactaSigue, Reanuda, TypeOK, TipoPcb, pcbs
<1>30. ASSUME FsRecibe PROVE estado'[x] = estado[x]
  BY <1>30, FueraDeFs DEF FsRecibe, TypeOK, TipoPcb, pcbs
<1>31. ASSUME FsGuarda \/ FsPrueba PROVE estado'[x] = estado[x]
  BY <1>31, FueraDeFs DEF FsGuarda, FsPrueba, TypeOK, TipoPcb, pcbs
<1>32. ASSUME FsAgrega PROVE estado'[x] = estado[x]
  BY <1>32, FueraDeFs DEF FsAgrega, TypeOK, TipoPcb, pcbs
<1>33. ASSUME FsAtiende PROVE estado'[x] = estado[x]
  BY <1>33, FueraDeFs DEF FsAtiende, TypeOK, TipoPcb, pcbs
<1>34. ASSUME Muere \/ Reposo PROVE estado'[x] = estado[x]
  BY <1>34, FueraDeFs DEF Muere, Reposo, vars, TypeOK, TipoPcb, pcbs
<1>. QED
  BY <1>1, <1>2, <1>3, <1>4, <1>5, <1>6, <1>7, <1>8, <1>9, <1>10, <1>11,
     <1>12, <1>13, <1>14, <1>15, <1>16, <1>17, <1>18, <1>19, <1>20, <1>21,
     <1>22, <1>23, <1>24, <1>25, <1>26, <1>27, <1>28, <1>29, <1>30, <1>31,
     <1>32, <1>33, <1>34 DEF Next, HiloReady, HiloBlock, HiloExec, HiloFs,
     HiloCpu, InstruccionCpu

LEMMA EstadosFsPaso ==
    ASSUME TypeOK, FichaExec, RespuestaDeSuProceso, CadaPcbEnUnLugar,
           EstadosBien, EstadosFs, Next
    PROVE  EstadosFs'
<1>. DEFINE l == cola["blockFs"]
            W == Ocupantes(EnVuelo)
<1>0. /\ l \in Seq(Pid) /\ respuestas \in Seq(Peticion)
      /\ peticiones \in Seq(Peticion) /\ EnVuelo \in Seq(Peticion)
      /\ estado \in [Pid -> Estados]
  BY ConcatProperties DEF TypeOK, TipoListas, TipoPcb, TipoExternos, Colas,
     EnVuelo
<1>1. \A x \in W : x.pid \in Ocupantes(l)
  <2>1. Len(EnVuelo) = Len(l) /\ DOMAIN EnVuelo = DOMAIN l
    BY <1>0, LenProperties DEF RespuestaDeSuProceso
  <2>. QED  BY <2>1 DEF RespuestaDeSuProceso, Ocupantes
<1>2. \A x \in W : estado'[x.pid] = IF x.op = "F_OPEN" THEN "EXEC" ELSE "BLOCK"
  BY <1>1, EstadoAjeno DEF EstadosFs
<1>3. ASSUME Ocupantes(EnVuelo') \subseteq W PROVE EstadosFs'
  BY <1>2, <1>3 DEF EstadosFs
<1>4. ASSUME NEW x \in Peticion, peticiones' = Append(peticiones, x),
             respuestas' = respuestas,
             estado'[x.pid] = IF x.op = "F_OPEN" THEN "EXEC" ELSE "BLOCK"
      PROVE  EstadosFs'
  <2>1. Ocupantes(EnVuelo') = W \cup {x}
    BY <1>0, <1>4, VueloCrece DEF EnVuelo
  <2>. QED  BY <1>2, <1>4, <2>1 DEF EstadosFs
<1>5. ASSUME NEW p \in Pid, NEW a \in Archivos, FOpenPide(p, a)
      PROVE  EstadosFs'
  <2>. DEFINE x == [op |-> "F_OPEN", pid |-> p]
  <2>1. estado'[p] = "EXEC"
    <3>1. cola["exec"] # <<>> /\ p = Head(cola["exec"]) /\ UNCHANGED estado
      BY <1>5 DEF FOpenPide, Recibe, pcbs
    <3>2. "exec" \in Colas /\ cola["exec"] \in Seq(Pid)
      BY DEF Colas, TypeOK, TipoListas
    <3>3. estado[p] \in EstadosEnCola["exec"]
      BY <3>1, <3>2, OcupaTail, EstadosDe
    <3>. QED  BY <3>1, <3>3 DEF EstadosEnCola
  <2>2. /\ x \in Peticion /\ x.op = "F_OPEN" /\ x.pid = p
        /\ peticiones' = Append(peticiones, x) /\ respuestas' = respuestas
    BY <1>5 DEF FOpenPide, Peticion
  <2>. HIDE DEF x
  <2>. QED  BY <1>4, <2>1, <2>2
<1>6. ASSUME NEW p \in Pid, FTruncate(p) PROVE EstadosFs'
  <2>. DEFINE x == [op |-> "F_TRUNCATE", pid |-> p]
  <2>1. estado'[p] = "BLOCK"
    BY <1>0, <1>6 DEF FTruncate
  <2>2. /\ x \in Peticion /\ x.op # "F_OPEN" /\ x.pid = p
        /\ peticiones' = Append(peticiones, x) /\ respuestas' = respuestas
    BY <1>6 DEF FTruncate, Peticion
  <2>. HIDE DEF x
  <2>. QED  BY <1>4, <2>1, <2>2
<1>7. ASSUME FRwGuarda PROVE EstadosFs'
  <2>. DEFINE p == mano["cpu"]
              x == [op |-> "F_RW", pid |-> p]
  <2>0. p \in Pid
    BY <1>7 DEF FRwGuarda, FichaExec, ConPcbEnMano, TypeOK, TipoListas, Hilos
  <2>1. estado'[p] = "BLOCK"
    BY <1>0, <1>7, <2>0 DEF FRwGuarda
  <2>2. /\ x \in Peticion /\ x.op # "F_OPEN" /\ x.pid = p
        /\ peticiones' = Append(peticiones, x) /\ respuestas' = respuestas
    BY <1>7, <2>0 DEF FRwGuarda, Peticion
  <2>. HIDE DEF x, p
  <2>. QED  BY <1>4, <2>1, <2>2
<1>8. ASSUME FsRecibe PROVE EstadosFs'
  <2>1. /\ respuestas # <<>> /\ l # <<>>
        /\ respuestas' = Tail(respuestas) /\ peticiones' = peticiones
    BY <1>8 DEF FsRecibe
  <2>2. EnVuelo' = Tail(EnVuelo)
    BY <1>0, <2>1, VueloLlega DEF EnVuelo
  <2>3. EnVuelo # <<>>
    BY <1>0, <2>1, SiguenLlega DEF RespuestaDeSuProceso, Siguen
  <2>. QED  BY <1>0, <1>3, <2>2, <2>3, VueloMengua
<1>9. ASSUME FsAtiende PROVE EstadosFs'
  <2>1. peticiones # <<>> /\ respuestas' = Append(respuestas, Head(peticiones))
        /\ peticiones' = Tail(peticiones)
    BY <1>9 DEF FsAtiende
  <2>2. EnVuelo' = EnVuelo
    BY <1>0, <2>1, VueloSirve DEF EnVuelo
  <2>. QED  BY <1>3, <2>2
<1>10. CASE UNCHANGED fileSystem
  <2>1. EnVuelo' = EnVuelo
    BY <1>10 DEF fileSystem, EnVuelo
  <2>. QED  BY <1>3, <2>1
<1>. QED  BY <1>5, <1>6, <1>7, <1>8, <1>9, <1>10, FsAjeno

-----------------------------------------------------------------------------
(* The places, and the states in them. *)
CicloInv == LugaresInv /\ EstadosBien /\ EstadosFs

LEMMA EstadosPaso ==
    ASSUME CicloInv, LugaresInv', Next
    PROVE  EstadosBien' /\ EstadosFs'
<1>1. /\ TypeOK /\ FichaExec /\ RespuestaDeSuProceso /\ Apertura
      /\ CadaPcbEnUnLugar /\ EstadosBien /\ EstadosFs
      /\ CadaPcbEnUnLugar' /\ Apertura'
  BY DEF CicloInv, LugaresInv, ColasInv, Base
<1>2. ASSUME FsAtiende \/ Muere \/ Reposo PROVE EstadosBien'
  <2>1. UNCHANGED <<cola, mano, pcCpu, enRecurso, enArchivo, io, estado>>
    BY <1>2 DEF FsAtiende, Muere, Reposo, vars, recursos, archivos, hiloCpu, pcbs
  <2>2. EnMano' = EnMano
    BY <2>1 DEF EnMano
  <2>. QED  BY <1>1, <2>1, <2>2 DEF EstadosBien, Lista, EstadosEn,
            EstadosEnCola, EstadosEnHilo
<1>3. EstadosBien'
  BY <1>1, <1>2, EstadosPlanes, EstadosInstruccion, EstadosHiloCpu,
     EstadosHiloFs DEF Next, HiloCpu
<1>4. EstadosFs'
  BY <1>1, EstadosFsPaso
<1>. QED  BY <1>3, <1>4

THEOREM CicloInvariante == Spec => []CicloInv
<1>1. Init => EstadosBien /\ EstadosFs
  <2>. SUFFICES ASSUME Init PROVE EstadosBien /\ EstadosFs
    OBVIOUS
  <2>1. EnVuelo = <<>>
    BY ConcatEmptySeq, EmptySeq DEF Init, EnVuelo
  <2>2. \A s \in Sitios : Lista[s] = <<>>
    BY DEF Init, Sitios, Lista, EnMano
  <2>. QED  BY <2>1, <2>2, ListaVacia DEF EstadosBien, EstadosFs
<1>2. CicloInv /\ LugaresInv' /\ [Next]_vars => CicloInv'
  <2>. SUFFICES ASSUME CicloInv, LugaresInv', [Next]_vars PROVE CicloInv'
    OBVIOUS
  <2>1. CASE Next
    BY <2>1, EstadosPaso DEF CicloInv
  <2>2. CASE UNCHANGED vars
    <3>1. EnVuelo' = EnVuelo /\ EnMano' = EnMano
      BY <2>2 DEF vars, hiloCpu, fileSystem, EnVuelo, EnMano
    <3>2. EstadosBien'
      BY <2>2, <3>1 DEF CicloInv, vars, pcbs, recursos, archivos, EstadosBien,
         Lista, EstadosEn, EstadosEnCola, EstadosEnHilo
    <3>3. EstadosFs'
      BY <2>2, <3>1 DEF CicloInv, vars, pcbs, EstadosFs
    <3>. QED  BY <3>2, <3>3 DEF CicloInv
  <2>. QED  BY <2>1, <2>2
<1>. QED  BY LugaresInvariante, <1>1, <1>2, PTL DEF Spec, CicloInv

(* Whatever thread moved a PCB last, its state field agrees with the place *)
(* it is in, for any processes, programs and files (estado_proceso of the  *)
(* context, written by every handler).                                     *)
THEOREM EstadoDeSuLugar == Spec => []EstadoSegunLugar
<1>1. CicloInv => EstadoSegunLugar
  BY DEF CicloInv, EstadosBien, EstadosFs, EstadoSegunLugar
<1>. QED  BY CicloInvariante, <1>1, PTL

-----------------------------------------------------------------------------
(* The refinement. Every step is first reduced to what it does to one      *)
(* process's life, so that the theorems are proved over six kinds of step, *)
(* not thirty-five.                                                        *)

(* How a step moves a process along its life cycle: the state field, the   *)
(* list of those that end, and the places sem_multiprog has left.          *)
Quieto == UNCHANGED <<estado, cola["exit"], sem["multiprog"]>>

Mueve(p, desde, hasta) ==
    /\ p \in Pid \ perdidos /\ estado[p] = desde
    /\ p \notin Ocupantes(cola["exit"])
    /\ estado' = [estado EXCEPT ![p] = hasta]
    /\ cola'["exit"] = cola["exit"]

Crea(p) == Mueve(p, "NO_CREADO", "NEW") /\ UNCHANGED sem["multiprog"]

Admite(p) ==
    /\ Mueve(p, "NEW", "READY")
    /\ sem["multiprog"] > 0 /\ sem'["multiprog"] = sem["multiprog"] - 1

Despacha(p) ==
    /\ Mueve(p, "READY", "EXEC") /\ UNCHANGED sem["multiprog"]
    /\ cpu = Nadie /\ pcCpu = "recv"

Sigue(p) ==
    /\ UNCHANGED sem["multiprog"]
    /\ \/ Mueve(p, "EXEC", "READY") \/ Mueve(p, "EXEC", "BLOCK")
       \/ Mueve(p, "BLOCK", "READY")

Acaba(p) ==
    /\ p \in Pid \ perdidos /\ estado[p] = "EXEC"
    /\ p \notin Ocupantes(cola["exit"])
    /\ \E e \in {"EXEC", "FINISH_EXIT", "FINISH_ERROR"} :
          estado' = [estado EXCEPT ![p] = e]
    /\ cola'["exit"] = Append(cola["exit"], p)
    /\ UNCHANGED sem["multiprog"]

Destruye(p) ==
    /\ cola["exit"] # <<>> /\ p = Head(cola["exit"]) /\ p \in Pid \ perdidos
    /\ estado' = [estado EXCEPT ![p] = "DESTRUIDO"]
    /\ cola'["exit"] = Tail(cola["exit"])
    /\ sem'["multiprog"] = sem["multiprog"] + 1

(* Where a step takes a process from, the process is in play: alive, not   *)
(* lost, not among those that end, and in the state of that place.         *)
LEMMA EnJuego ==
    ASSUME TypeOK, FichaExec, CadaPcbEnUnLugar, EstadosBien
    PROVE  /\ \A h \in {"ready", "block", "exec"} : mano[h] # Nadie =>
                /\ mano[h] \in Pid \ perdidos
                /\ estado[mano[h]] \in EstadosEnHilo[h]
                /\ mano[h] \notin Ocupantes(cola["exit"])
           /\ pcCpu \in ConPcbEnMano \ {"fOpen"} =>
                /\ mano["cpu"] \in Pid \ perdidos
                /\ estado[mano["cpu"]] = "EXEC"
                /\ mano["cpu"] \notin Ocupantes(cola["exit"])
           /\ cola["exec"] # <<>> =>
                /\ Head(cola["exec"]) \in Pid \ perdidos
                /\ estado[Head(cola["exec"])] = "EXEC"
                /\ Head(cola["exec"]) \notin Ocupantes(cola["exit"])
           /\ cola["exit"] # <<>> => Head(cola["exit"]) \in Pid \ perdidos
<1>1. ASSUME NEW s \in Sitios, NEW x \in Ocupantes(Lista[s])
      PROVE  /\ x \in Pid \ perdidos
             /\ s # <<"cola", "exit">> => x \notin Ocupantes(cola["exit"])
  <2>1. <<"cola", "exit">> \in Sitios /\ Lista[<<"cola", "exit">>] = cola["exit"]
    BY DEF Sitios, Lista, Colas
  <2>2. x \in Vivos
    BY DEF CadaPcbEnUnLugar, EnUnLugar
  <2>3. s # <<"cola", "exit">> => x \notin Ocupantes(cola["exit"])
    BY <2>1 DEF CadaPcbEnUnLugar, EnUnLugar
  <2>. QED  BY <2>2, <2>3 DEF Vivos
<1>2. ASSUME NEW h \in Hilos, EnMano[h] # Nadie
      PROVE  /\ EnMano[h] \in Pid \ perdidos
             /\ estado[EnMano[h]] \in EstadosEnHilo[h]
             /\ EnMano[h] \notin Ocupantes(cola["exit"])
  <2>. DEFINE m == EnMano[h]
  <2>1. /\ <<"hilo", h>> \in Sitios /\ Lista[<<"hilo", h>>] = <<m>>
        /\ <<"hilo", h>> # <<"cola", "exit">>
    BY <1>2 DEF Sitios, Lista
  <2>2. m \in Ocupantes(<<m>>)
    BY ListaDeUno
  <2>3. estado[m] \in EstadosEnHilo[h]
    BY <1>2, EstadosDe
  <2>. HIDE DEF m
  <2>4. m \in Pid \ perdidos /\ m \notin Ocupantes(cola["exit"])
    BY <1>1, <2>1, <2>2
  <2>. QED  BY <2>3, <2>4 DEF m
<1>3. ASSUME NEW q \in {"exec", "exit"}, cola[q] # <<>>
      PROVE  /\ Head(cola[q]) \in Pid \ perdidos
             /\ estado[Head(cola[q])] \in EstadosEnCola[q]
             /\ q = "exec" => Head(cola[q]) \notin Ocupantes(cola["exit"])
  <2>1. /\ <<"cola", q>> \in Sitios /\ Lista[<<"cola", q>>] = cola[q]
        /\ cola[q] \in Seq(Pid) /\ q \in Colas
        /\ q = "exec" => <<"cola", q>> # <<"cola", "exit">>
    BY DEF Sitios, Lista, Colas, TypeOK, TipoListas
  <2>2. Head(cola[q]) \in Ocupantes(cola[q])
    BY <1>3, <2>1, OcupaTail
  <2>3. estado[Head(cola[q])] \in EstadosEnCola[q]
    BY <2>1, <2>2, EstadosDe
  <2>. QED  BY <1>1, <2>1, <2>2, <2>3
<1>4. /\ {"ready", "block", "exec", "cpu"} \subseteq Hilos
      /\ EnMano["ready"] = mano["ready"] /\ EnMano["block"] = mano["block"]
      /\ EnMano["exec"] = mano["exec"]
      /\ pcCpu # "fOpen" => EnMano["cpu"] = mano["cpu"]
  BY DEF Hilos, EnMano
<1>5. pcCpu \in ConPcbEnMano => mano["cpu"] # Nadie
  BY DEF FichaExec
<1>6. EstadosEnCola["exec"] = {"EXEC"} /\ EstadosEnHilo["cpu"] = {"EXEC"}
  BY DEF EstadosEnCola, EstadosEnHilo
<1>7. ASSUME NEW h \in {"ready", "block", "exec"}, mano[h] # Nadie
      PROVE  /\ mano[h] \in Pid \ perdidos
             /\ estado[mano[h]] \in EstadosEnHilo[h]
             /\ mano[h] \notin Ocupantes(cola["exit"])
  <2>1. h \in Hilos /\ EnMano[h] = mano[h]
    BY <1>4
  <2>. QED  BY <1>2, <1>7, <2>1
<1>8. ASSUME pcCpu \in ConPcbEnMano \ {"fOpen"}
      PROVE  /\ mano["cpu"] \in Pid \ perdidos
             /\ estado[mano["cpu"]] = "EXEC"
             /\ mano["cpu"] \notin Ocupantes(cola["exit"])
  <2>1. "cpu" \in Hilos /\ EnMano["cpu"] = mano["cpu"] /\ mano["cpu"] # Nadie
    BY <1>4, <1>5, <1>8
  <2>2. estado[EnMano["cpu"]] \in {"EXEC"}
    BY <1>2, <1>6, <2>1
  <2>. QED  BY <1>2, <2>1, <2>2
<1>9. cola["exec"] # <<>> => estado[Head(cola["exec"])] \in {"EXEC"}
  BY <1>3, <1>6
<1>. QED  BY <1>3, <1>7, <1>8, <1>9

Transicion ==
    \/ Quieto
    \/ \E p \in Pid :
         \/ Crea(p) \/ Admite(p) \/ Despacha(p) \/ Sigue(p)
         \/ Acaba(p) \/ Destruye(p)

LEMMA CadaTransicion ==
    ASSUME TypeOK, FichaExec, PerdidosCreados, CadaPcbEnUnLugar, EstadosBien, Next
    PROVE  Transicion
<1>. USE DEF TypeOK, TipoPcb, TipoListas, Colas, Semaforos
<1>0. \A x \in Ocupantes(cola["exit"]) : estado[x] # "NO_CREADO"
  <2>1. "exit" \in Colas
    OBVIOUS
  <2>2. \A x \in Ocupantes(cola["exit"]) : estado[x] \in EstadosEnCola["exit"]
    BY <2>1, EstadosDe
  <2>. QED  BY <2>2 DEF EstadosEnCola
<1>1. ASSUME NEW p \in Pid, ArmarPcb(p) PROVE Crea(p)
  BY <1>0, <1>1 DEF ArmarPcb, Agrega, Post, Crea, Mueve, PerdidosCreados
<1>2. ASSUME NEW p \in Pid, FinIO(p) PROVE Quieto
  BY <1>2 DEF FinIO, Agrega, Post, Quieto, pcbs
<1>3. ASSUME ReadyToma PROVE Quieto
  BY <1>3 DEF ReadyToma, Saca, Espera, Quieto, pcbs
<1>4. ASSUME NEW p \in Pid, p = mano["ready"], ReadyAdmite PROVE Admite(p)
  BY <1>4, EnJuego DEF ReadyAdmite, Agrega, Post, Espera, Admite, Mueve,
     EstadosEnHilo
<1>5. ASSUME BlockToma PROVE Quieto
  BY <1>5 DEF BlockToma, Saca, Espera, Quieto, pcbs
<1>6. ASSUME NEW p \in Pid, p = mano["block"], BlockDevuelve PROVE Sigue(p)
  BY <1>6, EnJuego DEF BlockDevuelve, Agrega, Post, Sigue, Mueve,
     EstadosEnHilo
<1>7. ASSUME ExecElige PROVE Quieto
  BY <1>7 DEF ExecElige, Espera, Quieto, pcbs
<1>8. ASSUME NEW p \in Pid, p = mano["exec"], ExecDespacha PROVE Despacha(p)
  BY <1>8, EnJuego DEF ExecDespacha, Agrega, Despacha, Mueve,
     EstadosEnHilo, FichaExec, hiloCpu
<1>9. ASSUME NEW p \in Pid, p = Head(cola["exit"]), HiloExit
      PROVE  Destruye(p)
  BY <1>9, EnJuego DEF HiloExit, Saca, Post, Espera, Destruye
<1>10. ASSUME NEW p \in Pid, Yield(p) PROVE Sigue(p)
  BY <1>10, EnJuego DEF Yield, Recibe, Desaloja, Agrega, Saca, Post,
     Sigue, Mueve
<1>11. ASSUME NEW p \in Pid, Exit(p) PROVE Acaba(p)
  BY <1>11, EnJuego DEF Exit, Termina, Recibe, Desaloja, Agrega, Saca,
     Post, Acaba
<1>12. ASSUME NEW p \in Pid, SegFault(p) PROVE Acaba(p)
  BY <1>12, EnJuego DEF SegFault, Termina, Recibe, Desaloja, Agrega, Saca,
     Post, Acaba
<1>13. ASSUME NEW p \in Pid, ManejarIO(p) PROVE Sigue(p)
  BY <1>13, EnJuego DEF ManejarIO, Recibe, Saca, Post, Sigue, Mueve
<1>14. ASSUME NEW p \in Pid, NEW r \in Pedidos, RecursoFallido(p, r)
      PROVE  Acaba(p)
  BY <1>14, EnJuego DEF RecursoFallido, Recibe, Desaloja, Agrega, Saca,
     Post, Acaba
<1>15. ASSUME NEW p \in Pid, NEW r \in Pedidos, WaitObtiene(p, r)
      PROVE  Quieto
  BY <1>15 DEF WaitObtiene, Reanuda, Agrega, Saca, Quieto, pcbs
<1>16. ASSUME NEW p \in Pid, NEW r \in Pedidos, SignalLibera(p, r)
      PROVE  Quieto
  BY <1>16 DEF SignalLibera, Reanuda, Agrega, Saca, Quieto, pcbs
<1>17. ASSUME NEW p \in Pid, NEW r \in Pedidos, WaitBloquea(p, r)
      PROVE  Sigue(p)
  BY <1>17, EnJuego DEF WaitBloquea, Recibe, Saca, Post, Sigue, Mueve
<1>18. ASSUME NEW p \in Pid, NEW r \in Pedidos, SignalDespierta(p, r)
      PROVE  Quieto
  BY <1>18 DEF SignalDespierta, Reanuda, Agrega, Saca, Post, Quieto, pcbs
<1>19. ASSUME NEW p \in Pid, NEW a \in Archivos, FOpenPide(p, a) PROVE Quieto
  BY <1>19 DEF FOpenPide, Desaloja, Agrega, Saca, Quieto, pcbs
<1>20. ASSUME NEW p \in Pid, NEW a \in Archivos, FOpenBloquea(p, a)
      PROVE  Sigue(p)
  BY <1>20, EnJuego DEF FOpenBloquea, Recibe, Saca, Post, Sigue, Mueve
<1>21. ASSUME NEW p \in Pid, NEW a \in Archivos, FClose(p, a) PROVE Quieto
  BY <1>21 DEF FClose, Reanuda, Agrega, Saca, Post, Quieto, pcbs
<1>22. ASSUME NEW p \in Pid, NEW a \in Archivos, FSeek(p, a) PROVE Quieto
  BY <1>22 DEF FSeek, Reanuda, Agrega, Saca, Quieto, pcbs
<1>23. ASSUME NEW p \in Pid, FTruncate(p) PROVE Sigue(p)
  BY <1>23, EnJuego DEF FTruncate, Recibe, Desaloja, Agrega, Saca, Post,
     Sigue, Mueve
<1>24. ASSUME NEW p \in Pid, FRwRecibe(p) \/ PideCompactar(p) PROVE Quieto
  BY <1>24 DEF FRwRecibe, PideCompactar, Saca, Quieto, pcbs
<1>25. ASSUME NEW p \in Pid, SegmentoCreado(p) \/ DeleteSegment(p)
      PROVE  Quieto
  BY <1>25 DEF SegmentoCreado, DeleteSegment, Reanuda, Agrega, Saca,
     Quieto, pcbs
<1>26. ASSUME NEW p \in Pid, SinMemoria(p) PROVE Acaba(p)
  BY <1>26, EnJuego DEF SinMemoria, Recibe, Desaloja, Agrega, Saca, Post,
     Acaba
<1>27. ASSUME FOpenFin PROVE Quieto
  BY <1>27 DEF FOpenFin, Agrega, Espera, Quieto, pcbs
<1>28. ASSUME FRwCarga \/ CompactaInicia \/ ActualizaCola PROVE Quieto
  BY <1>28 DEF FRwCarga, CompactaInicia, ActualizaCola, Espera, Quieto,
     pcbs
<1>29. ASSUME NEW p \in Pid, p = mano["cpu"], FRwGuarda PROVE Sigue(p)
  BY <1>29, EnJuego DEF FRwGuarda, Agrega, Post, Sigue, Mueve,
     ConPcbEnMano
<1>30. ASSUME NEW M \in SUBSET conSegmentos, CompactaFin(M) PROVE Quieto
  BY <1>30 DEF CompactaFin, Agrega, Post, Quieto, pcbs
<1>31. ASSUME CompactaSigue PROVE Quieto
  BY <1>31 DEF CompactaSigue, Reanuda, Agrega, Saca, Quieto, pcbs
<1>32. ASSUME FsRecibe PROVE Quieto
  BY <1>32 DEF FsRecibe, Saca, Post, Quieto, pcbs
<1>33. ASSUME FsGuarda \/ FsPrueba PROVE Quieto
  BY <1>33 DEF FsGuarda, FsPrueba, Post, Quieto, pcbs
<1>34. ASSUME FsAgrega PROVE Quieto
  BY <1>34 DEF FsAgrega, Agrega, Post, Quieto, pcbs
<1>35. ASSUME FsAtiende \/ Muere \/ Reposo PROVE Quieto
  BY <1>35 DEF FsAtiende, Muere, Reposo, vars, Quieto, pcbs
<1>36. /\ ReadyAdmite => mano["ready"] \in Pid
       /\ BlockDevuelve => mano["block"] \in Pid
       /\ ExecDespacha => mano["exec"] \in Pid
       /\ HiloExit => Head(cola["exit"]) \in Pid
       /\ FRwGuarda => mano["cpu"] \in Pid
  BY EnJuego DEF ReadyAdmite, BlockDevuelve, ExecDespacha, HiloExit, FRwGuarda,
     ConPcbEnMano
<1>37. /\ Quieto => Transicion
       /\ \A p \in Pid : /\ Crea(p) => Transicion
                         /\ Admite(p) => Transicion
                         /\ Despacha(p) => Transicion
                         /\ Sigue(p) => Transicion
                         /\ Acaba(p) => Transicion
                         /\ Destruye(p) => Transicion
  BY DEF Transicion
<1>38. HiloReady \/ HiloBlock \/ HiloExec \/ HiloExit => Transicion
  <2>1. ReadyAdmite => Transicion
    BY <1>4, <1>36, <1>37
  <2>2. BlockDevuelve => Transicion
    BY <1>6, <1>36, <1>37
  <2>3. ExecDespacha => Transicion
    BY <1>8, <1>36, <1>37
  <2>4. HiloExit => Transicion
    BY <1>9, <1>36, <1>37
  <2>. QED  BY <1>3, <1>5, <1>7, <1>37, <2>1, <2>2, <2>3, <2>4
            DEF HiloReady, HiloBlock, HiloExec
<1>39. \A p \in Pid : InstruccionCpu(p) => Transicion
  BY <1>10, <1>11, <1>12, <1>13, <1>14, <1>15, <1>16, <1>17, <1>18, <1>19,
     <1>20, <1>21, <1>22, <1>23, <1>24, <1>25, <1>26, <1>37 DEF
     InstruccionCpu
<1>40. HiloCpu => Transicion
  <2>1. FRwGuarda => Transicion
    BY <1>29, <1>36, <1>37
  <2>. QED  BY <1>39, <1>27, <1>28, <1>30, <1>31, <1>37, <2>1 DEF HiloCpu
<1>. QED
  BY <1>1, <1>2, <1>32, <1>33, <1>34, <1>35, <1>38, <1>39, <1>40, <1>37
     DEF Next, HiloFs

-----------------------------------------------------------------------------
(* A lost PCB stays in BLOCK for ever. *)
PerdidosBloqueados == \A x \in perdidos : estado[x] = "BLOCK"

LEMMA PerdidosAjenos == ASSUME Next PROVE UNCHANGED perdidos \/ FsAgrega
<1>1. HiloReady \/ HiloBlock \/ HiloExec \/ HiloExit => UNCHANGED perdidos
  BY DEF HiloReady, HiloBlock, HiloExec, ReadyToma, ReadyAdmite, BlockToma,
     BlockDevuelve, ExecElige, ExecDespacha, HiloExit
<1>2. ASSUME NEW p \in Pid, InstruccionCpu(p) PROVE UNCHANGED perdidos
  BY <1>2 DEF InstruccionCpu, Yield, Exit, SegFault, Termina, ManejarIO,
     RecursoFallido, WaitObtiene, WaitBloquea, SignalLibera, SignalDespierta,
     FOpenPide, FOpenBloquea, FClose, FSeek, FTruncate, FRwRecibe,
     SegmentoCreado, SinMemoria, PideCompactar, DeleteSegment
<1>3. HiloCpu => UNCHANGED perdidos
  BY <1>2 DEF HiloCpu, FOpenFin, FRwCarga, FRwGuarda, CompactaInicia,
     CompactaFin, ActualizaCola, CompactaSigue
<1>4. HiloFs => UNCHANGED perdidos \/ FsAgrega
  BY DEF HiloFs, FsRecibe, FsGuarda, FsPrueba
<1>5. ASSUME NEW p \in Pid, ArmarPcb(p) \/ FinIO(p) PROVE UNCHANGED perdidos
  BY <1>5 DEF ArmarPcb, FinIO
<1>6. FsAtiende \/ Muere \/ Reposo => UNCHANGED perdidos
  BY DEF FsAtiende, Muere, Reposo, vars
<1>. QED  BY <1>1, <1>3, <1>4, <1>5, <1>6 DEF Next

LEMMA PerdidosQuedan ==
    ASSUME TypeOK, FichaExec, EstadosBien, PerdidosBloqueados, Transicion, Next
    PROVE  PerdidosBloqueados'
<1>1. \A x \in perdidos : estado'[x] = estado[x]
  BY DEF Transicion, Quieto, Crea, Admite, Despacha, Sigue, Mueve, Acaba,
     Destruye, TypeOK, TipoPcb, TipoListas
<1>2. CASE UNCHANGED perdidos
  BY <1>1, <1>2 DEF PerdidosBloqueados
<1>3. CASE FsAgrega
  <2>. DEFINE b == cola["block"]
  <2>1. UNCHANGED estado
    BY <1>3 DEF FsAgrega, pcbs
  <2>2. mano["fs"] \in Pid /\ estado[mano["fs"]] = "BLOCK"
    <3>1. "fs" \in Hilos /\ EnMano["fs"] = mano["fs"] /\ mano["fs"] # Nadie
      BY <1>3 DEF FsAgrega, FichaExec, EnMano, Hilos
    <3>2. estado[mano["fs"]] \in EstadosEnHilo["fs"]
      BY <3>1, EstadosDe
    <3>. QED  BY <3>1, <3>2 DEF EstadosEnHilo, TypeOK, TipoListas
  <2>3. \A x \in Ocupantes(b) : estado[x] = "BLOCK"
    <3>1. "block" \in Colas /\ EstadosEnCola["block"] = {"BLOCK"}
      BY DEF Colas, EstadosEnCola
    <3>2. \A x \in Ocupantes(b) : estado[x] \in EstadosEnCola["block"]
      BY <3>1, EstadosDe
    <3>. QED  BY <3>1, <3>2
  <2>4. ASSUME NEW i \in 0..(Len(b) - 1)
        PROVE  {b[j] : j \in (i + 1)..Len(b)} \subseteq Ocupantes(b)
    <3>1. b \in Seq(Pid) /\ DOMAIN b = 1..Len(b) /\ Len(b) \in Nat
      BY LenProperties DEF TypeOK, TipoListas, Colas
    <3>. QED  BY <3>1 DEF Ocupantes
  <2>. HIDE DEF b
  <2>5. perdidos' \subseteq perdidos \cup {mano["fs"]} \cup Ocupantes(b)
    BY <1>3, <2>4 DEF FsAgrega, b
  <2>. QED  BY <2>1, <2>2, <2>3, <2>5 DEF PerdidosBloqueados
<1>. QED  BY <1>2, <1>3, PerdidosAjenos

-----------------------------------------------------------------------------
(* Only the admission of a process and its destruction change the number   *)
(* of those admitted, each with the step on sem_multiprog that pays it.    *)
LEMMA CupoPaso ==
    ASSUME TypeOK, EstadosBien, CupoRespetado, Transicion
    PROVE  CupoRespetado'
<1>. DEFINE A == Admitidos
<1>0. /\ IsFiniteSet(A) /\ Cardinality(A) \in Nat
      /\ estado \in [Pid -> Estados] /\ sem["multiprog"] \in Nat
      /\ sem["multiprog"] + Cardinality(A) = GRADO_MAX_MULTIPROGRAMACION
  <2>1. A \subseteq Pid
    BY DEF Admitidos
  <2>. QED  BY <2>1, PidFinito, FS_Subset, FS_CardinalityType
            DEF CupoRespetado, TypeOK, TipoPcb, TipoListas, Semaforos
<1>1. ASSUME Admitidos' = A, UNCHANGED sem["multiprog"] PROVE CupoRespetado'
  BY <1>0, <1>1 DEF CupoRespetado
<1>2. CASE Quieto
  BY <1>1, <1>2 DEF Quieto, Admitidos
<1>3. ASSUME NEW p \in Pid, Crea(p) PROVE CupoRespetado'
  BY <1>0, <1>1, <1>3 DEF Crea, Mueve, Admitidos
<1>4. ASSUME NEW p \in Pid, Admite(p) PROVE CupoRespetado'
  <2>1. p \notin A /\ Admitidos' = A \cup {p}
    BY <1>0, <1>4 DEF Admite, Mueve, Admitidos
  <2>2. sem["multiprog"] > 0 /\ sem'["multiprog"] = sem["multiprog"] - 1
    BY <1>4 DEF Admite
  <2>3. Cardinality(A \cup {p}) = Cardinality(A) + 1
    BY <1>0, <2>1, FS_AddElement
  <2>. QED  BY <1>0, <2>1, <2>2, <2>3 DEF CupoRespetado
<1>5. ASSUME NEW p \in Pid, Despacha(p) PROVE CupoRespetado'
  BY <1>0, <1>1, <1>5 DEF Despacha, Mueve, Admitidos
<1>6. ASSUME NEW p \in Pid, Sigue(p) PROVE CupoRespetado'
  BY <1>0, <1>1, <1>6 DEF Sigue, Mueve, Admitidos
<1>7. ASSUME NEW p \in Pid, Acaba(p) PROVE CupoRespetado'
  BY <1>0, <1>1, <1>7 DEF Acaba, Admitidos
<1>8. ASSUME NEW p \in Pid, Destruye(p) PROVE CupoRespetado'
  <2>1. p \in A
    <3>1. "exit" \in Colas /\ cola["exit"] \in Seq(Pid)
      BY DEF Colas, TypeOK, TipoListas
    <3>2. p \in Ocupantes(cola["exit"])
      BY <1>8, <3>1, OcupaTail DEF Destruye
    <3>3. estado[p] \in EstadosEnCola["exit"]
      BY <3>1, <3>2, EstadosDe
    <3>. QED  BY <3>3 DEF EstadosEnCola, Admitidos
  <2>2. Admitidos' = A \ {p}
    BY <1>0, <1>8 DEF Destruye, Admitidos
  <2>3. sem'["multiprog"] = sem["multiprog"] + 1
    BY <1>8 DEF Destruye
  <2>4. Cardinality(A \ {p}) = Cardinality(A) - 1
    BY <1>0, <2>1, FS_RemoveElement
  <2>. QED  BY <1>0, <2>2, <2>3, <2>4 DEF CupoRespetado
<1>. QED  BY <1>2, <1>3, <1>4, <1>5, <1>6, <1>7, <1>8 DEF Transicion

-----------------------------------------------------------------------------
(* The invariant the life cycle rests on. *)
VidaInv == CicloInv /\ PerdidosBloqueados /\ CupoRespetado

LEMMA VidaPaso ==
    ASSUME VidaInv, Next
    PROVE  Transicion /\ PerdidosBloqueados' /\ CupoRespetado'
<1>1. /\ TypeOK /\ FichaExec /\ PerdidosCreados /\ CadaPcbEnUnLugar
      /\ EstadosBien /\ PerdidosBloqueados /\ CupoRespetado
  BY DEF VidaInv, CicloInv, LugaresInv, ColasInv, Base
<1>2. Transicion
  BY <1>1, CadaTransicion
<1>. QED  BY <1>1, <1>2, PerdidosQuedan, CupoPaso

THEOREM VidaInvariante == Spec => []VidaInv
<1>1. Init => PerdidosBloqueados /\ CupoRespetado
  <2>. SUFFICES ASSUME Init PROVE PerdidosBloqueados /\ CupoRespetado
    OBVIOUS
  <2>1. Admitidos = {}
    BY DEF Init, Admitidos
  <2>2. sem["multiprog"] = GRADO_MAX_MULTIPROGRAMACION
    BY DEF Init, Semaforos
  <2>. QED  BY <2>1, <2>2, FS_EmptySet, KernelAssumption
            DEF Init, PerdidosBloqueados, CupoRespetado
<1>2. VidaInv /\ CicloInv' /\ [Next]_vars => VidaInv'
  <2>. SUFFICES ASSUME VidaInv, CicloInv', [Next]_vars PROVE VidaInv'
    OBVIOUS
  <2>1. CASE Next
    BY <2>1, VidaPaso DEF VidaInv
  <2>2. CASE UNCHANGED vars
    BY <2>2 DEF VidaInv, vars, pcbs, PerdidosBloqueados, CupoRespetado,
       Admitidos
  <2>. QED  BY <2>1, <2>2
<1>. QED  BY CicloInvariante, <1>1, <1>2, PTL DEF Spec, VidaInv

(* The places sem_multiprog has left and the processes admitted add up to  *)
(* the degree of multiprogramming, whatever it is (ready_pcb, exit_pcb).   *)
THEOREM CupoSiempre == Spec => []CupoRespetado
<1>1. VidaInv => CupoRespetado
  BY DEF VidaInv
<1>. QED  BY VidaInvariante, <1>1, PTL

-----------------------------------------------------------------------------
(* The refinement of CicloDeVida. *)

(* When the CPU and its thread are idle no process is in phase EXEC.       *)
LEMMA NadieEnExec ==
    ASSUME VidaInv, cpu = Nadie, pcCpu = "recv", NEW x \in Pid,
           estado[x] = "EXEC"
    PROVE  x \in Ocupantes(cola["exit"])
<1>1. /\ TypeOK /\ FichaExec /\ ContextoDeSuPcb /\ CadaPcbEnUnLugar
      /\ EstadosBien /\ EstadosFs /\ Apertura /\ RespuestaDeSuProceso
      /\ PerdidosBloqueados
  BY DEF VidaInv, CicloInv, LugaresInv, ColasInv, Base
<1>2. x \in Vivos
  BY <1>1 DEF Vivos, PerdidosBloqueados
<1>3. PICK s \in Sitios : x \in Ocupantes(Lista[s])
  BY <1>1, <1>2 DEF CadaPcbEnUnLugar, EnUnLugar
<1>4. "EXEC" \in EstadosEn(s)
  BY <1>1, <1>3 DEF EstadosBien
<1>5. ASSUME NEW q \in Colas, s = <<"cola", q>>
      PROVE  x \in Ocupantes(cola["exit"])
  <2>1. Lista[s] = cola[q] /\ EstadosEn(s) = EstadosEnCola[q]
    BY <1>5 DEF Lista, Sitios, EstadosEn
  <2>2. q \in {"exec", "exit", "blockFs"}
    BY <1>4, <2>1, <1>5 DEF EstadosEnCola, Colas
  <2>3. CASE q = "exec"
    BY <1>1, <1>3, <2>1, <2>3, ListaVacia DEF ContextoDeSuPcb
  <2>4. CASE q = "blockFs"
    <3>1. PICK i \in DOMAIN cola["blockFs"] : x = cola["blockFs"][i]
      BY <1>3, <2>1, <2>4 DEF Ocupantes
    <3>2. /\ cola["blockFs"] \in Seq(Pid) /\ EnVuelo \in Seq(Peticion)
      BY <1>1, ConcatProperties
         DEF TypeOK, TipoListas, TipoExternos, Colas, EnVuelo
    <3>3. i \in DOMAIN EnVuelo /\ EnVuelo[i].pid = x
      BY <1>1, <3>1, <3>2, LenProperties DEF RespuestaDeSuProceso
    <3>4. EnVuelo[i] \in Ocupantes(EnVuelo)
      BY <3>3 DEF Ocupantes
    <3>5. EnVuelo[i].op = "F_OPEN"
      BY <1>1, <3>3, <3>4 DEF EstadosFs
    <3>. QED  BY <1>1, <3>4, <3>5 DEF Apertura
  <2>5. CASE q = "exit"
    BY <1>3, <2>1, <2>5
  <2>. QED  BY <2>2, <2>3, <2>4, <2>5
<1>6. ASSUME NEW h \in Hilos, s = <<"hilo", h>> PROVE FALSE
  <2>1. /\ Lista[s] = IF EnMano[h] = Nadie THEN <<>> ELSE <<EnMano[h]>>
        /\ EstadosEn(s) = EstadosEnHilo[h]
    BY <1>6 DEF Lista, Sitios, EstadosEn
  <2>2. h = "cpu"
    BY <1>4, <1>6, <2>1 DEF EstadosEnHilo, Hilos
  <2>3. EnMano["cpu"] = Nadie
    BY <1>1 DEF EnMano, FichaExec, ConPcbEnMano, Hilos
  <2>. QED  BY <1>3, <2>1, <2>2, <2>3, ListaVacia
<1>7. s[1] \in {"recurso", "archivo", "io"} => EstadosEn(s) = {"BLOCK"}
  BY <1>3 DEF EstadosEn
<1>8. \/ \E q \in Colas : s = <<"cola", q>>
      \/ \E h \in Hilos : s = <<"hilo", h>>
      \/ s[1] \in {"recurso", "archivo", "io"}
  BY <1>3 DEF Sitios
<1>. QED  BY <1>4, <1>5, <1>6, <1>7, <1>8

LEMMA OcupaAppendExacto ==
    ASSUME NEW l \in Seq(Pid), NEW p \in Pid
    PROVE  Ocupantes(Append(l, p)) = Ocupantes(l) \cup {p}
<1>1. /\ Append(l, p) \in Seq(Pid) /\ Len(Append(l, p)) = Len(l) + 1
      /\ Len(l) \in Nat /\ Append(l, p)[Len(l) + 1] = p
      /\ \A i \in 1..Len(l) : Append(l, p)[i] = l[i]
  BY AppendProperties, LenProperties
<1>2. DOMAIN l = 1..Len(l) /\ DOMAIN Append(l, p) = 1..(Len(l) + 1)
  BY <1>1, LenProperties
<1>3. \A i \in 1..(Len(l) + 1) : i \in 1..Len(l) \/ i = Len(l) + 1
  BY <1>1
<1>4. Len(l) + 1 \in 1..(Len(l) + 1) /\ 1..Len(l) \subseteq 1..(Len(l) + 1)
  BY <1>1
<1>. QED  BY <1>1, <1>2, <1>3, <1>4 DEF Ocupantes

LEMMA FaseMueve ==
    ASSUME TypeOK, NEW p, NEW desde, NEW hasta, Mueve(p, desde, hasta),
           desde \notin {"FINISH_EXIT", "FINISH_ERROR"},
           hasta \notin {"FINISH_EXIT", "FINISH_ERROR"}
    PROVE  Fase[p] = desde /\ Fase' = [Fase EXCEPT ![p] = hasta] /\ p \in Pid
BY DEF Mueve, Fase, TypeOK, TipoPcb

LEMMA FasePaso ==
    ASSUME VidaInv, VidaInv', Transicion
    PROVE  [Ciclo!Next]_Fase
<1>1. /\ TypeOK /\ CadaPcbEnUnLugar /\ EstadosBien /\ CupoRespetado
      /\ cola["exit"] \in Seq(Pid) /\ estado \in [Pid -> Estados]
      /\ \A x \in Ocupantes(cola["exit"]) :
            estado[x] \in {"FINISH_EXIT", "FINISH_ERROR", "EXEC"}
  <2>1. TypeOK /\ CadaPcbEnUnLugar /\ EstadosBien /\ CupoRespetado
    BY DEF VidaInv, CicloInv, LugaresInv, ColasInv, Base
  <2>2. /\ "exit" \in Colas /\ cola["exit"] \in Seq(Pid)
        /\ estado \in [Pid -> Estados]
    BY <2>1 DEF Colas, TypeOK, TipoListas, TipoPcb
  <2>3. \A x \in Ocupantes(cola["exit"]) : estado[x] \in EstadosEnCola["exit"]
    BY <2>1, <2>2, EstadosDe
  <2>. QED  BY <2>1, <2>2, <2>3 DEF EstadosEnCola
<1>2. CASE Quieto
  BY <1>2 DEF Quieto, Fase
<1>3. ASSUME NEW p \in Pid, Crea(p) PROVE Ciclo!Next
  <2>1. Fase[p] = "NO_CREADO" /\ Fase' = [Fase EXCEPT ![p] = "NEW"]
    BY <1>1, <1>3, FaseMueve DEF Crea
  <2>. QED  BY <2>1 DEF Ciclo!Next, Ciclo!Crear, Ciclo!Pasa
<1>4. ASSUME NEW p \in Pid, Admite(p) PROVE Ciclo!Next
  <2>1. Fase[p] = "NEW" /\ Fase' = [Fase EXCEPT ![p] = "READY"]
    BY <1>1, <1>4, FaseMueve DEF Admite
  <2>2. Ciclo!Vivos = Admitidos
    <3>1. ASSUME NEW x \in Pid
          PROVE  Fase[x] \in {"READY", "EXEC", "BLOCK", "EXIT"}
                   <=> estado[x] \notin {"NO_CREADO", "NEW", "DESTRUIDO"}
      <4>1. estado[x] \in Estados
        BY <1>1
      <4>. QED  BY <1>1, <4>1 DEF Fase, Estados
    <3>. QED  BY <3>1 DEF Ciclo!Vivos, Admitidos
  <2>3. Cardinality(Admitidos) < GRADO_MAX_MULTIPROGRAMACION
    <3>1. Admitidos \subseteq Pid
      BY DEF Admitidos
    <3>2. Cardinality(Admitidos) \in Nat
      BY <3>1, PidFinito, FS_Subset, FS_CardinalityType
    <3>3. sem["multiprog"] \in Nat /\ sem["multiprog"] > 0
      BY <1>1, <1>4 DEF Admite, TypeOK, TipoListas, Semaforos
    <3>. QED  BY <1>1, <3>2, <3>3, KernelAssumption DEF CupoRespetado
  <2>4. Ciclo!Cardinality(Ciclo!Vivos) < GRADO_MAX_MULTIPROGRAMACION
    <3>1. Ciclo!Cardinality(Admitidos) = Cardinality(Admitidos)
      BY DEF Ciclo!Cardinality, Cardinality
    <3>. QED  BY <2>2, <2>3, <3>1
  <2>5. Ciclo!Admitir(p)
    BY <2>1, <2>4 DEF Ciclo!Admitir, Ciclo!Pasa
  <2>. QED  BY <2>5 DEF Ciclo!Next
<1>5. ASSUME NEW p \in Pid, Despacha(p) PROVE Ciclo!Next
  <2>1. Fase[p] = "READY" /\ Fase' = [Fase EXCEPT ![p] = "EXEC"]
    BY <1>1, <1>5, FaseMueve DEF Despacha
  <2>2. Ciclo!EnFase("EXEC") = {}
    BY <1>1, <1>5, NadieEnExec DEF Despacha, Ciclo!EnFase, Fase
  <2>. QED  BY <2>1, <2>2 DEF Ciclo!Next, Ciclo!Despachar, Ciclo!Pasa
<1>6. ASSUME NEW p \in Pid, Sigue(p) PROVE Ciclo!Next
  <2>1. CASE Mueve(p, "EXEC", "READY")
    <3>1. Fase[p] = "EXEC" /\ Fase' = [Fase EXCEPT ![p] = "READY"]
      BY <1>1, <2>1, FaseMueve
    <3>. QED  BY <3>1 DEF Ciclo!Next, Ciclo!Desalojar, Ciclo!Pasa
  <2>2. CASE Mueve(p, "EXEC", "BLOCK")
    <3>1. Fase[p] = "EXEC" /\ Fase' = [Fase EXCEPT ![p] = "BLOCK"]
      BY <1>1, <2>2, FaseMueve
    <3>. QED  BY <3>1 DEF Ciclo!Next, Ciclo!Bloquear, Ciclo!Pasa
  <2>3. CASE Mueve(p, "BLOCK", "READY")
    <3>1. Fase[p] = "BLOCK" /\ Fase' = [Fase EXCEPT ![p] = "READY"]
      BY <1>1, <2>3, FaseMueve
    <3>. QED  BY <3>1 DEF Ciclo!Next, Ciclo!Desbloquear, Ciclo!Pasa
  <2>. QED  BY <1>6, <2>1, <2>2, <2>3 DEF Sigue
<1>7. ASSUME NEW p \in Pid, Acaba(p) PROVE Ciclo!Next
  <2>1. Fase[p] = "EXEC"
    BY <1>7 DEF Acaba, Fase
  <2>2. Ocupantes(cola'["exit"]) = Ocupantes(cola["exit"]) \cup {p}
    BY <1>1, <1>7, OcupaAppendExacto DEF Acaba
  <2>3. Fase' = [Fase EXCEPT ![p] = "EXIT"]
    BY <1>1, <1>7, <2>2 DEF Acaba, Fase
  <2>. QED  BY <2>1, <2>3 DEF Ciclo!Next, Ciclo!Terminar, Ciclo!Pasa
<1>8. ASSUME NEW p \in Pid, Destruye(p) PROVE Ciclo!Next
  <2>1. SinRepetidos(cola["exit"]) /\ cola["exit"] # <<>> /\ p = Head(cola["exit"])
    <3>1. <<"cola", "exit">> \in Sitios /\ Lista[<<"cola", "exit">>] = cola["exit"]
      BY DEF Sitios, Lista, Colas
    <3>. QED  BY <1>1, <1>8, <3>1 DEF Destruye, CadaPcbEnUnLugar, EnUnLugar
  <2>2. /\ p \in Ocupantes(cola["exit"])
        /\ Ocupantes(cola'["exit"]) = Ocupantes(cola["exit"]) \ {p}
    BY <1>1, <1>8, <2>1, ColaDeLista DEF Destruye
  <2>3. Fase[p] = "EXIT"
    BY <2>2 DEF Fase
  <2>4. Fase' = [Fase EXCEPT ![p] = "DESTRUIDO"]
    BY <1>1, <1>8, <2>2 DEF Destruye, Fase
  <2>. QED  BY <2>3, <2>4 DEF Ciclo!Next, Ciclo!Destruir, Ciclo!Pasa
<1>. QED  BY <1>2, <1>3, <1>4, <1>5, <1>6, <1>7, <1>8 DEF Transicion

(* Whatever its threads interleave, the kernel moves each process only as  *)
(* the life-cycle diagram allows, one on the CPU at a time and no more     *)
(* admitted than the degree: it implements CicloDeVida (kernel.c).         *)
THEOREM KernelImplementaCiclo == Spec => ImplementaCiclo
<1>1. Init => Ciclo!Init
  <2>. SUFFICES ASSUME Init PROVE Ciclo!Init
    OBVIOUS
  <2>1. Ocupantes(cola["exit"]) = {}
    BY ListaVacia DEF Init, Colas
  <2>. QED  BY <2>1 DEF Init, Ciclo!Init, Fase
<1>2. VidaInv /\ VidaInv' /\ [Next]_vars => [Ciclo!Next]_Fase
  <2>. SUFFICES ASSUME VidaInv, VidaInv', [Next]_vars PROVE [Ciclo!Next]_Fase
    OBVIOUS
  <2>1. CASE Next
    BY <2>1, VidaPaso, FasePaso
  <2>2. CASE UNCHANGED vars
    BY <2>2 DEF vars, pcbs, Fase
  <2>. QED  BY <2>1, <2>2
<1>. QED  BY VidaInvariante, <1>1, <1>2, PTL DEF Spec, ImplementaCiclo, Ciclo!Spec

-----------------------------------------------------------------------------
(* Who holds a file. *)

(* F_OPEN waits for the answer about a file nobody has open.               *)
AperturaDeCerrado == pcCpu = "fOpen" => archCpu \in Archivos \ abiertos

ArchivosInv == ArchivoExclusivo /\ AperturaDeCerrado

(* The process that runs, and the one about to be destroyed, wait for no   *)
(* file, and nobody is twice in the queue of one.                          *)
LEMMA NoEspera ==
    ASSUME TypeOK, CadaPcbEnUnLugar, NEW a \in Archivos
    PROVE  /\ SinRepetidos(enArchivo[a]) /\ enArchivo[a] \in Seq(Pid)
           /\ \A q \in {"exec", "exit"} : cola[q] # <<>> =>
                Head(cola[q]) \in Pid /\ Head(cola[q]) \notin Esperan(a)
<1>. DEFINE t == <<"archivo", a>>
<1>1. /\ t \in Sitios /\ Lista[t] = enArchivo[a] /\ enArchivo[a] \in Seq(Pid)
  BY DEF Sitios, Lista, TypeOK, TipoArchivos
<1>2. SinRepetidos(enArchivo[a])
  BY <1>1 DEF CadaPcbEnUnLugar, EnUnLugar
<1>3. ASSUME NEW q \in {"exec", "exit"}, cola[q] # <<>>
      PROVE  Head(cola[q]) \in Pid /\ Head(cola[q]) \notin Esperan(a)
  <2>. DEFINE s == <<"cola", q>>
  <2>1. /\ s \in Sitios /\ Lista[s] = cola[q] /\ cola[q] \in Seq(Pid)
        /\ s # t
    BY DEF Sitios, Lista, Colas, TypeOK, TipoListas
  <2>2. Head(cola[q]) \in Ocupantes(cola[q]) /\ Head(cola[q]) \in Pid
    BY <1>3, <2>1, OcupaTail
  <2>. QED  BY <1>1, <2>1, <2>2 DEF CadaPcbEnUnLugar, EnUnLugar, Esperan
<1>. QED  BY <1>1, <1>2, <1>3

(* The steps that touch the tables of open files. *)
LEMMA ArchivosAjenos ==
    ASSUME Next
    PROVE  \/ UNCHANGED <<abiertos, archivosDe, enArchivo>>
              /\ (pcCpu' = "fOpen" => pcCpu = "fOpen" /\ archCpu' = archCpu)
           \/ HiloExit \/ FOpenFin
           \/ \E p \in Pid, a \in Archivos :
                FOpenPide(p, a) \/ FOpenBloquea(p, a) \/ FClose(p, a)
<1>. DEFINE Iguales == /\ UNCHANGED <<abiertos, archivosDe, enArchivo>>
                       /\ pcCpu' = "fOpen" =>
                            pcCpu = "fOpen" /\ archCpu' = archCpu
<1>. USE DEF archivos, hiloCpu
<1>1. HiloReady \/ HiloBlock \/ HiloExec => Iguales
  BY DEF HiloReady, HiloBlock, HiloExec, ReadyToma, ReadyAdmite, BlockToma,
     BlockDevuelve, ExecElige, ExecDespacha
<1>2. ASSUME NEW p \in Pid,
             \/ Yield(p) \/ Exit(p) \/ SegFault(p) \/ ManejarIO(p)
             \/ FTruncate(p) \/ FRwRecibe(p) \/ SegmentoCreado(p)
             \/ SinMemoria(p) \/ PideCompactar(p) \/ DeleteSegment(p)
      PROVE  Iguales
  BY <1>2 DEF Yield, Exit, SegFault, Termina, ManejarIO, FTruncate, FRwRecibe,
     SegmentoCreado, SinMemoria, PideCompactar, DeleteSegment
<1>3. ASSUME NEW p \in Pid, NEW r \in Pedidos,
             \/ RecursoFallido(p, r) \/ WaitObtiene(p, r)
             \/ WaitBloquea(p, r) \/ SignalLibera(p, r)
             \/ SignalDespierta(p, r)
      PROVE  Iguales
  BY <1>3 DEF RecursoFallido, WaitObtiene, WaitBloquea, SignalLibera,
     SignalDespierta
<1>4. ASSUME NEW p \in Pid, NEW a \in Archivos, FSeek(p, a) PROVE Iguales
  BY <1>4 DEF FSeek
<1>5. \/ FRwCarga \/ FRwGuarda \/ CompactaInicia \/ ActualizaCola
      \/ CompactaSigue \/ \E M \in SUBSET conSegmentos : CompactaFin(M)
      => Iguales
  BY DEF FRwCarga, FRwGuarda, CompactaInicia, CompactaFin, ActualizaCola,
     CompactaSigue
<1>6. HiloFs => Iguales
  BY DEF HiloFs, FsRecibe, FsGuarda, FsPrueba, FsAgrega
<1>7. ASSUME NEW p \in Pid, ArmarPcb(p) \/ FinIO(p) PROVE Iguales
  BY <1>7 DEF ArmarPcb, FinIO
<1>8. FsAtiende \/ Muere \/ Reposo => Iguales
  BY DEF FsAtiende, Muere, Reposo, vars
<1>. QED  BY <1>1, <1>2, <1>3, <1>4, <1>5, <1>6, <1>7, <1>8
          DEF Next, HiloCpu, InstruccionCpu

LEMMA ArchivosPaso ==
    ASSUME TypeOK, FichaExec, CadaPcbEnUnLugar, ArchivosInv, Next
    PROVE  ArchivosInv'
<1>. DEFINE D(b) == {x \in Pid : b \in archivosDe[x]}
            Uno(b) == /\ \A x, y \in Duenios(b) : x = y
                      /\ \A x \in Esperan(b) : b \in archivosDe[x]
                      /\ b \notin abiertos =>
                           Duenios(b) = {} /\ enArchivo[b] = <<>>
<1>0. /\ archivosDe \in [Pid -> SUBSET Archivos] /\ abiertos \subseteq Archivos
      /\ enArchivo \in [Archivos -> Seq(Pid)]
      /\ \A b \in Archivos : Uno(b) /\ Esperan(b) \subseteq Pid
  <2>1. \A b \in Archivos : Esperan(b) \subseteq Pid
    BY LenProperties, ElementOfSeq DEF Esperan, Ocupantes, TypeOK, TipoArchivos
  <2>. QED  BY <2>1 DEF TypeOK, TipoArchivos, ArchivosInv, ArchivoExclusivo
<1>1. CASE /\ UNCHANGED <<abiertos, archivosDe, enArchivo>>
           /\ pcCpu' = "fOpen" => pcCpu = "fOpen" /\ archCpu' = archCpu
  BY <1>1 DEF ArchivosInv, ArchivoExclusivo, AperturaDeCerrado, Duenios,
     Esperan
<1>2. CASE HiloExit
  <2>. DEFINE p == Head(cola["exit"])
  <2>1. /\ cola["exit"] # <<>> /\ archivosDe' = [archivosDe EXCEPT ![p] = {}]
        /\ UNCHANGED <<abiertos, enArchivo, pcCpu, archCpu>>
    BY <1>2 DEF HiloExit, hiloCpu
  <2>2. ASSUME NEW b \in Archivos PROVE Uno(b)'
    <3>1. p \in Pid /\ p \notin Esperan(b)
      BY <2>1, NoEspera
    <3>2. Esperan(b)' = Esperan(b) /\ Duenios(b)' = Duenios(b) \ {p}
      BY <1>0, <2>1, <3>1 DEF Esperan, Duenios
    <3>3. \A x \in Esperan(b) : archivosDe'[x] = archivosDe[x]
      BY <1>0, <2>1, <3>1
    <3>. QED  BY <1>0, <2>1, <3>2, <3>3
  <2>. QED  BY <2>1, <2>2 DEF ArchivosInv, ArchivoExclusivo, AperturaDeCerrado
<1>3. CASE FOpenFin
  <2>0. PICK p \in Pid, a \in Archivos \ abiertos : p = mano["cpu"] /\ a = archCpu
    BY <1>3 DEF FOpenFin, FichaExec, ConPcbEnMano, TypeOK, TipoListas, Hilos,
       ArchivosInv, AperturaDeCerrado
  <2>1. /\ pcCpu = "fOpen" /\ pcCpu' = "recv" /\ abiertos' = abiertos \cup {a}
        /\ archivosDe' = [archivosDe EXCEPT ![p] = @ \cup {a}]
        /\ UNCHANGED enArchivo
    BY <1>3, <2>0 DEF FOpenFin
  <2>2. p \in Pid /\ a \in Archivos \ abiertos
    OBVIOUS
  <2>3. ASSUME NEW b \in Archivos, b # a PROVE Uno(b)'
    <3>1. Esperan(b)' = Esperan(b) /\ Duenios(b)' = Duenios(b)
      BY <1>0, <2>1, <2>2, <2>3 DEF Esperan, Duenios
    <3>2. \A x \in Esperan(b) : b \in archivosDe'[x] <=> b \in archivosDe[x]
      BY <1>0, <2>1, <2>2, <2>3
    <3>. QED  BY <1>0, <2>1, <2>3, <3>1, <3>2
  <2>4. Uno(a)'
    <3>1. Esperan(a)' = {} /\ Duenios(a) = {}
      BY <1>0, <2>1, <2>2, ListaVacia DEF Esperan
    <3>2. Duenios(a)' = {p}
      BY <1>0, <2>1, <2>2, <3>1 DEF Duenios, Esperan
    <3>. QED  BY <2>1, <3>1, <3>2
  <2>. HIDE DEF Uno
  <2>5. \A b \in Archivos : Uno(b)'
    BY <2>3, <2>4
  <2>. USE DEF Uno
  <2>. QED  BY <2>1, <2>5 DEF ArchivosInv, ArchivoExclusivo, AperturaDeCerrado
<1>4. ASSUME NEW p \in Pid, NEW a \in Archivos, FOpenPide(p, a)
      PROVE  ArchivosInv'
  <2>1. /\ UNCHANGED <<abiertos, archivosDe, enArchivo>>
        /\ archCpu' = a /\ a \notin abiertos
    BY <1>4 DEF FOpenPide, EstaAbierto, archivos
  <2>. QED  BY <2>1 DEF ArchivosInv, ArchivoExclusivo, AperturaDeCerrado,
            Duenios, Esperan
<1>5. ASSUME NEW p \in Pid, NEW a \in Archivos, FOpenBloquea(p, a)
      PROVE  ArchivosInv'
  <2>1. /\ pcCpu = "recv" /\ UNCHANGED <<pcCpu, archCpu, abiertos>>
        /\ a \notin archivosDe[p] /\ a \in abiertos
        /\ archivosDe' = [archivosDe EXCEPT ![p] = @ \cup {a}]
        /\ enArchivo' = [enArchivo EXCEPT ![a] = Append(@, p)]
    BY <1>5 DEF FOpenBloquea, Recibe, EstaAbierto, hiloCpu
  <2>2. ASSUME NEW b \in Archivos, b # a PROVE Uno(b)'
    <3>1. Esperan(b)' = Esperan(b) /\ Duenios(b)' = Duenios(b)
      BY <1>0, <2>1, <2>2 DEF Esperan, Duenios
    <3>2. \A x \in Esperan(b) : b \in archivosDe'[x] <=> b \in archivosDe[x]
      BY <1>0, <2>1, <2>2
    <3>. QED  BY <1>0, <2>1, <2>2, <3>1, <3>2
  <2>3. Uno(a)'
    <3>1. Esperan(a)' = Esperan(a) \cup {p}
      BY <1>0, <2>1, OcupaAppendExacto DEF Esperan
    <3>2. D(a)' = D(a) \cup {p} /\ p \notin D(a)
      BY <1>0, <2>1
    <3>3. Duenios(a)' = Duenios(a)
      BY <3>1, <3>2 DEF Duenios
    <3>4. \A x \in Esperan(a)' : a \in archivosDe'[x]
      BY <1>0, <2>1, <3>1
    <3>. QED  BY <1>0, <2>1, <3>3, <3>4
  <2>. HIDE DEF Uno
  <2>4. \A b \in Archivos : Uno(b)'
    BY <2>2, <2>3
  <2>. USE DEF Uno
  <2>. QED  BY <2>1, <2>4 DEF ArchivosInv, ArchivoExclusivo, AperturaDeCerrado
<1>6. ASSUME NEW p \in Pid, NEW a \in Archivos, FClose(p, a)
      PROVE  ArchivosInv'
  <2>1. /\ pcCpu = "recv" /\ UNCHANGED <<pcCpu, archCpu>>
        /\ cola["exec"] # <<>> /\ p = Head(cola["exec"])
        /\ a \in archivosDe[p]
        /\ archivosDe' = [archivosDe EXCEPT ![p] = @ \ {a}]
        /\ \/ /\ enArchivo[a] # <<>> /\ UNCHANGED abiertos
              /\ enArchivo' = [enArchivo EXCEPT ![a] = Tail(@)]
           \/ /\ enArchivo[a] = <<>> /\ UNCHANGED enArchivo
              /\ abiertos' = abiertos \ {a}
    BY <1>6 DEF FClose, Recibe, hiloCpu
  <2>2. ASSUME NEW b \in Archivos, b # a PROVE Uno(b)'
    <3>1. enArchivo'[b] = enArchivo[b] /\ (b \in abiertos' <=> b \in abiertos)
      BY <1>0, <2>1, <2>2
    <3>2. Esperan(b)' = Esperan(b) /\ Duenios(b)' = Duenios(b)
      BY <1>0, <2>1, <2>2, <3>1 DEF Esperan, Duenios
    <3>3. \A x \in Esperan(b) : b \in archivosDe'[x] <=> b \in archivosDe[x]
      BY <1>0, <2>1, <2>2
    <3>. QED  BY <1>0, <2>1, <2>2, <3>1, <3>2, <3>3
  <2>3. Uno(a)'
    <3>1. p \notin Esperan(a)
      BY <2>1, NoEspera
    <3>2. Duenios(a) = {p} /\ D(a)' = D(a) \ {p}
      BY <1>0, <2>1, <3>1 DEF Duenios
    <3>3. CASE enArchivo[a] # <<>>
      <4>. DEFINE h == Head(enArchivo[a])
      <4>1. /\ enArchivo'[a] = Tail(enArchivo[a]) /\ UNCHANGED abiertos
            /\ a \in abiertos
        BY <1>0, <2>1, <3>3
      <4>2. h \in Esperan(a) /\ Esperan(a)' = Esperan(a) \ {h}
        BY <4>1, <3>3, NoEspera, ColaDeLista DEF Esperan
      <4>. HIDE DEF h
      <4>3. Duenios(a)' = {h}
        BY <1>0, <3>1, <3>2, <4>2 DEF Duenios
      <4>4. \A x \in Esperan(a)' : a \in archivosDe'[x]
        BY <1>0, <2>1, <3>1, <4>2
      <4>. QED  BY <4>1, <4>3, <4>4
    <3>4. CASE enArchivo[a] = <<>>
      <4>1. enArchivo'[a] = <<>> /\ a \notin abiertos'
        BY <1>0, <2>1, <3>4
      <4>2. Esperan(a) = {} /\ Esperan(a)' = {}
        BY <3>4, <4>1, ListaVacia DEF Esperan
      <4>3. Duenios(a)' = {}
        BY <3>2, <4>2 DEF Duenios
      <4>. QED  BY <4>1, <4>2, <4>3
    <3>. QED  BY <3>3, <3>4
  <2>. HIDE DEF Uno
  <2>4. \A b \in Archivos : Uno(b)'
    BY <2>2, <2>3
  <2>. USE DEF Uno
  <2>. QED  BY <2>1, <2>4 DEF ArchivosInv, ArchivoExclusivo, AperturaDeCerrado
<1>. QED  BY <1>1, <1>2, <1>3, <1>4, <1>5, <1>6, ArchivosAjenos

(* The holders of the files, with the open that is being waited for.       *)
THEOREM ArchivosInvariante == Spec => []ArchivosInv
<1>1. Init => ArchivosInv
  <2>. SUFFICES ASSUME Init PROVE ArchivosInv
    OBVIOUS
  <2>1. /\ \A p \in Pid : archivosDe[p] = {}
        /\ \A a \in Archivos : enArchivo[a] = <<>>
        /\ pcCpu = "recv"
    BY DEF Init
  <2>. QED  BY <2>1, ListaVacia DEF ArchivosInv, ArchivoExclusivo,
            AperturaDeCerrado, Duenios, Esperan
<1>2. LugaresInv /\ ArchivosInv /\ [Next]_vars => ArchivosInv'
  <2>. SUFFICES ASSUME LugaresInv, ArchivosInv, [Next]_vars PROVE ArchivosInv'
    OBVIOUS
  <2>1. TypeOK /\ FichaExec /\ CadaPcbEnUnLugar
    BY DEF LugaresInv, ColasInv, Base
  <2>2. CASE Next
    BY <2>1, <2>2, ArchivosPaso
  <2>3. CASE UNCHANGED vars
    BY <2>3 DEF vars, hiloCpu, archivos, ArchivosInv, ArchivoExclusivo,
       AperturaDeCerrado, Duenios, Esperan
  <2>. QED  BY <2>2, <2>3
<1>. QED  BY LugaresInvariante, <1>1, <1>2, PTL DEF Spec

(* A file has one holder at a time, and a closed one has none, for any     *)
(* processes and files (ejecutar_f_open, manejar_f_close).                 *)
THEOREM UnSoloDuenio == Spec => []ArchivoExclusivo
<1>1. ArchivosInv => ArchivoExclusivo
  BY DEF ArchivosInv
<1>. QED  BY ArchivosInvariante, <1>1, PTL
=============================================================================
