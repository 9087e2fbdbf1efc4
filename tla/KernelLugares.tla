---------------------------- MODULE KernelLugares ----------------------------
(***************************************************************************)
(* Proof that a PCB is always in exactly one place: every operation takes  *)
(* it out of one list, hand or sleep and puts it in another.  The lemmas   *)
(* below say what one removal and one addition do; the step of each action *)
(* composes them in the order of the code.                                 *)
(***************************************************************************)
EXTENDS KernelProofs

-----------------------------------------------------------------------------
(* Lists without repetitions. *)
LEMMA ColaDeLista ==
    ASSUME NEW l \in Seq(Pid), SinRepetidos(l), l # <<>>
    PROVE  /\ Tail(l) \in Seq(Pid) /\ SinRepetidos(Tail(l))
           /\ Head(l) \in Ocupantes(l)
           /\ Ocupantes(Tail(l)) = Ocupantes(l) \ {Head(l)}
<1>1. /\ Tail(l) \in Seq(Pid) /\ Len(Tail(l)) = Len(l) - 1
      /\ Len(l) \in Nat \ {0} /\ Head(l) = l[1]
      /\ \A i \in 1..(Len(l) - 1) : Tail(l)[i] = l[i + 1]
  BY HeadTailProperties, EmptySeq, LenProperties
<1>2. DOMAIN l = 1..Len(l) /\ DOMAIN Tail(l) = 1..(Len(l) - 1)
  BY <1>1, LenProperties
<1>3. SinRepetidos(Tail(l))
  BY <1>1, <1>2 DEF SinRepetidos
<1>4. Head(l) \in Ocupantes(l)
  BY <1>1, <1>2 DEF Ocupantes
<1>5. ASSUME NEW x \in Ocupantes(Tail(l)) PROVE x \in Ocupantes(l) \ {Head(l)}
  <2>1. PICK i \in 1..(Len(l) - 1) : x = l[i + 1]
    BY <1>1, <1>2, <1>5 DEF Ocupantes
  <2>. QED  BY <1>1, <1>2, <2>1 DEF Ocupantes, SinRepetidos
<1>6. ASSUME NEW x \in Ocupantes(l) \ {Head(l)} PROVE x \in Ocupantes(Tail(l))
  <2>1. PICK i \in 1..Len(l) : x = l[i]
    BY <1>2, <1>6 DEF Ocupantes
  <2>2. i # 1 /\ i - 1 \in 1..(Len(l) - 1)
    BY <1>1, <1>6, <2>1
  <2>3. Tail(l)[i - 1] = x
    BY <1>1, <2>1, <2>2
  <2>. QED  BY <1>2, <2>2, <2>3 DEF Ocupantes
<1>. QED  BY <1>1, <1>3, <1>4, <1>5, <1>6

LEMMA FinDeLista ==
    ASSUME NEW l \in Seq(Pid), SinRepetidos(l), NEW p \in Pid, p \notin Ocupantes(l)
    PROVE  /\ Append(l, p) \in Seq(Pid) /\ SinRepetidos(Append(l, p))
           /\ Ocupantes(Append(l, p)) = Ocupantes(l) \cup {p}
<1>1. /\ Append(l, p) \in Seq(Pid) /\ Len(Append(l, p)) = Len(l) + 1
      /\ Len(l) \in Nat /\ Append(l, p)[Len(l) + 1] = p
      /\ \A i \in 1..Len(l) : Append(l, p)[i] = l[i]
  BY AppendProperties, LenProperties
<1>2. DOMAIN l = 1..Len(l) /\ DOMAIN Append(l, p) = 1..(Len(l) + 1)
  BY <1>1, LenProperties
<1>3. \A i \in 1..Len(l) : l[i] # p
  BY <1>2 DEF Ocupantes
<1>4. SinRepetidos(Append(l, p))
  BY <1>1, <1>2, <1>3 DEF SinRepetidos
<1>5. Ocupantes(Append(l, p)) = Ocupantes(l) \cup {p}
  <2>1. ASSUME NEW i \in 1..(Len(l) + 1)
        PROVE  Append(l, p)[i] = p \/ i \in 1..Len(l)
    BY <1>1
  <2>2. Len(l) + 1 \in 1..(Len(l) + 1)
    BY <1>1
  <2>. QED  BY <1>1, <1>2, <2>1, <2>2 DEF Ocupantes
<1>. QED  BY <1>1, <1>4, <1>5

LEMMA SinElIndice ==
    ASSUME NEW l \in Seq(Pid), SinRepetidos(l), NEW i \in DOMAIN l
    PROVE  /\ SinIndice(l, i) \in Seq(Pid) /\ SinRepetidos(SinIndice(l, i))
           /\ l[i] \in Ocupantes(l)
           /\ Ocupantes(SinIndice(l, i)) = Ocupantes(l) \ {l[i]}
<1>1. /\ DOMAIN l = 1..Len(l) /\ Len(l) \in Nat /\ i \in 1..Len(l)
      /\ \A j \in 1..Len(l) : l[j] \in Pid
  BY LenProperties, ElementOfSeq
<1>. DEFINE z == SinIndice(l, i)
<1>2. /\ DOMAIN z = 1..(Len(l) - 1)
      /\ \A j \in 1..(Len(l) - 1) : z[j] = IF j < i THEN l[j] ELSE l[j + 1]
  BY DEF SinIndice
<1>3. z \in Seq(Pid)
  <2>1. Len(l) - 1 \in Nat
    BY <1>1
  <2>2. z \in [1..(Len(l) - 1) -> Pid]
    BY <1>1 DEF SinIndice
  <2>. QED  BY <2>1, <2>2, SeqDef
<1>4. SinRepetidos(z)
  BY <1>1, <1>2 DEF SinRepetidos
<1>5. l[i] \in Ocupantes(l)
  BY DEF Ocupantes
<1>6. ASSUME NEW x \in Ocupantes(z) PROVE x \in Ocupantes(l) \ {l[i]}
  <2>1. PICK j \in 1..(Len(l) - 1) : x = z[j]
    BY <1>2, <1>6 DEF Ocupantes
  <2>2. PICK k \in 1..Len(l) : k # i /\ x = l[k]
    BY <1>1, <1>2, <2>1
  <2>. QED  BY <1>1, <2>2 DEF Ocupantes, SinRepetidos
<1>7. ASSUME NEW x \in Ocupantes(l) \ {l[i]} PROVE x \in Ocupantes(z)
  <2>1. PICK k \in 1..Len(l) : x = l[k]
    BY <1>1, <1>7 DEF Ocupantes
  <2>2. k # i
    BY <1>7, <2>1
  <2>3. CASE k < i
    <3>1. k \in 1..(Len(l) - 1) /\ z[k] = x
      BY <1>1, <1>2, <2>1, <2>3
    <3>. QED  BY <1>2, <3>1 DEF Ocupantes
  <2>4. CASE k > i
    <3>1. k - 1 \in 1..(Len(l) - 1) /\ z[k - 1] = x
      BY <1>1, <1>2, <2>1, <2>4
    <3>. QED  BY <1>2, <3>1 DEF Ocupantes
  <2>. QED  BY <1>1, <2>2, <2>3, <2>4
<1>. QED  BY <1>3, <1>4, <1>5, <1>6, <1>7

(* The front of a list, and what is left out of it. *)
LEMMA FrenteDeLista ==
    ASSUME NEW l \in Seq(Pid), SinRepetidos(l), NEW i \in 0..(Len(l) - 1)
    PROVE  /\ SubSeq(l, 1, i) \in Seq(Pid) /\ SinRepetidos(SubSeq(l, 1, i))
           /\ {l[j] : j \in (i + 1)..Len(l)} \subseteq Ocupantes(l)
           /\ Ocupantes(SubSeq(l, 1, i))
                = Ocupantes(l) \ {l[j] : j \in (i + 1)..Len(l)}
<1>1. /\ DOMAIN l = 1..Len(l) /\ Len(l) \in Nat
      /\ \A j \in 1..Len(l) : l[j] \in Pid
  BY LenProperties, ElementOfSeq
<1>. DEFINE z == SubSeq(l, 1, i)
            resto == {l[j] : j \in (i + 1)..Len(l)}
<1>2. z \in Seq(Pid) /\ Len(z) = i /\ \A j \in 1..i : z[j] = l[j]
  <2>1. \A j \in 1..i : j \in 1..Len(l)
    BY <1>1
  <2>. QED  BY <1>1, <2>1, SubSeqProperties
<1>3. DOMAIN z = 1..i
  BY <1>2, LenProperties
<1>4. SinRepetidos(z)
  BY <1>1, <1>2, <1>3 DEF SinRepetidos
<1>5. resto \subseteq Ocupantes(l)
  BY <1>1 DEF Ocupantes
<1>6. ASSUME NEW x \in Ocupantes(z) PROVE x \in Ocupantes(l) \ resto
  <2>1. PICK k \in 1..i : x = l[k]
    BY <1>2, <1>3, <1>6 DEF Ocupantes
  <2>2. k \in 1..Len(l) /\ \A j \in (i + 1)..Len(l) : j \in 1..Len(l) /\ j # k
    BY <1>1
  <2>. QED  BY <1>1, <2>1, <2>2 DEF Ocupantes, SinRepetidos
<1>7. ASSUME NEW x \in Ocupantes(l) \ resto PROVE x \in Ocupantes(z)
  <2>1. PICK k \in 1..Len(l) : x = l[k]
    BY <1>1, <1>7 DEF Ocupantes
  <2>2. k \in 1..i
    BY <1>1, <1>7, <2>1
  <2>. QED  BY <1>2, <1>3, <2>1, <2>2 DEF Ocupantes
<1>. QED  BY <1>2, <1>4, <1>5, <1>6, <1>7

LEMMA ListaVacia == Ocupantes(<<>>) = {} /\ SinRepetidos(<<>>)
BY DEF Ocupantes, SinRepetidos

LEMMA ListaDeUno ==
    ASSUME NEW p
    PROVE  Ocupantes(<<p>>) = {p} /\ SinRepetidos(<<p>>)
BY DEF Ocupantes, SinRepetidos

-----------------------------------------------------------------------------
(* One list of all is changed: what leaves it leaves the whole, and what   *)
(* was nowhere may enter it.                                               *)
LEMMA Quita ==
    ASSUME NEW L, NEW M, NEW V, EnUnLugar(L, V), NEW x \in Sitios,
           \A s \in Sitios \ {x} : M[s] = L[s],
           SinRepetidos(M[x]), NEW Q, Q \subseteq Ocupantes(L[x]),
           Ocupantes(M[x]) = Ocupantes(L[x]) \ Q
    PROVE  EnUnLugar(M, V \ Q) /\ Q \subseteq V
<1>1. \A s \in Sitios : SinRepetidos(M[s])
  BY DEF EnUnLugar
<1>2. \A s \in Sitios : Ocupantes(M[s]) = Ocupantes(L[s]) \ Q
  BY DEF EnUnLugar
<1>3. \A s, t \in Sitios : Ocupantes(M[s]) \cap Ocupantes(M[t]) # {} => s = t
  BY <1>2 DEF EnUnLugar
<1>4. UNION {Ocupantes(M[s]) : s \in Sitios} = V \ Q
  BY <1>2 DEF EnUnLugar
<1>5. Q \subseteq V
  BY DEF EnUnLugar
<1>. QED  BY <1>1, <1>3, <1>4, <1>5 DEF EnUnLugar

LEMMA Pone ==
    ASSUME NEW L, NEW M, NEW V, EnUnLugar(L, V), NEW x \in Sitios,
           \A s \in Sitios \ {x} : M[s] = L[s],
           SinRepetidos(M[x]), NEW p, p \notin V,
           Ocupantes(M[x]) = Ocupantes(L[x]) \cup {p}
    PROVE  EnUnLugar(M, V \cup {p})
<1>1. \A s \in Sitios : SinRepetidos(M[s])
  BY DEF EnUnLugar
<1>2. \A s \in Sitios : p \notin Ocupantes(L[s])
  BY DEF EnUnLugar
<1>3. \A s, t \in Sitios : Ocupantes(M[s]) \cap Ocupantes(M[t]) # {} => s = t
  BY <1>2 DEF EnUnLugar
<1>4. UNION {Ocupantes(M[s]) : s \in Sitios} = V \cup {p}
  BY DEF EnUnLugar
<1>. QED  BY <1>1, <1>3, <1>4 DEF EnUnLugar

-----------------------------------------------------------------------------
(* All the lists, as a function of the parts of the state they are in, so  *)
(* that the steps of an action can be composed.                            *)
ListaDe(c, er, ea, m, i) ==
    [s \in Sitios |->
        CASE s[1] = "cola"    -> c[s[2]]
          [] s[1] = "recurso" -> er[s[2]]
          [] s[1] = "archivo" -> ea[s[2]]
          [] s[1] = "hilo"    -> IF m[s[2]] = Nadie THEN <<>> ELSE <<m[s[2]]>>
          [] s[1] = "io"      -> IF s[2] \in i THEN <<s[2]>> ELSE <<>>]

Bien(c, er, ea, m, i, V) ==
    /\ c \in [Colas -> Seq(Pid)]
    /\ er \in [Recursos -> Seq(Pid)] /\ ea \in [Archivos -> Seq(Pid)]
    /\ m \in [Hilos -> Pid \cup {Nadie}] /\ i \subseteq Pid
    /\ EnUnLugar(ListaDe(c, er, ea, m, i), V)

LEMMA ColaQuita ==
    ASSUME NEW c, NEW er, NEW ea, NEW m, NEW i, NEW V, Bien(c, er, ea, m, i, V),
           NEW q \in Colas, NEW z \in Seq(Pid), SinRepetidos(z),
           NEW Q, Q \subseteq Ocupantes(c[q]),
           Ocupantes(z) = Ocupantes(c[q]) \ Q
    PROVE  Bien([c EXCEPT ![q] = z], er, ea, m, i, V \ Q) /\ Q \subseteq V
<1>. DEFINE L == ListaDe(c, er, ea, m, i)
            M == ListaDe([c EXCEPT ![q] = z], er, ea, m, i)
            x == <<"cola", q>>
<1>1. x \in Sitios /\ L[x] = c[q] /\ M[x] = z
  BY DEF ListaDe, Sitios, Bien
<1>2. \A s \in Sitios \ {x} : M[s] = L[s]
  BY DEF ListaDe, Sitios, Bien
<1>3. EnUnLugar(L, V)
  BY DEF Bien
<1>4. EnUnLugar(M, V \ Q) /\ Q \subseteq V
  <2>. HIDE DEF L, M, x
  <2>. QED  BY <1>1, <1>2, <1>3, Quita
<1>. QED  BY <1>4 DEF Bien

LEMMA ColaSaca ==
    ASSUME NEW c, NEW er, NEW ea, NEW m, NEW i, NEW V, Bien(c, er, ea, m, i, V),
           NEW q \in Colas, c[q] # <<>>
    PROVE  /\ Bien(Saca(c, q), er, ea, m, i, V \ {Head(c[q])})
           /\ Head(c[q]) \in V
<1>1. c[q] \in Seq(Pid) /\ SinRepetidos(c[q])
  <2>1. <<"cola", q>> \in Sitios /\ ListaDe(c, er, ea, m, i)[<<"cola", q>>] = c[q]
    BY DEF ListaDe, Sitios
  <2>. QED  BY <2>1 DEF Bien, EnUnLugar
<1>. DEFINE z == Tail(c[q])
            Q == {Head(c[q])}
<1>2. /\ z \in Seq(Pid) /\ SinRepetidos(z) /\ Q \subseteq Ocupantes(c[q])
      /\ Ocupantes(z) = Ocupantes(c[q]) \ Q
  BY <1>1, ColaDeLista
<1>3. Saca(c, q) = [c EXCEPT ![q] = z]
  BY DEF Saca
<1>4. Bien([c EXCEPT ![q] = z], er, ea, m, i, V \ Q) /\ Q \subseteq V
  <2>. HIDE DEF z, Q
  <2>. QED  BY <1>2, ColaQuita
<1>. QED  BY <1>3, <1>4

LEMMA ColaAgrega ==
    ASSUME NEW c, NEW er, NEW ea, NEW m, NEW i, NEW V, Bien(c, er, ea, m, i, V),
           NEW q \in Colas, NEW p \in Pid, p \notin V
    PROVE  Bien(Agrega(c, q, p), er, ea, m, i, V \cup {p})
<1>. DEFINE L == ListaDe(c, er, ea, m, i)
            M == ListaDe(Agrega(c, q, p), er, ea, m, i)
            x == <<"cola", q>>
<1>1. /\ x \in Sitios /\ L[x] = c[q] /\ M[x] = Append(c[q], p)
      /\ c[q] \in Seq(Pid)
  BY DEF ListaDe, Sitios, Bien, Agrega
<1>2. \A s \in Sitios \ {x} : M[s] = L[s]
  BY DEF ListaDe, Sitios, Bien, Agrega
<1>3. EnUnLugar(L, V)
  BY DEF Bien
<1>4. SinRepetidos(c[q]) /\ p \notin Ocupantes(c[q])
  BY <1>1, <1>3 DEF EnUnLugar
<1>5. /\ Append(c[q], p) \in Seq(Pid) /\ SinRepetidos(Append(c[q], p))
      /\ Ocupantes(Append(c[q], p)) = Ocupantes(c[q]) \cup {p}
  BY <1>1, <1>4, FinDeLista
<1>6. EnUnLugar(M, V \cup {p})
  <2>. HIDE DEF L, M, x
  <2>. QED  BY <1>1, <1>2, <1>3, <1>5, Pone
<1>7. Agrega(c, q, p) \in [Colas -> Seq(Pid)]
  BY <1>5 DEF Bien, Agrega
<1>. QED  BY <1>6, <1>7 DEF Bien

LEMMA RecursoSaca ==
    ASSUME NEW c, NEW er, NEW ea, NEW m, NEW i, NEW V, Bien(c, er, ea, m, i, V),
           NEW r \in Recursos, er[r] # <<>>
    PROVE  /\ Bien(c, [er EXCEPT ![r] = Tail(@)], ea, m, i, V \ {Head(er[r])})
           /\ Head(er[r]) \in V
<1>. DEFINE L == ListaDe(c, er, ea, m, i)
            M == ListaDe(c, [er EXCEPT ![r] = Tail(@)], ea, m, i)
            x == <<"recurso", r>>
            Q == {Head(er[r])}
<1>1. /\ x \in Sitios /\ L[x] = er[r] /\ M[x] = Tail(er[r])
      /\ er[r] \in Seq(Pid)
  BY DEF ListaDe, Sitios, Bien
<1>2. \A s \in Sitios \ {x} : M[s] = L[s]
  BY DEF ListaDe, Sitios, Bien
<1>3. EnUnLugar(L, V)
  BY DEF Bien
<1>4. SinRepetidos(er[r])
  BY <1>1, <1>3 DEF EnUnLugar
<1>5. /\ Tail(er[r]) \in Seq(Pid) /\ SinRepetidos(Tail(er[r]))
      /\ Q \subseteq Ocupantes(er[r])
      /\ Ocupantes(Tail(er[r])) = Ocupantes(er[r]) \ Q
  BY <1>1, <1>4, ColaDeLista
<1>6. EnUnLugar(M, V \ Q) /\ Q \subseteq V
  <2>1. /\ SinRepetidos(M[x]) /\ Q \subseteq Ocupantes(L[x])
        /\ Ocupantes(M[x]) = Ocupantes(L[x]) \ Q
    BY <1>1, <1>5
  <2>. HIDE DEF L, M, x, Q
  <2>. QED  BY <1>1, <1>2, <1>3, <2>1, Quita
<1>7. [er EXCEPT ![r] = Tail(@)] \in [Recursos -> Seq(Pid)]
  BY <1>5 DEF Bien
<1>. QED  BY <1>6, <1>7 DEF Bien

LEMMA RecursoAgrega ==
    ASSUME NEW c, NEW er, NEW ea, NEW m, NEW i, NEW V, Bien(c, er, ea, m, i, V),
           NEW r \in Recursos, NEW p \in Pid, p \notin V
    PROVE  Bien(c, [er EXCEPT ![r] = Append(@, p)], ea, m, i, V \cup {p})
<1>. DEFINE L == ListaDe(c, er, ea, m, i)
            M == ListaDe(c, [er EXCEPT ![r] = Append(@, p)], ea, m, i)
            x == <<"recurso", r>>
<1>1. /\ x \in Sitios /\ L[x] = er[r] /\ M[x] = Append(er[r], p)
      /\ er[r] \in Seq(Pid)
  BY DEF ListaDe, Sitios, Bien
<1>2. \A s \in Sitios \ {x} : M[s] = L[s]
  BY DEF ListaDe, Sitios, Bien
<1>3. EnUnLugar(L, V)
  BY DEF Bien
<1>4. SinRepetidos(er[r]) /\ p \notin Ocupantes(er[r])
  BY <1>1, <1>3 DEF EnUnLugar
<1>5. /\ Append(er[r], p) \in Seq(Pid) /\ SinRepetidos(Append(er[r], p))
      /\ Ocupantes(Append(er[r], p)) = Ocupantes(er[r]) \cup {p}
  BY <1>1, <1>4, FinDeLista
<1>6. EnUnLugar(M, V \cup {p})
  <2>. HIDE DEF L, M, x
  <2>. QED  BY <1>1, <1>2, <1>3, <1>5, Pone
<1>7. [er EXCEPT ![r] = Append(@, p)] \in [Recursos -> Seq(Pid)]
  BY <1>5 DEF Bien
<1>. QED  BY <1>6, <1>7 DEF Bien

LEMMA ArchivoSaca ==
    ASSUME NEW c, NEW er, NEW ea, NEW m, NEW i, NEW V, Bien(c, er, ea, m, i, V),
           NEW a \in Archivos, ea[a] # <<>>
    PROVE  /\ Bien(c, er, [ea EXCEPT ![a] = Tail(@)], m, i, V \ {Head(ea[a])})
           /\ Head(ea[a]) \in V
<1>. DEFINE L == ListaDe(c, er, ea, m, i)
            M == ListaDe(c, er, [ea EXCEPT ![a] = Tail(@)], m, i)
            x == <<"archivo", a>>
            Q == {Head(ea[a])}
<1>1. /\ x \in Sitios /\ L[x] = ea[a] /\ M[x] = Tail(ea[a])
      /\ ea[a] \in Seq(Pid)
  BY DEF ListaDe, Sitios, Bien
<1>2. \A s \in Sitios \ {x} : M[s] = L[s]
  BY DEF ListaDe, Sitios, Bien
<1>3. EnUnLugar(L, V)
  BY DEF Bien
<1>4. SinRepetidos(ea[a])
  BY <1>1, <1>3 DEF EnUnLugar
<1>5. /\ Tail(ea[a]) \in Seq(Pid) /\ SinRepetidos(Tail(ea[a]))
      /\ Q \subseteq Ocupantes(ea[a])
      /\ Ocupantes(Tail(ea[a])) = Ocupantes(ea[a]) \ Q
  BY <1>1, <1>4, ColaDeLista
<1>6. EnUnLugar(M, V \ Q) /\ Q \subseteq V
  <2>1. /\ SinRepetidos(M[x]) /\ Q \subseteq Ocupantes(L[x])
        /\ Ocupantes(M[x]) = Ocupantes(L[x]) \ Q
    BY <1>1, <1>5
  <2>. HIDE DEF L, M, x, Q
  <2>. QED  BY <1>1, <1>2, <1>3, <2>1, Quita
<1>7. [ea EXCEPT ![a] = Tail(@)] \in [Archivos -> Seq(Pid)]
  BY <1>5 DEF Bien
<1>. QED  BY <1>6, <1>7 DEF Bien

LEMMA ArchivoAgrega ==
    ASSUME NEW c, NEW er, NEW ea, NEW m, NEW i, NEW V, Bien(c, er, ea, m, i, V),
           NEW a \in Archivos, NEW p \in Pid, p \notin V
    PROVE  Bien(c, er, [ea EXCEPT ![a] = Append(@, p)], m, i, V \cup {p})
<1>. DEFINE L == ListaDe(c, er, ea, m, i)
            M == ListaDe(c, er, [ea EXCEPT ![a] = Append(@, p)], m, i)
            x == <<"archivo", a>>
<1>1. /\ x \in Sitios /\ L[x] = ea[a] /\ M[x] = Append(ea[a], p)
      /\ ea[a] \in Seq(Pid)
  BY DEF ListaDe, Sitios, Bien
<1>2. \A s \in Sitios \ {x} : M[s] = L[s]
  BY DEF ListaDe, Sitios, Bien
<1>3. EnUnLugar(L, V)
  BY DEF Bien
<1>4. SinRepetidos(ea[a]) /\ p \notin Ocupantes(ea[a])
  BY <1>1, <1>3 DEF EnUnLugar
<1>5. /\ Append(ea[a], p) \in Seq(Pid) /\ SinRepetidos(Append(ea[a], p))
      /\ Ocupantes(Append(ea[a], p)) = Ocupantes(ea[a]) \cup {p}
  BY <1>1, <1>4, FinDeLista
<1>6. EnUnLugar(M, V \cup {p})
  <2>. HIDE DEF L, M, x
  <2>. QED  BY <1>1, <1>2, <1>3, <1>5, Pone
<1>7. [ea EXCEPT ![a] = Append(@, p)] \in [Archivos -> Seq(Pid)]
  BY <1>5 DEF Bien
<1>. QED  BY <1>6, <1>7 DEF Bien

LEMMA ManoSuelta ==
    ASSUME NEW c, NEW er, NEW ea, NEW m, NEW i, NEW V, Bien(c, er, ea, m, i, V),
           NEW h \in Hilos, m[h] # Nadie
    PROVE  /\ Bien(c, er, ea, [m EXCEPT ![h] = Nadie], i, V \ {m[h]})
           /\ m[h] \in V
<1>. DEFINE L == ListaDe(c, er, ea, m, i)
            M == ListaDe(c, er, ea, [m EXCEPT ![h] = Nadie], i)
            x == <<"hilo", h>>
            Q == {m[h]}
<1>1. x \in Sitios /\ L[x] = <<m[h]>> /\ M[x] = <<>>
  BY DEF ListaDe, Sitios, Bien
<1>2. \A s \in Sitios \ {x} : M[s] = L[s]
  BY DEF ListaDe, Sitios, Bien
<1>3. EnUnLugar(L, V)
  BY DEF Bien
<1>4. /\ SinRepetidos(M[x]) /\ Q \subseteq Ocupantes(L[x])
      /\ Ocupantes(M[x]) = Ocupantes(L[x]) \ Q
  BY <1>1, ListaVacia, ListaDeUno
<1>5. EnUnLugar(M, V \ Q) /\ Q \subseteq V
  <2>. HIDE DEF L, M, x, Q
  <2>. QED  BY <1>1, <1>2, <1>3, <1>4, Quita
<1>. QED  BY <1>5 DEF Bien

LEMMA ManoToma ==
    ASSUME NEW c, NEW er, NEW ea, NEW m, NEW i, NEW V, Bien(c, er, ea, m, i, V),
           NEW h \in Hilos, m[h] = Nadie, NEW p \in Pid, p \notin V
    PROVE  Bien(c, er, ea, [m EXCEPT ![h] = p], i, V \cup {p})
<1>. DEFINE L == ListaDe(c, er, ea, m, i)
            M == ListaDe(c, er, ea, [m EXCEPT ![h] = p], i)
            x == <<"hilo", h>>
<1>1. x \in Sitios /\ L[x] = <<>> /\ M[x] = <<p>>
  BY KernelAssumption DEF ListaDe, Sitios, Bien
<1>2. \A s \in Sitios \ {x} : M[s] = L[s]
  BY DEF ListaDe, Sitios, Bien
<1>3. EnUnLugar(L, V)
  BY DEF Bien
<1>4. SinRepetidos(M[x]) /\ Ocupantes(M[x]) = Ocupantes(L[x]) \cup {p}
  BY <1>1, ListaVacia, ListaDeUno
<1>5. EnUnLugar(M, V \cup {p})
  <2>. HIDE DEF L, M, x
  <2>. QED  BY <1>1, <1>2, <1>3, <1>4, Pone
<1>. QED  BY <1>5 DEF Bien

LEMMA IoSale ==
    ASSUME NEW c, NEW er, NEW ea, NEW m, NEW i, NEW V, Bien(c, er, ea, m, i, V),
           NEW p \in i
    PROVE  Bien(c, er, ea, m, i \ {p}, V \ {p}) /\ p \in V
<1>. DEFINE L == ListaDe(c, er, ea, m, i)
            M == ListaDe(c, er, ea, m, i \ {p})
            x == <<"io", p>>
            Q == {p}
<1>1. x \in Sitios /\ L[x] = <<p>> /\ M[x] = <<>>
  BY DEF ListaDe, Sitios, Bien
<1>2. \A s \in Sitios \ {x} : M[s] = L[s]
  BY DEF ListaDe, Sitios, Bien
<1>3. EnUnLugar(L, V)
  BY DEF Bien
<1>4. /\ SinRepetidos(M[x]) /\ Q \subseteq Ocupantes(L[x])
      /\ Ocupantes(M[x]) = Ocupantes(L[x]) \ Q
  BY <1>1, ListaVacia, ListaDeUno
<1>5. EnUnLugar(M, V \ Q) /\ Q \subseteq V
  <2>. HIDE DEF L, M, x, Q
  <2>. QED  BY <1>1, <1>2, <1>3, <1>4, Quita
<1>. QED  BY <1>5 DEF Bien

LEMMA IoEntra ==
    ASSUME NEW c, NEW er, NEW ea, NEW m, NEW i, NEW V, Bien(c, er, ea, m, i, V),
           NEW p \in Pid, p \notin V
    PROVE  Bien(c, er, ea, m, i \cup {p}, V \cup {p})
<1>. DEFINE L == ListaDe(c, er, ea, m, i)
            M == ListaDe(c, er, ea, m, i \cup {p})
            x == <<"io", p>>
<1>1. x \in Sitios /\ M[x] = <<p>>
  BY DEF ListaDe, Sitios, Bien
<1>2. \A s \in Sitios \ {x} : M[s] = L[s]
  BY DEF ListaDe, Sitios, Bien
<1>3. EnUnLugar(L, V)
  BY DEF Bien
<1>4. L[x] = <<>> \/ L[x] = <<p>>
  BY DEF ListaDe, Sitios, Bien
<1>5. SinRepetidos(M[x]) /\ Ocupantes(M[x]) = Ocupantes(L[x]) \cup {p}
  BY <1>1, <1>4, ListaVacia, ListaDeUno
<1>6. EnUnLugar(M, V \cup {p})
  <2>. HIDE DEF L, M, x
  <2>. QED  BY <1>1, <1>2, <1>3, <1>5, Pone
<1>. QED  BY <1>6 DEF Bien

-----------------------------------------------------------------------------
(* A PCB passes from the head of a list to the end of a list.              *)
LEMMA Pasa ==
    ASSUME NEW c, NEW er, NEW ea, NEW m, NEW i, NEW V, Bien(c, er, ea, m, i, V),
           NEW q \in Colas, c[q] # <<>>, NEW d \in Colas
    PROVE  Bien(Agrega(Saca(c, q), d, Head(c[q])), er, ea, m, i, V)
<1>. DEFINE p == Head(c[q])
<1>1. p \in Pid
  BY DEF Bien
<1>2. Bien(Saca(c, q), er, ea, m, i, V \ {p}) /\ p \in V
  BY ColaSaca
<1>3. Bien(Agrega(Saca(c, q), d, p), er, ea, m, i, (V \ {p}) \cup {p})
  <2>. HIDE DEF p
  <2>. QED  BY <1>1, <1>2, ColaAgrega
<1>4. (V \ {p}) \cup {p} = V
  BY <1>2
<1>. QED  BY <1>3, <1>4

(* The state as a whole. *)
EnLugar == Bien(cola, enRecurso, enArchivo, EnMano, io, Vivos)

LEMMA EnLugarEs ==
    ASSUME TypeOK
    PROVE  EnLugar <=> CadaPcbEnUnLugar
<1>1. EnMano \in [Hilos -> Pid \cup {Nadie}]
  BY DEF EnMano, TypeOK, TipoListas
<1>2. Lista = ListaDe(cola, enRecurso, enArchivo, EnMano, io)
  BY DEF Lista, ListaDe
<1>. QED  BY <1>1, <1>2 DEF TypeOK, TipoListas, TipoRecursos, TipoArchivos,
             EnLugar, Bien, CadaPcbEnUnLugar

(* Where the threads' hands do not change, and what a change of state does *)
(* to the set of live processes.                                           *)
LEMMA ManoIgual ==
    ASSUME UNCHANGED <<mano, pcCpu>>,
           pcCpu # "fOpen" \/ cola'["blockFs"] = cola["blockFs"]
    PROVE  EnMano' = EnMano
BY DEF EnMano

LEMMA ManoCambia ==
    ASSUME TypeOK, NEW h \in Hilos \ {"cpu"}, NEW x,
           mano' = [mano EXCEPT ![h] = x], UNCHANGED pcCpu,
           pcCpu # "fOpen" \/ cola'["blockFs"] = cola["blockFs"]
    PROVE  EnMano' = [EnMano EXCEPT ![h] = x]
BY DEF EnMano, TypeOK, TipoListas, Hilos

LEMMA ManoCpu ==
    ASSUME TypeOK, NEW x, mano' = [mano EXCEPT !["cpu"] = x],
           pcCpu' # "fOpen"
    PROVE  EnMano' = [EnMano EXCEPT !["cpu"] = x]
BY DEF EnMano, TypeOK, TipoListas, Hilos

LEMMA VivosIgual ==
    ASSUME TypeOK, UNCHANGED perdidos,
           \/ UNCHANGED estado
           \/ \E p \in Vivos, e \in Estados \ {"NO_CREADO", "DESTRUIDO"} :
                estado' = [estado EXCEPT ![p] = e]
    PROVE  Vivos' = Vivos
BY DEF Vivos, TypeOK, TipoPcb

-----------------------------------------------------------------------------
(* An F_OPEN in flight is the one the CPU thread waits for, and the answer *)
(* it is told of has left cola_block_fs: what makes the reference that the *)
(* thread keeps and the list the same place.                               *)
Apertura ==
    /\ sem["finFOpen"] \in {0, 1}
    /\ sem["finFOpen"] = 1 =>
         pcCpu = "fOpen" /\ mano["cpu"] \notin Ocupantes(cola["blockFs"])
    /\ \A x \in Ocupantes(EnVuelo) :
         x.op = "F_OPEN" <=> pcCpu = "fOpen" /\ x.pid = mano["cpu"]

PerdidosCreados == \A p \in perdidos : estado[p] # "NO_CREADO"

(* The steps of the planning threads. *)
LEMMA LugarPlanes ==
    ASSUME TypeOK, FichaExec, PerdidosCreados, EnLugar,
           \/ \E p \in Pid : ArmarPcb(p) \/ FinIO(p)
           \/ HiloReady \/ HiloBlock \/ HiloExec \/ HiloExit
    PROVE  EnLugar'
<1>. DEFINE E == EnMano
            V == Vivos
            B(c, m, i, W) == Bien(c, enRecurso, enArchivo, m, i, W)
<1>0. /\ B(cola, E, io, V) /\ E \in [Hilos -> Pid \cup {Nadie}]
      /\ V \subseteq Pid /\ Nadie \notin Pid
  BY KernelAssumption DEF EnLugar, Bien, Vivos
<1>r. E["ready"] = mano["ready"] /\ E["block"] = mano["block"]
      /\ E["exec"] = mano["exec"]
  BY DEF EnMano, Hilos
<1>c. \A q \in Colas : cola[q] # <<>> => Head(cola[q]) \in Pid
  BY DEF TypeOK, TipoListas
<1>n. {"listos", "ready", "exec", "block", "exit"} \subseteq Colas
      /\ {"ready", "block", "exec"} \subseteq Hilos
  BY DEF Colas, Hilos
<1>1. ASSUME NEW p \in Pid, ArmarPcb(p) PROVE EnLugar'
  <2>1. p \notin V /\ Vivos' = V \cup {p}
    BY <1>1 DEF ArmarPcb, Vivos, TypeOK, TipoPcb, PerdidosCreados
  <2>2. B(Agrega(cola, "listos", p), E, io, V \cup {p})
    BY <1>0, <1>n, <2>1, ColaAgrega
  <2>3. EnMano' = E
    BY <1>1, ManoIgual DEF ArmarPcb, Agrega, TypeOK, TipoListas, Colas, hiloCpu
  <2>. QED  BY <1>1, <2>1, <2>2, <2>3 DEF ArmarPcb, EnLugar, recursos, archivos
<1>2. ASSUME NEW p \in Pid, FinIO(p) PROVE EnLugar'
  <2>1. Vivos' = V /\ p \in io
    BY <1>2 DEF FinIO, Vivos, pcbs
  <2>2. B(cola, E, io \ {p}, V \ {p}) /\ p \in V
    BY <1>0, <2>1, IoSale
  <2>3. B(Agrega(cola, "block", p), E, io \ {p}, (V \ {p}) \cup {p})
    BY <1>n, <2>2, ColaAgrega
  <2>4. EnMano' = E
    BY <1>2, ManoIgual DEF FinIO, Agrega, TypeOK, TipoListas, Colas, hiloCpu
  <2>5. (V \ {p}) \cup {p} = V
    BY <2>2
  <2>. QED  BY <1>2, <2>1, <2>3, <2>4, <2>5 DEF FinIO, EnLugar, recursos, archivos
<1>3. ASSUME ReadyToma PROVE EnLugar'
  <2>. DEFINE p == Head(cola["listos"])
  <2>0. cola["listos"] # <<>> /\ p \in Pid
    BY <1>3, <1>c, <1>n DEF ReadyToma
  <2>1. Vivos' = V
    BY <1>3 DEF ReadyToma, Vivos, pcbs
  <2>2. B(Saca(cola, "listos"), E, io, V \ {p}) /\ p \in V
    BY <1>0, <1>n, <2>0, ColaSaca
  <2>3. B(Saca(cola, "listos"), [E EXCEPT !["ready"] = p], io, (V \ {p}) \cup {p})
    BY <1>3, <1>r, <1>n, <2>0, <2>2, ManoToma DEF ReadyToma
  <2>4. EnMano' = [E EXCEPT !["ready"] = p]
    BY <1>3, ManoCambia DEF ReadyToma, Saca, TypeOK, TipoListas, Colas, Hilos,
       hiloCpu
  <2>5. (V \ {p}) \cup {p} = V
    BY <2>2
  <2>. QED  BY <1>3, <2>1, <2>3, <2>4, <2>5 DEF ReadyToma, EnLugar, recursos, archivos
<1>4. ASSUME ReadyAdmite PROVE EnLugar'
  <2>. DEFINE p == mano["ready"]
  <2>0. p # Nadie /\ p \in Pid
    BY <1>4, <1>n DEF ReadyAdmite, TypeOK, TipoListas
  <2>1. B(cola, [E EXCEPT !["ready"] = Nadie], io, V \ {p}) /\ p \in V
    <3>1. E["ready"] = p /\ E["ready"] # Nadie
      BY <1>r, <2>0
    <3>2. /\ B(cola, [E EXCEPT !["ready"] = Nadie], io, V \ {E["ready"]})
          /\ E["ready"] \in V
      <4>. HIDE DEF E, V
      <4>. QED  BY <1>0, <1>n, <3>1, ManoSuelta
    <3>. QED  BY <3>1, <3>2
  <2>2. B(Agrega(cola, "ready", p), [E EXCEPT !["ready"] = Nadie], io, (V \ {p}) \cup {p})
    BY <1>n, <2>0, <2>1, ColaAgrega
  <2>3. Vivos' = V
    <3>1. estado' = [estado EXCEPT ![p] = "READY"] /\ UNCHANGED perdidos
      BY <1>4 DEF ReadyAdmite
    <3>. QED  BY <2>1, <3>1, VivosIgual DEF Estados
  <2>4. EnMano' = [E EXCEPT !["ready"] = Nadie]
    BY <1>4, ManoCambia DEF ReadyAdmite, Agrega, TypeOK, TipoListas, Colas, Hilos,
       hiloCpu
  <2>5. (V \ {p}) \cup {p} = V
    BY <2>1
  <2>. QED  BY <1>4, <2>2, <2>3, <2>4, <2>5 DEF ReadyAdmite, EnLugar, recursos, archivos
<1>5. ASSUME BlockToma PROVE EnLugar'
  <2>. DEFINE p == Head(cola["block"])
  <2>0. cola["block"] # <<>> /\ p \in Pid
    BY <1>5, <1>c, <1>n DEF BlockToma
  <2>1. Vivos' = V
    BY <1>5 DEF BlockToma, Vivos, pcbs
  <2>2. B(Saca(cola, "block"), E, io, V \ {p}) /\ p \in V
    BY <1>0, <1>n, <2>0, ColaSaca
  <2>3. B(Saca(cola, "block"), [E EXCEPT !["block"] = p], io, (V \ {p}) \cup {p})
    BY <1>5, <1>r, <1>n, <2>0, <2>2, ManoToma DEF BlockToma
  <2>4. EnMano' = [E EXCEPT !["block"] = p]
    BY <1>5, ManoCambia DEF BlockToma, Saca, TypeOK, TipoListas, Colas, Hilos,
       hiloCpu
  <2>5. (V \ {p}) \cup {p} = V
    BY <2>2
  <2>. QED  BY <1>5, <2>1, <2>3, <2>4, <2>5 DEF BlockToma, EnLugar, recursos, archivos
<1>6. ASSUME BlockDevuelve PROVE EnLugar'
  <2>. DEFINE p == mano["block"]
  <2>0. p # Nadie /\ p \in Pid
    BY <1>6, <1>n DEF BlockDevuelve, TypeOK, TipoListas
  <2>1. B(cola, [E EXCEPT !["block"] = Nadie], io, V \ {p}) /\ p \in V
    <3>1. E["block"] = p /\ E["block"] # Nadie
      BY <1>r, <2>0
    <3>2. /\ B(cola, [E EXCEPT !["block"] = Nadie], io, V \ {E["block"]})
          /\ E["block"] \in V
      <4>. HIDE DEF E, V
      <4>. QED  BY <1>0, <1>n, <3>1, ManoSuelta
    <3>. QED  BY <3>1, <3>2
  <2>2. B(Agrega(cola, "ready", p), [E EXCEPT !["block"] = Nadie], io, (V \ {p}) \cup {p})
    BY <1>n, <2>0, <2>1, ColaAgrega
  <2>3. Vivos' = V
    <3>1. estado' = [estado EXCEPT ![p] = "READY"] /\ UNCHANGED perdidos
      BY <1>6 DEF BlockDevuelve
    <3>. QED  BY <2>1, <3>1, VivosIgual DEF Estados
  <2>4. EnMano' = [E EXCEPT !["block"] = Nadie]
    BY <1>6, ManoCambia DEF BlockDevuelve, Agrega, TypeOK, TipoListas, Colas, Hilos,
       hiloCpu
  <2>5. (V \ {p}) \cup {p} = V
    BY <2>1
  <2>. QED  BY <1>6, <2>2, <2>3, <2>4, <2>5 DEF BlockDevuelve, EnLugar, recursos, archivos
<1>7. ASSUME ExecElige PROVE EnLugar'
  <2>1. PICK i \in DOMAIN cola["ready"] :
          /\ mano' = [mano EXCEPT !["exec"] = cola["ready"][i]]
          /\ cola' = [cola EXCEPT !["ready"] = SinIndice(@, i)]
    BY <1>7 DEF ExecElige, Elegibles
  <2>. DEFINE l == cola["ready"]
              p == l[i]
              z == SinIndice(l, i)
              Q == {p}
  <2>2. l \in Seq(Pid) /\ p \in Pid
    BY <1>n, ElementOfSeq, LenProperties DEF TypeOK, TipoListas
  <2>3. SinRepetidos(l)
    <3>1. <<"cola", "ready">> \in Sitios
          /\ ListaDe(cola, enRecurso, enArchivo, E, io)[<<"cola", "ready">>] = l
      BY <1>n DEF ListaDe, Sitios
    <3>. QED  BY <1>0, <3>1 DEF Bien, EnUnLugar
  <2>4. /\ z \in Seq(Pid) /\ SinRepetidos(z) /\ {p} \subseteq Ocupantes(l)
        /\ Ocupantes(z) = Ocupantes(l) \ {p}
    BY <2>2, <2>3, SinElIndice
  <2>5. B([cola EXCEPT !["ready"] = z], E, io, V \ {p}) /\ p \in V
    <3>1. Q \subseteq Ocupantes(cola["ready"])
          /\ Ocupantes(z) = Ocupantes(cola["ready"]) \ Q
      BY <2>4
    <3>2. B([cola EXCEPT !["ready"] = z], E, io, V \ Q) /\ Q \subseteq V
      <4>. HIDE DEF z, Q, E, V
      <4>. QED  BY <1>0, <1>n, <2>4, <3>1, ColaQuita, SMTT(20)
    <3>. QED  BY <3>2
  <2>6. E["exec"] = Nadie
    BY <1>7, <1>r DEF ExecElige
  <2>7. B([cola EXCEPT !["ready"] = z], [E EXCEPT !["exec"] = p], io,
          (V \ {p}) \cup {p})
    <3>. HIDE DEF z, p
    <3>. QED  BY <1>n, <2>2, <2>5, <2>6, ManoToma
  <2>8. EnMano' = [E EXCEPT !["exec"] = p]
    BY <1>7, <2>1, ManoCambia DEF ExecElige, TypeOK, TipoListas, Colas, Hilos,
       hiloCpu
  <2>9. (V \ {p}) \cup {p} = V /\ Vivos' = V
    BY <1>7, <2>5 DEF ExecElige, Vivos, pcbs
  <2>. QED  BY <1>7, <2>1, <2>7, <2>8, <2>9
            DEF ExecElige, EnLugar, recursos, archivos
<1>8. ASSUME ExecDespacha PROVE EnLugar'
  <2>. DEFINE p == mano["exec"]
  <2>0. p # Nadie /\ p \in Pid
    BY <1>8, <1>n DEF ExecDespacha, TypeOK, TipoListas
  <2>1. B(cola, [E EXCEPT !["exec"] = Nadie], io, V \ {p}) /\ p \in V
    <3>1. E["exec"] = p /\ E["exec"] # Nadie
      BY <1>r, <2>0
    <3>2. /\ B(cola, [E EXCEPT !["exec"] = Nadie], io, V \ {E["exec"]})
          /\ E["exec"] \in V
      <4>. HIDE DEF E, V
      <4>. QED  BY <1>0, <1>n, <3>1, ManoSuelta
    <3>. QED  BY <3>1, <3>2
  <2>2. B(Agrega(cola, "exec", p), [E EXCEPT !["exec"] = Nadie], io, (V \ {p}) \cup {p})
    BY <1>n, <2>0, <2>1, ColaAgrega
  <2>3. Vivos' = V
    <3>1. estado' = [estado EXCEPT ![p] = "EXEC"] /\ UNCHANGED perdidos
      BY <1>8 DEF ExecDespacha
    <3>. QED  BY <2>1, <3>1, VivosIgual DEF Estados
  <2>4. EnMano' = [E EXCEPT !["exec"] = Nadie]
    BY <1>8, ManoCambia DEF ExecDespacha, Agrega, TypeOK, TipoListas, Colas, Hilos,
       hiloCpu
  <2>5. (V \ {p}) \cup {p} = V
    BY <2>1
  <2>. QED  BY <1>8, <2>2, <2>3, <2>4, <2>5 DEF ExecDespacha, EnLugar, recursos, archivos
<1>9. ASSUME HiloExit PROVE EnLugar'
  <2>. DEFINE p == Head(cola["exit"])
  <2>0. cola["exit"] # <<>> /\ p \in Pid
    BY <1>9, <1>c, <1>n DEF HiloExit
  <2>1. B(Saca(cola, "exit"), E, io, V \ {p}) /\ p \in V
    BY <1>0, <1>n, <2>0, ColaSaca
  <2>2. Vivos' = V \ {p}
    BY <1>9, <2>0 DEF HiloExit, Vivos, TypeOK, TipoPcb
  <2>3. EnMano' = E
    BY <1>9, ManoIgual DEF HiloExit, Saca, TypeOK, TipoListas, Colas, hiloCpu
  <2>. QED  BY <1>9, <2>1, <2>2, <2>3 DEF HiloExit, EnLugar, recursos
<1>. QED
  BY <1>1, <1>2, <1>3, <1>4, <1>5, <1>6, <1>7, <1>8, <1>9
     DEF HiloReady, HiloBlock, HiloExec

(* The operations the CPU asks for: none happens during an F_OPEN. *)
LEMMA LugarInstruccion ==
    ASSUME TypeOK, FichaExec, EnLugar, NEW p \in Pid, InstruccionCpu(p)
    PROVE  EnLugar'
<1>. DEFINE E == EnMano
            V == Vivos
            B(c, er, ea, m, i, W) == Bien(c, er, ea, m, i, W)
            Quieto == UNCHANGED <<mano, pcCpu>>
<1>0. /\ Bien(cola, enRecurso, enArchivo, E, io, V)
      /\ E \in [Hilos -> Pid \cup {Nadie}]
      /\ V \subseteq Pid /\ Nadie \notin Pid
  BY KernelAssumption DEF EnLugar, Bien, Vivos
<1>n. {"exec", "ready", "exit", "block", "blockFs"} \subseteq Colas
      /\ "cpu" \in Hilos
  BY DEF Colas, Hilos
<1>r. /\ cola["exec"] # <<>> /\ p = Head(cola["exec"]) /\ pcCpu = "recv"
      /\ mano["cpu"] = Nadie /\ E["cpu"] = Nadie
  BY DEF InstruccionCpu, Yield, Exit, SegFault, Termina, ManejarIO,
     RecursoFallido, WaitObtiene, WaitBloquea, SignalLibera, SignalDespierta,
     FOpenPide, FOpenBloquea, FClose, FSeek, FTruncate, FRwRecibe,
     SegmentoCreado, SinMemoria, PideCompactar, DeleteSegment, Recibe,
     FichaExec, ConPcbEnMano, EnMano, Hilos
<1>s. /\ Bien(Saca(cola, "exec"), enRecurso, enArchivo, E, io, V \ {p})
      /\ p \in V /\ (V \ {p}) \cup {p} = V
  <2>1. /\ Bien(Saca(cola, "exec"), enRecurso, enArchivo, E, io,
                V \ {Head(cola["exec"])})
        /\ Head(cola["exec"]) \in V
    <3>. HIDE DEF E, V
    <3>. QED  BY <1>0, <1>n, <1>r, ColaSaca
  <2>. QED  BY <1>r, <2>1
<1>p. ASSUME NEW q \in Colas
      PROVE  Bien(Agrega(Saca(cola, "exec"), q, p), enRecurso, enArchivo, E, io, V)
  <2>. HIDE DEF E, V
  <2>. QED  BY <1>0, <1>n, <1>r, Pasa
<1>m. Quieto => EnMano' = E
  BY <1>r, ManoIgual
<1>v. ASSUME UNCHANGED perdidos,
             \/ UNCHANGED estado
             \/ \E e \in Estados \ {"NO_CREADO", "DESTRUIDO"} :
                  estado' = [estado EXCEPT ![p] = e]
      PROVE  Vivos' = V
  BY <1>s, <1>v, VivosIgual
<1>e. {"READY", "BLOCK", "FINISH_EXIT", "FINISH_ERROR"}
      \subseteq Estados \ {"NO_CREADO", "DESTRUIDO"}
  BY DEF Estados
<1>. HIDE DEF E, V
<1>1. ASSUME NEW q \in Colas, cola' = Agrega(Saca(cola, "exec"), q, p),
             UNCHANGED <<enRecurso, enArchivo, io>>, EnMano' = E, Vivos' = V
      PROVE  EnLugar'
  BY <1>1, <1>p DEF EnLugar
<1>2. ASSUME Yield(p) PROVE EnLugar'
  BY <1>1, <1>2, <1>n, <1>m, <1>v, <1>e
     DEF Yield, Desaloja, hiloCpu, recursos, archivos
<1>3. ASSUME Exit(p) \/ SegFault(p) PROVE EnLugar'
  BY <1>1, <1>3, <1>n, <1>m, <1>v, <1>e
     DEF Exit, SegFault, Termina, Desaloja, hiloCpu, recursos, archivos
<1>4. ASSUME NEW r \in Pedidos, RecursoFallido(p, r) PROVE EnLugar'
  BY <1>1, <1>4, <1>n, <1>m, <1>v DEF RecursoFallido, Desaloja, hiloCpu, archivos
<1>5. ASSUME SinMemoria(p) PROVE EnLugar'
  BY <1>1, <1>5, <1>n, <1>m, <1>v
     DEF SinMemoria, Desaloja, hiloCpu, recursos, archivos
<1>6. ASSUME FTruncate(p) PROVE EnLugar'
  BY <1>1, <1>6, <1>n, <1>m, <1>v, <1>e
     DEF FTruncate, Desaloja, hiloCpu, recursos, archivos
<1>7. ASSUME NEW r \in Pedidos, WaitObtiene(p, r) \/ SignalLibera(p, r)
      PROVE  EnLugar'
  BY <1>1, <1>7, <1>n, <1>m, <1>v
     DEF WaitObtiene, SignalLibera, Reanuda, hiloCpu, archivos, pcbs
<1>8. ASSUME NEW a \in Archivos, FSeek(p, a) PROVE EnLugar'
  BY <1>1, <1>8, <1>n, <1>m, <1>v DEF FSeek, Reanuda, hiloCpu, recursos, pcbs
<1>9. ASSUME SegmentoCreado(p) \/ DeleteSegment(p) PROVE EnLugar'
  BY <1>1, <1>9, <1>n, <1>m, <1>v
     DEF SegmentoCreado, DeleteSegment, Reanuda, hiloCpu, recursos, archivos,
         pcbs
<1>10. ASSUME ManejarIO(p) PROVE EnLugar'
  <2>1. Bien(Saca(cola, "exec"), enRecurso, enArchivo, E, io \cup {p},
             (V \ {p}) \cup {p})
    BY <1>s, IoEntra
  <2>2. Vivos' = V /\ EnMano' = E
    BY <1>10, <1>m, <1>v, <1>e DEF ManejarIO, hiloCpu
  <2>. QED  BY <1>10, <1>s, <2>1, <2>2 DEF ManejarIO, EnLugar, recursos, archivos
<1>11. ASSUME NEW r \in Pedidos, WaitBloquea(p, r) PROVE EnLugar'
  <2>0. r \in Recursos
    BY <1>11 DEF WaitBloquea
  <2>1. Bien(Saca(cola, "exec"), [enRecurso EXCEPT ![r] = Append(@, p)],
             enArchivo, E, io, (V \ {p}) \cup {p})
    BY <1>s, <2>0, RecursoAgrega
  <2>2. Vivos' = V /\ EnMano' = E
    BY <1>11, <1>m, <1>v, <1>e DEF WaitBloquea, hiloCpu
  <2>. QED  BY <1>11, <1>s, <2>1, <2>2 DEF WaitBloquea, EnLugar, archivos
<1>12. ASSUME NEW a \in Archivos, FOpenBloquea(p, a) PROVE EnLugar'
  <2>1. Bien(Saca(cola, "exec"), enRecurso,
             [enArchivo EXCEPT ![a] = Append(@, p)], E, io, (V \ {p}) \cup {p})
    BY <1>s, ArchivoAgrega
  <2>2. Vivos' = V /\ EnMano' = E
    BY <1>12, <1>m, <1>v, <1>e DEF FOpenBloquea, hiloCpu
  <2>. QED  BY <1>12, <1>s, <2>1, <2>2 DEF FOpenBloquea, EnLugar, recursos
<1>13. ASSUME NEW d \in V, NEW er, NEW ea,
              Bien(cola, er, ea, E, io, V \ {d})
       PROVE  Bien(Agrega(Saca(Agrega(cola, "block", d), "exec"), "exec", p),
                   er, ea, E, io, V)
  <2>. DEFINE c == Agrega(cola, "block", d)
  <2>1. Bien(c, er, ea, E, io, (V \ {d}) \cup {d}) /\ (V \ {d}) \cup {d} = V
    <3>1. d \in Pid
      BY <1>0
    <3>. QED  BY <1>13, <1>n, <3>1, ColaAgrega
  <2>2. c["exec"] = cola["exec"]
    BY DEF Agrega, TypeOK, TipoListas, Colas
  <2>. HIDE DEF c
  <2>3. Bien(Agrega(Saca(c, "exec"), "exec", Head(c["exec"])), er, ea, E, io, V)
    BY <1>n, <1>r, <2>1, <2>2, Pasa
  <2>. QED  BY <1>r, <2>2, <2>3 DEF c
<1>14. ASSUME NEW r \in Pedidos, SignalDespierta(p, r) PROVE EnLugar'
  <2>. DEFINE d == Head(enRecurso[r])
  <2>1. r \in Recursos /\ enRecurso[r] # <<>>
    BY <1>14 DEF SignalDespierta
  <2>2. /\ Bien(cola, [enRecurso EXCEPT ![r] = Tail(@)], enArchivo, E, io,
                V \ {d})
        /\ d \in V
    BY <1>0, <2>1, RecursoSaca
  <2>3. cola' = Agrega(Saca(Agrega(cola, "block", d), "exec"), "exec", p)
    BY <1>14 DEF SignalDespierta, Reanuda
  <2>4. Vivos' = V /\ EnMano' = E
    BY <1>14, <1>m, <1>v DEF SignalDespierta, hiloCpu, pcbs
  <2>5. /\ enRecurso' = [enRecurso EXCEPT ![r] = Tail(@)]
        /\ UNCHANGED <<enArchivo, io>>
    BY <1>14 DEF SignalDespierta, archivos
  <2>. HIDE DEF d
  <2>. QED  BY <1>13, <2>2, <2>3, <2>4, <2>5 DEF EnLugar
<1>15. ASSUME NEW a \in Archivos, FClose(p, a) PROVE EnLugar'
  <2>1. Vivos' = V /\ EnMano' = E /\ UNCHANGED <<enRecurso, io>>
    BY <1>15, <1>m, <1>v DEF FClose, hiloCpu, pcbs, recursos
  <2>2. CASE enArchivo[a] = <<>>
    BY <1>1, <1>15, <1>n, <2>1, <2>2 DEF FClose, Reanuda
  <2>3. CASE enArchivo[a] # <<>>
    <3>. DEFINE d == Head(enArchivo[a])
    <3>1. /\ Bien(cola, enRecurso, [enArchivo EXCEPT ![a] = Tail(@)], E, io,
                  V \ {d})
          /\ d \in V
      BY <1>0, <2>3, ArchivoSaca
    <3>2. /\ cola' = Agrega(Saca(Agrega(cola, "block", d), "exec"), "exec", p)
          /\ enArchivo' = [enArchivo EXCEPT ![a] = Tail(@)]
      BY <1>15, <2>3 DEF FClose, Reanuda
    <3>. HIDE DEF d
    <3>. QED  BY <1>13, <2>1, <3>1, <3>2 DEF EnLugar
  <2>. QED  BY <2>2, <2>3
<1>16. ASSUME FRwRecibe(p) \/ PideCompactar(p) PROVE EnLugar'
  <2>1. Bien(Saca(cola, "exec"), enRecurso, enArchivo, [E EXCEPT !["cpu"] = p],
             io, (V \ {p}) \cup {p})
    BY <1>n, <1>r, <1>s, ManoToma
  <2>2. Vivos' = V
    BY <1>16, <1>v DEF FRwRecibe, PideCompactar, pcbs
  <2>3. mano' = [mano EXCEPT !["cpu"] = p] /\ pcCpu' # "fOpen"
    BY <1>16 DEF FRwRecibe, PideCompactar
  <2>4. EnMano' = [E EXCEPT !["cpu"] = p]
    BY <2>3, ManoCpu DEF E
  <2>. QED  BY <1>16, <1>s, <2>1, <2>2, <2>4
            DEF FRwRecibe, PideCompactar, EnLugar, recursos, archivos
<1>17. ASSUME NEW a \in Archivos, FOpenPide(p, a) PROVE EnLugar'
  <2>1. cola' = Agrega(Saca(cola, "exec"), "blockFs", p) /\ Vivos' = V
    BY <1>17, <1>v DEF FOpenPide, Desaloja, pcbs
  <2>2. p \in Ocupantes(cola'["blockFs"])
    <3>1. cola'["blockFs"] = Append(cola["blockFs"], p)
          /\ cola["blockFs"] \in Seq(Pid)
      BY <2>1 DEF Agrega, Saca, TypeOK, TipoListas, Colas
    <3>2. Len(cola["blockFs"]) + 1 \in DOMAIN cola'["blockFs"]
          /\ cola'["blockFs"][Len(cola["blockFs"]) + 1] = p
      BY <3>1, AppendProperties, LenProperties
    <3>. QED  BY <3>2 DEF Ocupantes
  <2>3. mano' = [mano EXCEPT !["cpu"] = p] /\ pcCpu' = "fOpen"
    BY <1>17 DEF FOpenPide
  <2>4. EnMano' = E
    BY <1>r, <2>2, <2>3 DEF E, EnMano, TypeOK, TipoListas, Hilos
  <2>. QED  BY <1>1, <1>17, <1>n, <2>1, <2>4 DEF FOpenPide, recursos, archivos
<1>. QED
  BY <1>2, <1>3, <1>4, <1>5, <1>6, <1>7, <1>8, <1>9, <1>10, <1>11, <1>12,
     <1>14, <1>15, <1>16, <1>17 DEF InstruccionCpu

(* The rest of the CPU thread's steps. *)
LEMMA LugarHiloCpu ==
    ASSUME TypeOK, FichaExec, ContextoDeSuPcb, Apertura, EnLugar,
           \/ FOpenFin \/ FRwCarga \/ FRwGuarda \/ CompactaInicia
           \/ \E M \in SUBSET conSegmentos : CompactaFin(M)
           \/ ActualizaCola \/ CompactaSigue
    PROVE  EnLugar'
<1>. DEFINE E == EnMano
            V == Vivos
            p == mano["cpu"]
<1>0. /\ Bien(cola, enRecurso, enArchivo, E, io, V)
      /\ E \in [Hilos -> Pid \cup {Nadie}]
      /\ V \subseteq Pid /\ Nadie \notin Pid
  BY KernelAssumption DEF EnLugar, Bien, Vivos
<1>n. {"exec", "blockFs"} \subseteq Colas /\ "cpu" \in Hilos
  BY DEF Colas, Hilos
<1>1. ASSUME p # Nadie, E["cpu"] = p, NEW q \in Colas,
             cola' = Agrega(cola, q, p), mano' = [mano EXCEPT !["cpu"] = Nadie],
             pcCpu' # "fOpen", UNCHANGED <<enRecurso, enArchivo, io, perdidos>>,
             UNCHANGED estado \/ estado' = [estado EXCEPT ![p] = "BLOCK"]
      PROVE  EnLugar'
  <2>1. /\ Bien(cola, enRecurso, enArchivo, [E EXCEPT !["cpu"] = Nadie], io,
                V \ {E["cpu"]})
        /\ E["cpu"] \in V
    <3>. HIDE DEF E, V
    <3>. QED  BY <1>0, <1>1, <1>n, ManoSuelta
  <2>2. p \in V /\ p \in Pid /\ (V \ {p}) \cup {p} = V
    BY <1>0, <1>1, <2>1
  <2>3. Bien(Agrega(cola, q, p), enRecurso, enArchivo,
             [E EXCEPT !["cpu"] = Nadie], io, (V \ {p}) \cup {p})
    <3>. HIDE DEF E, V, p
    <3>. QED  BY <1>1, <2>1, <2>2, ColaAgrega
  <2>4. Vivos' = V
    BY <1>1, <2>2, VivosIgual DEF Estados
  <2>5. EnMano' = [E EXCEPT !["cpu"] = Nadie]
    BY <1>1, ManoCpu
  <2>. QED  BY <1>1, <2>2, <2>3, <2>4, <2>5 DEF EnLugar
<1>2. pcCpu # "fOpen" => E["cpu"] = p
  BY DEF EnMano, Hilos
<1>3. ASSUME FOpenFin PROVE EnLugar'
  <2>1. sem["finFOpen"] = 1 /\ pcCpu = "fOpen"
    BY <1>3 DEF FOpenFin, Apertura
  <2>2. p # Nadie /\ E["cpu"] = p
    BY <2>1 DEF Apertura, FichaExec, ConPcbEnMano, EnMano, Hilos
  <2>. HIDE DEF E
  <2>. QED  BY <1>1, <1>3, <1>n, <2>2 DEF FOpenFin, recursos, pcbs
<1>4. ASSUME FRwGuarda PROVE EnLugar'
  <2>1. p # Nadie /\ E["cpu"] = p
    BY <1>2, <1>4 DEF FRwGuarda, FichaExec, ConPcbEnMano
  <2>. HIDE DEF E
  <2>. QED  BY <1>1, <1>4, <1>n, <2>1 DEF FRwGuarda, recursos, archivos
<1>5. ASSUME NEW M \in SUBSET conSegmentos, CompactaFin(M) PROVE EnLugar'
  <2>1. p # Nadie /\ E["cpu"] = p
    BY <1>2, <1>5 DEF CompactaFin, FichaExec, ConPcbEnMano
  <2>. HIDE DEF E
  <2>. QED  BY <1>1, <1>5, <1>n, <2>1
            DEF CompactaFin, recursos, archivos, pcbs
<1>6. ASSUME FRwCarga \/ CompactaInicia \/ ActualizaCola PROVE EnLugar'
  <2>1. pcCpu # "fOpen" /\ pcCpu' # "fOpen"
        /\ UNCHANGED <<cola, mano, enRecurso, enArchivo, io, estado, perdidos>>
    BY <1>6 DEF FRwCarga, CompactaInicia, ActualizaCola, recursos, archivos, pcbs
  <2>2. EnMano' = EnMano /\ Vivos' = Vivos
    BY <2>1 DEF EnMano, Vivos
  <2>. QED  BY <2>1, <2>2 DEF EnLugar
<1>7. ASSUME CompactaSigue PROVE EnLugar'
  <2>1. /\ Bien(Agrega(Saca(cola, "exec"), "exec", Head(cola["exec"])),
                enRecurso, enArchivo, E, io, V)
    <3>1. cola["exec"] # <<>>
      BY <1>7 DEF CompactaSigue
    <3>. HIDE DEF E, V
    <3>. QED  BY <1>0, <1>n, <3>1, Pasa
  <2>2. EnMano' = E
    BY <1>7 DEF CompactaSigue, EnMano
  <2>3. Vivos' = V
    BY <1>7 DEF CompactaSigue, Vivos, pcbs
  <2>. QED  BY <1>7, <2>1, <2>2, <2>3
            DEF CompactaSigue, Reanuda, EnLugar, recursos, archivos
<1>. QED  BY <1>3, <1>4, <1>5, <1>6, <1>7

(* The thread of the file system, with the lost updates of its list_add. *)
LEMMA LugarHiloFs ==
    ASSUME TypeOK, FichaExec, RespuestaDeSuProceso, Apertura, EnLugar, HiloFs
    PROVE  EnLugar'
<1>. DEFINE E == EnMano
            V == Vivos
<1>0. /\ Bien(cola, enRecurso, enArchivo, E, io, V)
      /\ E \in [Hilos -> Pid \cup {Nadie}]
      /\ V \subseteq Pid /\ Nadie \notin Pid
  BY KernelAssumption DEF EnLugar, Bien, Vivos
<1>n. {"block", "blockFs"} \subseteq Colas /\ {"cpu", "fs"} \subseteq Hilos
  BY DEF Colas, Hilos
<1>l. ASSUME NEW q \in Colas
      PROVE  cola[q] \in Seq(Pid) /\ SinRepetidos(cola[q])
  <2>1. <<"cola", q>> \in Sitios
        /\ ListaDe(cola, enRecurso, enArchivo, E, io)[<<"cola", q>>] = cola[q]
    BY DEF ListaDe, Sitios
  <2>. QED  BY <1>0, <2>1 DEF Bien, EnUnLugar
<1>f. E["fs"] = mano["fs"]
  BY DEF EnMano, Hilos
<1>1. ASSUME FsRecibe PROVE EnLugar'
  <2>. DEFINE l == cola["blockFs"]
              p == Head(l)
              r == Head(respuestas)
  <2>0. /\ l # <<>> /\ l \in Seq(Pid) /\ p \in Pid /\ respuestas # <<>>
        /\ Ocupantes(Tail(l)) = Ocupantes(l) \ {p} /\ p \in Ocupantes(l)
    BY <1>1, <1>l, <1>n, ColaDeLista DEF FsRecibe
  <2>1. /\ Bien(Saca(cola, "blockFs"), enRecurso, enArchivo, E, io, V \ {p})
        /\ p \in V /\ (V \ {p}) \cup {p} = V
    <3>1. /\ Bien(Saca(cola, "blockFs"), enRecurso, enArchivo, E, io,
                  V \ {Head(cola["blockFs"])})
          /\ Head(cola["blockFs"]) \in V
      <4>. HIDE DEF E, V
      <4>. QED  BY <1>0, <1>n, <2>0, ColaSaca
    <3>. QED  BY <3>1
  <2>2. /\ cola' = Saca(cola, "blockFs") /\ cola'["blockFs"] = Tail(l)
        /\ Vivos' = V /\ UNCHANGED <<enRecurso, enArchivo, io, pcCpu>>
    BY <1>1, <1>n DEF FsRecibe, Saca, Vivos, TypeOK, TipoListas, recursos,
       archivos, hiloCpu, pcbs
  <2>3. r.op = "F_OPEN" <=> pcCpu = "fOpen" /\ p = mano["cpu"]
    <3>1. respuestas \in Seq(Peticion) /\ peticiones \in Seq(Peticion)
          /\ EnVuelo \in Seq(Peticion)
      BY ConcatProperties DEF TypeOK, TipoExternos, EnVuelo
    <3>2. Head(EnVuelo) = r
      BY <2>0, <3>1, VueloLlega DEF EnVuelo
    <3>3. Len(EnVuelo) = Len(l) /\ Len(l) \in Nat \ {0}
      BY <2>0, EmptySeq, LenProperties DEF RespuestaDeSuProceso
    <3>4. 1 \in DOMAIN EnVuelo /\ Head(EnVuelo) = EnVuelo[1] /\ Head(l) = l[1]
      BY <2>0, <3>1, <3>3, LenProperties
    <3>. QED  BY <3>2, <3>4 DEF Apertura, RespuestaDeSuProceso, Ocupantes
  <2>4. CASE r.op = "F_OPEN"
    <3>1. mano' = mano
      BY <1>1, <2>4 DEF FsRecibe
    <3>2. E["cpu"] = Nadie
      BY <1>n, <2>0, <2>3, <2>4 DEF EnMano
    <3>3. Bien(Saca(cola, "blockFs"), enRecurso, enArchivo,
               [E EXCEPT !["cpu"] = p], io, (V \ {p}) \cup {p})
      <4>. HIDE DEF E, V, p
      <4>. QED  BY <1>n, <2>0, <2>1, <3>2, ManoToma
    <3>4. EnMano' = [E EXCEPT !["cpu"] = p]
      BY <2>0, <2>2, <2>3, <2>4, <3>1 DEF EnMano, TypeOK, TipoListas, Hilos
    <3>. QED  BY <2>1, <2>2, <3>3, <3>4 DEF EnLugar
  <2>5. CASE r.op # "F_OPEN"
    <3>1. mano' = [mano EXCEPT !["fs"] = p] /\ pcFs = "recv"
      BY <1>1, <2>5 DEF FsRecibe
    <3>2. E["fs"] = Nadie
      BY <1>f, <3>1 DEF FichaExec
    <3>3. Bien(Saca(cola, "blockFs"), enRecurso, enArchivo,
               [E EXCEPT !["fs"] = p], io, (V \ {p}) \cup {p})
      <4>. HIDE DEF E, V, p
      <4>. QED  BY <1>n, <2>0, <2>1, <3>2, ManoToma
    <3>4. EnMano' = [E EXCEPT !["fs"] = p]
      <4>1. pcCpu = "fOpen" => p # mano["cpu"]
        BY <2>3, <2>5
      <4>. QED  BY <2>0, <2>2, <3>1, <4>1 DEF EnMano, TypeOK, TipoListas, Hilos
    <3>. QED  BY <2>1, <2>2, <3>3, <3>4 DEF EnLugar
  <2>. QED  BY <2>4, <2>5
<1>2. ASSUME FsGuarda \/ FsPrueba PROVE EnLugar'
  <2>1. UNCHANGED <<cola, mano, pcCpu, enRecurso, enArchivo, io, estado, perdidos>>
    BY <1>2 DEF FsGuarda, FsPrueba, recursos, archivos, hiloCpu, pcbs
  <2>2. EnMano' = EnMano /\ Vivos' = Vivos
    BY <2>1 DEF EnMano, Vivos
  <2>. QED  BY <2>1, <2>2 DEF EnLugar
<1>3. ASSUME FsAgrega PROVE EnLugar'
  <2>. DEFINE p == mano["fs"]
              b == cola["block"]
              S == [E EXCEPT !["fs"] = Nadie]
  <2>0. p # Nadie /\ p \in Pid /\ E["fs"] = p
    BY <1>3, <1>f, <1>n DEF FsAgrega, FichaExec, TypeOK, TipoListas
  <2>1. Bien(cola, enRecurso, enArchivo, S, io, V \ {p}) /\ p \in V
    <3>1. /\ Bien(cola, enRecurso, enArchivo, S, io, V \ {E["fs"]})
          /\ E["fs"] \in V
      <4>. HIDE DEF E, V
      <4>. QED  BY <1>0, <1>n, <2>0, ManoSuelta
    <3>. QED  BY <2>0, <3>1
  <2>2. /\ cola'["blockFs"] = cola["blockFs"]
        /\ UNCHANGED <<enRecurso, enArchivo, io, pcCpu, estado>>
    BY <1>3 DEF FsAgrega, Agrega, TypeOK, TipoListas, Colas, recursos, archivos,
       hiloCpu, pcbs
  <2>3. EnMano' = S
    <3>1. mano' = [mano EXCEPT !["fs"] = Nadie]
      BY <1>3 DEF FsAgrega
    <3>. QED  BY <1>n, <2>2, <3>1, ManoCambia
  <2>. HIDE DEF S
  <2>4. CASE cola' = Agrega(cola, "block", p) /\ UNCHANGED perdidos
    <3>1. Bien(Agrega(cola, "block", p), enRecurso, enArchivo, S, io,
               (V \ {p}) \cup {p})
      <4>. HIDE DEF V, p
      <4>. QED  BY <1>n, <2>0, <2>1, ColaAgrega
    <3>2. (V \ {p}) \cup {p} = V /\ Vivos' = V
      BY <2>1, <2>2, <2>4 DEF Vivos
    <3>. QED  BY <2>2, <2>3, <2>4, <3>1, <3>2 DEF EnLugar
  <2>5. CASE perdidos' = perdidos \cup {p} /\ UNCHANGED cola
    <3>1. Vivos' = V \ {p}
      BY <2>2, <2>5 DEF Vivos
    <3>. QED  BY <2>1, <2>2, <2>3, <2>5, <3>1 DEF EnLugar
  <2>6. ASSUME NEW i \in 0..(Len(b) - 1),
               cola' = [cola EXCEPT !["block"] = Append(SubSeq(b, 1, i), p)],
               perdidos' = perdidos \cup {b[j] : j \in (i + 1)..Len(b)}
        PROVE  EnLugar'
    <3>. DEFINE z == SubSeq(b, 1, i)
                Q == {b[j] : j \in (i + 1)..Len(b)}
                c == [cola EXCEPT !["block"] = z]
    <3>1. /\ z \in Seq(Pid) /\ SinRepetidos(z) /\ Q \subseteq Ocupantes(b)
          /\ Ocupantes(z) = Ocupantes(b) \ Q
      BY <1>l, <1>n, FrenteDeLista
    <3>2. /\ Bien(c, enRecurso, enArchivo, S, io, (V \ {p}) \ Q)
          /\ Q \subseteq V \ {p}
      <4>. HIDE DEF V, p, z, Q
      <4>. QED  BY <1>n, <2>1, <3>1, ColaQuita
    <3>3. Bien(Agrega(c, "block", p), enRecurso, enArchivo, S, io,
               ((V \ {p}) \ Q) \cup {p})
      <4>. HIDE DEF V, p, c, Q
      <4>. QED  BY <1>n, <2>0, <3>2, ColaAgrega
    <3>4. cola' = Agrega(c, "block", p)
      BY <1>n, <2>6 DEF Agrega, TypeOK, TipoListas
    <3>5. Vivos' = ((V \ {p}) \ Q) \cup {p}
      <4>1. Vivos' = V \ Q
        BY <2>2, <2>6 DEF Vivos
      <4>. HIDE DEF V, p, Q
      <4>. QED  BY <2>1, <3>2, <4>1
    <3>. QED  BY <2>2, <2>3, <3>3, <3>4, <3>5 DEF EnLugar
  <2>. QED  BY <1>3, <2>4, <2>5, <2>6 DEF FsAgrega
<1>. QED  BY <1>1, <1>2, <1>3 DEF HiloFs

LEMMA LugarPaso ==
    ASSUME TypeOK, FichaExec, ContextoDeSuPcb, RespuestaDeSuProceso, Apertura,
           PerdidosCreados, EnLugar, Next
    PROVE  EnLugar'
<1>1. ASSUME FsAtiende \/ Muere \/ Reposo PROVE EnLugar'
  <2>1. UNCHANGED <<cola, mano, pcCpu, enRecurso, enArchivo, io, estado, perdidos>>
    BY <1>1 DEF FsAtiende, Muere, Reposo, vars, recursos, archivos, hiloCpu, pcbs
  <2>2. EnMano' = EnMano /\ Vivos' = Vivos
    BY <2>1 DEF EnMano, Vivos
  <2>. QED  BY <2>1, <2>2 DEF EnLugar
<1>. QED
  BY <1>1, LugarPlanes, LugarInstruccion, LugarHiloCpu, LugarHiloFs
     DEF Next, HiloCpu

-----------------------------------------------------------------------------
(* Who touches the wait for the answer to F_OPEN. *)
LEMMA AperturaAjena ==
    ASSUME TypeOK, FichaExec, Next
    PROVE  \/ /\ sem'["finFOpen"] = sem["finFOpen"]
              /\ pcCpu' = "fOpen" <=> pcCpu = "fOpen"
              /\ pcCpu = "fOpen" => mano'["cpu"] = mano["cpu"]
           \/ \E p \in Pid, a \in Archivos : FOpenPide(p, a)
           \/ FOpenFin \/ FsRecibe
<1>. DEFINE Ajena == /\ sem'["finFOpen"] = sem["finFOpen"]
                     /\ pcCpu' = "fOpen" <=> pcCpu = "fOpen"
                     /\ pcCpu = "fOpen" => mano'["cpu"] = mano["cpu"]
            Meta == \/ Ajena \/ \E p \in Pid, a \in Archivos : FOpenPide(p, a)
                    \/ FOpenFin \/ FsRecibe
<1>. SUFFICES Meta
  OBVIOUS
<1>1. ASSUME NEW p \in Pid, ArmarPcb(p) PROVE Meta
  BY <1>1 DEF ArmarPcb, TypeOK, TipoListas, Colas, Hilos, Semaforos,
     Agrega, Saca, Post, Espera, hiloCpu, hiloFs, pcbs, fileSystem
<1>2. ASSUME NEW p \in Pid, FinIO(p) PROVE Meta
  BY <1>2 DEF FinIO, TypeOK, TipoListas, Colas, Hilos, Semaforos, Agrega,
     Saca, Post, Espera, hiloCpu, hiloFs, pcbs, fileSystem
<1>3. ASSUME ReadyToma PROVE Meta
  BY <1>3 DEF ReadyToma, TypeOK, TipoListas, Colas, Hilos, Semaforos,
     Agrega, Saca, Post, Espera, hiloCpu, hiloFs, pcbs, fileSystem
<1>4. ASSUME ReadyAdmite PROVE Meta
  BY <1>4 DEF ReadyAdmite, TypeOK, TipoListas, Colas, Hilos, Semaforos,
     Agrega, Saca, Post, Espera, hiloCpu, hiloFs, pcbs, fileSystem
<1>5. ASSUME BlockToma PROVE Meta
  BY <1>5 DEF BlockToma, TypeOK, TipoListas, Colas, Hilos, Semaforos,
     Agrega, Saca, Post, Espera, hiloCpu, hiloFs, pcbs, fileSystem
<1>6. ASSUME BlockDevuelve PROVE Meta
  BY <1>6 DEF BlockDevuelve, TypeOK, TipoListas, Colas, Hilos, Semaforos,
     Agrega, Saca, Post, Espera, hiloCpu, hiloFs, pcbs, fileSystem
<1>7. ASSUME ExecElige PROVE Meta
  BY <1>7 DEF ExecElige, Elegibles, TypeOK, TipoListas, Colas, Hilos,
     Semaforos, Agrega, Saca, Post, Espera, hiloCpu, hiloFs, pcbs,
     fileSystem
<1>8. ASSUME ExecDespacha PROVE Meta
  BY <1>8 DEF ExecDespacha, TypeOK, TipoListas, Colas, Hilos, Semaforos,
     Agrega, Saca, Post, Espera, hiloCpu, hiloFs, pcbs, fileSystem
<1>9. ASSUME HiloExit PROVE Meta
  BY <1>9 DEF HiloExit, TypeOK, TipoListas, Colas, Hilos, Semaforos,
     Agrega, Saca, Post, Espera, hiloCpu, hiloFs, pcbs, fileSystem
<1>10. ASSUME NEW p \in Pid, Yield(p) PROVE Meta
  BY <1>10 DEF Yield, Recibe, Desaloja, TypeOK, TipoListas, Colas, Hilos,
     Semaforos, Agrega, Saca, Post, Espera, hiloCpu, hiloFs, pcbs,
     fileSystem
<1>11. ASSUME NEW p \in Pid, Exit(p) \/ SegFault(p) PROVE Meta
  BY <1>11 DEF Exit, SegFault, Termina, Recibe, Desaloja, TypeOK,
     TipoListas, Colas, Hilos, Semaforos, Agrega, Saca, Post, Espera,
     hiloCpu, hiloFs, pcbs, fileSystem
<1>12. ASSUME NEW p \in Pid, ManejarIO(p) PROVE Meta
  BY <1>12 DEF ManejarIO, Recibe, TypeOK, TipoListas, Colas, Hilos,
     Semaforos, Agrega, Saca, Post, Espera, hiloCpu, hiloFs, pcbs,
     fileSystem
<1>13. ASSUME NEW p \in Pid, NEW r \in Pedidos, RecursoFallido(p, r)
      PROVE  Meta
  BY <1>13 DEF RecursoFallido, Recibe, Desaloja, TypeOK, TipoListas,
     Colas, Hilos, Semaforos, Agrega, Saca, Post, Espera, hiloCpu, hiloFs,
     pcbs, fileSystem
<1>14. ASSUME NEW p \in Pid, NEW r \in Pedidos,
             WaitObtiene(p, r) \/ SignalLibera(p, r)
      PROVE  Meta
  BY <1>14 DEF WaitObtiene, SignalLibera, Recibe, Reanuda, TypeOK,
     TipoListas, Colas, Hilos, Semaforos, Agrega, Saca, Post, Espera,
     hiloCpu, hiloFs, pcbs, fileSystem
<1>15. ASSUME NEW p \in Pid, NEW r \in Pedidos, WaitBloquea(p, r)
      PROVE  Meta
  BY <1>15 DEF WaitBloquea, Recibe, TypeOK, TipoListas, Colas, Hilos,
     Semaforos, Agrega, Saca, Post, Espera, hiloCpu, hiloFs, pcbs,
     fileSystem
<1>16. ASSUME NEW p \in Pid, NEW r \in Pedidos, SignalDespierta(p, r)
      PROVE  Meta
  BY <1>16 DEF SignalDespierta, Recibe, Reanuda, TipoRecursos, TypeOK,
     TipoListas, Colas, Hilos, Semaforos, Agrega, Saca, Post, Espera,
     hiloCpu, hiloFs, pcbs, fileSystem
<1>17. ASSUME NEW p \in Pid, NEW a \in Archivos, FOpenPide(p, a) PROVE Meta
  BY <1>17
<1>18. ASSUME NEW p \in Pid, NEW a \in Archivos, FOpenBloquea(p, a)
      PROVE  Meta
  BY <1>18 DEF FOpenBloquea, Recibe, TypeOK, TipoListas, Colas, Hilos,
     Semaforos, Agrega, Saca, Post, Espera, hiloCpu, hiloFs, pcbs,
     fileSystem
<1>19. ASSUME NEW p \in Pid, NEW a \in Archivos, FClose(p, a) PROVE Meta
  BY <1>19 DEF FClose, Recibe, Reanuda, TipoArchivos, TypeOK, TipoListas,
     Colas, Hilos, Semaforos, Agrega, Saca, Post, Espera, hiloCpu, hiloFs,
     pcbs, fileSystem
<1>20. ASSUME NEW p \in Pid, NEW a \in Archivos, FSeek(p, a) PROVE Meta
  BY <1>20 DEF FSeek, Recibe, Reanuda, TypeOK, TipoListas, Colas, Hilos,
     Semaforos, Agrega, Saca, Post, Espera, hiloCpu, hiloFs, pcbs,
     fileSystem
<1>21. ASSUME NEW p \in Pid, FTruncate(p) PROVE Meta
  BY <1>21 DEF FTruncate, Recibe, Desaloja, TypeOK, TipoListas, Colas,
     Hilos, Semaforos, Agrega, Saca, Post, Espera, hiloCpu, hiloFs, pcbs,
     fileSystem
<1>22. ASSUME NEW p \in Pid, FRwRecibe(p) \/ PideCompactar(p) PROVE Meta
  BY <1>22 DEF FRwRecibe, PideCompactar, Recibe, TypeOK, TipoListas,
     Colas, Hilos, Semaforos, Agrega, Saca, Post, Espera, hiloCpu, hiloFs,
     pcbs, fileSystem
<1>23. ASSUME NEW p \in Pid, SegmentoCreado(p) \/ DeleteSegment(p)
      PROVE  Meta
  BY <1>23 DEF SegmentoCreado, DeleteSegment, Recibe, Reanuda, TypeOK,
     TipoListas, Colas, Hilos, Semaforos, Agrega, Saca, Post, Espera,
     hiloCpu, hiloFs, pcbs, fileSystem
<1>24. ASSUME NEW p \in Pid, SinMemoria(p) PROVE Meta
  BY <1>24 DEF SinMemoria, Recibe, Desaloja, TypeOK, TipoListas, Colas,
     Hilos, Semaforos, Agrega, Saca, Post, Espera, hiloCpu, hiloFs, pcbs,
     fileSystem
<1>25. ASSUME FOpenFin PROVE Meta
  BY <1>25
<1>26. ASSUME FRwCarga \/ CompactaInicia \/ ActualizaCola PROVE Meta
  BY <1>26 DEF FRwCarga, CompactaInicia, ActualizaCola, TypeOK,
     TipoListas, Colas, Hilos, Semaforos, Agrega, Saca, Post, Espera,
     hiloCpu, hiloFs, pcbs, fileSystem
<1>27. ASSUME FRwGuarda PROVE Meta
  BY <1>27 DEF FRwGuarda, TypeOK, TipoListas, Colas, Hilos, Semaforos,
     Agrega, Saca, Post, Espera, hiloCpu, hiloFs, pcbs, fileSystem
<1>28. ASSUME NEW M \in SUBSET conSegmentos, CompactaFin(M) PROVE Meta
  BY <1>28 DEF CompactaFin, TypeOK, TipoListas, Colas, Hilos, Semaforos,
     Agrega, Saca, Post, Espera, hiloCpu, hiloFs, pcbs, fileSystem
<1>29. ASSUME CompactaSigue PROVE Meta
  BY <1>29 DEF CompactaSigue, Reanuda, TypeOK, TipoListas, Colas, Hilos,
     Semaforos, Agrega, Saca, Post, Espera, hiloCpu, hiloFs, pcbs,
     fileSystem
<1>30. ASSUME FsRecibe PROVE Meta
  BY <1>30
<1>31. ASSUME FsGuarda \/ FsPrueba PROVE Meta
  BY <1>31 DEF FsGuarda, FsPrueba, TypeOK, TipoListas, Colas, Hilos,
     Semaforos, Agrega, Saca, Post, Espera, hiloCpu, hiloFs, pcbs,
     fileSystem
<1>32. ASSUME FsAgrega PROVE Meta
  BY <1>32 DEF FsAgrega, TypeOK, TipoListas, Colas, Hilos, Semaforos,
     Agrega, Saca, Post, Espera, hiloCpu, hiloFs, pcbs, fileSystem
<1>33. ASSUME FsAtiende PROVE Meta
  BY <1>33 DEF FsAtiende, TypeOK, TipoListas, Colas, Hilos, Semaforos,
     Agrega, Saca, Post, Espera, hiloCpu, hiloFs, pcbs, fileSystem
<1>34. ASSUME Muere \/ Reposo PROVE Meta
  BY <1>34 DEF Muere, Reposo, vars, TypeOK, TipoListas, Colas, Hilos, Semaforos,
     Agrega, Saca, Post, Espera, hiloCpu, hiloFs, pcbs, fileSystem
<1>. HIDE DEF Meta
<1>. QED
  BY <1>1, <1>2, <1>3, <1>4, <1>5, <1>6, <1>7, <1>8, <1>9, <1>10, <1>11,
     <1>12, <1>13, <1>14, <1>15, <1>16, <1>17, <1>18, <1>19, <1>20, <1>21,
     <1>22, <1>23, <1>24, <1>25, <1>26, <1>27, <1>28, <1>29, <1>30, <1>31,
     <1>32, <1>33, <1>34 DEF Next, HiloReady, HiloBlock, HiloExec, HiloFs,
     HiloCpu, InstruccionCpu

LEMMA PerdidosPaso ==
    ASSUME TypeOK, FichaExec, EnLugar, PerdidosCreados, Next
    PROVE  PerdidosCreados'
<1>1. ASSUME NEW p \in Pid, ArmarPcb(p) PROVE PerdidosCreados'
  BY <1>1 DEF ArmarPcb, TypeOK, TipoPcb, TipoListas, PerdidosCreados, pcbs
<1>2. ASSUME NEW p \in Pid, FinIO(p) PROVE PerdidosCreados'
  BY <1>2 DEF FinIO, TypeOK, TipoPcb, TipoListas, PerdidosCreados, pcbs
<1>3. ASSUME ReadyToma PROVE PerdidosCreados'
  BY <1>3 DEF ReadyToma, TypeOK, TipoPcb, TipoListas, PerdidosCreados,
     pcbs
<1>4. ASSUME ReadyAdmite PROVE PerdidosCreados'
  BY <1>4 DEF ReadyAdmite, TypeOK, TipoPcb, TipoListas, PerdidosCreados,
     pcbs
<1>5. ASSUME BlockToma PROVE PerdidosCreados'
  BY <1>5 DEF BlockToma, TypeOK, TipoPcb, TipoListas, PerdidosCreados,
     pcbs
<1>6. ASSUME BlockDevuelve PROVE PerdidosCreados'
  BY <1>6 DEF BlockDevuelve, TypeOK, TipoPcb, TipoListas, PerdidosCreados,
     pcbs
<1>7. ASSUME ExecElige PROVE PerdidosCreados'
  BY <1>7 DEF ExecElige, Elegibles, TypeOK, TipoPcb, TipoListas,
     PerdidosCreados, pcbs
<1>8. ASSUME ExecDespacha PROVE PerdidosCreados'
  BY <1>8 DEF ExecDespacha, TypeOK, TipoPcb, TipoListas, PerdidosCreados,
     pcbs
<1>9. ASSUME HiloExit PROVE PerdidosCreados'
  BY <1>9 DEF HiloExit, TypeOK, TipoPcb, TipoListas, PerdidosCreados, pcbs
<1>10. ASSUME NEW p \in Pid, Yield(p) PROVE PerdidosCreados'
  BY <1>10 DEF Yield, Recibe, Desaloja, TypeOK, TipoPcb, TipoListas,
     PerdidosCreados, pcbs
<1>11. ASSUME NEW p \in Pid, Exit(p) \/ SegFault(p) PROVE PerdidosCreados'
  BY <1>11 DEF Exit, SegFault, Termina, Recibe, Desaloja, TypeOK, TipoPcb,
     TipoListas, PerdidosCreados, pcbs
<1>12. ASSUME NEW p \in Pid, ManejarIO(p) PROVE PerdidosCreados'
  BY <1>12 DEF ManejarIO, Recibe, TypeOK, TipoPcb, TipoListas,
     PerdidosCreados, pcbs
<1>13. ASSUME NEW p \in Pid, NEW r \in Pedidos, RecursoFallido(p, r)
      PROVE  PerdidosCreados'
  BY <1>13 DEF RecursoFallido, Recibe, Desaloja, TypeOK, TipoPcb,
     TipoListas, PerdidosCreados, pcbs
<1>14. ASSUME NEW p \in Pid, NEW r \in Pedidos,
             WaitObtiene(p, r) \/ SignalLibera(p, r)
      PROVE  PerdidosCreados'
  BY <1>14 DEF WaitObtiene, SignalLibera, Recibe, Reanuda, TypeOK,
     TipoPcb, TipoListas, PerdidosCreados, pcbs
<1>15. ASSUME NEW p \in Pid, NEW r \in Pedidos, WaitBloquea(p, r)
      PROVE  PerdidosCreados'
  BY <1>15 DEF WaitBloquea, Recibe, TypeOK, TipoPcb, TipoListas,
     PerdidosCreados, pcbs
<1>16. ASSUME NEW p \in Pid, NEW r \in Pedidos, SignalDespierta(p, r)
      PROVE  PerdidosCreados'
  BY <1>16 DEF SignalDespierta, Recibe, Reanuda, TipoRecursos, TypeOK,
     TipoPcb, TipoListas, PerdidosCreados, pcbs
<1>17. ASSUME NEW p \in Pid, NEW a \in Archivos, FOpenPide(p, a)
      PROVE  PerdidosCreados'
  BY <1>17 DEF FOpenPide, Recibe, Desaloja, TypeOK, TipoPcb, TipoListas,
     PerdidosCreados, pcbs
<1>18. ASSUME NEW p \in Pid, NEW a \in Archivos, FOpenBloquea(p, a)
      PROVE  PerdidosCreados'
  BY <1>18 DEF FOpenBloquea, Recibe, TypeOK, TipoPcb, TipoListas,
     PerdidosCreados, pcbs
<1>19. ASSUME NEW p \in Pid, NEW a \in Archivos, FClose(p, a)
      PROVE  PerdidosCreados'
  BY <1>19 DEF FClose, Recibe, Reanuda, TipoArchivos, TypeOK, TipoPcb,
     TipoListas, PerdidosCreados, pcbs
<1>20. ASSUME NEW p \in Pid, NEW a \in Archivos, FSeek(p, a)
      PROVE  PerdidosCreados'
  BY <1>20 DEF FSeek, Recibe, Reanuda, TypeOK, TipoPcb, TipoListas,
     PerdidosCreados, pcbs
<1>21. ASSUME NEW p \in Pid, FTruncate(p) PROVE PerdidosCreados'
  BY <1>21 DEF FTruncate, Recibe, Desaloja, TypeOK, TipoPcb, TipoListas,
     PerdidosCreados, pcbs
<1>22. ASSUME NEW p \in Pid, FRwRecibe(p) \/ PideCompactar(p)
      PROVE  PerdidosCreados'
  BY <1>22 DEF FRwRecibe, PideCompactar, Recibe, TypeOK, TipoPcb,
     TipoListas, PerdidosCreados, pcbs
<1>23. ASSUME NEW p \in Pid, SegmentoCreado(p) \/ DeleteSegment(p)
      PROVE  PerdidosCreados'
  BY <1>23 DEF SegmentoCreado, DeleteSegment, Recibe, Reanuda, TypeOK,
     TipoPcb, TipoListas, PerdidosCreados, pcbs
<1>24. ASSUME NEW p \in Pid, SinMemoria(p) PROVE PerdidosCreados'
  BY <1>24 DEF SinMemoria, Recibe, Desaloja, TypeOK, TipoPcb, TipoListas,
     PerdidosCreados, pcbs
<1>25. ASSUME FOpenFin PROVE PerdidosCreados'
  BY <1>25 DEF FOpenFin, FichaExec, TypeOK, TipoPcb, TipoListas,
     PerdidosCreados, pcbs
<1>26. ASSUME FRwCarga \/ CompactaInicia \/ ActualizaCola
      PROVE  PerdidosCreados'
  BY <1>26 DEF FRwCarga, CompactaInicia, ActualizaCola, TypeOK, TipoPcb,
     TipoListas, PerdidosCreados, pcbs
<1>27. ASSUME FRwGuarda PROVE PerdidosCreados'
  BY <1>27 DEF FRwGuarda, TypeOK, TipoPcb, TipoListas, PerdidosCreados,
     pcbs
<1>28. ASSUME NEW M \in SUBSET conSegmentos, CompactaFin(M)
      PROVE  PerdidosCreados'
  BY <1>28 DEF CompactaFin, TypeOK, TipoPcb, TipoListas, PerdidosCreados,
     pcbs
<1>29. ASSUME CompactaSigue PROVE PerdidosCreados'
  BY <1>29 DEF CompactaSigue, Reanuda, TypeOK, TipoPcb, TipoListas,
     PerdidosCreados, pcbs
<1>30. ASSUME FsRecibe PROVE PerdidosCreados'
  BY <1>30 DEF FsRecibe, TypeOK, TipoPcb, TipoListas, PerdidosCreados,
     pcbs
<1>31. ASSUME FsGuarda \/ FsPrueba PROVE PerdidosCreados'
  BY <1>31 DEF FsGuarda, FsPrueba, TypeOK, TipoPcb, TipoListas,
     PerdidosCreados, pcbs
<1>32. ASSUME FsAgrega PROVE PerdidosCreados'
  <2>1. mano["fs"] # Nadie => mano["fs"] \in Vivos
    <3>1. "fs" \in Hilos /\ EnMano["fs"] = mano["fs"]
      BY DEF Hilos, EnMano
    <3>. QED  BY <3>1, ManoSuelta DEF EnLugar
  <2>2. \A j \in DOMAIN cola["block"] : cola["block"][j] \in Vivos
    <3>1. <<"cola", "block">> \in Sitios
          /\ ListaDe(cola, enRecurso, enArchivo, EnMano, io)[<<"cola", "block">>]
               = cola["block"]
      BY DEF Sitios, Colas, ListaDe
    <3>. QED  BY <3>1 DEF EnLugar, Bien, EnUnLugar, Ocupantes
  <2>3. cola["block"] \in Seq(Pid)
    BY DEF TypeOK, TipoListas, Colas
  <2>4. DOMAIN cola["block"] = 1..Len(cola["block"]) /\ Len(cola["block"]) \in Nat
    BY <2>3, LenProperties
  <2>5. UNCHANGED estado /\ perdidos' \subseteq perdidos \cup Vivos
    BY <1>32, <2>1, <2>2, <2>4 DEF FsAgrega, FichaExec, pcbs
  <2>. QED  BY <2>5 DEF PerdidosCreados, Vivos
<1>33. ASSUME FsAtiende PROVE PerdidosCreados'
  BY <1>33 DEF FsAtiende, TypeOK, TipoPcb, TipoListas, PerdidosCreados,
     pcbs
<1>34. ASSUME Muere \/ Reposo PROVE PerdidosCreados'
  BY <1>34 DEF Muere, Reposo, vars, TypeOK, TipoPcb, TipoListas, PerdidosCreados,
     pcbs
<1>. QED
  BY <1>1, <1>2, <1>3, <1>4, <1>5, <1>6, <1>7, <1>8, <1>9, <1>10, <1>11,
     <1>12, <1>13, <1>14, <1>15, <1>16, <1>17, <1>18, <1>19, <1>20, <1>21,
     <1>22, <1>23, <1>24, <1>25, <1>26, <1>27, <1>28, <1>29, <1>30, <1>31,
     <1>32, <1>33, <1>34 DEF Next, HiloReady, HiloBlock, HiloExec, HiloFs,
     HiloCpu, InstruccionCpu

(* Requests in flight, as a set. *)
LEMMA VueloCrece ==
    ASSUME NEW r \in Seq(Peticion), NEW q \in Seq(Peticion), NEW x \in Peticion
    PROVE  Ocupantes(r \o Append(q, x)) = Ocupantes(r \o q) \cup {x}
<1>. DEFINE v == r \o q
<1>1. v \in Seq(Peticion) /\ r \o Append(q, x) = Append(v, x)
  BY VueloPide, ConcatProperties
<1>. HIDE DEF v
<1>2. /\ Len(v) \in Nat /\ DOMAIN v = 1..Len(v)
      /\ Append(v, x) \in Seq(Peticion) /\ Len(Append(v, x)) = Len(v) + 1
      /\ Append(v, x)[Len(v) + 1] = x
      /\ \A i \in 1..Len(v) : Append(v, x)[i] = v[i]
  BY <1>1, AppendProperties, LenProperties
<1>3. DOMAIN Append(v, x) = 1..(Len(v) + 1)
  BY <1>2, LenProperties
<1>4. \A i \in 1..(Len(v) + 1) : i \in 1..Len(v) \/ i = Len(v) + 1
  BY <1>2
<1>5. Len(v) + 1 \in 1..(Len(v) + 1) /\ 1..Len(v) \subseteq 1..(Len(v) + 1)
  BY <1>2
<1>6. Ocupantes(Append(v, x)) = Ocupantes(v) \cup {x}
  BY <1>2, <1>3, <1>4, <1>5 DEF Ocupantes
<1>. QED  BY <1>1, <1>6 DEF v

LEMMA VueloMengua ==
    ASSUME NEW v \in Seq(Peticion), v # <<>>
    PROVE  Head(v) \in Ocupantes(v) /\ Ocupantes(Tail(v)) \subseteq Ocupantes(v)
<1>1. /\ Tail(v) \in Seq(Peticion) /\ Len(Tail(v)) = Len(v) - 1
      /\ Len(v) \in Nat \ {0}
      /\ \A i \in 1..(Len(v) - 1) : Tail(v)[i] = v[i + 1]
  BY HeadTailProperties, EmptySeq, LenProperties
<1>2. DOMAIN v = 1..Len(v) /\ DOMAIN Tail(v) = 1..(Len(v) - 1)
  BY <1>1, LenProperties
<1>3. \A i \in 1..(Len(v) - 1) : i + 1 \in 1..Len(v)
  BY <1>1
<1>4. Head(v) = v[1] /\ 1 \in DOMAIN v
  BY <1>1, <1>2
<1>. QED  BY <1>1, <1>2, <1>3, <1>4 DEF Ocupantes

(* The wait for F_OPEN, step by step. *)
LEMMA AperturaPaso ==
    ASSUME TypeOK, FichaExec, RespuestaDeSuProceso, Apertura, EnLugar, Next
    PROVE  Apertura'
<1>. DEFINE l == cola["blockFs"]
            W == Ocupantes(EnVuelo)
<1>0. /\ l \in Seq(Pid) /\ respuestas \in Seq(Peticion)
      /\ peticiones \in Seq(Peticion) /\ EnVuelo \in Seq(Peticion)
      /\ sem["finFOpen"] \in Nat
  BY ConcatProperties
     DEF TypeOK, TipoListas, TipoExternos, Colas, Semaforos, EnVuelo
<1>1. \A x \in W : x.pid \in Ocupantes(l)
  <2>1. Len(EnVuelo) = Len(l) /\ DOMAIN EnVuelo = DOMAIN l
    BY <1>0, LenProperties DEF RespuestaDeSuProceso
  <2>. QED  BY <2>1 DEF RespuestaDeSuProceso, Ocupantes
<1>2. ASSUME NEW p \in Pid,
             \/ p = Head(cola["exec"]) /\ cola["exec"] # <<>>
             \/ p = mano["cpu"] /\ pcCpu # "fOpen"
      PROVE  p \notin Ocupantes(l)
  <2>1. /\ <<"cola", "blockFs">> \in Sitios /\ <<"cola", "exec">> \in Sitios
        /\ <<"hilo", "cpu">> \in Sitios
        /\ Lista[<<"cola", "blockFs">>] = l
        /\ Lista[<<"cola", "exec">>] = cola["exec"]
        /\ cola["exec"] \in Seq(Pid)
    BY DEF Sitios, Colas, Hilos, Lista, TypeOK, TipoListas
  <2>2. CadaPcbEnUnLugar
    BY EnLugarEs
  <2>3. CASE p = Head(cola["exec"]) /\ cola["exec"] # <<>>
    <3>1. p \in Ocupantes(cola["exec"])
      BY <2>1, <2>2, <2>3, ColaDeLista DEF CadaPcbEnUnLugar, EnUnLugar
    <3>. QED  BY <2>1, <2>2, <3>1 DEF CadaPcbEnUnLugar, EnUnLugar
  <2>4. CASE p = mano["cpu"] /\ pcCpu # "fOpen"
    <3>1. Lista[<<"hilo", "cpu">>] = <<p>>
      BY <2>1, <2>4, KernelAssumption DEF Lista, EnMano, Hilos
    <3>2. Ocupantes(<<p>>) = {p}
      BY ListaDeUno
    <3>. QED  BY <2>1, <2>2, <3>1, <3>2 DEF CadaPcbEnUnLugar, EnUnLugar
  <2>. QED  BY <1>2, <2>3, <2>4
<1>3. pcCpu # "fOpen" => sem["finFOpen"] = 0
  BY DEF Apertura
<1>4. ASSUME NEW x \in Peticion, peticiones' = Append(peticiones, x),
             respuestas' = respuestas
      PROVE  Ocupantes(EnVuelo') = W \cup {x}
  BY <1>0, <1>4, VueloCrece DEF EnVuelo
<1>5. ASSUME NEW p \in Pid, NEW a \in Archivos, FOpenPide(p, a)
      PROVE  Apertura'
  <2>. DEFINE x == [op |-> "F_OPEN", pid |-> p]
  <2>1. /\ x \in Peticion /\ x.op = "F_OPEN" /\ x.pid = p
        /\ peticiones' = Append(peticiones, x) /\ respuestas' = respuestas
    BY <1>5 DEF FOpenPide, Peticion
  <2>2. Ocupantes(EnVuelo') = W \cup {x}
    <3>. HIDE DEF x
    <3>. QED  BY <1>4, <2>1
  <2>3. /\ pcCpu = "recv" /\ p = Head(cola["exec"]) /\ cola["exec"] # <<>>
        /\ pcCpu' = "fOpen" /\ mano'["cpu"] = p /\ sem' = sem
    BY <1>5 DEF FOpenPide, Recibe, TypeOK, TipoListas, Hilos
  <2>4. \A y \in W : y.op # "F_OPEN" /\ y.pid # p
    BY <1>1, <1>2, <2>3 DEF Apertura
  <2>. HIDE DEF W, x
  <2>. QED  BY <1>3, <2>1, <2>2, <2>3, <2>4 DEF Apertura
<1>6. ASSUME NEW x \in Peticion, x.op # "F_OPEN",
             peticiones' = Append(peticiones, x), respuestas' = respuestas,
             pcCpu # "fOpen", pcCpu' # "fOpen",
             sem'["finFOpen"] = sem["finFOpen"]
      PROVE  Apertura'
  <2>1. Ocupantes(EnVuelo') = W \cup {x}
    BY <1>4, <1>6
  <2>2. \A y \in W : y.op # "F_OPEN"
    BY <1>6 DEF Apertura
  <2>. HIDE DEF W
  <2>. QED  BY <1>3, <1>6, <2>1, <2>2 DEF Apertura
<1>7. ASSUME NEW p \in Pid, FTruncate(p) PROVE Apertura'
  <2>. DEFINE x == [op |-> "F_TRUNCATE", pid |-> p]
  <2>1. x \in Peticion /\ x.op # "F_OPEN"
    BY DEF Peticion
  <2>2. /\ peticiones' = Append(peticiones, x) /\ respuestas' = respuestas
        /\ pcCpu = "recv" /\ pcCpu' = "recv"
        /\ sem'["finFOpen"] = sem["finFOpen"]
    BY <1>7 DEF FTruncate, Recibe, hiloCpu, Post, TypeOK, TipoListas, Semaforos
  <2>. HIDE DEF x
  <2>. QED  BY <1>6, <2>1, <2>2
<1>8. ASSUME FRwGuarda PROVE Apertura'
  <2>. DEFINE x == [op |-> "F_RW", pid |-> mano["cpu"]]
  <2>1. x \in Peticion /\ x.op # "F_OPEN"
    BY <1>8 DEF FRwGuarda, FichaExec, ConPcbEnMano, Peticion, TypeOK,
       TipoListas, Hilos
  <2>2. /\ peticiones' = Append(peticiones, x) /\ respuestas' = respuestas
        /\ pcCpu = "guarda" /\ pcCpu' = "recv"
        /\ sem'["finFOpen"] = sem["finFOpen"]
    BY <1>8 DEF FRwGuarda, Post, TypeOK, TipoListas, Semaforos
  <2>. HIDE DEF x
  <2>. QED  BY <1>6, <2>1, <2>2
<1>9. ASSUME FOpenFin PROVE Apertura'
  <2>1. /\ sem["finFOpen"] = 1 /\ pcCpu = "fOpen" /\ pcCpu' = "recv"
        /\ mano["cpu"] \notin Ocupantes(l) /\ sem'["finFOpen"] = 0
        /\ EnVuelo' = EnVuelo
    BY <1>9 DEF FOpenFin, Apertura, Espera, EnVuelo, fileSystem, TypeOK,
       TipoListas, Semaforos
  <2>2. \A y \in W : y.op # "F_OPEN"
    BY <1>1, <2>1 DEF Apertura
  <2>. QED  BY <2>1, <2>2 DEF Apertura
<1>10. ASSUME FsRecibe PROVE Apertura'
  <2>. DEFINE r == Head(respuestas)
  <2>1. /\ respuestas # <<>> /\ l # <<>> /\ l' = Tail(l)
        /\ respuestas' = Tail(respuestas) /\ peticiones' = peticiones
        /\ pcCpu' = pcCpu /\ mano'["cpu"] = mano["cpu"]
    BY <1>10 DEF FsRecibe, Saca, hiloCpu, TypeOK, TipoListas, Colas, Hilos
  <2>2. EnVuelo' = Tail(EnVuelo) /\ Head(EnVuelo) = r
    BY <1>0, <2>1, VueloLlega DEF EnVuelo
  <2>3. EnVuelo # <<>> /\ r.pid = Head(l)
    BY <1>0, <2>1, <2>2, SiguenLlega DEF RespuestaDeSuProceso, Siguen
  <2>4. r \in W /\ Ocupantes(EnVuelo') \subseteq W
    BY <1>0, <2>2, <2>3, VueloMengua
  <2>5. SinRepetidos(l)
    <3>1. <<"cola", "blockFs">> \in Sitios /\ Lista[<<"cola", "blockFs">>] = l
      BY DEF Sitios, Colas, Lista
    <3>. QED  BY <3>1, EnLugarEs DEF CadaPcbEnUnLugar, EnUnLugar
  <2>6. Ocupantes(l') = Ocupantes(l) \ {r.pid}
    BY <1>0, <2>1, <2>3, <2>5, ColaDeLista
  <2>7. CASE r.op = "F_OPEN"
    <3>1. pcCpu = "fOpen" /\ r.pid = mano["cpu"]
      BY <2>4, <2>7 DEF Apertura
    <3>2. r.pid \in Ocupantes(l)
      BY <1>1, <2>4
    <3>3. sem["finFOpen"] = 0
      BY <3>1, <3>2 DEF Apertura
    <3>4. sem'["finFOpen"] = 1
      BY <1>10, <2>7, <3>3 DEF FsRecibe, Post, TypeOK, TipoListas, Semaforos
    <3>5. mano'["cpu"] \notin Ocupantes(cola'["blockFs"])
      BY <2>1, <2>6, <3>1
    <3>6. \A x \in Ocupantes(EnVuelo') :
            x.op = "F_OPEN" <=> pcCpu' = "fOpen" /\ x.pid = mano'["cpu"]
      BY <2>1, <2>4 DEF Apertura
    <3>. QED  BY <2>1, <3>1, <3>4, <3>5, <3>6 DEF Apertura
  <2>8. CASE r.op # "F_OPEN"
    <3>1. sem' = sem
      BY <1>10, <2>8 DEF FsRecibe
    <3>. HIDE DEF W
    <3>. QED  BY <2>1, <2>4, <2>6, <3>1 DEF Apertura, W
  <2>. QED  BY <2>7, <2>8
<1>11. ASSUME l' = l, EnVuelo' = EnVuelo,
              sem'["finFOpen"] = sem["finFOpen"],
              pcCpu' = "fOpen" <=> pcCpu = "fOpen",
              pcCpu = "fOpen" => mano'["cpu"] = mano["cpu"]
       PROVE  Apertura'
  BY <1>11 DEF Apertura
<1>12. ASSUME FsAtiende PROVE Apertura'
  <2>1. peticiones # <<>> /\ respuestas' = Append(respuestas, Head(peticiones))
        /\ peticiones' = Tail(peticiones)
        /\ UNCHANGED <<cola, sem, mano, pcCpu>>
    BY <1>12 DEF FsAtiende, hiloCpu
  <2>2. EnVuelo' = EnVuelo
    BY <1>0, <2>1, VueloSirve DEF EnVuelo
  <2>. QED  BY <1>11, <2>1, <2>2
<1>13. CASE l' = l /\ UNCHANGED fileSystem
  <2>1. EnVuelo' = EnVuelo
    BY <1>13 DEF fileSystem, EnVuelo
  <2>. QED  BY <1>5, <1>9, <1>10, <1>11, <1>13, <2>1, AperturaAjena
<1>. QED
  BY <1>5, <1>7, <1>8, <1>10, <1>12, <1>13, FsAjeno

-----------------------------------------------------------------------------
(* Every invariant proved so far, and the places of the PCBs. *)
LugaresInv == ColasInv /\ CadaPcbEnUnLugar /\ Apertura /\ PerdidosCreados

LEMMA LugarInicial == Init => CadaPcbEnUnLugar /\ Apertura /\ PerdidosCreados
<1>. SUFFICES ASSUME Init PROVE CadaPcbEnUnLugar /\ Apertura /\ PerdidosCreados
  OBVIOUS
<1>1. EnVuelo = <<>>
  BY ConcatEmptySeq, EmptySeq DEF Init, EnVuelo
<1>2. Apertura /\ PerdidosCreados
  BY <1>1, ListaVacia DEF Init, Apertura, PerdidosCreados, Semaforos
<1>3. \A s \in Sitios : Lista[s] = <<>>
  BY DEF Init, Sitios, Lista, EnMano
<1>4. Vivos = {}
  BY DEF Init, Vivos
<1>5. CadaPcbEnUnLugar
  BY <1>3, <1>4, ListaVacia DEF CadaPcbEnUnLugar, EnUnLugar
<1>. QED  BY <1>2, <1>5

THEOREM LugaresInvariante == Spec => []LugaresInv
<1>1. LugaresInv /\ ColasInv' /\ [Next]_vars => LugaresInv'
  <2>. SUFFICES ASSUME LugaresInv, ColasInv', [Next]_vars PROVE LugaresInv'
    OBVIOUS
  <2>0. EnLugar /\ (EnLugar' <=> CadaPcbEnUnLugar')
    <3>1. TypeOK /\ TypeOK'
      BY DEF LugaresInv, ColasInv, Base
    <3>2. EnLugar'  <=> CadaPcbEnUnLugar'
      BY <3>1, EnLugarEs, PTL
    <3>. QED  BY <3>1, <3>2, EnLugarEs DEF LugaresInv
  <2>1. CASE Next
    BY <2>0, <2>1, LugarPaso, AperturaPaso, PerdidosPaso
       DEF LugaresInv, ColasInv, Base
  <2>2. CASE UNCHANGED vars
    <3>1. EnVuelo' = EnVuelo /\ EnMano' = EnMano /\ Vivos' = Vivos
      BY <2>2 DEF vars, pcbs, hiloCpu, fileSystem, EnVuelo, EnMano, Vivos
    <3>2. EnLugar'
      BY <2>0, <2>2, <3>1 DEF vars, recursos, archivos, EnLugar
    <3>3. Apertura' /\ PerdidosCreados'
      BY <2>2, <3>1
         DEF LugaresInv, vars, pcbs, hiloCpu, Apertura, PerdidosCreados
    <3>. QED  BY <2>0, <3>2, <3>3 DEF LugaresInv
  <2>. QED  BY <2>1, <2>2
<1>. QED  BY ColasInvariante, LugarInicial, <1>1, PTL DEF Spec, LugaresInv

(* No PCB is duplicated, none is dropped except by the list_add the file   *)
(* system's thread does under the wrong mutex: for any processes, programs *)
(* and interleaving of the kernel's threads.                               *)
THEOREM UnSoloLugar == Spec => []CadaPcbEnUnLugar
BY LugaresInvariante, PTL DEF LugaresInv

-----------------------------------------------------------------------------
(* The semaphores of the queues.  That of cola_block counts the lost PCBs  *)
(* too, which needs each PCB in one place: a lost one is not in the list,  *)
(* and those cut off with a node are as many as the nodes.                 *)
LEMMA PerdidosAparte ==
    ASSUME TypeOK, FichaExec, CadaPcbEnUnLugar
    PROVE  BlockSinPerdidos
<1>1. IsFiniteSet(perdidos)
  BY PidFinito, FS_Subset DEF TypeOK, TipoListas
<1>2. /\ <<"cola", "block">> \in Sitios /\ Lista[<<"cola", "block">>] = cola["block"]
      /\ <<"hilo", "fs">> \in Sitios
      /\ mano["fs"] # Nadie => Lista[<<"hilo", "fs">>] = <<mano["fs"]>>
  BY DEF Sitios, Lista, EnMano, Colas, Hilos
<1>3. \A s \in Sitios : Ocupantes(Lista[s]) \cap perdidos = {}
  BY DEF CadaPcbEnUnLugar, EnUnLugar, Vivos
<1>4. mano["fs"] \notin perdidos
  <2>1. CASE mano["fs"] = Nadie
    BY <2>1, KernelAssumption DEF TypeOK, TipoListas
  <2>2. CASE mano["fs"] # Nadie
    <3>1. mano["fs"] \in Ocupantes(Lista[<<"hilo", "fs">>])
      BY <1>2, <2>2, ListaDeUno
    <3>. QED  BY <1>2, <1>3, <3>1
  <2>. QED  BY <2>1, <2>2
<1>. QED  BY <1>1, <1>2, <1>3, <1>4 DEF BlockSinPerdidos, CadaPcbEnUnLugar,
          EnUnLugar

(* A queue's semaphore counts the PCBs in it, and that of cola_block also  *)
(* those the list_add of procesar_conexion_fs has dropped, whatever the    *)
(* processes, their programs and the order of the threads.                 *)
THEOREM ColasRespaldadas == Spec => []SemaforosRespaldados
<1>1. Init => SemaforosRespaldados
  BY KernelAssumption, EmptySeq, FS_EmptySet
     DEF Init, SemaforosRespaldados, Colas, Semaforos
<1>2. LugaresInv /\ SemaforosRespaldados /\ [Next]_vars => SemaforosRespaldados'
  <2>. SUFFICES ASSUME LugaresInv, SemaforosRespaldados, [Next]_vars
                PROVE  SemaforosRespaldados'
    OBVIOUS
  <2>1. CASE Next
    BY <2>1, PerdidosAparte, RespaldoPaso DEF LugaresInv, ColasInv, Base
  <2>2. CASE UNCHANGED vars
    BY <2>2 DEF vars, SemaforosRespaldados
  <2>. QED  BY <2>1, <2>2
<1>. QED  BY LugaresInvariante, <1>1, <1>2, PTL DEF Spec

(* Only Muere ends the kernel, and what was lost stays lost. *)
LEMMA PerdidosCrecen ==
    ASSUME Next
    PROVE  (vivo' = vivo /\ perdidos \subseteq perdidos') \/ Muere
<1>. DEFINE Meta == vivo' = vivo /\ perdidos \subseteq perdidos'
<1>1. HiloReady \/ HiloBlock \/ HiloExec \/ HiloExit => Meta
  BY DEF HiloReady, HiloBlock, HiloExec, HiloExit, ReadyToma, ReadyAdmite,
     BlockToma, BlockDevuelve, ExecElige, ExecDespacha
<1>2. HiloFs \/ FsAtiende \/ Reposo => Meta
  BY DEF HiloFs, FsRecibe, FsGuarda, FsPrueba, FsAgrega, FsAtiende, Reposo, vars
<1>3. ASSUME NEW p \in Pid, ArmarPcb(p) \/ FinIO(p) PROVE Meta
  BY <1>3 DEF ArmarPcb, FinIO
<1>4. HiloCpu => Meta \/ \E p \in Pid : InstruccionCpu(p)
  BY DEF HiloCpu, FOpenFin, FRwCarga, FRwGuarda, CompactaInicia, CompactaFin,
     ActualizaCola, CompactaSigue
<1>5. ASSUME NEW p \in Pid, InstruccionCpu(p) PROVE Meta
  BY <1>5 DEF InstruccionCpu, Yield, Exit, SegFault, Termina, ManejarIO,
     RecursoFallido, WaitObtiene, WaitBloquea, SignalLibera, SignalDespierta,
     FOpenPide, FOpenBloquea, FClose, FSeek, FTruncate, FRwRecibe,
     SegmentoCreado, SinMemoria, PideCompactar, DeleteSegment
<1>. QED  BY <1>1, <1>2, <1>3, <1>4, <1>5 DEF Next

(* A thread that is let through finds a PCB in its list, for any programs, *)
(* unless it is block_return_pcb and one was lost: exit_pcb, ready_pcb and *)
(* exec_pcb by their semaphores, procesar_conexion_fs because cola_block_fs*)
(* follows the requests, and procesar_conexion by the token of sem_exec.   *)
THEOREM MuereSoloPorPerdidos == Spec => []SoloMuerePorPerdidos
<1>1. Init => SoloMuerePorPerdidos
  BY DEF Init, SoloMuerePorPerdidos
<1>2. LugaresInv /\ SemaforosRespaldados /\ SoloMuerePorPerdidos /\ [Next]_vars
        => SoloMuerePorPerdidos'
  <2>. SUFFICES ASSUME LugaresInv, SemaforosRespaldados, SoloMuerePorPerdidos,
                       [Next]_vars
                PROVE  SoloMuerePorPerdidos'
    OBVIOUS
  <2>0. /\ TypeOK /\ FichaExec /\ ContextoDeSuPcb /\ RespuestaDeSuProceso
        /\ BlockSinPerdidos
    BY PerdidosAparte DEF LugaresInv, ColasInv, Base
  <2>1. CASE Muere
    <3>1. PICK q \in Colas \ {"blockIo"} : APuntoDeSacar(q) /\ cola[q] = <<>>
      BY <2>1 DEF Muere
    <3>2. Len(cola[q]) = 0
      BY <3>1
    <3>3. q \notin {"listos", "ready", "exit"}
      BY <3>1, <3>2 DEF APuntoDeSacar, SemaforosRespaldados
    <3>4. q # "blockFs"
      <4>1. ASSUME respuestas # <<>> PROVE Len(EnVuelo) # 0
        <5>1. respuestas \in Seq(Peticion) /\ peticiones \in Seq(Peticion)
          BY <2>0 DEF TypeOK, TipoExternos
        <5>. QED  BY <4>1, <5>1 DEF EnVuelo
      <4>. QED  BY <2>0, <3>1, <3>2, <4>1 DEF APuntoDeSacar, RespuestaDeSuProceso
    <3>5. q # "exec"
      BY <2>0, <3>1, <3>2 DEF APuntoDeSacar, ContextoDeSuPcb
    <3>6. sem["block"] > 0 /\ cola["block"] = <<>>
      BY <3>1, <3>3, <3>4, <3>5 DEF APuntoDeSacar, Colas
    <3>7. Cardinality(perdidos) # 0
      BY <3>6 DEF SemaforosRespaldados
    <3>8. perdidos # {}
      BY <3>7, FS_EmptySet
    <3>. QED  BY <2>1, <3>8 DEF Muere, SoloMuerePorPerdidos
  <2>2. CASE ~Muere /\ Next
    BY <2>2, PerdidosCrecen DEF SoloMuerePorPerdidos
  <2>3. CASE UNCHANGED vars
    BY <2>3 DEF vars, SoloMuerePorPerdidos
  <2>. QED  BY <2>1, <2>2, <2>3
<1>. QED  BY LugaresInvariante, ColasRespaldadas, <1>1, <1>2, PTL DEF Spec
=============================================================================
