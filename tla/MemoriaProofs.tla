--------------------------- MODULE MemoriaProofs ----------------------------
(***************************************************************************)
(* The memory's invariants, proved for every size of memory, set of        *)
(* processes, sizes and algorithm. First, what the functions of memoria.c  *)
(* on huecos_libres and on the list of segments return, for every list:    *)
(* the hole chosen, the hole taken, the bytes given back and the list_sort *)
(* that compaction begins with. Then the invariants: segments and holes    *)
(* share out the bytes (Reparto), which no step of a compaction keeps:     *)
(* while segments move, the invariant is that of the loop (Moviendo),      *)
(* which counts the bytes filled, free and still to move.                  *)
(***************************************************************************)
EXTENDS Memoria, Listas

(* The elements of huecos_libres. *)
HuecoTipo == [base : Nat, tamanio : Nat]

(* crear_hueco of two naturals is a hole. *)
LEMMA HuecoBien ==
    ASSUME NEW b \in Nat, NEW t \in Nat
    PROVE  /\ Hueco(b, t) \in HuecoTipo
           /\ Hueco(b, t).base = b /\ Hueco(b, t).tamanio = t
  BY DEF Hueco, HuecoTipo

(* verificar_espacio_memoria adds the sizes one hole after another. *)
LEMMA SumaPorPartes ==
    ASSUME NEW s \in Seq(HuecoTipo)
    PROVE  \E f \in [0..Len(s) -> Nat] :
             /\ f[0] = 0 /\ f[Len(s)] = Suma(s)
             /\ \A k \in 1..Len(s) : f[k] = f[k - 1] + s[k].tamanio
<1>. DEFINE n == Len(s)
            G == [x \in Nat \X (1..n) |-> x[1] + s[x[2]].tamanio]
            E(it) == it = [c \in SUBSET (1..n) |->
                             IF c = {} THEN 0
                             ELSE it[c \ {Max(c)}] + s[Max(c)].tamanio]
            iter == CHOOSE it : E(it)
<1>1. n \in Nat /\ DOMAIN s = 1..n /\ \A i \in 1..n : s[i].tamanio \in Nat
  <2>1. n \in Nat /\ DOMAIN s = 1..n
    BY LenProperties
  <2>2. \A i \in 1..n : s[i] \in HuecoTipo
    BY ElementOfSeq
  <2>. QED  BY <2>1, <2>2 DEF HuecoTipo
<1>2. G \in [Nat \X (1..n) -> Nat]
  BY <1>1
<1>. HIDE DEF n
<1>3. ASSUME NEW v \in Nat, NEW i \in 1..n
      PROVE  G[<<v, i>>] = v + s[i].tamanio
  OBVIOUS
<1>. HIDE DEF G
<1>4. PICK g : Recorrido(G, Nat, 0, n, g)
  BY <1>1, <1>2, RecorridoExiste
<1>5. E(g)
  <2>1. ASSUME NEW c \in SUBSET (1..n), c # {}
        PROVE  g[c] = g[c \ {Max(c)}] + s[Max(c)].tamanio
    <3>1. EsPaso(G, Nat, g, c)
      BY <1>1, <1>4, <2>1, PasosDeRecorrido
    <3>2. Max(c) \in 1..n
      BY <1>1, <2>1, MaxDeParte
    <3>. QED  BY <1>3, <3>1, <3>2 DEF EsPaso
  <2>2. g[{}] = 0 /\ g = [c \in SUBSET (1..n) |-> g[c]]
    BY <1>4 DEF Recorrido
  <2>. QED  BY <2>1, <2>2
<1>6. E(iter)
  BY <1>5
<1>7. Suma(s) = iter[1..n]
  BY <1>1 DEF Suma, FoldLeft, MapThenFoldSet
<1>. HIDE DEF iter
<1>8. PasosDeFold(G, Nat, 0, n, iter)
  <2>1. ASSUME NEW c \in SUBSET (1..n), c # {}, iter[c \ {Max(c)}] \in Nat
        PROVE  iter[c] = G[<<iter[c \ {Max(c)}], Max(c)>>]
    <3>1. Max(c) \in 1..n
      BY <1>1, <2>1, MaxDeParte
    <3>2. iter[c] = iter[c \ {Max(c)}] + s[Max(c)].tamanio
      BY <1>6, <2>1
    <3>. QED  BY <1>3, <2>1, <3>1, <3>2
  <2>2. iter[{}] = 0
    BY <1>6
  <2>. QED  BY <2>1, <2>2 DEF PasosDeFold
<1>9. PICK f : Parcial(G, Nat, 0, n, iter, f)
  BY <1>1, <1>2, <1>8, PorPartes
<1>10. ASSUME NEW k \in 1..n PROVE f[k] = f[k - 1] + s[k].tamanio
  BY <1>3, <1>9 DEF Parcial
<1>11. f \in [0..n -> Nat] /\ f[0] = 0 /\ f[n] = iter[1..n]
  BY <1>9 DEF Parcial
<1>. QED  BY <1>7, <1>10, <1>11 DEF n

(* encontrar_hueco_first, _best and _worst look at one hole after another  *)
(* and keep the best so far.                                               *)
LEMMA HuecoPorPartes ==
    ASSUME NEW a, NEW t \in Nat, huecos \in Seq(HuecoTipo)
    PROVE  \E f \in [0..Len(huecos) -> Nat] :
             /\ f[0] = 0 /\ f[Len(huecos)] = HuecoElegido(a, t)
             /\ \A k \in 1..Len(huecos) :
                  f[k] = IF /\ huecos[k].tamanio >= t
                            /\ \/ f[k - 1] = 0
                               \/ Mejora(a, huecos[k].tamanio,
                                         huecos[f[k - 1]].tamanio)
                         THEN k ELSE f[k - 1]
<1>. DEFINE n == Len(huecos)
            Op(v, k) == IF /\ huecos[k].tamanio >= t
                           /\ v = 0 \/ Mejora(a, huecos[k].tamanio,
                                              huecos[v].tamanio)
                        THEN k ELSE v
            G == [x \in Nat \X (1..n) |-> Op(x[1], x[2])]
            E(it) == it = [c \in SUBSET (1..n) |->
                             IF c = {} THEN 0
                             ELSE Op(it[c \ {Max(c)}],
                                     [i \in DOMAIN huecos |-> i][Max(c)])]
            iter == CHOOSE it : E(it)
<1>1. n \in Nat /\ DOMAIN huecos = 1..n
  BY LenProperties
<1>2. HuecoElegido(a, t) = iter[1..n]
  <2>1. DOMAIN [i \in DOMAIN huecos |-> i] = 1..n
    BY <1>1
  <2>. QED  BY <2>1 DEF HuecoElegido, FoldLeftDomain, FoldLeft, MapThenFoldSet
<1>. HIDE DEF n, Op
<1>3. G \in [Nat \X (1..n) -> Nat]
  BY <1>1 DEF Op
<1>4. ASSUME NEW v \in Nat, NEW i \in 1..n PROVE G[<<v, i>>] = Op(v, i)
  OBVIOUS
<1>. HIDE DEF G
<1>5. PICK g : Recorrido(G, Nat, 0, n, g)
  BY <1>1, <1>3, RecorridoExiste
<1>6. E(g)
  <2>1. ASSUME NEW c \in SUBSET (1..n), c # {}
        PROVE  g[c] = Op(g[c \ {Max(c)}], [i \in DOMAIN huecos |-> i][Max(c)])
    <3>1. EsPaso(G, Nat, g, c)
      BY <1>1, <1>5, <2>1, PasosDeRecorrido
    <3>2. Max(c) \in 1..n
      BY <1>1, <2>1, MaxDeParte
    <3>. QED  BY <1>1, <1>4, <3>1, <3>2 DEF EsPaso
  <2>2. g[{}] = 0 /\ g = [c \in SUBSET (1..n) |-> g[c]]
    BY <1>5 DEF Recorrido
  <2>. QED  BY <2>1, <2>2
<1>7. E(iter)
  BY <1>6
<1>. HIDE DEF iter
<1>8. PasosDeFold(G, Nat, 0, n, iter)
  <2>1. ASSUME NEW c \in SUBSET (1..n), c # {}, iter[c \ {Max(c)}] \in Nat
        PROVE  iter[c] = G[<<iter[c \ {Max(c)}], Max(c)>>]
    <3>1. Max(c) \in 1..n
      BY <1>1, <2>1, MaxDeParte
    <3>2. iter[c] = Op(iter[c \ {Max(c)}], Max(c))
      BY <1>1, <1>7, <2>1, <3>1
    <3>. QED  BY <1>4, <2>1, <3>1, <3>2
  <2>2. iter[{}] = 0
    BY <1>7
  <2>. QED  BY <2>1, <2>2 DEF PasosDeFold
<1>9. PICK f : Parcial(G, Nat, 0, n, iter, f)
  BY <1>1, <1>3, <1>8, PorPartes
<1>10. ASSUME NEW k \in 1..n PROVE f[k] = Op(f[k - 1], k)
  BY <1>4, <1>9 DEF Parcial
<1>11. f \in [0..n -> Nat] /\ f[0] = 0 /\ f[n] = iter[1..n]
  BY <1>9 DEF Parcial
<1>. QED  BY <1>2, <1>10, <1>11 DEF n, Op

-----------------------------------------------------------------------------
(* list_sort puts a segment after those that do not begin later and before *)
(* those that do.                                                          *)
LEMMA InsertaPos ==
    ASSUME NEW z \in Seq(Ref), NEW r \in Ref, base \in [Ref -> Nat]
    PROVE  \E p \in 1..(Len(z) + 1) :
             /\ Inserta(z, r) = InsertAt(z, p, r)
             /\ p > 1 => base[z[p - 1]] <= base[r]
             /\ \A i \in p..Len(z) : base[r] < base[z[i]]
<1>. DEFINE T == {i \in 1..Len(z) : base[z[i]] <= base[r]}
            q == IF T # {} THEN Max(T) ELSE 0
<1>1. Len(z) \in Nat /\ \A i \in 1..Len(z) : z[i] \in Ref
  BY LenProperties, ElementOfSeq
<1>2. Inserta(z, r) = InsertAt(z, q + 1, r)
  BY DEF Inserta, SelectLastInSeq
<1>3. /\ q \in 0..Len(z)
      /\ q > 0 => base[z[q]] <= base[r]
      /\ \A i \in (q + 1)..Len(z) : ~ (base[z[i]] <= base[r])
  <2>1. CASE T = {}
    BY <2>1, <1>1
  <2>2. CASE T # {}
    <3>1. T \in SUBSET Nat /\ \A x \in T : x <= Len(z)
      BY <1>1
    <3>2. Max(T) \in T /\ \A y \in T : Max(T) >= y
      BY <2>2, <3>1, <1>1, MaxEsta
    <3>3. q = Max(T) /\ q \in T
      BY <2>2, <3>2
    <3>4. ASSUME NEW i \in (q + 1)..Len(z) PROVE ~ (base[z[i]] <= base[r])
      <4>. SUFFICES ASSUME base[z[i]] <= base[r] PROVE FALSE
        OBVIOUS
      <4>1. q \in Nat /\ i \in 1..Len(z)
        BY <3>3, <1>1
      <4>2. i \in T
        BY <4>1
      <4>3. q >= i
        BY <4>2, <3>2, <3>3
      <4>. QED  BY <4>1, <4>3
    <3>5. q \in 0..Len(z) /\ base[z[q]] <= base[r]
      BY <3>3, <1>1
    <3>. HIDE DEF q
    <3>. QED  BY <3>4, <3>5
  <2>. QED  BY <2>1, <2>2
<1>. HIDE DEF q
<1>4. ASSUME NEW i \in (q + 1)..Len(z) PROVE base[r] < base[z[i]]
  <2>1. i \in 1..Len(z)
    BY <1>1, <1>3
  <2>2. base[z[i]] \in Nat /\ base[r] \in Nat
    BY <1>1, <2>1
  <2>. QED  BY <1>3, <2>2
<1>5. q + 1 \in 1..(Len(z) + 1) /\ (q + 1) - 1 = q /\ (q + 1 > 1 => q > 0)
  BY <1>1, <1>3
<1>. QED  BY <1>2, <1>3, <1>4, <1>5

(* list_sort by comparador_de_base, one segment after another. *)
LEMMA OrdenPorPartes ==
    ASSUME NEW s \in Seq(Ref), base \in [Ref -> Nat]
    PROVE  \E f \in [0..Len(s) -> Seq(Ref)] :
             /\ f[0] = <<>> /\ f[Len(s)] = PorBase(s)
             /\ \A k \in 1..Len(s) : f[k] = Inserta(f[k - 1], s[k])
<1>. DEFINE n == Len(s)
            V == Seq(Ref)
            G == [x \in V \X (1..n) |-> Inserta(x[1], s[x[2]])]
            E(it) == it = [c \in SUBSET (1..n) |->
                             IF c = {} THEN <<>>
                             ELSE Inserta(it[c \ {Max(c)}], s[Max(c)])]
            iter == CHOOSE it : E(it)
<1>1. n \in Nat /\ DOMAIN s = 1..n /\ <<>> \in V
  BY LenProperties
<1>2. PorBase(s) = iter[1..n]
  BY <1>1 DEF PorBase, FoldLeft, MapThenFoldSet
<1>3. ASSUME NEW z \in V, NEW i \in 1..n PROVE Inserta(z, s[i]) \in V
  <2>1. z \in Seq(Ref) /\ s[i] \in Ref
    BY ElementOfSeq
  <2>2. PICK p \in 1..(Len(z) + 1) : Inserta(z, s[i]) = InsertAt(z, p, s[i])
    BY <2>1, InsertaPos
  <2>. QED  BY <2>1, <2>2, InsertaEn
<1>. HIDE DEF n, V
<1>4. G \in [V \X (1..n) -> V]
  BY <1>3
<1>5. ASSUME NEW v \in V, NEW i \in 1..n
      PROVE  G[<<v, i>>] = Inserta(v, s[i])
  OBVIOUS
<1>. HIDE DEF G
<1>6. PICK g : Recorrido(G, V, <<>>, n, g)
  BY <1>1, <1>4, RecorridoExiste
<1>7. E(g)
  <2>1. ASSUME NEW c \in SUBSET (1..n), c # {}
        PROVE  g[c] = Inserta(g[c \ {Max(c)}], s[Max(c)])
    <3>1. EsPaso(G, V, g, c)
      BY <1>1, <1>6, <2>1, PasosDeRecorrido
    <3>2. Max(c) \in 1..n
      BY <1>1, <2>1, MaxDeParte
    <3>. QED  BY <1>5, <3>1, <3>2 DEF EsPaso
  <2>2. g[{}] = <<>> /\ g = [c \in SUBSET (1..n) |-> g[c]]
    BY <1>6 DEF Recorrido
  <2>. QED  BY <2>1, <2>2
<1>8. E(iter)
  BY <1>7
<1>. HIDE DEF iter
<1>9. PasosDeFold(G, V, <<>>, n, iter)
  <2>1. ASSUME NEW c \in SUBSET (1..n), c # {}, iter[c \ {Max(c)}] \in V
        PROVE  iter[c] = G[<<iter[c \ {Max(c)}], Max(c)>>]
    <3>1. Max(c) \in 1..n
      BY <1>1, <2>1, MaxDeParte
    <3>2. iter[c] = Inserta(iter[c \ {Max(c)}], s[Max(c)])
      BY <1>8, <2>1
    <3>. QED  BY <1>5, <2>1, <3>1, <3>2
  <2>2. iter[{}] = <<>>
    BY <1>8
  <2>. QED  BY <2>1, <2>2 DEF PasosDeFold
<1>10. PICK f : Parcial(G, V, <<>>, n, iter, f)
  BY <1>1, <1>4, <1>9, PorPartes
<1>11. ASSUME NEW k \in 1..n PROVE f[k] = Inserta(f[k - 1], s[k])
  BY <1>5, <1>10 DEF Parcial
<1>12. f \in [0..n -> V] /\ f[0] = <<>> /\ f[n] = iter[1..n]
  BY <1>10 DEF Parcial
<1>. QED  BY <1>2, <1>11, <1>12 DEF n, V

(* z holds the first k segments of s, in order of base. *)
Ordena(s, z, k) ==
    /\ z \in Seq(Ref) /\ Len(z) = k
    /\ \A i, j \in 1..k : i < j => base[z[i]] <= base[z[j]]
    /\ \A i \in 1..k : \E j \in 1..k : z[i] = s[j]
    /\ \A j \in 1..k : \E i \in 1..k : z[i] = s[j]
    /\ (\A i, j \in 1..k : s[i] = s[j] => i = j)
         => \A i, j \in 1..k : z[i] = z[j] => i = j

(* One more segment is put in order, and none is lost or repeated. *)
LEMMA InsertaOrdena ==
    ASSUME NEW s \in Seq(Ref), base \in [Ref -> Nat], NEW z, NEW k \in Nat,
           k + 1 <= Len(s), Ordena(s, z, k)
    PROVE  Ordena(s, Inserta(z, s[k + 1]), k + 1)
<1>. DEFINE r == s[k + 1]
            y == Inserta(z, r)
<1>1. z \in Seq(Ref) /\ Len(z) = k /\ r \in Ref /\ \A i \in 1..k : z[i] \in Ref
  BY ElementOfSeq, LenProperties DEF Ordena
<1>. HIDE DEF r
<1>2. PICK p \in 1..(k + 1) :
        /\ y = InsertAt(z, p, r)
        /\ p > 1 => base[z[p - 1]] <= base[r]
        /\ \A i \in p..k : base[r] < base[z[i]]
  BY <1>1, InsertaPos
<1>3. p \in Nat /\ 1 <= p /\ p <= k + 1
  OBVIOUS
<1>4. /\ y \in Seq(Ref) /\ Len(y) = k + 1
      /\ \A j \in 1..(p - 1) : y[j] = z[j]
      /\ y[p] = r
      /\ \A j \in (p + 1)..(k + 1) : y[j] = z[j - 1]
  <2>1. p \in 1..(Len(z) + 1)
    BY <1>1
  <2>2. /\ InsertAt(z, p, r) \in Seq(Ref)
        /\ Len(InsertAt(z, p, r)) = Len(z) + 1
        /\ \A j \in 1..(p - 1) : InsertAt(z, p, r)[j] = z[j]
        /\ InsertAt(z, p, r)[p] = r
        /\ \A j \in (p + 1)..(Len(z) + 1) : InsertAt(z, p, r)[j] = z[j - 1]
    <3>. HIDE DEF y
    <3>1. z \in Seq(Ref) /\ r \in Ref
      BY <1>1
    <3>. QED  BY <3>1, <2>1, InsertaEn
  <2>. HIDE DEF y
  <2>. QED  BY <1>1, <1>2, <2>2
<1>. HIDE DEF y
<1>5. ASSUME NEW i \in 1..(k + 1), NEW j \in 1..(k + 1), i < j
      PROVE  base[y[i]] <= base[y[j]]
  <2>0. /\ \A a, b \in 1..k : a < b => base[z[a]] <= base[z[b]]
        /\ \A a \in 1..k : base[z[a]] \in Nat
        /\ base[r] \in Nat
    BY <1>1 DEF Ordena
  <2>1. CASE j < p
    <3>1. i \in 1..(p - 1) /\ j \in 1..(p - 1) /\ i \in 1..k /\ j \in 1..k
      BY <2>1, <1>3, <1>5
    <3>. QED  BY <2>0, <3>1, <1>4, <1>5
  <2>2. CASE j = p
    <3>1. i \in 1..(p - 1) /\ p > 1 /\ p - 1 \in 1..k /\ i \in 1..k
      BY <2>2, <1>3, <1>5
    <3>2. base[z[i]] <= base[z[p - 1]]
      <4>1. CASE i = p - 1
        BY <4>1, <3>1, <2>0
      <4>2. CASE i < p - 1
        BY <4>2, <3>1, <2>0
      <4>. QED  BY <3>1, <4>1, <4>2, <1>3
    <3>3. base[z[p - 1]] <= base[r] /\ y[i] = z[i] /\ y[j] = r
      BY <2>2, <3>1, <1>2, <1>4
    <3>. QED  BY <3>1, <3>2, <3>3, <2>0
  <2>3. CASE i = p
    <3>1. j \in (p + 1)..(k + 1) /\ j - 1 \in p..k /\ j - 1 \in 1..k
      BY <2>3, <1>3, <1>5
    <3>2. y[i] = r /\ y[j] = z[j - 1] /\ base[r] < base[z[j - 1]]
      BY <2>3, <3>1, <1>2, <1>4
    <3>. QED  BY <3>1, <3>2, <2>0
  <2>4. CASE i < p /\ p < j
    <3>1. /\ i \in 1..(p - 1) /\ j \in (p + 1)..(k + 1) /\ i \in 1..k
          /\ j - 1 \in 1..k /\ i < j - 1
      BY <2>4, <1>3
    <3>2. base[z[i]] <= base[z[j - 1]] /\ y[i] = z[i] /\ y[j] = z[j - 1]
      BY <3>1, <2>0, <1>4
    <3>. QED  BY <3>2
  <2>5. CASE p < i
    <3>1. /\ i \in (p + 1)..(k + 1) /\ j \in (p + 1)..(k + 1)
          /\ i - 1 \in 1..k /\ j - 1 \in 1..k /\ i - 1 < j - 1
      BY <2>5, <1>3, <1>5
    <3>2. /\ base[z[i - 1]] <= base[z[j - 1]]
          /\ y[i] = z[i - 1] /\ y[j] = z[j - 1]
      BY <3>1, <2>0, <1>4
    <3>. QED  BY <3>2
  <2>. QED  BY <2>1, <2>2, <2>3, <2>4, <2>5, <1>3, <1>5
<1>6. ASSUME NEW i \in 1..(k + 1), i # p
      PROVE  \E a \in 1..k : y[i] = z[a] /\ a = IF i < p THEN i ELSE i - 1
  <2>1. CASE i < p
    BY <2>1, <1>3, <1>4
  <2>2. CASE i > p
    <3>. PICK a : a = i - 1
      OBVIOUS
    <3>1. /\ a \in 1..k /\ i \in (p + 1)..(k + 1)
          /\ a = IF i < p THEN i ELSE i - 1
      BY <2>2, <1>3
    <3>. QED  BY <3>1, <1>4
  <2>. QED  BY <2>1, <2>2, <1>3, <1>6
<1>7. ASSUME NEW i \in 1..(k + 1) PROVE \E j \in 1..(k + 1) : y[i] = s[j]
  <2>1. CASE i = p
    BY <2>1, <1>4 DEF r
  <2>2. CASE i # p
    <3>1. PICK a \in 1..k : y[i] = z[a]
      BY <2>2, <1>6
    <3>2. PICK j \in 1..k : z[a] = s[j]
      BY DEF Ordena
    <3>. QED  BY <3>1, <3>2
  <2>. QED  BY <2>1, <2>2
<1>8. ASSUME NEW j \in 1..(k + 1) PROVE \E i \in 1..(k + 1) : y[i] = s[j]
  <2>1. CASE j = k + 1
    BY <2>1, <1>4 DEF r
  <2>2. CASE j \in 1..k
    <3>1. PICK a \in 1..k : z[a] = s[j]
      BY <2>2 DEF Ordena
    <3>2. CASE a < p
      BY <3>1, <3>2, <1>3, <1>4
    <3>3. CASE a >= p
      <4>1. a + 1 \in (p + 1)..(k + 1) /\ a + 1 \in 1..(k + 1) /\ (a + 1) - 1 = a
        BY <3>3, <1>3
      <4>2. y[a + 1] = z[a]
        BY <4>1, <1>4
      <4>. QED  BY <3>1, <4>1, <4>2
    <3>. QED  BY <3>2, <3>3, <1>3
  <2>. QED  BY <2>1, <2>2
<1>9. ASSUME \A i, j \in 1..(k + 1) : s[i] = s[j] => i = j,
             NEW i \in 1..(k + 1), NEW j \in 1..(k + 1), y[i] = y[j]
      PROVE  i = j
  <2>1. \A a, b \in 1..k : z[a] = z[b] => a = b
    <3>1. \A a, b \in 1..k : s[a] = s[b] => a = b
      BY <1>9
    <3>. QED  BY <3>1 DEF Ordena
  <2>2. \A a \in 1..k : z[a] # r
    <3>1. SUFFICES ASSUME NEW a \in 1..k, z[a] = r PROVE FALSE
      OBVIOUS
    <3>2. PICK b \in 1..k : z[a] = s[b]
      BY DEF Ordena
    <3>3. s[b] = s[k + 1] /\ b \in 1..(k + 1) /\ k + 1 \in 1..(k + 1)
      BY <3>1, <3>2 DEF r
    <3>4. b = k + 1
      BY <3>3, <1>9
    <3>. QED  BY <3>4
  <2>3. CASE i = p
    <3>1. SUFFICES ASSUME j # p PROVE FALSE
      BY <2>3
    <3>2. PICK a \in 1..k : y[j] = z[a]
      BY <3>1, <1>6
    <3>. QED  BY <2>2, <2>3, <3>2, <1>4, <1>9
  <2>4. CASE j = p
    <3>1. SUFFICES ASSUME i # p PROVE FALSE
      BY <2>4
    <3>2. PICK a \in 1..k : y[i] = z[a]
      BY <3>1, <1>6
    <3>. QED  BY <2>2, <2>4, <3>2, <1>4, <1>9
  <2>5. CASE i # p /\ j # p
    <3>1. PICK a \in 1..k : y[i] = z[a] /\ a = IF i < p THEN i ELSE i - 1
      BY <2>5, <1>6
    <3>2. PICK b \in 1..k : y[j] = z[b] /\ b = IF j < p THEN j ELSE j - 1
      BY <2>5, <1>6
    <3>3. a = b
      BY <2>1, <3>1, <3>2, <1>9
    <3>. QED  BY <2>5, <3>1, <3>2, <3>3, <1>3
  <2>. QED  BY <2>3, <2>4, <2>5
<1>10. Ordena(s, y, k + 1)
  BY <1>4, <1>5, <1>7, <1>8, <1>9 DEF Ordena
<1>. QED  BY <1>10 DEF y, r

(* The whole list is in order of base and holds the same segments. *)
LEMMA PorBaseOrdena ==
    ASSUME NEW s \in Seq(Ref), base \in [Ref -> Nat]
    PROVE  Ordena(s, PorBase(s), Len(s))
<1>1. Len(s) \in Nat
  BY LenProperties
<1>2. PICK f \in [0..Len(s) -> Seq(Ref)] :
        /\ f[0] = <<>> /\ f[Len(s)] = PorBase(s)
        /\ \A k \in 1..Len(s) : f[k] = Inserta(f[k - 1], s[k])
  BY OrdenPorPartes
<1>. DEFINE T == {k \in Nat : k <= Len(s) => Ordena(s, f[k], k)}
<1>3. 0 \in T
  <2>1. f[0] \in Seq(Ref) /\ Len(f[0]) = 0
    BY <1>2
  <2>2. Ordena(s, f[0], 0)
    BY <2>1 DEF Ordena
  <2>. QED  BY <2>2
<1>4. ASSUME NEW k \in T PROVE k + 1 \in T
  <2>1. SUFFICES ASSUME k + 1 <= Len(s) PROVE Ordena(s, f[k + 1], k + 1)
    OBVIOUS
  <2>2. k \in Nat /\ Ordena(s, f[k], k)
    BY <1>1, <2>1
  <2>3. k + 1 \in 1..Len(s) /\ (k + 1) - 1 = k
    BY <1>1, <2>1, <2>2
  <2>4. f[k + 1] = Inserta(f[k], s[k + 1])
    BY <1>2, <2>3
  <2>. QED  BY <2>1, <2>2, <2>4, InsertaOrdena
<1>5. T \in SUBSET Nat
  OBVIOUS
<1>. HIDE DEF T
<1>6. T = Nat
  BY <1>3, <1>4, <1>5, Induccion
<1>. QED  BY <1>1, <1>2, <1>6 DEF T

-----------------------------------------------------------------------------
(* Byte d is in a hole of h. *)
Libre(h, d) == \E i \in DOMAIN h : Cubre(h[i].base, h[i].tamanio, d)

(* Where hole i of h ends. *)
Fin(h, i) == h[i].base + h[i].tamanio

(* What agregar_hueco_libre and actualizar_hueco_libre keep: the holes are *)
(* in order and do not touch, they are inside the memory, and only a hole  *)
(* at its very end may be empty.                                           *)
HuecosBien(h) ==
    /\ \A i, j \in DOMAIN h : i < j => Fin(h, i) < h[j].base
    /\ \A i \in DOMAIN h : /\ Fin(h, i) <= TAM_MEMORIA
                           /\ h[i].tamanio > 0 \/ h[i].base = TAM_MEMORIA

(* The same list in the middle of agregar_hueco_libre: hole k may still    *)
(* touch the next one.                                                     *)
Casi(h, k) ==
    /\ h \in Seq(HuecoTipo) /\ k \in 1..Len(h) /\ h[k].tamanio > 0
    /\ \A i, j \in 1..Len(h) :
         i < j => /\ Fin(h, i) <= h[j].base
                  /\ i # k \/ j # k + 1 => Fin(h, i) < h[j].base
    /\ \A i \in 1..Len(h) : /\ Fin(h, i) <= TAM_MEMORIA
                            /\ h[i].tamanio > 0 \/ h[i].base = TAM_MEMORIA

(* The holes of a list have natural bases and sizes. *)
LEMMA HuecosTipo ==
    ASSUME NEW h \in Seq(HuecoTipo)
    PROVE  /\ Len(h) \in Nat /\ DOMAIN h = 1..Len(h)
           /\ \A i \in 1..Len(h) :
                h[i] \in HuecoTipo /\ h[i].base \in Nat /\ h[i].tamanio \in Nat
<1>1. Len(h) \in Nat /\ DOMAIN h = 1..Len(h)
  BY LenProperties
<1>2. \A i \in 1..Len(h) : h[i] \in HuecoTipo
  BY ElementOfSeq
<1>. QED  BY <1>1, <1>2 DEF HuecoTipo

(* Hole k with t bytes more. *)
Estirado(h, k, t) == [h EXCEPT ![k].tamanio = @ + t]

(* Only the size of hole k changes. *)
LEMMA Estira ==
    ASSUME NEW h \in Seq(HuecoTipo), NEW k \in 1..Len(h), NEW t \in Nat, NEW y,
           y = Estirado(h, k, t)
    PROVE  /\ y \in Seq(HuecoTipo) /\ Len(y) = Len(h) /\ DOMAIN y = 1..Len(h)
           /\ \A i \in 1..Len(h) : y[i].base = h[i].base
           /\ \A i \in 1..Len(h) : i # k => y[i] = h[i]
           /\ y[k].tamanio = h[k].tamanio + t
<1>1. /\ Len(h) \in Nat /\ DOMAIN h = 1..Len(h)
      /\ \A i \in 1..Len(h) :
           h[i] \in HuecoTipo /\ h[i].base \in Nat /\ h[i].tamanio \in Nat
  BY HuecosTipo
<1>. DEFINE e == [h[k] EXCEPT !.tamanio = @ + t]
<1>2. e \in HuecoTipo /\ e.base = h[k].base /\ e.tamanio = h[k].tamanio + t
  BY <1>1 DEF HuecoTipo
<1>3. y = [h EXCEPT ![k] = e]
  BY DEF Estirado
<1>. HIDE DEF e
<1>4. /\ y \in Seq(HuecoTipo) /\ Len(y) = Len(h)
      /\ \A i \in 1..Len(h) : y[i] = IF i = k THEN e ELSE h[i]
  BY <1>1, <1>2, <1>3, ExceptSeq
<1>5. DOMAIN y = 1..Len(h)
  BY <1>1, <1>3
<1>6. \A i \in 1..Len(h) : y[i].base = h[i].base
  BY <1>2, <1>4
<1>7. \A i \in 1..Len(h) : i # k => y[i] = h[i]
  BY <1>4
<1>8. y[k].tamanio = h[k].tamanio + t
  BY <1>2, <1>4
<1>. QED  BY <1>4, <1>5, <1>6, <1>7, <1>8

(* The freed bytes are joined to the hole that ends where they begin. *)
LEMMA PegaAlAnterior ==
    ASSUME NEW h \in Seq(HuecoTipo), HuecosBien(h), NEW n \in 1..Len(h),
           NEW b \in Nat, NEW t \in Nat, t > 0, b + t <= TAM_MEMORIA,
           Fin(h, n) = b, \A i \in (n + 1)..Len(h) : b + t <= h[i].base,
           NEW y, y = Estirado(h, n, t)
    PROVE  /\ Casi(y, n)
           /\ \A d \in Nat : Libre(y, d) <=> Libre(h, d) \/ Cubre(b, t, d)
<1>0. /\ Len(h) \in Nat /\ DOMAIN h = 1..Len(h)
      /\ \A i \in 1..Len(h) :
           h[i] \in HuecoTipo /\ h[i].base \in Nat /\ h[i].tamanio \in Nat
  BY HuecosTipo
<1>1. /\ y \in Seq(HuecoTipo) /\ Len(y) = Len(h) /\ DOMAIN y = 1..Len(h)
      /\ \A i \in 1..Len(h) : y[i].base = h[i].base
      /\ \A i \in 1..Len(h) : i # n => y[i] = h[i]
      /\ y[n].tamanio = h[n].tamanio + t
  BY Estira
<1>2. ASSUME NEW i \in 1..Len(h)
      PROVE  Fin(y, i) = IF i = n THEN b + t ELSE Fin(h, i)
  <2>1. CASE i = n
    <3>1. /\ y[n].base = h[n].base /\ y[n].tamanio = h[n].tamanio + t
          /\ h[n].base + h[n].tamanio = b
      BY <1>1 DEF Fin
    <3>2. h[n].base \in Nat /\ h[n].tamanio \in Nat
      BY <1>0
    <3>. QED  BY <2>1, <3>1, <3>2 DEF Fin
  <2>2. CASE i # n
    BY <2>2, <1>1 DEF Fin
  <2>. QED  BY <2>1, <2>2
<1>3. TAM_MEMORIA \in Nat
  BY MemoriaAssumption
<1>4. ASSUME NEW i \in 1..Len(h), NEW j \in 1..Len(h), i < j
      PROVE  /\ Fin(y, i) <= y[j].base
             /\ i # n \/ j # n + 1 => Fin(y, i) < y[j].base
  <2>1. Fin(h, i) < h[j].base /\ Fin(h, i) \in Nat
    <3>1. Fin(h, i) < h[j].base
      BY <1>0, <1>4 DEF HuecosBien
    <3>2. Fin(h, i) \in Nat
      BY <1>0 DEF Fin
    <3>. QED  BY <3>1, <3>2
  <2>4. y[j].base = h[j].base /\ h[j].base \in Nat
    BY <1>0, <1>1
  <2>2. CASE i # n
    <3>1. Fin(y, i) = Fin(h, i)
      BY <2>2, <1>2
    <3>. QED  BY <2>1, <2>2, <2>4, <3>1
  <2>3. CASE i = n
    <3>1. b + t <= h[j].base /\ Fin(y, i) = b + t
      <4>1. j \in (n + 1)..Len(h)
        BY <2>3, <1>0, <1>4
      <4>2. Fin(y, i) = b + t
        BY <2>3, <1>2
      <4>. QED  BY <4>1, <4>2
    <3>2. CASE j = n + 1
      BY <2>3, <2>4, <3>1, <3>2
    <3>3. CASE j # n + 1
      <4>1. n + 1 \in 1..Len(h) /\ n + 1 < j /\ n + 1 \in (n + 1)..Len(h)
        BY <2>3, <3>3, <1>0, <1>4
      <4>2. b + t <= h[n + 1].base /\ Fin(h, n + 1) < h[j].base
        BY <4>1, <1>0 DEF HuecosBien
      <4>3. h[n + 1].base <= Fin(h, n + 1) /\ Fin(h, n + 1) \in Nat
        BY <4>1, <1>0 DEF Fin
      <4>. QED  BY <2>3, <2>4, <3>1, <4>1, <4>2, <4>3, <1>0
    <3>. QED  BY <3>2, <3>3
  <2>. QED  BY <2>2, <2>3
<1>5. ASSUME NEW i \in 1..Len(h)
      PROVE  /\ Fin(y, i) <= TAM_MEMORIA
             /\ y[i].tamanio > 0 \/ y[i].base = TAM_MEMORIA
  <2>1. CASE i = n
    <3>1. Fin(y, i) = b + t
      BY <2>1, <1>2
    <3>2. y[i].tamanio > 0
      BY <2>1, <1>0, <1>1
    <3>. QED  BY <3>1, <3>2
  <2>2. CASE i # n
    <3>1. Fin(y, i) = Fin(h, i) /\ y[i] = h[i]
      BY <2>2, <1>1, <1>2
    <3>. QED  BY <3>1, <1>0 DEF HuecosBien
  <2>. QED  BY <2>1, <2>2
<1>6. y[n].tamanio > 0
  BY <1>0, <1>1
<1>7. Casi(y, n)
  BY <1>1, <1>4, <1>5, <1>6 DEF Casi
<1>8. ASSUME NEW d \in Nat PROVE Libre(y, d) <=> Libre(h, d) \/ Cubre(b, t, d)
  <2>1. Cubre(y[n].base, y[n].tamanio, d) <=>
          Cubre(h[n].base, h[n].tamanio, d) \/ Cubre(b, t, d)
    <3>1. /\ y[n].base = h[n].base /\ y[n].tamanio = h[n].tamanio + t
          /\ h[n].base + h[n].tamanio = b
      BY <1>1 DEF Fin
    <3>2. h[n].base \in Nat /\ h[n].tamanio \in Nat
      BY <1>0
    <3>. QED  BY <3>1, <3>2 DEF Cubre
  <2>2. \A i \in 1..Len(h) : i # n =>
          (Cubre(y[i].base, y[i].tamanio, d) <=>
             Cubre(h[i].base, h[i].tamanio, d))
    BY <1>1
  <2>. QED  BY <2>1, <2>2, <1>0, <1>1 DEF Libre
<1>. QED  BY <1>7, <1>8

(* The end of a hole is an address at or after its base. *)
LEMMA FinNat ==
    ASSUME NEW h, NEW i, h[i].base \in Nat, h[i].tamanio \in Nat
    PROVE  Fin(h, i) \in Nat /\ h[i].base <= Fin(h, i)
  BY DEF Fin

(* The freed bytes become a hole of their own, put after those that begin  *)
(* before.                                                                 *)
LEMMA PoneOtro ==
    ASSUME NEW h \in Seq(HuecoTipo), HuecosBien(h), NEW n \in 0..Len(h),
           NEW b \in Nat, NEW t \in Nat, t > 0, b + t <= TAM_MEMORIA,
           \A i \in 1..n : Fin(h, i) < b,
           \A i \in (n + 1)..Len(h) : b + t <= h[i].base,
           NEW y, y = InsertAt(h, n + 1, Hueco(b, t))
    PROVE  /\ Casi(y, n + 1)
           /\ \A d \in Nat : Libre(y, d) <=> Libre(h, d) \/ Cubre(b, t, d)
<1>0. /\ Len(h) \in Nat /\ DOMAIN h = 1..Len(h)
      /\ \A i \in 1..Len(h) :
           h[i] \in HuecoTipo /\ h[i].base \in Nat /\ h[i].tamanio \in Nat
  BY HuecosTipo
<1>. DEFINE e == Hueco(b, t)
<1>1. e \in HuecoTipo /\ e.base = b /\ e.tamanio = t
  BY HuecoBien
<1>. HIDE DEF e
<1>. PICK k \in 1..(Len(h) + 1) : k = n + 1
  BY <1>0
<1>2. /\ y \in Seq(HuecoTipo) /\ Len(y) = Len(h) + 1
      /\ \A j \in 1..(k - 1) : y[j] = h[j]
      /\ y[k] = e
      /\ \A j \in (k + 1)..(Len(h) + 1) : y[j] = h[j - 1]
  <2>1. y = InsertAt(h, k, e)
    BY DEF e
  <2>2. e \in HuecoTipo
    BY <1>1
  <2>3. /\ InsertAt(h, k, e) \in Seq(HuecoTipo)
        /\ Len(InsertAt(h, k, e)) = Len(h) + 1
        /\ \A j \in 1..(k - 1) : InsertAt(h, k, e)[j] = h[j]
        /\ InsertAt(h, k, e)[k] = e
        /\ \A j \in (k + 1)..(Len(h) + 1) : InsertAt(h, k, e)[j] = h[j - 1]
    BY <2>2, InsertaEn
  <2>. QED  BY <2>1, <2>3
<1>3. TAM_MEMORIA \in Nat /\ DOMAIN y = 1..(Len(h) + 1)
  BY <1>0, <1>2, MemoriaAssumption, LenProperties
<1>4. ASSUME NEW i \in 1..(Len(h) + 1), i # k
      PROVE  \E a \in 1..Len(h) : /\ a = IF i < k THEN i ELSE i - 1
                                  /\ y[i] = h[a] /\ Fin(y, i) = Fin(h, a)
  <2>1. CASE i < k
    BY <2>1, <1>0, <1>2 DEF Fin
  <2>2. CASE i > k
    BY <2>2, <1>0, <1>2 DEF Fin
  <2>. QED  BY <2>1, <2>2, <1>0, <1>4
<1>5. Fin(y, k) = b + t /\ y[k].base = b /\ y[k].tamanio = t
  BY <1>1, <1>2 DEF Fin
<1>6. ASSUME NEW i \in 1..(Len(h) + 1), NEW j \in 1..(Len(h) + 1), i < j
      PROVE  /\ Fin(y, i) <= y[j].base
             /\ i # k \/ j # k + 1 => Fin(y, i) < y[j].base
  <2>1. CASE i # k /\ j # k
    <3>1. PICK a \in 1..Len(h) : /\ a = IF i < k THEN i ELSE i - 1
                                 /\ y[i] = h[a] /\ Fin(y, i) = Fin(h, a)
      BY <2>1, <1>4
    <3>2. PICK c \in 1..Len(h) : /\ c = IF j < k THEN j ELSE j - 1
                                 /\ y[j] = h[c] /\ Fin(y, j) = Fin(h, c)
      BY <2>1, <1>4
    <3>3. a < c
      BY <2>1, <3>1, <3>2, <1>6
    <3>4. Fin(h, a) < h[c].base
      BY <3>3, <1>0 DEF HuecosBien
    <3>5. Fin(h, a) \in Nat
      BY <1>0 DEF Fin
    <3>. QED  BY <3>1, <3>2, <3>4, <3>5, <1>0
  <2>2. CASE j = k
    <3>1. i \in 1..n /\ Fin(h, i) \in Nat /\ i < k
      BY <2>2, <1>0, <1>6 DEF Fin
    <3>2. Fin(y, i) = Fin(h, i)
      BY <3>1, <1>4, <1>0
    <3>. QED  BY <2>2, <3>1, <3>2, <1>5
  <2>3. CASE i = k
    <3>1. PICK c \in 1..Len(h) : c = j - 1 /\ y[j] = h[c]
      BY <2>3, <1>4, <1>6
    <3>2. c \in (n + 1)..Len(h) /\ b + t <= h[c].base
      BY <2>3, <3>1, <1>0, <1>6
    <3>3. CASE j = k + 1
      BY <2>3, <3>1, <3>2, <3>3, <1>5
    <3>4. CASE j # k + 1
      <4>1. k \in 1..Len(h) /\ k < c /\ k \in (n + 1)..Len(h)
        BY <2>3, <3>1, <3>4, <1>0, <1>6
      <4>2. b + t <= h[k].base /\ Fin(h, k) < h[c].base
        BY <4>1, <1>0 DEF HuecosBien
      <4>3. /\ h[k].base \in Nat /\ h[k].tamanio \in Nat
            /\ h[c].base \in Nat
        BY <4>1, <1>0
      <4>4. h[k].base <= Fin(h, k) /\ Fin(h, k) \in Nat
        BY <4>3, FinNat
      <4>5. b + t < h[c].base
        <5>. PICK u \in Nat, v \in Nat, w \in Nat :
               u = h[k].base /\ v = Fin(h, k) /\ w = h[c].base
          BY <4>3, <4>4
        <5>1. b + t <= u /\ u <= v /\ v < w
          BY <4>2, <4>4
        <5>2. b + t < w
          BY <5>1, SMTT(20)
        <5>. QED  BY <5>2
      <4>6. Fin(y, i) = b + t /\ y[j].base = h[c].base
        BY <2>3, <3>1, <1>5
      <4>. QED  BY <4>3, <4>5, <4>6, <1>0
    <3>. QED  BY <3>3, <3>4
  <2>. QED  BY <2>1, <2>2, <2>3
<1>7. ASSUME NEW i \in 1..(Len(h) + 1)
      PROVE  /\ Fin(y, i) <= TAM_MEMORIA
             /\ y[i].tamanio > 0 \/ y[i].base = TAM_MEMORIA
  <2>1. CASE i = k
    BY <2>1, <1>5
  <2>2. CASE i # k
    <3>1. PICK a \in 1..Len(h) : y[i] = h[a] /\ Fin(y, i) = Fin(h, a)
      BY <2>2, <1>4
    <3>. QED  BY <3>1, <1>0 DEF HuecosBien
  <2>. QED  BY <2>1, <2>2
<1>8. Casi(y, k)
  BY <1>2, <1>5, <1>6, <1>7 DEF Casi
<1>9. ASSUME NEW d \in Nat PROVE Libre(y, d) <=> Libre(h, d) \/ Cubre(b, t, d)
  <2>1. ASSUME Libre(y, d) PROVE Libre(h, d) \/ Cubre(b, t, d)
    <3>1. PICK i \in 1..(Len(h) + 1) : Cubre(y[i].base, y[i].tamanio, d)
      BY <2>1, <1>3 DEF Libre
    <3>2. CASE i = k
      BY <3>1, <3>2, <1>5
    <3>3. CASE i # k
      <4>1. PICK a \in 1..Len(h) : y[i] = h[a]
        BY <3>3, <1>4
      <4>. QED  BY <3>1, <4>1, <1>0 DEF Libre
    <3>. QED  BY <3>2, <3>3
  <2>2. ASSUME Libre(h, d) PROVE Libre(y, d)
    <3>1. PICK a \in 1..Len(h) : Cubre(h[a].base, h[a].tamanio, d)
      BY <2>2, <1>0 DEF Libre
    <3>2. \E i \in 1..(Len(h) + 1) : y[i] = h[a]
      <4>1. CASE a < k
        <5>1. a \in 1..(k - 1) /\ a \in 1..(Len(h) + 1)
          BY <4>1, <1>0
        <5>. QED  BY <5>1, <1>2
      <4>2. CASE a >= k
        <5>1. /\ a + 1 \in (k + 1)..(Len(h) + 1) /\ a + 1 \in 1..(Len(h) + 1)
              /\ (a + 1) - 1 = a
          BY <4>2, <1>0
        <5>. QED  BY <5>1, <1>2
      <4>. QED  BY <4>1, <4>2, <1>0
    <3>. QED  BY <3>1, <3>2, <1>3 DEF Libre
  <2>3. ASSUME Cubre(b, t, d) PROVE Libre(y, d)
    BY <2>3, <1>3, <1>5 DEF Libre
  <2>. QED  BY <2>1, <2>2, <2>3
<1>. QED  BY <1>8, <1>9

(* Two blocks side by side cover what the block of both sizes covers. *)
LEMMA CubreJuntos ==
    ASSUME NEW a \in Nat, NEW x \in Nat, NEW t \in Nat, NEW d \in Nat
    PROVE  Cubre(a, x + t, d) <=> Cubre(a, x, d) \/ Cubre(a + x, t, d)
  BY DEF Cubre

(* The hole that begins where hole k ends is joined to it: no byte is won  *)
(* or lost.                                                                *)
LEMMA UneElSiguiente ==
    ASSUME NEW h, NEW k, Casi(h, k), k + 1 \in 1..Len(h),
           Fin(h, k) = h[k + 1].base, NEW z,
           z = Estirado(h, k, h[k + 1].tamanio)
    PROVE  /\ RemoveAt(z, k + 1) \in Seq(HuecoTipo)
           /\ HuecosBien(RemoveAt(z, k + 1))
           /\ \A d \in Nat : Libre(RemoveAt(z, k + 1), d) <=> Libre(h, d)
<1>0. /\ Len(h) \in Nat /\ DOMAIN h = 1..Len(h) /\ h \in Seq(HuecoTipo)
      /\ \A i \in 1..Len(h) :
           h[i] \in HuecoTipo /\ h[i].base \in Nat /\ h[i].tamanio \in Nat
  <2>1. h \in Seq(HuecoTipo)
    BY DEF Casi
  <2>. QED  BY <2>1, HuecosTipo
<1>1. k \in 1..Len(h) /\ k \in Nat
  BY <1>0 DEF Casi
<1>. PICK t \in Nat : t = h[k + 1].tamanio
  BY <1>0
<1>. PICK m \in 1..Len(h) : m = k + 1
  OBVIOUS
<1>2. /\ z \in Seq(HuecoTipo) /\ Len(z) = Len(h)
      /\ \A i \in 1..Len(h) : z[i].base = h[i].base
      /\ \A i \in 1..Len(h) : i # k => z[i] = h[i]
      /\ z[k].tamanio = h[k].tamanio + t
  <2>1. z = Estirado(h, k, t) /\ t \in Nat
    OBVIOUS
  <2>2. h \in Seq(HuecoTipo) /\ k \in 1..Len(h)
    BY <1>0, <1>1
  <2>3. z \in Seq(HuecoTipo) /\ Len(z) = Len(h)
    BY ONLY <2>1, <2>2, Estira
  <2>4. \A i \in 1..Len(h) : z[i].base = h[i].base
    BY ONLY <2>1, <2>2, Estira
  <2>5. \A i \in 1..Len(h) : i # k => z[i] = h[i]
    BY ONLY <2>1, <2>2, Estira
  <2>6. z[k].tamanio = h[k].tamanio + t
    BY ONLY <2>1, <2>2, Estira
  <2>. QED  BY ONLY <2>3, <2>4, <2>5, <2>6
<1>. DEFINE y == RemoveAt(z, m)
<1>3. /\ y \in Seq(HuecoTipo) /\ Len(y) = Len(h) - 1
      /\ \A j \in 1..(m - 1) : y[j] = z[j]
      /\ \A j \in m..(Len(h) - 1) : y[j] = z[j + 1]
  <2>1. m \in 1..Len(z)
    BY <1>2
  <2>2. /\ RemoveAt(z, m) \in Seq(HuecoTipo)
        /\ Len(RemoveAt(z, m)) = Len(z) - 1
        /\ \A j \in 1..(m - 1) : RemoveAt(z, m)[j] = z[j]
        /\ \A j \in m..(Len(z) - 1) : RemoveAt(z, m)[j] = z[j + 1]
    <3>1. z \in Seq(HuecoTipo)
      BY <1>2
    <3>. QED  BY <2>1, <3>1, QuitaDe
  <2>. QED  BY <1>2, <2>2
<1>. HIDE DEF y
<1>4. DOMAIN y = 1..(Len(h) - 1)
  BY <1>3, LenProperties
<1>5. ASSUME NEW i \in 1..(Len(h) - 1), i # k
      PROVE  \E a \in 1..Len(h) : /\ a = IF i < k THEN i ELSE i + 1
                                  /\ y[i] = h[a] /\ Fin(y, i) = Fin(h, a)
  <2>1. CASE i < k
    <3>1. i \in 1..(m - 1) /\ i \in 1..Len(h)
      BY <2>1, <1>0, <1>1
    <3>2. y[i] = h[i]
      BY <3>1, <1>2, <1>3, <1>5
    <3>. QED  BY <2>1, <3>1, <3>2 DEF Fin
  <2>2. CASE i > k
    <3>1. i \in m..(Len(h) - 1) /\ i + 1 \in 1..Len(h) /\ i + 1 # k /\ ~ (i < k)
      BY <2>2, <1>0, <1>1
    <3>2. y[i] = h[i + 1]
      BY <3>1, <1>2, <1>3
    <3>. QED  BY <3>1, <3>2 DEF Fin
  <2>. QED  BY <2>1, <2>2, <1>0, <1>1, <1>5
<1>6. k \in 1..(Len(h) - 1) /\ k \in 1..(m - 1)
  BY <1>0, <1>1
<1>7. /\ y[k].base = h[k].base /\ y[k].tamanio = h[k].tamanio + t
      /\ Fin(y, k) = Fin(h, m)
  <2>1. y[k] = z[k]
    BY <1>3, <1>6
  <2>2. y[k].base = h[k].base /\ y[k].tamanio = h[k].tamanio + t
    BY <1>1, <1>2, <2>1
  <2>. QED  BY <1>0, <1>1, <2>2 DEF Fin
<1>8. ASSUME NEW i \in 1..(Len(h) - 1), NEW j \in 1..(Len(h) - 1), i < j
      PROVE  Fin(y, i) < y[j].base
  <2>1. CASE i # k /\ j # k
    <3>1. PICK a \in 1..Len(h) : /\ a = IF i < k THEN i ELSE i + 1
                                 /\ y[i] = h[a] /\ Fin(y, i) = Fin(h, a)
      BY <2>1, <1>5
    <3>2. PICK c \in 1..Len(h) : /\ c = IF j < k THEN j ELSE j + 1
                                 /\ y[j] = h[c] /\ Fin(y, j) = Fin(h, c)
      BY <2>1, <1>5
    <3>3. a < c /\ a # k
      BY <2>1, <3>1, <3>2, <1>0, <1>1, <1>8
    <3>4. Fin(h, a) < h[c].base
      BY <3>3 DEF Casi
    <3>. QED  BY <3>1, <3>2, <3>4
  <2>2. CASE j = k
    <3>1. PICK a \in 1..Len(h) : a = i /\ Fin(y, i) = Fin(h, a)
      BY <2>2, <1>5, <1>8
    <3>2. Fin(h, a) < h[k].base
      BY <2>2, <3>1, <1>1, <1>8 DEF Casi
    <3>. QED  BY <2>2, <3>1, <3>2, <1>7
  <2>3. CASE i = k
    <3>1. PICK c \in 1..Len(h) : c = j + 1 /\ y[j] = h[c]
      BY <2>3, <1>5, <1>8
    <3>2. m < c /\ m # k
      BY <2>3, <3>1, <1>1, <1>8
    <3>3. Fin(h, m) < h[c].base
      BY <3>2 DEF Casi
    <3>. QED  BY <2>3, <3>1, <3>3, <1>7
  <2>. QED  BY <2>1, <2>2, <2>3
<1>9. ASSUME NEW i \in 1..(Len(h) - 1)
      PROVE  /\ Fin(y, i) <= TAM_MEMORIA
             /\ y[i].tamanio > 0 \/ y[i].base = TAM_MEMORIA
  <2>1. CASE i = k
    <3>1. Fin(h, m) <= TAM_MEMORIA /\ h[k].tamanio > 0
      BY DEF Casi
    <3>2. y[i].tamanio > 0
      BY <2>1, <3>1, <1>0, <1>1, <1>7
    <3>. QED  BY <2>1, <3>1, <3>2, <1>7
  <2>2. CASE i # k
    <3>1. PICK a \in 1..Len(h) : y[i] = h[a] /\ Fin(y, i) = Fin(h, a)
      BY <2>2, <1>5
    <3>. QED  BY <3>1 DEF Casi
  <2>. QED  BY <2>1, <2>2
<1>10. HuecosBien(y)
  BY <1>4, <1>8, <1>9 DEF HuecosBien
<1>11. ASSUME NEW d \in Nat PROVE Libre(y, d) <=> Libre(h, d)
  <2>0. Cubre(y[k].base, y[k].tamanio, d) <=>
          Cubre(h[k].base, h[k].tamanio, d) \/ Cubre(h[m].base, h[m].tamanio, d)
    <3>1. /\ h[k].base \in Nat /\ h[k].tamanio \in Nat
          /\ h[m].base \in Nat /\ h[m].tamanio \in Nat
      BY <1>0, <1>1
    <3>. PICK a \in Nat, x \in Nat : a = h[k].base /\ x = h[k].tamanio
      BY <3>1
    <3>2. h[m].base = a + x /\ h[m].tamanio = t
      BY DEF Fin
    <3>3. y[k].base = a /\ y[k].tamanio = x + t
      BY <1>7
    <3>4. Cubre(a, x + t, d) <=> Cubre(a, x, d) \/ Cubre(a + x, t, d)
      BY CubreJuntos
    <3>. QED  BY <3>2, <3>3, <3>4
  <2>1. ASSUME Libre(y, d) PROVE Libre(h, d)
    <3>1. PICK i \in 1..(Len(h) - 1) : Cubre(y[i].base, y[i].tamanio, d)
      BY <2>1, <1>4 DEF Libre
    <3>2. CASE i = k
      BY <3>1, <3>2, <2>0, <1>0, <1>1 DEF Libre
    <3>3. CASE i # k
      <4>1. PICK a \in 1..Len(h) : y[i] = h[a]
        BY <3>3, <1>5
      <4>. QED  BY <3>1, <4>1, <1>0 DEF Libre
    <3>. QED  BY <3>2, <3>3
  <2>2. ASSUME Libre(h, d) PROVE Libre(y, d)
    <3>1. PICK a \in 1..Len(h) : Cubre(h[a].base, h[a].tamanio, d)
      BY <2>2, <1>0 DEF Libre
    <3>2. CASE a \in {k, m}
      BY <3>1, <3>2, <2>0, <1>4, <1>6 DEF Libre
    <3>3. CASE a \notin {k, m}
      <4>1. \E i \in 1..(Len(h) - 1) : y[i] = h[a]
        <5>1. CASE a < k
          <6>1. a \in 1..(Len(h) - 1) /\ a \in 1..(m - 1) /\ a # k
            BY <5>1, <1>0, <1>1
          <6>. QED  BY <6>1, <1>2, <1>3
        <5>2. CASE a > m
          <6>1. /\ a - 1 \in m..(Len(h) - 1) /\ a - 1 \in 1..(Len(h) - 1)
                /\ (a - 1) + 1 = a /\ a # k
            BY <5>2, <1>0, <1>1
          <6>. QED  BY <6>1, <1>2, <1>3
        <5>. QED  BY <3>3, <5>1, <5>2, <1>0, <1>1
      <4>. QED  BY <3>1, <4>1, <1>4 DEF Libre
    <3>. QED  BY <3>2, <3>3
  <2>. QED  BY <2>1, <2>2
<1>. QED  BY <1>3, <1>10, <1>11 DEF y

(* When no hole begins where hole k ends, no two holes touch. *)
LEMMA NadaQueUnir ==
    ASSUME NEW h, NEW k, Casi(h, k),
           \A i \in 1..Len(h) : i = k + 1 => Fin(h, k) # h[i].base
    PROVE  HuecosBien(h)
<1>0. /\ Len(h) \in Nat /\ DOMAIN h = 1..Len(h) /\ h \in Seq(HuecoTipo)
      /\ \A i \in 1..Len(h) :
           h[i] \in HuecoTipo /\ h[i].base \in Nat /\ h[i].tamanio \in Nat
  <2>1. h \in Seq(HuecoTipo)
    BY DEF Casi
  <2>. QED  BY <2>1, HuecosTipo
<1>1. ASSUME NEW i \in 1..Len(h), NEW j \in 1..Len(h), i < j
      PROVE  Fin(h, i) < h[j].base
  <2>1. /\ Fin(h, i) <= h[j].base
        /\ i # k \/ j # k + 1 => Fin(h, i) < h[j].base
    BY <1>1 DEF Casi
  <2>2. Fin(h, i) \in Nat /\ h[j].base \in Nat
    BY <1>0 DEF Fin
  <2>3. CASE i = k /\ j = k + 1
    <3>1. Fin(h, i) # h[j].base
      BY <2>3
    <3>. QED  BY <2>1, <2>2, <3>1
  <2>. QED  BY <2>1, <2>3
<1>2. \A i \in 1..Len(h) :
        Fin(h, i) <= TAM_MEMORIA /\ (h[i].tamanio > 0 \/ h[i].base = TAM_MEMORIA)
  BY DEF Casi
<1>. QED  BY <1>0, <1>1, <1>2 DEF HuecosBien

(* agregar_hueco_libre (memoria.c:376-441): of bytes that were not free,   *)
(* it makes exactly those bytes free, and leaves the holes in order and    *)
(* apart.                                                                  *)
LEMMA AgregaBien ==
    ASSUME huecos \in Seq(HuecoTipo), HuecosBien(huecos),
           NEW b \in Nat, NEW t \in Nat, t > 0, b + t <= TAM_MEMORIA,
           \A d \in Nat : Cubre(b, t, d) => ~ Libre(huecos, d)
    PROVE  /\ AgregaHueco(b, t) \in Seq(HuecoTipo)
           /\ HuecosBien(AgregaHueco(b, t))
           /\ \A d \in Nat : Libre(AgregaHueco(b, t), d) <=>
                               Libre(huecos, d) \/ Cubre(b, t, d)
<1>. DEFINE T == {i \in 1..Len(huecos) : huecos[i].base < b}
            n == IF T # {} THEN Max(T) ELSE 0
            pegado == n > 0 /\ huecos[n].base + huecos[n].tamanio = b
            h == IF pegado THEN Estirado(huecos, n, t)
                           ELSE InsertAt(huecos, n + 1, Hueco(b, t))
            k == IF pegado THEN n ELSE n + 1
            siguientes == {i \in DOMAIN h :
                             /\ h[k].base < h[i].base
                             /\ h[k].base + h[k].tamanio = h[i].base}
            i0 == Min(siguientes)
<1>1. AgregaHueco(b, t) =
        IF siguientes = {} THEN h
        ELSE RemoveAt(Estirado(h, k, h[i0].tamanio), i0)
  BY DEF AgregaHueco, SelectLastInSeq, Estirado
<1>0. /\ Len(huecos) \in Nat /\ DOMAIN huecos = 1..Len(huecos)
      /\ \A i \in 1..Len(huecos) :
           /\ huecos[i] \in HuecoTipo /\ huecos[i].base \in Nat
           /\ huecos[i].tamanio \in Nat
  BY HuecosTipo
<1>2. /\ n \in 0..Len(huecos) /\ (n > 0 => n \in T)
      /\ \A i \in (n + 1)..Len(huecos) : i \notin T
  <2>. HIDE DEF T
  <2>1. T \in SUBSET (1..Len(huecos))
    BY DEF T
  <2>. QED  BY <1>0, <2>1, Ultimo
<1>3. /\ n > 0 => huecos[n].base < b
      /\ \A i \in (n + 1)..Len(huecos) : ~ (huecos[i].base < b)
  <2>. HIDE DEF n
  <2>1. n > 0 => huecos[n].base < b
    BY <1>2
  <2>2. ASSUME NEW i \in (n + 1)..Len(huecos) PROVE ~ (huecos[i].base < b)
    BY <1>0, <1>2
  <2>. QED  BY <2>1, <2>2
<1>. HIDE DEF n, T
<1>4. TAM_MEMORIA \in Nat /\ Cubre(b, t, b)
  BY MemoriaAssumption DEF Cubre
<1>5. ASSUME NEW i \in 1..n
      PROVE  Fin(huecos, i) <= b /\ (i < n => Fin(huecos, i) < b)
  <2>1. i \in 1..Len(huecos) /\ n \in 1..Len(huecos) /\ huecos[n].base < b
    BY <1>0, <1>2, <1>3
  <2>2. i < n => Fin(huecos, i) < huecos[n].base
    BY <2>1, <1>0 DEF HuecosBien
  <2>3. CASE i < n
    BY <2>1, <2>2, <2>3, <1>0 DEF Fin
  <2>4. CASE i = n
    <3>1. ~ Cubre(huecos[n].base, huecos[n].tamanio, b)
      BY <1>0, <1>4, <2>1 DEF Libre
    <3>. QED  BY <2>1, <2>4, <3>1, <1>0 DEF Cubre, Fin
  <2>. QED  BY <2>3, <2>4, <1>2
<1>6. ASSUME NEW i \in (n + 1)..Len(huecos) PROVE b + t <= huecos[i].base
  <2>1. i \in 1..Len(huecos) /\ ~ (huecos[i].base < b)
    BY <1>0, <1>2, <1>3
  <2>2. huecos[i].base \in Nat /\ huecos[i].tamanio \in Nat
    BY <1>0, <2>1
  <2>3. CASE huecos[i].tamanio = 0
    <3>1. huecos[i].base = TAM_MEMORIA
      BY <2>1, <2>2, <2>3, <1>0 DEF HuecosBien
    <3>. QED  BY <3>1, <1>4
  <2>4. CASE huecos[i].tamanio > 0
    <3>1. Cubre(huecos[i].base, huecos[i].tamanio, huecos[i].base)
      BY <2>2, <2>4 DEF Cubre
    <3>2. ~ Cubre(b, t, huecos[i].base)
      BY <2>1, <2>2, <3>1, <1>0 DEF Libre
    <3>. QED  BY <2>1, <2>2, <3>2 DEF Cubre
  <2>. QED  BY <2>2, <2>3, <2>4
<1>7. /\ Casi(h, k)
      /\ \A d \in Nat : Libre(h, d) <=> Libre(huecos, d) \/ Cubre(b, t, d)
  <2>1. CASE pegado
    <3>1. n \in 1..Len(huecos) /\ Fin(huecos, n) = b
      BY <2>1, <1>0, <1>2 DEF Fin
    <3>2. h = Estirado(huecos, n, t) /\ k = n
      BY <2>1
    <3>. HIDE DEF h, k
    <3>3. \A i \in (n + 1)..Len(huecos) : b + t <= huecos[i].base
      BY <1>6
    <3>4. /\ Casi(h, n)
          /\ \A d \in Nat : Libre(h, d) <=> Libre(huecos, d) \/ Cubre(b, t, d)
      BY <3>1, <3>2, <3>3, PegaAlAnterior
    <3>. QED  BY <3>2, <3>4
  <2>2. CASE ~ pegado
    <3>1. \A i \in 1..n : Fin(huecos, i) < b
      <4>1. n > 0 => Fin(huecos, n) # b
        BY <2>2 DEF Fin
      <4>2. ASSUME NEW i \in 1..n PROVE Fin(huecos, i) \in Nat
        BY <1>0, <1>2 DEF Fin
      <4>. QED  BY <4>1, <4>2, <1>2, <1>5
    <3>2. h = InsertAt(huecos, n + 1, Hueco(b, t)) /\ k = n + 1
      BY <2>2
    <3>. HIDE DEF h, k, pegado
    <3>. QED  BY <3>1, <3>2, <1>2, <1>6, PoneOtro
  <2>. QED  BY <2>1, <2>2
<1>. HIDE DEF h, k, pegado
<1>8. h \in Seq(HuecoTipo) /\ k \in 1..Len(h)
  BY <1>7 DEF Casi
<1>9. /\ Len(h) \in Nat /\ DOMAIN h = 1..Len(h)
      /\ \A i \in 1..Len(h) :
           h[i] \in HuecoTipo /\ h[i].base \in Nat /\ h[i].tamanio \in Nat
  BY <1>8, HuecosTipo
<1>10. ASSUME NEW i \in siguientes PROVE i = k + 1 /\ Fin(h, k) = h[i].base
  <2>1. i \in 1..Len(h) /\ h[k].base < h[i].base /\ Fin(h, k) = h[i].base
    BY <1>9 DEF Fin
  <2>2. CASE i < k
    <3>1. Fin(h, i) <= h[k].base
      BY <1>7, <1>8, <2>1, <2>2 DEF Casi
    <3>. QED  BY <3>1, <2>1, <1>8, <1>9 DEF Fin
  <2>3. CASE i = k
    BY <2>1, <2>3, <1>9
  <2>4. CASE i > k /\ i # k + 1
    <3>1. Fin(h, k) < h[i].base
      BY <1>7, <1>8, <2>1, <2>4 DEF Casi
    <3>2. Fin(h, k) \in Nat
      BY <1>8, <1>9 DEF Fin
    <3>. QED  BY <3>1, <3>2, <2>1
  <2>. QED  BY <2>1, <2>2, <2>3, <2>4, <1>8, <1>9
<1>11. CASE siguientes = {}
  <2>1. ASSUME NEW i \in 1..Len(h), i = k + 1, Fin(h, k) = h[i].base PROVE FALSE
    <3>1. h[k].tamanio > 0 /\ h[k].base \in Nat /\ h[k].tamanio \in Nat
      BY <1>7, <1>8, <1>9 DEF Casi
    <3>2. h[k].base < h[i].base
      BY <3>1, <2>1 DEF Fin
    <3>3. i \in siguientes
      BY <3>2, <2>1, <1>9 DEF Fin
    <3>. QED  BY <3>3, <1>11
  <2>2. HuecosBien(h)
    BY <1>7, <2>1, NadaQueUnir
  <2>. QED  BY <1>1, <1>7, <1>8, <1>11, <2>2
<1>12. CASE siguientes # {}
  <2>1. siguientes = {k + 1}
    BY <1>10, <1>12
  <2>2. k + 1 \in 1..Len(h) /\ Fin(h, k) = h[k + 1].base
    BY <1>9, <1>10, <2>1
  <2>3. i0 = k + 1
    <3>1. siguientes \in SUBSET Nat
      BY <2>1, <1>8, <1>9
    <3>. HIDE DEF siguientes
    <3>2. i0 \in siguientes
      BY <3>1, <1>12, MinEsta
    <3>. QED  BY <3>2, <2>1
  <2>. HIDE DEF i0, siguientes
  <2>. DEFINE z == Estirado(h, k, h[k + 1].tamanio)
  <2>4. AgregaHueco(b, t) = RemoveAt(z, k + 1)
    BY <1>1, <1>12, <2>3
  <2>. HIDE DEF z
  <2>5. z = Estirado(h, k, h[k + 1].tamanio)
    BY DEF z
  <2>6. /\ RemoveAt(z, k + 1) \in Seq(HuecoTipo)
        /\ HuecosBien(RemoveAt(z, k + 1))
        /\ \A d \in Nat : Libre(RemoveAt(z, k + 1), d) <=> Libre(h, d)
    BY <1>7, <2>2, <2>5, UneElSiguiente
  <2>. QED  BY <1>7, <2>4, <2>6
<1>. QED  BY <1>11, <1>12

-----------------------------------------------------------------------------
(* Hole i without its first t bytes. *)
Recortado(h, i, t) == [h EXCEPT ![i] = Hueco(@.base + t, @.tamanio - t)]

(* A byte is in one hole at most. *)
LEMMA HuecosDisjuntos ==
    ASSUME NEW h \in Seq(HuecoTipo), HuecosBien(h),
           NEW i \in 1..Len(h), NEW j \in 1..Len(h), i # j, NEW d \in Nat,
           Cubre(h[i].base, h[i].tamanio, d)
    PROVE  ~ Cubre(h[j].base, h[j].tamanio, d)
<1>1. /\ Len(h) \in Nat /\ DOMAIN h = 1..Len(h)
      /\ \A k \in 1..Len(h) :
           h[k] \in HuecoTipo /\ h[k].base \in Nat /\ h[k].tamanio \in Nat
  BY HuecosTipo
<1>2. h[i].base + h[i].tamanio < h[j].base \/ h[j].base + h[j].tamanio < h[i].base
  BY <1>1 DEF HuecosBien, Fin
<1>3. /\ h[i].base \in Nat /\ h[i].tamanio \in Nat
      /\ h[j].base \in Nat /\ h[j].tamanio \in Nat
  BY <1>1
<1>. QED  BY <1>2, <1>3 DEF Cubre

(* actualizar_hueco_libre (memoria.c:281-298): it takes from the free      *)
(* bytes exactly the first t of the hole chosen.                           *)
LEMMA OcupaBien ==
    ASSUME huecos \in Seq(HuecoTipo), HuecosBien(huecos),
           NEW i \in 1..Len(huecos), NEW t \in Nat, t > 0,
           huecos[i].tamanio >= t
    PROVE  /\ Ocupa(i, t) \in Seq(HuecoTipo)
           /\ HuecosBien(Ocupa(i, t))
           /\ \A d \in Nat : Libre(Ocupa(i, t), d) <=>
                               Libre(huecos, d) /\ ~ Cubre(huecos[i].base, t, d)
<1>. PICK h : h = huecos
  OBVIOUS
<1>0. /\ h \in Seq(HuecoTipo) /\ HuecosBien(h)
      /\ i \in 1..Len(h) /\ h[i].tamanio >= t
  OBVIOUS
<1>1. /\ Len(h) \in Nat /\ DOMAIN h = 1..Len(h)
      /\ \A k \in 1..Len(h) :
           h[k] \in HuecoTipo /\ h[k].base \in Nat /\ h[k].tamanio \in Nat
  BY <1>0, HuecosTipo
<1>2. Ocupa(i, t) = IF h[i].tamanio = t THEN RemoveAt(h, i) ELSE Recortado(h, i, t)
  BY DEF Ocupa, Recortado
<1>3. \A k, m \in 1..Len(h) : k < m => Fin(h, k) < h[m].base
  BY <1>0, <1>1 DEF HuecosBien
<1>4. \A k \in 1..Len(h) : /\ Fin(h, k) <= TAM_MEMORIA
                           /\ h[k].tamanio > 0 \/ h[k].base = TAM_MEMORIA
  BY <1>0, <1>1 DEF HuecosBien
<1>5. ASSUME NEW d \in Nat, NEW k \in 1..Len(h), k # i,
             Cubre(h[k].base, h[k].tamanio, d)
      PROVE  ~ Cubre(h[i].base, t, d)
  <2>1. ~ Cubre(h[i].base, h[i].tamanio, d)
    BY <1>0, <1>5, HuecosDisjuntos
  <2>2. h[i].base \in Nat /\ h[i].tamanio \in Nat /\ h[i].tamanio >= t
    BY <1>0, <1>1
  <2>. QED  BY <2>1, <2>2 DEF Cubre
<1>6. CASE h[i].tamanio = t
  <2>. DEFINE y == RemoveAt(h, i)
  <2>1. /\ y \in Seq(HuecoTipo) /\ Len(y) = Len(h) - 1
        /\ \A j \in 1..(i - 1) : y[j] = h[j]
        /\ \A j \in i..(Len(h) - 1) : y[j] = h[j + 1]
    BY <1>0, QuitaDe
  <2>. HIDE DEF y
  <2>2. DOMAIN y = 1..(Len(h) - 1)
    BY <2>1, LenProperties
  <2>3. ASSUME NEW j \in 1..(Len(h) - 1)
        PROVE  \E a \in 1..Len(h) : /\ a = IF j < i THEN j ELSE j + 1
                                    /\ a # i /\ y[j] = h[a]
    <3>1. CASE j < i
      <4>1. j \in 1..(i - 1) /\ j \in 1..Len(h)
        BY <3>1, <1>1
      <4>. QED  BY <3>1, <4>1, <2>1
    <3>2. CASE j >= i
      <4>1. j \in i..(Len(h) - 1) /\ j + 1 \in 1..Len(h) /\ ~ (j < i) /\ j + 1 # i
        BY <3>2, <1>1
      <4>. QED  BY <4>1, <2>1
    <3>. QED  BY <3>1, <3>2, <1>1
  <2>4. ASSUME NEW j \in 1..(Len(h) - 1), NEW k \in 1..(Len(h) - 1), j < k
        PROVE  Fin(y, j) < y[k].base
    <3>1. PICK a \in 1..Len(h) : a = (IF j < i THEN j ELSE j + 1) /\ y[j] = h[a]
      BY <2>3
    <3>2. PICK c \in 1..Len(h) : c = (IF k < i THEN k ELSE k + 1) /\ y[k] = h[c]
      BY <2>3
    <3>3. a < c
      BY <2>4, <3>1, <3>2, <1>1
    <3>. QED  BY <3>1, <3>2, <3>3, <1>3 DEF Fin
  <2>5. ASSUME NEW j \in 1..(Len(h) - 1)
        PROVE  /\ Fin(y, j) <= TAM_MEMORIA
               /\ y[j].tamanio > 0 \/ y[j].base = TAM_MEMORIA
    BY <2>3, <1>4 DEF Fin
  <2>6. HuecosBien(y)
    BY <2>2, <2>4, <2>5 DEF HuecosBien
  <2>7. ASSUME NEW d \in Nat
        PROVE  Libre(y, d) <=> Libre(h, d) /\ ~ Cubre(h[i].base, t, d)
    <3>1. ASSUME Libre(y, d) PROVE Libre(h, d) /\ ~ Cubre(h[i].base, t, d)
      <4>1. PICK j \in 1..(Len(h) - 1) : Cubre(y[j].base, y[j].tamanio, d)
        BY <3>1, <2>2 DEF Libre
      <4>2. PICK a \in 1..Len(h) : a # i /\ y[j] = h[a]
        BY <2>3
      <4>. QED  BY <4>1, <4>2, <1>1, <1>5 DEF Libre
    <3>2. ASSUME Libre(h, d), ~ Cubre(h[i].base, t, d) PROVE Libre(y, d)
      <4>1. PICK a \in 1..Len(h) : Cubre(h[a].base, h[a].tamanio, d)
        BY <3>2, <1>1 DEF Libre
      <4>2. a # i
        BY <4>1, <3>2, <1>6
      <4>3. CASE a < i
        <5>1. a \in 1..(i - 1) /\ a \in 1..(Len(h) - 1)
          BY <4>3, <1>1
        <5>. QED  BY <4>1, <5>1, <2>1, <2>2 DEF Libre
      <4>4. CASE a > i
        <5>1. /\ a - 1 \in i..(Len(h) - 1) /\ a - 1 \in 1..(Len(h) - 1)
              /\ (a - 1) + 1 = a
          BY <4>4, <1>1
        <5>. QED  BY <4>1, <5>1, <2>1, <2>2 DEF Libre
      <4>. QED  BY <4>2, <4>3, <4>4, <1>1
    <3>. QED  BY <3>1, <3>2
  <2>8. Ocupa(i, t) = y
    BY <1>2, <1>6 DEF y
  <2>. QED  BY <2>1, <2>6, <2>7, <2>8
<1>7. CASE h[i].tamanio # t
  <2>. DEFINE y == Recortado(h, i, t)
              e == Hueco(h[i].base + t, h[i].tamanio - t)
  <2>0. h[i].base \in Nat /\ h[i].tamanio \in Nat /\ h[i].tamanio > t
    BY <1>0, <1>1, <1>7
  <2>1. /\ e \in HuecoTipo /\ e.base = h[i].base + t
        /\ e.tamanio = h[i].tamanio - t
    <3>1. h[i].base + t \in Nat /\ h[i].tamanio - t \in Nat
      BY <2>0
    <3>. QED  BY <3>1, HuecoBien
  <2>. HIDE DEF e
  <2>2. y = [h EXCEPT ![i] = e]
    BY DEF Recortado, e
  <2>. HIDE DEF y
  <2>3. /\ y \in Seq(HuecoTipo) /\ Len(y) = Len(h)
        /\ \A j \in 1..Len(h) : y[j] = IF j = i THEN e ELSE h[j]
    BY <1>0, <2>1, <2>2, ExceptSeq
  <2>4. DOMAIN y = 1..Len(h)
    BY <2>3, LenProperties
  <2>5. /\ y[i].base = h[i].base + t /\ y[i].tamanio = h[i].tamanio - t
        /\ Fin(y, i) = Fin(h, i) /\ y[i].tamanio > 0
    <3>1. y[i] = e
      BY <2>3
    <3>2. y[i].base = h[i].base + t /\ y[i].tamanio = h[i].tamanio - t
      BY <2>1, <3>1
    <3>3. (h[i].base + t) + (h[i].tamanio - t) = h[i].base + h[i].tamanio
      BY <2>0
    <3>4. Fin(y, i) = Fin(h, i)
      BY <3>2, <3>3 DEF Fin
    <3>. QED  BY <2>0, <3>2, <3>4
  <2>6. ASSUME NEW j \in 1..Len(h), NEW k \in 1..Len(h), j < k
        PROVE  Fin(y, j) < y[k].base
    <3>1. Fin(y, j) = Fin(h, j)
      BY <2>3, <2>5 DEF Fin
    <3>2. h[k].base <= y[k].base /\ h[k].base \in Nat /\ y[k].base \in Nat
      <4>1. CASE k = i
        BY <4>1, <2>0, <2>5
      <4>2. CASE k # i
        BY <4>2, <2>3, <1>1
      <4>. QED  BY <4>1, <4>2
    <3>3. Fin(h, j) < h[k].base /\ Fin(h, j) \in Nat
      <4>1. Fin(h, j) \in Nat
        BY <1>1 DEF Fin
      <4>. QED  BY <4>1, <2>6, <1>3
    <3>. QED  BY <3>1, <3>2, <3>3
  <2>7. ASSUME NEW j \in 1..Len(h)
        PROVE  /\ Fin(y, j) <= TAM_MEMORIA
               /\ y[j].tamanio > 0 \/ y[j].base = TAM_MEMORIA
    <3>1. CASE j = i
      BY <3>1, <2>5, <1>4
    <3>2. CASE j # i
      BY <3>2, <2>3, <1>4 DEF Fin
    <3>. QED  BY <3>1, <3>2
  <2>8. HuecosBien(y)
    BY <2>4, <2>6, <2>7 DEF HuecosBien
  <2>9. ASSUME NEW d \in Nat
        PROVE  Libre(y, d) <=> Libre(h, d) /\ ~ Cubre(h[i].base, t, d)
    <3>1. Cubre(y[i].base, y[i].tamanio, d) <=>
            Cubre(h[i].base, h[i].tamanio, d) /\ ~ Cubre(h[i].base, t, d)
      BY <2>0, <2>5 DEF Cubre
    <3>2. \A j \in 1..Len(h) : j # i => y[j] = h[j]
      BY <2>3
    <3>3. \A j \in 1..Len(h) : j # i /\ Cubre(h[j].base, h[j].tamanio, d)
                                 => ~ Cubre(h[i].base, t, d)
      BY <1>5
    <3>. QED  BY <3>1, <3>2, <3>3, <2>4, <1>0, <1>1 DEF Libre
  <2>10. Ocupa(i, t) = y
    BY <1>2, <1>7 DEF y
  <2>. QED  BY <2>3, <2>8, <2>9, <2>10
<1>. QED  BY <1>6, <1>7

-----------------------------------------------------------------------------
(* The free bytes. *)
BytesLibres(h) == {d \in Direcciones : Libre(h, d)}

(* An area of t bytes inside the memory has t bytes. *)
LEMMA Bloque ==
    ASSUME NEW b \in Nat, NEW t \in Nat, b + t <= TAM_MEMORIA
    PROVE  /\ IsFiniteSet({d \in Direcciones : Cubre(b, t, d)})
           /\ Cardinality({d \in Direcciones : Cubre(b, t, d)}) = t
<1>1. {d \in Direcciones : Cubre(b, t, d)} = b..(b + t - 1)
  BY MemoriaAssumption DEF Direcciones, Cubre
<1>2. b \in Int /\ b + t - 1 \in Int
  OBVIOUS
<1>3. /\ IsFiniteSet(b..(b + t - 1))
      /\ Cardinality(b..(b + t - 1)) =
           IF b > b + t - 1 THEN 0 ELSE (b + t - 1) - b + 1
  BY <1>2, FS_Interval
<1>4. (IF b > b + t - 1 THEN 0 ELSE (b + t - 1) - b + 1) = t
  OBVIOUS
<1>. QED  BY <1>1, <1>3, <1>4

(* Sets of addresses are finite. *)
LEMMA DireccionesFinitas ==
    ASSUME NEW D, D \subseteq Direcciones
    PROVE  IsFiniteSet(D) /\ Cardinality(D) \in Nat
<1>1. IsFiniteSet(0..(TAM_MEMORIA - 1))
  BY MemoriaAssumption, FS_Interval
<1>. QED  BY <1>1, FS_Subset, FS_CardinalityType DEF Direcciones

(* The size of two sets of addresses that do not meet. *)
LEMMA Disjuntos ==
    ASSUME NEW A, NEW B, A \subseteq Direcciones, B \subseteq Direcciones,
           A \cap B = {}
    PROVE  Cardinality(A \cup B) = Cardinality(A) + Cardinality(B)
<1>1. /\ IsFiniteSet(A) /\ Cardinality(A) \in Nat
      /\ IsFiniteSet(B) /\ Cardinality(B) \in Nat
  BY DireccionesFinitas
<1>2. Cardinality(A \cup B) =
        Cardinality(A) + Cardinality(B) - Cardinality(A \cap B)
  BY <1>1, FS_Union
<1>3. Cardinality(A \cap B) = 0
  BY FS_EmptySet
<1>. QED  BY <1>1, <1>2, <1>3

(* What verificar_espacio_memoria adds is the number of free bytes. *)
LEMMA SumaLibres ==
    ASSUME NEW h \in Seq(HuecoTipo), HuecosBien(h)
    PROVE  Suma(h) = Cardinality(BytesLibres(h))
<1>1. /\ Len(h) \in Nat /\ DOMAIN h = 1..Len(h)
      /\ \A k \in 1..Len(h) :
           h[k] \in HuecoTipo /\ h[k].base \in Nat /\ h[k].tamanio \in Nat
  BY HuecosTipo
<1>2. PICK f \in [0..Len(h) -> Nat] :
        /\ f[0] = 0 /\ f[Len(h)] = Suma(h)
        /\ \A k \in 1..Len(h) : f[k] = f[k - 1] + h[k].tamanio
  BY SumaPorPartes
<1>. DEFINE L(k) == {d \in Direcciones :
                       \E i \in 1..k : Cubre(h[i].base, h[i].tamanio, d)}
            T == {k \in Nat : k <= Len(h) => f[k] = Cardinality(L(k))}
<1>3. 0 \in T
  <2>1. L(0) = {}
    OBVIOUS
  <2>. QED  BY <2>1, <1>2, FS_EmptySet
<1>4. ASSUME NEW k \in T PROVE k + 1 \in T
  <2>1. SUFFICES ASSUME k + 1 <= Len(h) PROVE f[k + 1] = Cardinality(L(k + 1))
    OBVIOUS
  <2>. PICK m \in 1..Len(h) : m = k + 1
    BY <1>1, <2>1
  <2>2. k \in Nat /\ m - 1 = k /\ f[k] = Cardinality(L(k))
    BY <1>1, <2>1
  <2>. DEFINE B == {d \in Direcciones : Cubre(h[m].base, h[m].tamanio, d)}
  <2>3. Cardinality(B) = h[m].tamanio
    <3>1. h[m].base + h[m].tamanio <= TAM_MEMORIA
      BY <1>1 DEF HuecosBien, Fin
    <3>. QED  BY <3>1, <1>1, Bloque
  <2>4. L(m) = L(k) \cup B
    <3>1. \A i : i \in 1..m <=> i \in 1..k \/ i = m
      BY <2>2
    <3>. QED  BY <3>1
  <2>5. L(k) \cap B = {}
    <3>1. SUFFICES ASSUME NEW d \in L(k), d \in B PROVE FALSE
      OBVIOUS
    <3>2. PICK i \in 1..k : Cubre(h[i].base, h[i].tamanio, d)
      OBVIOUS
    <3>3. i \in 1..Len(h) /\ i # m /\ d \in Nat
      BY <1>1, <2>2, MemoriaAssumption DEF Direcciones
    <3>4. ~ Cubre(h[m].base, h[m].tamanio, d)
      BY <3>2, <3>3, HuecosDisjuntos
    <3>. QED  BY <3>1, <3>4
  <2>. HIDE DEF L, B
  <2>6. Cardinality(L(m)) = Cardinality(L(k)) + Cardinality(B)
    <3>1. L(k) \subseteq Direcciones /\ B \subseteq Direcciones
      BY DEF L, B
    <3>. QED  BY <3>1, <2>4, <2>5, Disjuntos
  <2>7. f[m] = f[k] + h[m].tamanio
    BY <1>2, <2>2
  <2>. QED  BY <2>2, <2>3, <2>6, <2>7
<1>. HIDE DEF T
<1>5. T = Nat
  <2>1. T \in SUBSET Nat
    BY DEF T
  <2>. QED  BY <1>3, <1>4, <2>1, Induccion
<1>6. f[Len(h)] = Cardinality(L(Len(h)))
  <2>1. Len(h) \in T
    BY <1>1, <1>5
  <2>. HIDE DEF L
  <2>. QED  BY <2>1, <1>1 DEF T
<1>7. L(Len(h)) = BytesLibres(h)
  BY <1>1 DEF BytesLibres, Libre
<1>. QED  BY <1>2, <1>6, <1>7

-----------------------------------------------------------------------------
(* v is the choice among the first k holes. *)
Elegido(a, t, v, k) ==
    /\ v \in 0..k
    /\ v = 0 => \A j \in 1..k : ~ (huecos[j].tamanio >= t)
    /\ v > 0 => /\ huecos[v].tamanio >= t
                /\ \A j \in 1..k : huecos[j].tamanio >= t =>
                     /\ a = "FIRST" => v <= j
                     /\ a = "BEST" => huecos[v].tamanio <= huecos[j].tamanio
                     /\ a = "WORST" => huecos[v].tamanio >= huecos[j].tamanio

(* encontrar_hueco_first, _best and _worst return the first, the smallest  *)
(* or the largest of the holes that fit, or nothing when none fits.        *)
LEMMA EligeBien ==
    ASSUME huecos \in Seq(HuecoTipo), NEW a \in Algoritmos, NEW t \in Nat
    PROVE  Elegido(a, t, HuecoElegido(a, t), Len(huecos))
<1>1. /\ Len(huecos) \in Nat /\ DOMAIN huecos = 1..Len(huecos)
      /\ \A k \in 1..Len(huecos) :
           /\ huecos[k] \in HuecoTipo /\ huecos[k].base \in Nat
           /\ huecos[k].tamanio \in Nat
  BY HuecosTipo
<1>2. PICK f \in [0..Len(huecos) -> Nat] :
        /\ f[0] = 0 /\ f[Len(huecos)] = HuecoElegido(a, t)
        /\ \A k \in 1..Len(huecos) :
             f[k] = IF /\ huecos[k].tamanio >= t
                       /\ \/ f[k - 1] = 0
                          \/ Mejora(a, huecos[k].tamanio,
                                    huecos[f[k - 1]].tamanio)
                    THEN k ELSE f[k - 1]
  BY HuecoPorPartes
<1>. DEFINE T == {k \in Nat : k <= Len(huecos) => Elegido(a, t, f[k], k)}
<1>3. 0 \in T
  BY <1>2 DEF Elegido
<1>4. ASSUME NEW k \in T PROVE k + 1 \in T
  <2>1. SUFFICES ASSUME k + 1 <= Len(huecos) PROVE Elegido(a, t, f[k + 1], k + 1)
    OBVIOUS
  <2>. PICK m \in 1..Len(huecos) : m = k + 1
    BY <1>1, <2>1
  <2>. PICK v \in Nat : v = f[k]
    BY <1>1, <2>1
  <2>. PICK w \in Nat : w = f[m]
    BY <1>1, <2>1
  <2>2. k \in Nat /\ m - 1 = k /\ Elegido(a, t, v, k)
    BY <1>1, <2>1
  <2>3. w = IF /\ huecos[m].tamanio >= t
               /\ v = 0 \/ Mejora(a, huecos[m].tamanio, huecos[v].tamanio)
            THEN m ELSE v
    BY <1>2, <2>2
  <2>4. \A j : j \in 1..m <=> j \in 1..k \/ j = m
    BY <2>2
  <2>5. a \in {"FIRST", "BEST", "WORST"}
    BY DEF Algoritmos
  <2>6. \A j \in 1..m : huecos[j].tamanio \in Nat
    BY <1>1
  <2>7. v \in 0..k /\ (v > 0 => v \in 1..k)
    BY <2>2 DEF Elegido
  <2>8. CASE w = v /\ v = 0
    <3>1. ~ (huecos[m].tamanio >= t)
      BY <2>3, <2>8
    <3>. QED  BY <2>2, <2>4, <2>8, <3>1 DEF Elegido
  <2>9. CASE w = v /\ v > 0
    <3>1. huecos[v].tamanio >= t
      BY <2>2, <2>9 DEF Elegido
    <3>2. \/ ~ (huecos[m].tamanio >= t)
          \/ ~ Mejora(a, huecos[m].tamanio, huecos[v].tamanio)
      BY <2>3, <2>7, <2>9, <2>2
    <3>3. huecos[m].tamanio \in Nat /\ huecos[v].tamanio \in Nat
      BY <2>4, <2>6, <2>7, <2>9
    <3>4. ASSUME NEW j \in 1..m, huecos[j].tamanio >= t
          PROVE  /\ a = "FIRST" => v <= j
                 /\ a = "BEST" => huecos[v].tamanio <= huecos[j].tamanio
                 /\ a = "WORST" => huecos[v].tamanio >= huecos[j].tamanio
      <4>1. CASE j = m
        BY <4>1, <3>2, <3>3, <3>4, <2>2, <2>7 DEF Mejora
      <4>2. CASE j \in 1..k
        BY <4>2, <3>4, <2>2, <2>9 DEF Elegido
      <4>. QED  BY <2>4, <4>1, <4>2
    <3>5. w \in 0..m /\ w > 0
      BY <2>2, <2>7, <2>9
    <3>. QED  BY <2>9, <3>1, <3>4, <3>5 DEF Elegido
  <2>10. CASE w = m
    <3>1. /\ huecos[m].tamanio >= t
          /\ v = 0 \/ Mejora(a, huecos[m].tamanio, huecos[v].tamanio)
      BY <2>2, <2>3, <2>7, <2>10
    <3>2. ASSUME NEW j \in 1..m, huecos[j].tamanio >= t
          PROVE  /\ a = "FIRST" => m <= j
                 /\ a = "BEST" => huecos[m].tamanio <= huecos[j].tamanio
                 /\ a = "WORST" => huecos[m].tamanio >= huecos[j].tamanio
      <4>0. /\ huecos[m].tamanio \in Nat /\ huecos[j].tamanio \in Nat
            /\ m \in Nat /\ j \in Nat
        BY <2>4, <2>6
      <4>1. CASE j = m
        BY <4>0, <4>1
      <4>2. CASE j \in 1..k
        <5>1. v > 0 /\ Mejora(a, huecos[m].tamanio, huecos[v].tamanio)
          BY <4>2, <3>1, <3>2, <2>2, <2>7 DEF Elegido
        <5>2. huecos[v].tamanio \in Nat
          BY <5>1, <2>4, <2>6, <2>7
        <5>3. /\ a = "BEST" => huecos[v].tamanio <= huecos[j].tamanio
              /\ a = "WORST" => huecos[v].tamanio >= huecos[j].tamanio
          BY <4>2, <5>1, <3>2, <2>2 DEF Elegido
        <5>. QED  BY <4>0, <5>1, <5>2, <5>3, <2>5 DEF Mejora
      <4>. QED  BY <2>4, <4>1, <4>2
    <3>3. w \in 0..m /\ w > 0
      BY <2>10
    <3>. QED  BY <2>10, <3>1, <3>2, <3>3 DEF Elegido
  <2>. QED  BY <2>3, <2>7, <2>8, <2>9, <2>10
<1>. HIDE DEF T
<1>5. T = Nat
  <2>1. T \in SUBSET Nat
    BY DEF T
  <2>. QED  BY <1>3, <1>4, <2>1, Induccion
<1>6. Len(huecos) \in T
  BY <1>1, <1>5
<1>. QED  BY <1>1, <1>2, <1>6 DEF T

(* The sum of the sizes is a natural. *)
LEMMA SumaNat ==
    ASSUME NEW h \in Seq(HuecoTipo)
    PROVE  Suma(h) \in Nat
<1>1. Len(h) \in Nat
  BY LenProperties
<1>2. PICK f \in [0..Len(h) -> Nat] : f[Len(h)] = Suma(h)
  BY SumaPorPartes
<1>. QED  BY <1>1, <1>2

(* tamanio_total is the sum of all the holes when none fits. *)
LEMMA SumaVistaNat ==
    ASSUME huecos \in Seq(HuecoTipo), NEW t
    PROVE  /\ SumaVista(t) \in Nat
           /\ Caben(t) = {} => SumaVista(t) = Suma(huecos)
<1>1. Len(huecos) \in Nat /\ Caben(t) \subseteq 1..Len(huecos)
  BY HuecosTipo DEF Caben
<1>2. CASE Caben(t) = {}
  BY <1>2, SumaNat DEF SumaVista
<1>3. CASE Caben(t) # {}
  <2>1. Min(Caben(t)) \in Caben(t)
    <3>1. Caben(t) \in SUBSET Nat
      BY <1>1
    <3>. QED  BY <1>3, <3>1, MinEsta
  <2>. PICK m \in 1..Len(huecos) : m = Min(Caben(t))
    BY <1>1, <2>1
  <2>2. m - 1 \in Nat /\ m - 1 <= Len(huecos) /\ 1 <= (m - 1) + 1 /\ 1 \in Nat
    BY <1>1
  <2>3. SubSeq(huecos, 1, m - 1) \in Seq(HuecoTipo)
    BY <2>2, Tramo
  <2>4. Suma(SubSeq(huecos, 1, m - 1)) \in Nat
    BY <2>3, SumaNat
  <2>. QED  BY <1>3, <2>4 DEF SumaVista
<1>. QED  BY <1>2, <1>3

-----------------------------------------------------------------------------
(* The segments in segmentos_en_memoria. *)
EnMemoria == {segmentos[i] : i \in DOMAIN segmentos}

(* Byte d is in a segment. *)
Ocupado(d) == \E r \in EnMemoria : Cubre(base[r], tamanio[r], d)

(* The tables and the list of segments agree: no segment is twice in the   *)
(* list, segmento_0 is always in it, a table holds segments of its process *)
(* only, and those are the ones in the list as long as the process has not *)
(* ended.                                                                  *)
TablasYLista ==
    /\ \A i, j \in DOMAIN segmentos : segmentos[i] = segmentos[j] => i = j
    /\ Compartido \in EnMemoria
    /\ \A p, q \in Pid, id \in Ids : <<q, id>> \in tabla[p] => q = p
    /\ \A p \in Pid : fase[p] \in {"nuevo", "terminado"} => tabla[p] = {}
    /\ \A p \in Pid, id \in Ids :
         fase[p] # "terminado" =>
           (<<p, id>> \in tabla[p] <=> <<p, id>> \in EnMemoria)

(* Segments are not empty, are inside the memory and do not overlap. *)
Propios ==
    /\ \A r \in EnMemoria : tamanio[r] > 0 /\ base[r] + tamanio[r] <= TAM_MEMORIA
    /\ \A r, q \in EnMemoria :
         r # q => \/ base[r] + tamanio[r] <= base[q]
                  \/ base[q] + tamanio[q] <= base[r]

(* Except while compactar moves segments, a byte is free if and only if no *)
(* segment has it.                                                         *)
Reparto ==
    pc # "mueve" => \A d \in Direcciones : Libre(huecos, d) <=> ~ Ocupado(d)

(* What the thread of the kernel's connection knows when it compacts: the  *)
(* holes add up to the size asked for, and to tamanio_total; once it has   *)
(* compacted, a hole fits.                                                 *)
Pedidos ==
    /\ pc # "recv" => pedido # <<>> /\ tamanioTotal >= pedido[3]
    /\ pc = "recv" /\ pedido # <<>> => Caben(pedido[3]) # {}
    /\ pc = "compactar" => tamanioTotal = Cardinality(BytesLibres(huecos))

(* The bytes of the segments compactar has not moved yet. *)
Pendientes ==
    {d \in Direcciones :
       \E i \in (movidos + 1)..Len(segmentos) :
         Cubre(base[segmentos[i]], tamanio[segmentos[i]], d)}

(* The loop invariant of compactar (memoria.c:444-484): the segments are   *)
(* in order, those already moved fill the memory up to the cursor, the     *)
(* others begin after it, and the free bytes, those filled and those still *)
(* to move add up to the memory.                                           *)
Moviendo ==
    pc = "mueve" =>
        /\ movidos <= Len(segmentos)
        /\ \A i, j \in 1..Len(segmentos) :
             i < j =>
               base[segmentos[i]] + tamanio[segmentos[i]] <= base[segmentos[j]]
        /\ \A i \in 1..Len(segmentos) :
             /\ i <= movidos =>
                  base[segmentos[i]] + tamanio[segmentos[i]] <= cursor
             /\ i > movidos => cursor <= base[segmentos[i]]
        /\ \A d \in Nat : d < cursor =>
             \E i \in 1..Len(segmentos) :
               /\ i <= movidos
               /\ Cubre(base[segmentos[i]], tamanio[segmentos[i]], d)
        /\ tamanioTotal + cursor + Cardinality(Pendientes) = TAM_MEMORIA

(* The segment an access of the file system was asked for is still there:  *)
(* its process is blocked.                                                 *)
Accesos ==
    \A x \in accesosFs :
        fase[x.pid] = "activo" /\ x.ref \in tabla[x.pid]

(* The inductive invariant. *)
IInv ==
    /\ TipoMemoria /\ TablasYLista /\ Propios /\ HuecosBien(huecos)
    /\ Reparto /\ Pedidos /\ Moviendo /\ Accesos

-----------------------------------------------------------------------------
(* The types of the lists, ready to use. *)
LEMMA EnRef ==
    ASSUME TipoMemoria
    PROVE  /\ Len(segmentos) \in Nat /\ DOMAIN segmentos = 1..Len(segmentos)
           /\ EnMemoria \subseteq Ref
           /\ \A r \in Ref : base[r] \in Nat /\ tamanio[r] \in Nat
           /\ huecos \in Seq(HuecoTipo)
           /\ \A i \in 1..Len(segmentos) : segmentos[i] \in EnMemoria
<1>1. segmentos \in Seq(Ref)
  BY DEF TipoMemoria
<1>2. Len(segmentos) \in Nat /\ DOMAIN segmentos = 1..Len(segmentos)
  BY <1>1, LenProperties
<1>3. \A i \in 1..Len(segmentos) : segmentos[i] \in Ref
  BY <1>1, ElementOfSeq
<1>4. /\ EnMemoria \subseteq Ref
      /\ \A i \in 1..Len(segmentos) : segmentos[i] \in EnMemoria
  BY <1>2, <1>3 DEF EnMemoria
<1>. QED  BY <1>2, <1>4 DEF TipoMemoria, HuecoTipo

(* inicializar_memoria: segmento_0 and one hole after it. *)
LEMMA Iniciales == Init => IInv
<1>. SUFFICES ASSUME Init PROVE IInv
  OBVIOUS
<1>. USE MemoriaAssumption
<1>0. Compartido \in Ref /\ segmentos = <<Compartido>>
  BY DEF Init, Ref
<1>1. EnMemoria = {Compartido}
  BY <1>0 DEF EnMemoria
<1>2. /\ huecos = <<Hueco(TAM_SEGMENTO_0, TAM_MEMORIA - TAM_SEGMENTO_0)>>
      /\ TAM_SEGMENTO_0 \in Nat /\ TAM_MEMORIA - TAM_SEGMENTO_0 \in Nat
      /\ TAM_MEMORIA \in Nat
  BY DEF Init
<1>3. /\ DOMAIN huecos = {1} /\ Len(huecos) = 1
      /\ huecos[1].base = TAM_SEGMENTO_0
      /\ huecos[1].tamanio = TAM_MEMORIA - TAM_SEGMENTO_0
  BY <1>2 DEF Hueco
<1>4. base[Compartido] = 0 /\ tamanio[Compartido] = TAM_SEGMENTO_0
  BY <1>0 DEF Init
<1>5. TipoMemoria
  <2>1. huecos \in Seq([base : Nat, tamanio : Nat])
    BY <1>2 DEF Hueco
  <2>2. segmentos \in Seq(Ref)
    BY <1>0
  <2>3. /\ tabla \in [Pid -> SUBSET Ref]
        /\ base \in [Ref -> Nat] /\ tamanio \in [Ref -> Nat]
    BY <1>2 DEF Init
  <2>4. espacio \in [Direcciones -> Valores]
    BY DEF Init
  <2>. QED  BY <2>1, <2>2, <2>3, <2>4 DEF Init, TipoMemoria
<1>6. TablasYLista
  <2>1. \A p \in Pid, id \in Ids : <<p, id>> # Compartido
    OBVIOUS
  <2>2. DOMAIN segmentos = {1}
    BY <1>0
  <2>. QED  BY <1>1, <2>1, <2>2 DEF TablasYLista, Init
<1>7. Propios
  BY <1>1, <1>2, <1>4 DEF Propios
<1>8. HuecosBien(huecos)
  BY <1>2, <1>3 DEF HuecosBien, Fin
<1>9. Reparto
  <2>1. \A d \in Direcciones : Libre(huecos, d) <=> TAM_SEGMENTO_0 <= d
    BY <1>2, <1>3 DEF Libre, Cubre, Direcciones
  <2>2. \A d \in Direcciones : Ocupado(d) <=> d < TAM_SEGMENTO_0
    BY <1>1, <1>2, <1>4 DEF Ocupado, Cubre, Direcciones
  <2>3. \A d \in Direcciones : d \in Int
    BY DEF Direcciones
  <2>. QED  BY <1>2, <2>1, <2>2, <2>3 DEF Reparto
<1>10. Pedidos /\ Moviendo /\ Accesos
  BY DEF Init, Pedidos, Moviendo, Accesos
<1>. QED  BY <1>5, <1>6, <1>7, <1>8, <1>9, <1>10 DEF IInv

(* A step that touches no segment and no hole keeps their geometry. *)
LEMMA Geometria ==
    ASSUME IInv, UNCHANGED <<segmentos, base, tamanio, huecos>>,
           pc' # "mueve" => pc # "mueve"
    PROVE  Propios' /\ HuecosBien(huecos)' /\ Reparto'
<1>1. EnMemoria' = EnMemoria
  BY DEF EnMemoria
<1>2. Propios'
  BY <1>1 DEF IInv, Propios
<1>3. HuecosBien(huecos)'
  BY DEF IInv, HuecosBien, Fin
<1>4. Reparto'
  <2>1. \A d : Ocupado(d)' <=> Ocupado(d)
    BY <1>1 DEF Ocupado
  <2>2. \A d : Libre(huecos, d)' <=> Libre(huecos, d)
    BY DEF Libre
  <2>. QED  BY <2>1, <2>2 DEF IInv, Reparto
<1>. QED  BY <1>2, <1>3, <1>4

(* And if it is not of the kernel's thread, it keeps what that thread      *)
(* knows.                                                                  *)
LEMMA Compactando ==
    ASSUME IInv, UNCHANGED <<segmentos, base, tamanio, huecos>>,
           UNCHANGED <<tamanioTotal, compacta>>
    PROVE  Propios' /\ HuecosBien(huecos)' /\ Reparto' /\ Pedidos' /\ Moviendo'
<1>0. UNCHANGED <<pc, pedido, cursor, movidos>>
  BY DEF compacta
<1>1. Propios' /\ HuecosBien(huecos)' /\ Reparto'
  BY <1>0, Geometria
<1>2. Pedidos'
  <2>1. Caben(pedido[3])' = Caben(pedido[3])
    BY <1>0 DEF Caben
  <2>2. BytesLibres(huecos)' = BytesLibres(huecos)
    BY DEF BytesLibres, Libre
  <2>. QED  BY <1>0, <2>1, <2>2 DEF IInv, Pedidos
<1>3. Moviendo'
  <2>1. Pendientes' = Pendientes
    BY <1>0 DEF Pendientes
  <2>. QED  BY <1>0, <2>1 DEF IInv, Moviendo
<1>. QED  BY <1>1, <1>2, <1>3

(* A stuttering step. *)
LEMMA Quieto == IInv /\ UNCHANGED vars => IInv'
<1>. SUFFICES ASSUME IInv, UNCHANGED vars PROVE IInv'
  OBVIOUS
<1>1. /\ UNCHANGED <<segmentos, base, tamanio, huecos, tamanioTotal, compacta>>
      /\ UNCHANGED <<fase, tabla, espacio, accesosFs>>
      /\ UNCHANGED <<pc, pedido, cursor, movidos>>
  BY DEF vars, listas, compacta
<1>2. Propios' /\ HuecosBien(huecos)' /\ Reparto' /\ Pedidos' /\ Moviendo'
  BY <1>1, Compactando
<1>3. TipoMemoria' /\ TablasYLista' /\ Accesos'
  BY <1>1 DEF IInv, TipoMemoria, TablasYLista, Accesos, EnMemoria
<1>. QED  BY <1>2, <1>3 DEF IInv

-----------------------------------------------------------------------------
(* inicializar_proceso gives the table segmento_0. *)
LEMMA InicializarProcesoBien ==
    ASSUME IInv, NEW p \in Pid, InicializarProceso(p)
    PROVE  IInv'
<1>1. /\ fase[p] = "nuevo" /\ fase' = [fase EXCEPT ![p] = "activo"]
      /\ tabla' = [tabla EXCEPT ![p] = {Compartido}]
      /\ UNCHANGED <<segmentos, base, tamanio, huecos, tamanioTotal, compacta>>
      /\ UNCHANGED <<espacio, accesosFs>>
  BY DEF InicializarProceso
<1>2. UNCHANGED <<pc, pedido, cursor, movidos>>
  BY <1>1 DEF compacta
<1>3. Propios' /\ HuecosBien(huecos)' /\ Reparto' /\ Pedidos' /\ Moviendo'
  BY <1>1, Compactando
<1>4. Compartido \in Ref /\ \A q \in Pid, id \in Ids : <<q, id>> # Compartido
  BY MemoriaAssumption DEF Ref
<1>5. TipoMemoria'
  BY <1>1, <1>2, <1>4 DEF IInv, TipoMemoria
<1>6. EnMemoria' = EnMemoria
  BY <1>1 DEF EnMemoria
<1>7. TablasYLista'
  BY <1>1, <1>4, <1>6 DEF IInv, TablasYLista, TipoMemoria
<1>8. Accesos'
  <2>1. \A x \in accesosFs : x.pid \in Pid /\ x.pid # p
    BY <1>1 DEF IInv, TipoMemoria, Accesos
  <2>. QED  BY <1>1, <2>1 DEF IInv, Accesos, TipoMemoria
<1>. QED  BY <1>3, <1>5, <1>7, <1>8 DEF IInv

(* The kernel ends a process that waits for nothing. *)
LEMMA SaleBien ==
    ASSUME IInv, NEW p \in Pid, Sale(p)
    PROVE  IInv'
<1>1. /\ fase[p] = "activo" /\ fase' = [fase EXCEPT ![p] = "saliendo"]
      /\ \A x \in accesosFs : x.pid # p
      /\ UNCHANGED <<segmentos, base, tamanio, huecos, tamanioTotal, compacta>>
      /\ UNCHANGED <<tabla, espacio, accesosFs>>
  BY DEF Sale, listas
<1>2. UNCHANGED <<pc, pedido, cursor, movidos>>
  BY <1>1 DEF compacta
<1>3. Propios' /\ HuecosBien(huecos)' /\ Reparto' /\ Pedidos' /\ Moviendo'
  BY <1>1, Compactando
<1>5. TipoMemoria'
  BY <1>1, <1>2 DEF IInv, TipoMemoria
<1>6. EnMemoria' = EnMemoria
  BY <1>1 DEF EnMemoria
<1>7. TablasYLista'
  BY <1>1, <1>6 DEF IInv, TablasYLista, TipoMemoria
<1>8. Accesos'
  <2>1. \A x \in accesosFs : x.pid \in Pid /\ x.pid # p
    BY <1>1 DEF IInv, TipoMemoria
  <2>. QED  BY <1>1, <2>1 DEF IInv, Accesos, TipoMemoria
<1>. QED  BY <1>3, <1>5, <1>7, <1>8 DEF IInv

(* terminar_proceso drops the table and leaves the segments. *)
LEMMA TerminarProcesoBien ==
    ASSUME IInv, NEW p \in Pid, TerminarProceso(p)
    PROVE  IInv'
<1>1. /\ fase[p] = "saliendo" /\ fase' = [fase EXCEPT ![p] = "terminado"]
      /\ tabla' = [tabla EXCEPT ![p] = {}]
      /\ UNCHANGED <<segmentos, base, tamanio, huecos, tamanioTotal, compacta>>
      /\ UNCHANGED <<espacio, accesosFs>>
  BY DEF TerminarProceso
<1>2. UNCHANGED <<pc, pedido, cursor, movidos>>
  BY <1>1 DEF compacta
<1>3. Propios' /\ HuecosBien(huecos)' /\ Reparto' /\ Pedidos' /\ Moviendo'
  BY <1>1, Compactando
<1>5. TipoMemoria'
  BY <1>1, <1>2 DEF IInv, TipoMemoria
<1>6. EnMemoria' = EnMemoria
  BY <1>1 DEF EnMemoria
<1>7. TablasYLista'
  BY <1>1, <1>6 DEF IInv, TablasYLista, TipoMemoria
<1>8. Accesos'
  <2>1. \A x \in accesosFs : x.pid \in Pid /\ x.pid # p
    BY <1>1 DEF IInv, TipoMemoria, Accesos
  <2>. QED  BY <1>1, <2>1 DEF IInv, Accesos, TipoMemoria
<1>. QED  BY <1>3, <1>5, <1>7, <1>8 DEF IInv

(* OUT_OF_MEM changes no list. *)
LEMMA SinEspacioBien ==
    ASSUME IInv, NEW p \in Pid, NEW id \in Ids, NEW t \in Tamanios,
           SinEspacio(p, id, t)
    PROVE  IInv'
<1>1. /\ pc = "recv" /\ fase[p] = "activo" /\ \A x \in accesosFs : x.pid # p
      /\ fase' = [fase EXCEPT ![p] = "saliendo"]
      /\ tamanioTotal' = SumaVista(t) /\ pedido' = <<>>
      /\ UNCHANGED <<tabla, segmentos, base, tamanio, huecos>>
      /\ UNCHANGED <<pc, cursor, movidos, espacio, accesosFs>>
  BY DEF SinEspacio, Atiende, listas
<1>2. Propios' /\ HuecosBien(huecos)' /\ Reparto'
  BY <1>1, Geometria
<1>3. Pedidos' /\ Moviendo'
  BY <1>1 DEF Pedidos, Moviendo
<1>4. TipoMemoria'
  <2>1. SumaVista(t) \in Nat
    BY SumaVistaNat, EnRef DEF IInv
  <2>. QED  BY <1>1, <2>1 DEF IInv, TipoMemoria
<1>5. EnMemoria' = EnMemoria
  BY <1>1 DEF EnMemoria
<1>6. TablasYLista'
  BY <1>1, <1>5 DEF IInv, TablasYLista, TipoMemoria
<1>7. Accesos'
  <2>1. \A x \in accesosFs : x.pid \in Pid /\ x.pid # p
    BY <1>1 DEF IInv, TipoMemoria
  <2>. QED  BY <1>1, <2>1 DEF IInv, Accesos, TipoMemoria
<1>. QED  BY <1>2, <1>3, <1>4, <1>6, <1>7 DEF IInv

(* COMPACT: the sum that allows it is the number of free bytes. *)
LEMMA PideCompactarBien ==
    ASSUME IInv, NEW p \in Pid, NEW id \in Ids, NEW t \in Tamanios,
           PideCompactar(p, id, t)
    PROVE  IInv'
<1>1. /\ pc = "recv" /\ VerificarEspacio(t) = "COMPACT"
      /\ tamanioTotal' = SumaVista(t) /\ pedido' = <<p, id, t>>
      /\ pc' = "compactar"
      /\ UNCHANGED <<tabla, segmentos, base, tamanio, huecos>>
      /\ UNCHANGED <<fase, cursor, movidos, espacio, accesosFs>>
  BY DEF PideCompactar, Atiende, listas
<1>2. Propios' /\ HuecosBien(huecos)' /\ Reparto'
  BY <1>1, Geometria
<1>3. huecos \in Seq(HuecoTipo) /\ HuecosBien(huecos)
  BY EnRef DEF IInv
<1>4. Caben(t) = {} /\ Suma(huecos) >= t
  BY <1>1 DEF VerificarEspacio
<1>5. SumaVista(t) \in Nat /\ SumaVista(t) = Suma(huecos)
  BY <1>3, <1>4, SumaVistaNat
<1>6. Suma(huecos) = Cardinality(BytesLibres(huecos))
  BY <1>3, SumaLibres
<1>7. BytesLibres(huecos)' = BytesLibres(huecos)
  BY <1>1 DEF BytesLibres, Libre
<1>8. Pedidos'
  <2>1. pedido' # <<>> /\ pedido'[3] = t
    BY <1>1
  <2>. QED  BY <1>1, <1>4, <1>5, <1>6, <1>7, <2>1 DEF Pedidos
<1>9. Moviendo'
  BY <1>1 DEF Moviendo
<1>10. TipoMemoria'
  BY <1>1, <1>5 DEF IInv, TipoMemoria
<1>11. TablasYLista' /\ Accesos'
  BY <1>1 DEF IInv, TablasYLista, Accesos, EnMemoria
<1>. QED  BY <1>2, <1>8, <1>9, <1>10, <1>11 DEF IInv

(* A segment of a running process is in memory. *)
LEMMA SuSegmento ==
    ASSUME IInv, NEW p \in Pid, fase[p] = "activo", NEW r \in tabla[p]
    PROVE  r \in EnMemoria /\ r \in Ref
<1>1. r \in Ref
  BY DEF IInv, TipoMemoria
<1>2. CASE r = Compartido
  BY <1>1, <1>2 DEF IInv, TablasYLista
<1>3. CASE r # Compartido
  <2>1. PICK q \in Pid, id \in Ids : r = <<q, id>>
    BY <1>1, <1>3 DEF Ref
  <2>2. q = p
    BY <2>1 DEF IInv, TablasYLista
  <2>. QED  BY <1>1, <2>1, <2>2 DEF IInv, TablasYLista
<1>. QED  BY <1>2, <1>3

(* A write keeps the type of the area, and changes only the bytes it       *)
(* covers.                                                                 *)
LEMMA EscribeTipo ==
    ASSUME NEW e \in [Direcciones -> Valores], NEW direccion \in Nat,
           NEW n \in Nat, NEW bytes \in Bytes(n)
    PROVE  /\ Escribe(e, direccion, bytes) \in [Direcciones -> Valores]
           /\ \A d \in Direcciones :
                ~ Cubre(direccion, n, d) => Escribe(e, direccion, bytes)[d] = e[d]
<1>1. bytes \in [0..(n - 1) -> Valores]
  BY DEF Bytes
<1>2. Direcciones \subseteq Int
  BY DEF Direcciones
<1>3. \A d \in Direcciones : d - direccion \in 0..(n - 1) <=> Cubre(direccion, n, d)
  BY <1>2 DEF Cubre
<1>. QED  BY <1>1, <1>3 DEF Escribe

(* A write of the CPU changes no list. *)
LEMMA EscribeCpuBien ==
    ASSUME IInv, NEW p \in Pid, NEW r \in Ref, NEW o \in Desplazamientos,
           NEW n \in Cantidades, NEW bytes \in Bytes(n),
           EscribeCpu(p, r, o, n, bytes)
    PROVE  IInv'
<1>1. /\ espacio' = Escribe(espacio, base[r] + o, bytes)
      /\ UNCHANGED <<segmentos, base, tamanio, huecos, tamanioTotal, compacta>>
      /\ UNCHANGED <<fase, tabla, accesosFs>>
      /\ UNCHANGED <<pc, pedido, cursor, movidos>>
  BY DEF EscribeCpu, listas, compacta
<1>2. Propios' /\ HuecosBien(huecos)' /\ Reparto' /\ Pedidos' /\ Moviendo'
  BY <1>1, Compactando
<1>3. TipoMemoria'
  <2>1. base[r] + o \in Nat /\ n \in Nat
    BY MemoriaAssumption DEF IInv, TipoMemoria
  <2>2. espacio' \in [Direcciones -> Valores]
    BY <1>1, <2>1, EscribeTipo DEF IInv, TipoMemoria
  <2>. QED  BY <1>1, <2>2 DEF IInv, TipoMemoria
<1>4. TablasYLista' /\ Accesos'
  BY <1>1 DEF IInv, TablasYLista, Accesos, EnMemoria
<1>. QED  BY <1>2, <1>3, <1>4 DEF IInv

(* An F_READ or F_WRITE, of any address and size. *)
LEMMA PideAccesoFsBien ==
    ASSUME IInv, NEW p \in Pid, NEW r \in Ref, NEW o \in Desplazamientos,
           NEW k \in Cantidades, PideAccesoFs(p, r, o, k)
    PROVE  IInv'
<1>. DEFINE n == [pid |-> p, ref |-> r, desde |-> o, n |-> k,
                  direccion |-> base[r] + o]
<1>1. /\ pc = "recv" /\ fase[p] = "activo" /\ r \in tabla[p]
      /\ accesosFs' = accesosFs \cup {n}
      /\ UNCHANGED <<segmentos, base, tamanio, huecos, tamanioTotal, compacta>>
      /\ UNCHANGED <<fase, tabla, espacio>>
      /\ UNCHANGED <<pc, pedido, cursor, movidos>>
  BY DEF PideAccesoFs, Atiende, listas, compacta
<1>2. Propios' /\ HuecosBien(huecos)' /\ Reparto' /\ Pedidos' /\ Moviendo'
  BY <1>1, Compactando
<1>3. base[r] + o \in Nat /\ o \in Nat /\ k \in Nat \ {0}
  BY MemoriaAssumption DEF IInv, TipoMemoria
<1>4. /\ n \in [pid : Pid, ref : Ref, desde : Nat, n : Nat \ {0}, direccion : Nat]
      /\ n.pid = p /\ n.ref = r
  BY <1>3
<1>. HIDE DEF n
<1>5. TipoMemoria'
  BY <1>1, <1>4 DEF IInv, TipoMemoria
<1>6. TablasYLista'
  BY <1>1 DEF IInv, TablasYLista, EnMemoria
<1>7. Accesos'
  <2>1. ASSUME NEW x \in accesosFs'
        PROVE  fase[x.pid] = "activo" /\ x.ref \in tabla[x.pid]
    <3>1. CASE x \in accesosFs
      BY <3>1 DEF IInv, Accesos
    <3>2. CASE x = n
      BY <3>2, <1>1, <1>4
    <3>. QED  BY <1>1, <3>1, <3>2
  <2>. QED  BY <2>1, <1>1 DEF Accesos
<1>. QED  BY <1>2, <1>5, <1>6, <1>7 DEF IInv

(* The file system does one of its accesses. *)
LEMMA AccesoFsBien ==
    ASSUME IInv, NEW x \in accesosFs, accesosFs' = accesosFs \ {x},
           espacio' \in [Direcciones -> Valores],
           UNCHANGED <<fase, listas, tamanioTotal, compacta>>
    PROVE  IInv'
<1>1. /\ UNCHANGED <<segmentos, base, tamanio, huecos, tamanioTotal, compacta>>
      /\ UNCHANGED <<fase, tabla>>
      /\ UNCHANGED <<pc, pedido, cursor, movidos>>
  BY DEF listas, compacta
<1>2. Propios' /\ HuecosBien(huecos)' /\ Reparto' /\ Pedidos' /\ Moviendo'
  BY <1>1, Compactando
<1>3. TipoMemoria'
  BY <1>1 DEF IInv, TipoMemoria
<1>4. TablasYLista' /\ Accesos'
  BY <1>1 DEF IInv, TablasYLista, Accesos, EnMemoria
<1>. QED  BY <1>2, <1>3, <1>4 DEF IInv

(* PEDIDO_ESCRITURA_FS. *)
LEMMA EscribeFsBien ==
    ASSUME IInv, NEW x \in accesosFs, NEW bytes \in Bytes(x.n), EscribeFs(x, bytes)
    PROVE  IInv'
<1>1. x.direccion \in Nat /\ x.n \in Nat
  BY DEF IInv, TipoMemoria
<1>2. espacio' \in [Direcciones -> Valores]
  BY <1>1, EscribeTipo DEF EscribeFs, IInv, TipoMemoria
<1>. QED  BY <1>2, AccesoFsBien DEF EscribeFs

(* PEDIDO_LECTURA_FS. *)
LEMMA LeeFsBien ==
    ASSUME IInv, NEW x \in accesosFs, LeeFs(x)
    PROVE  IInv'
<1>1. espacio' \in [Direcciones -> Valores]
  BY DEF LeeFs, IInv, TipoMemoria
<1>. QED  BY <1>1, AccesoFsBien DEF LeeFs

-----------------------------------------------------------------------------
(* The hole chosen is one of those that fit, and the one the algorithm     *)
(* wants.                                                                  *)
LEMMA HayHueco ==
    ASSUME IInv, NEW t \in Tamanios, Caben(t) # {},
           NEW a \in Algoritmos
    PROVE  /\ HuecoElegido(a, t) \in 1..Len(huecos)
           /\ huecos[HuecoElegido(a, t)].tamanio >= t
           /\ \A j \in Caben(t) :
                /\ a = "FIRST" => HuecoElegido(a, t) <= j
                /\ a = "BEST" =>
                     huecos[HuecoElegido(a, t)].tamanio <= huecos[j].tamanio
                /\ a = "WORST" =>
                     huecos[HuecoElegido(a, t)].tamanio >= huecos[j].tamanio
<1>1. huecos \in Seq(HuecoTipo) /\ t \in Nat
  BY MemoriaAssumption, EnRef DEF IInv
<1>. PICK i : i = HuecoElegido(a, t)
  OBVIOUS
<1>2. Elegido(a, t, i, Len(huecos))
  BY <1>1, EligeBien
<1>3. Len(huecos) \in Nat /\ DOMAIN huecos = 1..Len(huecos)
  BY <1>1, HuecosTipo
<1>4. i \in 1..Len(huecos)
  <2>1. PICK j \in 1..Len(huecos) : huecos[j].tamanio >= t
    BY <1>3 DEF Caben
  <2>2. i # 0 /\ i \in 0..Len(huecos)
    BY <1>2, <2>1 DEF Elegido
  <2>. QED  BY <1>3, <2>2
<1>5. i > 0
  BY <1>4
<1>. QED  BY <1>2, <1>3, <1>4, <1>5 DEF Elegido, Caben

(* crear_segmento takes free bytes, so the new segment overlaps no other. *)
LEMMA CreaSegmentoBien ==
    ASSUME IInv, NEW p \in Pid, NEW id \in Ids, NEW t \in Tamanios,
           CreaSegmento(p, id, t)
    PROVE  IInv'
<1>. DEFINE r == <<p, id>>
<1>. PICK i : i = HuecoElegido(ALGORITMO_ASIGNACION, t)
  OBVIOUS
<1>1. /\ pc = "recv" /\ fase[p] = "activo" /\ r \notin tabla[p]
      /\ VerificarEspacio(t) = "SEGMENT_CREATED"
      /\ base' = [base EXCEPT ![r] = huecos[i].base]
      /\ tamanio' = [tamanio EXCEPT ![r] = t]
      /\ tabla' = [tabla EXCEPT ![p] = @ \cup {r}]
      /\ segmentos' = Append(segmentos, r)
      /\ huecos' = Ocupa(i, t)
      /\ tamanioTotal' = SumaVista(t) /\ pedido' = <<>>
      /\ UNCHANGED <<fase, pc, cursor, movidos, espacio, accesosFs>>
  BY DEF CreaSegmento, Atiende
<1>2. r \in Ref /\ r # Compartido
  BY MemoriaAssumption DEF Ref
<1>3. t \in Nat /\ t > 0 /\ TAM_MEMORIA \in Nat
  BY MemoriaAssumption
<1>4. /\ huecos \in Seq(HuecoTipo) /\ HuecosBien(huecos)
      /\ EnMemoria \subseteq Ref
      /\ \A q \in Ref : base[q] \in Nat /\ tamanio[q] \in Nat
  BY EnRef DEF IInv
<1>5. i \in 1..Len(huecos) /\ huecos[i].tamanio >= t
  <2>1. Caben(t) # {}
    BY <1>1 DEF VerificarEspacio
  <2>. QED  BY <2>1, HayHueco, MemoriaAssumption
<1>6. /\ Len(huecos) \in Nat /\ DOMAIN huecos = 1..Len(huecos)
      /\ huecos[i].base \in Nat /\ huecos[i].tamanio \in Nat
      /\ huecos[i].base + huecos[i].tamanio <= TAM_MEMORIA
  <2>1. /\ Len(huecos) \in Nat /\ DOMAIN huecos = 1..Len(huecos)
        /\ huecos[i].base \in Nat /\ huecos[i].tamanio \in Nat
    BY <1>4, <1>5, HuecosTipo
  <2>. QED  BY <1>4, <1>5, <2>1 DEF HuecosBien, Fin
<1>. PICK b \in Nat : b = huecos[i].base
  BY <1>6
<1>7. r \notin EnMemoria
  BY <1>1 DEF IInv, TablasYLista
<1>8. /\ segmentos' \in Seq(Ref) /\ EnMemoria' = EnMemoria \cup {r}
      /\ \A k, m \in DOMAIN segmentos' : segmentos'[k] = segmentos'[m] => k = m
  <2>1. /\ segmentos \in Seq(Ref) /\ Len(segmentos) \in Nat
        /\ DOMAIN segmentos = 1..Len(segmentos)
    BY EnRef DEF IInv, TipoMemoria
  <2>0. Append(segmentos, r) \in Seq(Ref)
    BY <1>2, <2>1, AppendProperties
  <2>. PICK s \in Seq(Ref) : s = segmentos'
    BY <1>1, <2>0
  <2>2. /\ Len(s) = Len(segmentos) + 1
        /\ \A k \in 1..Len(segmentos) : s[k] = segmentos[k]
        /\ s[Len(segmentos) + 1] = r
    BY <1>1, <1>2, <2>1, AppendProperties
  <2>3. DOMAIN s = 1..(Len(segmentos) + 1)
    BY <2>2, LenProperties
  <2>4. \A k : k \in 1..(Len(segmentos) + 1) <=>
                 k \in 1..Len(segmentos) \/ k = Len(segmentos) + 1
    BY <2>1
  <2>5. EnMemoria' = {s[k] : k \in DOMAIN s}
    BY DEF EnMemoria
  <2>. HIDE DEF r
  <2>6. EnMemoria' = EnMemoria \cup {r}
    BY <2>1, <2>2, <2>3, <2>4, <2>5 DEF EnMemoria
  <2>7. ASSUME NEW k \in DOMAIN s, NEW m \in DOMAIN s, s[k] = s[m] PROVE k = m
    <3>1. CASE k \in 1..Len(segmentos) /\ m \in 1..Len(segmentos)
      BY <2>1, <2>2, <2>7, <3>1 DEF IInv, TablasYLista
    <3>2. \A n \in 1..Len(segmentos) : s[n] # r
      BY <1>7, <2>1, <2>2 DEF EnMemoria
    <3>. QED  BY <3>1, <3>2, <2>2, <2>3, <2>4, <2>7
  <2>. QED  BY <2>6, <2>7
<1>9. /\ huecos' \in Seq(HuecoTipo) /\ HuecosBien(huecos')
      /\ \A d \in Nat : Libre(huecos', d) <=>
                          Libre(huecos, d) /\ ~ Cubre(b, t, d)
  <2>1. /\ Ocupa(i, t) \in Seq(HuecoTipo)
        /\ HuecosBien(Ocupa(i, t))
        /\ \A d \in Nat : Libre(Ocupa(i, t), d) <=>
                            Libre(huecos, d) /\ ~ Cubre(huecos[i].base, t, d)
    BY <1>3, <1>4, <1>5, OcupaBien
  <2>. QED  BY <1>1, <2>1
<1>10. /\ base'[r] = b /\ tamanio'[r] = t
       /\ \A q \in EnMemoria :
            q # r /\ base'[q] = base[q] /\ tamanio'[q] = tamanio[q]
  <2>1. base \in [Ref -> Nat] /\ tamanio \in [Ref -> Nat]
    BY DEF IInv, TipoMemoria
  <2>. HIDE DEF r
  <2>. QED  BY <2>1, <1>1, <1>2, <1>4, <1>7
<1>11. \A d \in Direcciones : Cubre(b, t, d) => Libre(huecos, d)
  BY <1>3, <1>5, <1>6, <1>4 DEF Libre, Cubre, Direcciones
<1>12. TipoMemoria'
  <2>1. SumaVista(t) \in Nat
    BY <1>4, SumaVistaNat
  <2>2. tabla' \in [Pid -> SUBSET Ref]
    BY <1>1, <1>2 DEF IInv, TipoMemoria
  <2>3. base' \in [Ref -> Nat] /\ tamanio' \in [Ref -> Nat]
    BY <1>1, <1>3, <1>6 DEF IInv, TipoMemoria
  <2>4. huecos' \in Seq([base : Nat, tamanio : Nat])
    BY <1>9 DEF HuecoTipo
  <2>. QED  BY <1>1, <1>8, <2>1, <2>2, <2>3, <2>4 DEF IInv, TipoMemoria
<1>13. TablasYLista'
  <2>1. \A q \in Pid, k \in Ids : <<q, k>> = r <=> q = p /\ k = id
    OBVIOUS
  <2>2. \A q \in Pid : tabla'[q] = IF q = p THEN tabla[p] \cup {r} ELSE tabla[q]
    BY <1>1 DEF IInv, TipoMemoria
  <2>. HIDE DEF r
  <2>3. \A q, w \in Pid, k \in Ids : <<w, k>> \in tabla'[q] => w = q
    BY <2>1, <2>2 DEF IInv, TablasYLista
  <2>4. \A q \in Pid : fase'[q] \in {"nuevo", "terminado"} => tabla'[q] = {}
    BY <1>1, <2>2 DEF IInv, TablasYLista
  <2>5. ASSUME NEW q \in Pid, NEW k \in Ids, fase'[q] # "terminado"
        PROVE  <<q, k>> \in tabla'[q] <=> <<q, k>> \in EnMemoria'
    <3>1. <<q, k>> \in tabla[q] <=> <<q, k>> \in EnMemoria
      BY <1>1, <2>5 DEF IInv, TablasYLista
    <3>2. CASE q = p
      BY <3>1, <3>2, <1>8, <2>2
    <3>3. CASE q # p
      BY <3>1, <3>3, <1>8, <2>1, <2>2
    <3>. QED  BY <3>2, <3>3
  <2>6. Compartido \in EnMemoria'
    BY <1>8 DEF IInv, TablasYLista
  <2>. QED  BY <1>8, <2>3, <2>4, <2>5, <2>6 DEF TablasYLista
<1>14. Propios'
  <2>1. ASSUME NEW q \in EnMemoria'
        PROVE  tamanio'[q] > 0 /\ base'[q] + tamanio'[q] <= TAM_MEMORIA
    <3>1. CASE q \in EnMemoria
      BY <3>1, <1>10 DEF IInv, Propios
    <3>2. CASE q = r
      BY <3>2, <1>3, <1>5, <1>6, <1>10
    <3>. QED  BY <3>1, <3>2, <1>8
  <2>2. ASSUME NEW q \in EnMemoria
        PROVE  b + t <= base[q] \/ base[q] + tamanio[q] <= b
    <3>1. /\ tamanio[q] > 0 /\ base[q] + tamanio[q] <= TAM_MEMORIA
          /\ base[q] \in Nat /\ tamanio[q] \in Nat
      BY <1>4 DEF IInv, Propios
    <3>2. b \in Direcciones /\ base[q] \in Direcciones
      BY <3>1, <1>3, <1>5, <1>6 DEF Direcciones
    <3>3. ~ Cubre(base[q], tamanio[q], b)
      <4>1. Cubre(b, t, b)
        BY <1>3 DEF Cubre
      <4>2. ~ Ocupado(b)
        BY <1>1, <1>11, <3>2, <4>1 DEF IInv, Reparto
      <4>. QED  BY <4>2 DEF Ocupado
    <3>4. ~ Cubre(b, t, base[q])
      <4>1. Cubre(base[q], tamanio[q], base[q])
        BY <3>1 DEF Cubre
      <4>2. Ocupado(base[q])
        BY <4>1 DEF Ocupado
      <4>. QED  BY <1>1, <1>11, <3>2, <4>2 DEF IInv, Reparto
    <3>. QED  BY <3>1, <3>3, <3>4, <1>3 DEF Cubre
  <2>3. ASSUME NEW q \in EnMemoria', NEW w \in EnMemoria', q # w
        PROVE  \/ base'[q] + tamanio'[q] <= base'[w]
               \/ base'[w] + tamanio'[w] <= base'[q]
    <3>. HIDE DEF r
    <3>1. CASE q \in EnMemoria /\ w \in EnMemoria
      BY <3>1, <2>3, <1>10 DEF IInv, Propios
    <3>2. CASE q = r /\ w \in EnMemoria
      BY <3>2, <2>2, <1>10
    <3>3. CASE w = r /\ q \in EnMemoria
      BY <3>3, <2>2, <1>10
    <3>. QED  BY <3>1, <3>2, <3>3, <2>3, <1>8
  <2>. QED  BY <2>1, <2>3 DEF Propios
<1>15. Reparto'
  <2>1. ASSUME NEW d \in Direcciones
        PROVE  Libre(huecos', d) <=> ~ Ocupado(d)'
    <3>. HIDE DEF r
    <3>1. Ocupado(d)' <=> Ocupado(d) \/ Cubre(b, t, d)
      BY <1>8, <1>10 DEF Ocupado
    <3>2. d \in Nat
      BY <1>3 DEF Direcciones
    <3>3. Libre(huecos, d) <=> ~ Ocupado(d)
      BY <1>1 DEF IInv, Reparto
    <3>. QED  BY <3>1, <3>2, <3>3, <1>9
  <2>2. \A d : Libre(huecos, d)' <=> Libre(huecos', d)
    BY DEF Libre
  <2>. QED  BY <2>1, <2>2 DEF Reparto
<1>16. Pedidos' /\ Moviendo'
  BY <1>1 DEF Pedidos, Moviendo
<1>17. Accesos'
  <2>1. ASSUME NEW x \in accesosFs
        PROVE  /\ x.pid \in Pid /\ x.ref \in EnMemoria
               /\ x.ref \in tabla'[x.pid]
    <3>1. x.pid \in Pid /\ x.ref \in tabla[x.pid] /\ fase[x.pid] = "activo"
      BY DEF IInv, TipoMemoria, Accesos
    <3>2. x.ref \in Ref
      BY DEF IInv, TipoMemoria
    <3>3. x.ref \in EnMemoria
      <4>1. CASE x.ref = Compartido
        BY <4>1 DEF IInv, TablasYLista
      <4>2. CASE x.ref # Compartido
        <5>1. PICK q \in Pid, k \in Ids : x.ref = <<q, k>>
          BY <3>2, <4>2 DEF Ref
        <5>. QED  BY <3>1, <5>1 DEF IInv, TablasYLista
      <4>. QED  BY <4>1, <4>2
    <3>4. x.ref \in tabla'[x.pid]
      BY <1>1, <3>1 DEF IInv, TipoMemoria
    <3>. QED  BY <3>1, <3>3, <3>4
  <2>. QED  BY <2>1, <1>1, <1>10 DEF IInv, Accesos
<1>18. HuecosBien(huecos)'
  BY <1>9 DEF HuecosBien, Fin
<1>. QED  BY <1>12, <1>13, <1>14, <1>15, <1>16, <1>17, <1>18 DEF IInv

-----------------------------------------------------------------------------
(* list_sort leaves the segments in order and apart, so the loop of        *)
(* compactar begins with nothing moved; the bytes to move and the free     *)
(* ones are all of them.                                                   *)
LEMMA CompactaIniciaBien ==
    ASSUME IInv, CompactaInicia
    PROVE  IInv'
<1>. PICK n : n = Len(segmentos)
  OBVIOUS
<1>. PICK z : z = PorBase(segmentos)
  OBVIOUS
<1>1. /\ pc = "compactar" /\ segmentos' = z
      /\ cursor' = 0 /\ movidos' = 0 /\ pc' = "mueve"
      /\ UNCHANGED <<fase, tabla, base, tamanio, huecos, tamanioTotal, pedido>>
      /\ UNCHANGED <<espacio, accesosFs>>
  BY DEF CompactaInicia
<1>2. /\ segmentos \in Seq(Ref) /\ n \in Nat /\ DOMAIN segmentos = 1..n
      /\ EnMemoria \subseteq Ref
      /\ \A r \in Ref : base[r] \in Nat /\ tamanio[r] \in Nat
      /\ huecos \in Seq(HuecoTipo)
      /\ \A i \in 1..n : segmentos[i] \in EnMemoria
  BY EnRef DEF IInv, TipoMemoria
<1>3. Ordena(segmentos, z, n)
  <2>1. base \in [Ref -> Nat]
    BY DEF IInv, TipoMemoria
  <2>. QED  BY <1>2, <2>1, PorBaseOrdena
<1>4. /\ z \in Seq(Ref) /\ DOMAIN z = 1..n /\ Len(z) = n
      /\ \A i \in 1..n : z[i] \in EnMemoria
      /\ \A r \in EnMemoria : \E i \in 1..n : z[i] = r
      /\ \A i, j \in 1..n : z[i] = z[j] => i = j
      /\ \A i, j \in 1..n : i < j => base[z[i]] <= base[z[j]]
  <2>1. z \in Seq(Ref) /\ Len(z) = n
    BY <1>3 DEF Ordena
  <2>2. DOMAIN z = 1..n
    BY <2>1, LenProperties
  <2>3. \A i \in 1..n : z[i] \in EnMemoria
    BY <1>2, <1>3 DEF Ordena
  <2>4. \A r \in EnMemoria : \E i \in 1..n : z[i] = r
    <3>1. \A j \in 1..n : \E i \in 1..n : z[i] = segmentos[j]
      BY <1>3 DEF Ordena
    <3>2. \A r \in EnMemoria : \E j \in 1..n : r = segmentos[j]
      BY <1>2 DEF EnMemoria
    <3>. QED  BY <3>1, <3>2
  <2>5. \A i, j \in 1..n : segmentos[i] = segmentos[j] => i = j
    BY <1>2 DEF IInv, TablasYLista
  <2>6. /\ \A i, j \in 1..n : z[i] = z[j] => i = j
        /\ \A i, j \in 1..n : i < j => base[z[i]] <= base[z[j]]
    BY <1>3, <2>5 DEF Ordena
  <2>. QED  BY <2>1, <2>2, <2>3, <2>4, <2>6
<1>5. EnMemoria' = EnMemoria
  <2>1. EnMemoria' = {z[i] : i \in 1..n}
    BY <1>1, <1>4 DEF EnMemoria
  <2>. QED  BY <1>4, <2>1
<1>6. Propios' /\ HuecosBien(huecos)' /\ Reparto' /\ Accesos'
  BY <1>1, <1>5 DEF IInv, Propios, HuecosBien, Fin, Reparto, Accesos
<1>7. TipoMemoria'
  <2>1. segmentos' \in Seq(Ref)
    BY <1>1, <1>4
  <2>. QED  BY <1>1, <2>1 DEF IInv, TipoMemoria
<1>8. TablasYLista'
  <2>1. \A i, j \in DOMAIN segmentos' : segmentos'[i] = segmentos'[j] => i = j
    BY <1>1, <1>4
  <2>. QED  BY <1>1, <1>5, <2>1 DEF IInv, TablasYLista
<1>9. Pedidos'
  BY <1>1 DEF IInv, Pedidos
<1>10. \A i, j \in 1..n : i < j => base[z[i]] + tamanio[z[i]] <= base[z[j]]
  <2>1. SUFFICES ASSUME NEW i \in 1..n, NEW j \in 1..n, i < j
                 PROVE  base[z[i]] + tamanio[z[i]] <= base[z[j]]
    OBVIOUS
  <2>. PICK r \in EnMemoria : r = z[i]
    BY <1>4
  <2>. PICK q \in EnMemoria : q = z[j]
    BY <1>4
  <2>2. r # q /\ base[r] <= base[q]
    <3>1. i # j
      BY <1>2, <2>1
    <3>2. z[i] # z[j] /\ base[z[i]] <= base[z[j]]
      BY <1>4, <2>1, <3>1
    <3>. QED  BY <3>2
  <2>3. /\ base[r] \in Nat /\ base[q] \in Nat
        /\ tamanio[r] \in Nat /\ tamanio[q] \in Nat /\ tamanio[q] > 0
    BY <1>2 DEF IInv, Propios
  <2>4. \/ base[r] + tamanio[r] <= base[q]
        \/ base[q] + tamanio[q] <= base[r]
    BY <2>2 DEF IInv, Propios
  <2>. QED  BY <2>2, <2>3, <2>4
<1>11. tamanioTotal + Cardinality(Pendientes') = TAM_MEMORIA
  <2>1. Pendientes' = {d \in Direcciones :
                         \E i \in 1..n : Cubre(base[z[i]], tamanio[z[i]], d)}
    <3>1. (0 + 1)..n = 1..n
      OBVIOUS
    <3>2. movidos' + 1 = 1 /\ Len(segmentos') = n
      BY <1>1, <1>4
    <3>. QED  BY <1>1, <3>1, <3>2 DEF Pendientes
  <2>2. \A d \in Direcciones :
          (\E i \in 1..n : Cubre(base[z[i]], tamanio[z[i]], d)) <=> Ocupado(d)
    BY <1>4 DEF Ocupado
  <2>3. \A d \in Direcciones : Libre(huecos, d) <=> ~ Ocupado(d)
    BY <1>1 DEF IInv, Reparto
  <2>4. /\ BytesLibres(huecos) \cup Pendientes' = Direcciones
        /\ BytesLibres(huecos) \cap Pendientes' = {}
    BY <2>1, <2>2, <2>3 DEF BytesLibres
  <2>. PICK A, B : A = BytesLibres(huecos) /\ B = Pendientes'
    OBVIOUS
  <2>5. A \subseteq Direcciones /\ B \subseteq Direcciones
    BY <2>4
  <2>6. Cardinality(Direcciones) = Cardinality(A) + Cardinality(B)
    BY <2>4, <2>5, Disjuntos
  <2>7. Cardinality(Direcciones) = TAM_MEMORIA
    <3>1. 0 \in Int /\ TAM_MEMORIA - 1 \in Int /\ TAM_MEMORIA >= 1
      BY MemoriaAssumption
    <3>2. Cardinality(0..(TAM_MEMORIA - 1)) =
            IF 0 > TAM_MEMORIA - 1 THEN 0 ELSE TAM_MEMORIA - 1 - 0 + 1
      BY <3>1, FS_Interval
    <3>. QED  BY <3>1, <3>2, MemoriaAssumption DEF Direcciones
  <2>8. tamanioTotal = Cardinality(A)
    BY <1>1 DEF IInv, Pedidos
  <2>. QED  BY <2>6, <2>7, <2>8
<1>12. Moviendo'
  <2>1. Len(segmentos') = n
    BY <1>1, <1>4
  <2>2. \A i \in 1..n : base[z[i]] \in Nat
    BY <1>2, <1>4
  <2>3. \A i \in 1..n : /\ i <= 0 => base[z[i]] + tamanio[z[i]] <= 0
                        /\ i > 0 => 0 <= base[z[i]]
    BY <2>2
  <2>4. tamanioTotal + 0 + Cardinality(Pendientes') = TAM_MEMORIA
    <3>1. tamanioTotal \in Nat
      BY DEF IInv, TipoMemoria
    <3>. QED  BY <1>11, <3>1
  <2>5. \A d \in Nat : ~ (d < 0)
    OBVIOUS
  <2>. QED  BY <1>1, <1>2, <1>10, <2>1, <2>3, <2>4, <2>5 DEF Moviendo
<1>. QED  BY <1>6, <1>7, <1>8, <1>9, <1>12 DEF IInv

(* memcpy, in either order, copies from addresses inside the memory. *)
LEMMA CopiaTipo ==
    ASSUME NEW orden, NEW e \in [Direcciones -> Valores], NEW dst \in Nat,
           NEW src \in Nat, NEW n \in Nat, dst <= src, src + n <= TAM_MEMORIA
    PROVE  Copia(orden, e, dst, src, n) \in [Direcciones -> Valores]
<1>. DEFINE salto == src - dst
            desde(k) == IF orden = "adelante" \/ salto = 0 THEN src + k
                        ELSE src + k + salto * ((n - 1 - k) \div salto)
<1>1. ASSUME NEW d \in Direcciones, d \in dst..(dst + n - 1)
      PROVE  desde(d - dst) \in Direcciones
  <2>. PICK k \in Nat : k = d - dst /\ k < n
    BY <1>1, MemoriaAssumption DEF Direcciones
  <2>1. src + k \in Direcciones
    BY MemoriaAssumption DEF Direcciones
  <2>2. CASE orden = "adelante" \/ salto = 0
    BY <2>1, <2>2
  <2>3. CASE ~ (orden = "adelante" \/ salto = 0)
    <3>1. salto \in Nat /\ salto > 0 /\ n - 1 - k \in Nat
      BY <2>3
    <3>2. /\ salto * ((n - 1 - k) \div salto) \in Nat
          /\ salto * ((n - 1 - k) \div salto) <= n - 1 - k
      BY <3>1, Salto
    <3>. PICK w \in Nat : w = salto * ((n - 1 - k) \div salto)
      BY <3>2
    <3>3. desde(k) = src + k + w
      BY <2>3
    <3>4. src + k + w \in Direcciones
      BY <3>2, MemoriaAssumption DEF Direcciones
    <3>. QED  BY <3>3, <3>4
  <2>. QED  BY <2>2, <2>3
<1>2. Copia(orden, e, dst, src, n) =
        [d \in Direcciones |->
           IF d \in dst..(dst + n - 1) THEN e[desde(d - dst)] ELSE e[d]]
  BY DEF Copia
<1>. HIDE DEF desde
<1>. QED  BY <1>1, <1>2

(* One turn of compactar: the segment goes down to the cursor, below those *)
(* not yet moved and above those already moved.                            *)
LEMMA MueveSegmentoBien ==
    ASSUME IInv, NEW orden \in Ordenes, MueveSegmento(orden)
    PROVE  IInv'
<1>. PICK n : n = Len(segmentos)
  OBVIOUS
<1>. PICK m : m = movidos + 1
  OBVIOUS
<1>. PICK r : r = segmentos[m]
  OBVIOUS
<1>1. /\ pc = "mueve" /\ movidos < n
      /\ espacio' = Copia(orden, espacio, cursor, base[r], tamanio[r])
      /\ base' = [base EXCEPT ![r] = cursor]
      /\ cursor' = cursor + tamanio[r] /\ movidos' = m
      /\ UNCHANGED <<fase, tabla, segmentos, tamanio, huecos, tamanioTotal>>
      /\ UNCHANGED <<pc, pedido, accesosFs>>
  BY DEF MueveSegmento
<1>2. /\ segmentos \in Seq(Ref) /\ n \in Nat /\ DOMAIN segmentos = 1..n
      /\ EnMemoria \subseteq Ref
      /\ \A q \in Ref : base[q] \in Nat /\ tamanio[q] \in Nat
      /\ \A i \in 1..n : segmentos[i] \in EnMemoria
  BY EnRef DEF IInv, TipoMemoria
<1>3. /\ movidos \in Nat /\ cursor \in Nat /\ tamanioTotal \in Nat
      /\ m \in 1..n /\ m \in Nat /\ m - 1 = movidos
  BY <1>1, <1>2 DEF IInv, TipoMemoria
<1>4. /\ r \in EnMemoria /\ r \in Ref
      /\ base[r] \in Nat /\ tamanio[r] \in Nat /\ tamanio[r] > 0
      /\ base[r] + tamanio[r] <= TAM_MEMORIA
  BY <1>2, <1>3 DEF IInv, Propios
<1>5. /\ base'[r] = cursor
      /\ \A q \in EnMemoria : q # r => base'[q] = base[q]
  BY <1>1, <1>2, <1>4 DEF IInv, TipoMemoria
<1>. DEFINE b(i) == base[segmentos[i]]
            c(i) == base'[segmentos[i]]
            t(i) == tamanio[segmentos[i]]
<1>6. /\ b(m) = base[r] /\ t(m) = tamanio[r] /\ c(m) = cursor
      /\ \A i \in 1..n : i # m => c(i) = b(i)
      /\ \A i \in 1..n : b(i) \in Nat /\ t(i) \in Nat /\ t(i) > 0
      /\ \A i \in 1..n : b(i) + t(i) <= TAM_MEMORIA
  <2>1. \A i \in 1..n : segmentos[i] = r => i = m
    BY <1>2, <1>3 DEF IInv, TablasYLista
  <2>2. \A i \in 1..n : i # m => c(i) = b(i)
    BY <1>2, <1>5, <2>1
  <2>. QED  BY <1>2, <1>5, <2>2 DEF IInv, Propios
<1>7. /\ \A i, j \in 1..n : i < j => b(i) + t(i) <= b(j)
      /\ \A i \in 1..n : i <= movidos => b(i) + t(i) <= cursor
      /\ \A i \in 1..n : i > movidos => cursor <= b(i)
      /\ \A d \in Nat : d < cursor =>
           \E i \in 1..n : i <= movidos /\ Cubre(b(i), t(i), d)
      /\ tamanioTotal + cursor + Cardinality(Pendientes) = TAM_MEMORIA
  BY <1>1 DEF IInv, Moviendo
<1>8. Pendientes = {d \in Direcciones : \E i \in m..n : Cubre(b(i), t(i), d)}
  BY DEF Pendientes
<1>9. Pendientes' =
        {d \in Direcciones : \E i \in (m + 1)..n : Cubre(c(i), t(i), d)}
  BY <1>1 DEF Pendientes
<1>10. TablasYLista' /\ EnMemoria' = EnMemoria
  BY <1>1 DEF IInv, TablasYLista, EnMemoria
<1>11. HuecosBien(huecos)' /\ Reparto' /\ Pedidos' /\ Accesos'
  BY <1>1, <1>7 DEF IInv, HuecosBien, Fin, Reparto, Pedidos, Accesos
<1>12. TipoMemoria'
  <2>1. cursor <= base[r]
    BY <1>3, <1>6, <1>7
  <2>2. espacio \in [Direcciones -> Valores]
    BY DEF IInv, TipoMemoria
  <2>3. espacio' \in [Direcciones -> Valores]
    BY <1>1, <1>3, <1>4, <2>1, <2>2, CopiaTipo
  <2>4. base' \in [Ref -> Nat] /\ cursor' \in Nat /\ movidos' \in Nat
    BY <1>1, <1>3, <1>4 DEF IInv, TipoMemoria
  <2>. QED  BY <1>1, <2>3, <2>4 DEF IInv, TipoMemoria
<1>. HIDE DEF b, c, t
<1>13. \A i, j \in 1..n : i < j => c(i) + t(i) <= c(j)
  <2>1. SUFFICES ASSUME NEW i \in 1..n, NEW j \in 1..n, i < j
                 PROVE  c(i) + t(i) <= c(j)
    OBVIOUS
  <2>2. CASE i = m
    BY <2>1, <2>2, <1>3, <1>6, <1>7
  <2>3. CASE j = m
    BY <2>1, <2>3, <1>3, <1>6, <1>7
  <2>4. CASE i # m /\ j # m
    BY <2>1, <2>4, <1>6, <1>7
  <2>. QED  BY <2>2, <2>3, <2>4
<1>14. \A i \in 1..n : c(i) + t(i) <= TAM_MEMORIA
  <2>1. SUFFICES ASSUME NEW i \in 1..n PROVE c(i) + t(i) <= TAM_MEMORIA
    OBVIOUS
  <2>2. cursor <= b(m)
    BY <1>3, <1>7
  <2>3. CASE i = m
    BY <2>2, <2>3, <1>3, <1>6, MemoriaAssumption
  <2>. QED  BY <2>3, <1>6
<1>15. Propios'
  <2>1. \A q \in EnMemoria : \E i \in 1..n : q = segmentos[i]
    BY <1>2 DEF EnMemoria
  <2>2. \A i \in 1..n : c(i) = base'[segmentos[i]] /\ t(i) = tamanio'[segmentos[i]]
    BY <1>1 DEF c, t
  <2>3. \A q \in EnMemoria :
          tamanio'[q] > 0 /\ base'[q] + tamanio'[q] <= TAM_MEMORIA
    BY <1>6, <1>14, <2>1, <2>2
  <2>4. ASSUME NEW q \in EnMemoria, NEW w \in EnMemoria, q # w
        PROVE  \/ base'[q] + tamanio'[q] <= base'[w]
               \/ base'[w] + tamanio'[w] <= base'[q]
    <3>1. PICK i \in 1..n, j \in 1..n : q = segmentos[i] /\ w = segmentos[j]
      BY <2>1
    <3>2. i < j \/ j < i
      BY <1>3, <2>4, <3>1
    <3>. QED  BY <3>1, <3>2, <1>13, <2>2
  <2>. QED  BY <1>10, <2>3, <2>4 DEF Propios
<1>16. Cardinality(Pendientes) = Cardinality(Pendientes') + tamanio[r]
  <2>. DEFINE B == {d \in Direcciones : Cubre(base[r], tamanio[r], d)}
  <2>1. Cardinality(B) = tamanio[r]
    BY <1>4, Bloque
  <2>2. \A i \in (m + 1)..n : i \in 1..n /\ i # m /\ m < i
    BY <1>3
  <2>3. Pendientes' =
          {d \in Direcciones : \E i \in (m + 1)..n : Cubre(b(i), t(i), d)}
    <3>1. \A i \in (m + 1)..n : c(i) = b(i)
      BY <1>6, <2>2
    <3>. QED  BY <1>9, <3>1
  <2>4. Pendientes = Pendientes' \cup B
    <3>1. \A i : i \in m..n <=> i = m \/ i \in (m + 1)..n
      BY <1>2, <1>3
    <3>. QED  BY <1>6, <1>8, <2>3, <3>1
  <2>5. Pendientes' \cap B = {}
    <3>1. SUFFICES ASSUME NEW d \in B, NEW i \in (m + 1)..n, Cubre(b(i), t(i), d)
                   PROVE  FALSE
      BY <2>3
    <3>2. b(m) + t(m) <= b(i) /\ b(i) \in Nat
      BY <1>3, <1>6, <1>7, <2>2
    <3>3. d \in Nat
      BY MemoriaAssumption DEF Direcciones
    <3>. QED  BY <3>1, <3>2, <3>3, <1>4, <1>6 DEF Cubre
  <2>6. Pendientes' \subseteq Direcciones /\ B \subseteq Direcciones
    BY <2>3
  <2>. HIDE DEF B
  <2>. PICK A : A = Pendientes'
    OBVIOUS
  <2>7. Cardinality(A \cup B) = Cardinality(A) + Cardinality(B)
    BY <2>5, <2>6, Disjuntos
  <2>. QED  BY <2>1, <2>4, <2>7
<1>17. Moviendo'
  <2>1. \A i \in 1..n : /\ i <= m => c(i) + t(i) <= cursor + tamanio[r]
                        /\ i > m => cursor + tamanio[r] <= c(i)
    <3>1. SUFFICES ASSUME NEW i \in 1..n
                   PROVE  /\ i <= m => c(i) + t(i) <= cursor + tamanio[r]
                          /\ i > m => cursor + tamanio[r] <= c(i)
      OBVIOUS
    <3>2. CASE i = m
      BY <3>2, <1>3, <1>6
    <3>3. CASE i < m
      <4>1. c(i) = b(i) /\ c(i) \in Nat /\ t(i) \in Nat
        BY <3>3, <1>3, <1>6
      <4>2. b(i) + t(i) <= cursor
        BY <3>3, <1>3, <1>7
      <4>. QED  BY <3>3, <4>1, <4>2, <1>3, <1>4
    <3>4. CASE i > m
      BY <3>4, <1>3, <1>4, <1>6, <1>13
    <3>. QED  BY <3>2, <3>3, <3>4, <1>3
  <2>2. ASSUME NEW d \in Nat, d < cursor + tamanio[r]
        PROVE  \E i \in 1..n : i <= m /\ Cubre(c(i), t(i), d)
    <3>1. CASE d < cursor
      <4>1. PICK i \in 1..n : i <= movidos /\ Cubre(b(i), t(i), d)
        BY <1>7, <3>1
      <4>2. i # m /\ i <= m
        BY <1>3, <4>1
      <4>. QED  BY <1>6, <4>1, <4>2
    <3>2. CASE d >= cursor
      <4>1. Cubre(c(m), t(m), d)
        BY <2>2, <3>2, <1>6 DEF Cubre
      <4>. QED  BY <1>3, <4>1
    <3>. QED  BY <3>1, <3>2, <1>3
  <2>3. tamanioTotal + (cursor + tamanio[r]) + Cardinality(Pendientes') = TAM_MEMORIA
    <3>1. Cardinality(Pendientes') \in Nat
      <4>. PICK A : A = Pendientes'
        OBVIOUS
      <4>1. A \subseteq Direcciones
        BY <1>9
      <4>2. Cardinality(A) \in Nat
        BY <4>1, DireccionesFinitas
      <4>. QED  BY <4>2
    <3>. QED  BY <3>1, <1>3, <1>4, <1>7, <1>16
  <2>4. m <= n
    BY <1>3
  <2>5. /\ Len(segmentos') = n
        /\ \A i \in 1..n : /\ c(i) = base'[segmentos'[i]]
                           /\ t(i) = tamanio'[segmentos'[i]]
    BY <1>1 DEF c, t
  <2>. QED  BY <1>1, <1>7, <1>13, <2>1, <2>2, <2>3, <2>4, <2>5 DEF Moviendo
<1>. QED  BY <1>10, <1>11, <1>12, <1>15, <1>17 DEF IInv

(* The hole left at the end is what the holes added up to: enough for the  *)
(* segment that was asked for.                                             *)
LEMMA CompactaTerminaBien ==
    ASSUME IInv, CompactaTermina
    PROVE  IInv'
<1>. PICK n : n = Len(segmentos)
  OBVIOUS
<1>1. /\ pc = "mueve" /\ movidos = n /\ pc' = "recv"
      /\ huecos' = <<Hueco(cursor, tamanioTotal)>>
      /\ cursor' = 0 /\ movidos' = 0
      /\ UNCHANGED <<fase, tabla, segmentos, base, tamanio, tamanioTotal>>
      /\ UNCHANGED <<pedido, espacio, accesosFs>>
  BY DEF CompactaTermina
<1>2. /\ segmentos \in Seq(Ref) /\ n \in Nat /\ DOMAIN segmentos = 1..n
      /\ EnMemoria \subseteq Ref
      /\ \A q \in Ref : base[q] \in Nat /\ tamanio[q] \in Nat
      /\ \A i \in 1..n : segmentos[i] \in EnMemoria
  BY EnRef DEF IInv, TipoMemoria
<1>3. cursor \in Nat /\ tamanioTotal \in Nat
  BY DEF IInv, TipoMemoria
<1>4. /\ \A i \in 1..n :
           i <= n => base[segmentos[i]] + tamanio[segmentos[i]] <= cursor
      /\ \A d \in Nat : d < cursor =>
           \E i \in 1..n :
             i <= n /\ Cubre(base[segmentos[i]], tamanio[segmentos[i]], d)
      /\ tamanioTotal + cursor + Cardinality(Pendientes) = TAM_MEMORIA
  BY <1>1 DEF IInv, Moviendo
<1>5. tamanioTotal + cursor = TAM_MEMORIA
  <2>1. (n + 1)..n = {}
    BY <1>2
  <2>2. Pendientes = {}
    BY <1>1, <2>1 DEF Pendientes
  <2>3. Cardinality(Pendientes) = 0
    BY <2>2, FS_EmptySet
  <2>. QED  BY <1>3, <1>4, <2>3
<1>6. /\ pedido # <<>> /\ tamanioTotal >= pedido[3]
      /\ pedido[3] \in Nat /\ pedido[3] > 0
  <2>1. pedido # <<>> /\ tamanioTotal >= pedido[3]
    BY <1>1 DEF IInv, Pedidos
  <2>2. pedido[3] \in Tamanios
    BY <2>1 DEF IInv, TipoMemoria
  <2>3. \A t \in Tamanios : t \in Nat /\ t > 0
    BY MemoriaAssumption
  <2>. QED  BY <2>1, <2>2, <2>3
<1>7. tamanioTotal > 0
  BY <1>3, <1>6
<1>8. /\ huecos' \in Seq([base : Nat, tamanio : Nat]) /\ DOMAIN huecos' = {1}
      /\ huecos'[1].base = cursor /\ huecos'[1].tamanio = tamanioTotal
  <2>. PICK h : h = Hueco(cursor, tamanioTotal)
    OBVIOUS
  <2>1. /\ h \in [base : Nat, tamanio : Nat]
        /\ h.base = cursor /\ h.tamanio = tamanioTotal
    BY <1>3 DEF Hueco
  <2>. QED  BY <1>1, <2>1
<1>9. TipoMemoria'
  BY <1>1, <1>8 DEF IInv, TipoMemoria
<1>10. TablasYLista' /\ Propios' /\ Accesos' /\ EnMemoria' = EnMemoria
  BY <1>1 DEF IInv, TablasYLista, Propios, Accesos, EnMemoria
<1>11. HuecosBien(huecos)'
  BY <1>3, <1>5, <1>7, <1>8, MemoriaAssumption DEF HuecosBien, Fin
<1>12. Reparto'
  <2>1. ASSUME NEW d \in Direcciones
        PROVE  Libre(huecos, d)' <=> ~ Ocupado(d)'
    <3>1. d \in Nat /\ d < TAM_MEMORIA
      BY MemoriaAssumption DEF Direcciones
    <3>2. Libre(huecos, d)' <=> cursor <= d
      BY <1>3, <1>5, <1>8, <3>1 DEF Libre, Cubre
    <3>3. Ocupado(d)' <=> \E r \in EnMemoria : Cubre(base[r], tamanio[r], d)
      BY <1>1, <1>10 DEF Ocupado
    <3>4. CASE d < cursor
      <4>1. PICK i \in 1..n : Cubre(base[segmentos[i]], tamanio[segmentos[i]], d)
        BY <1>4, <3>1, <3>4
      <4>2. segmentos[i] \in EnMemoria
        BY <1>2
      <4>3. Ocupado(d)'
        BY <3>3, <4>1, <4>2
      <4>. QED  BY <1>3, <3>1, <3>2, <3>4, <4>3
    <3>5. CASE cursor <= d
      <4>1. ASSUME NEW r \in EnMemoria PROVE ~ Cubre(base[r], tamanio[r], d)
        <5>1. PICK i \in 1..n : r = segmentos[i]
          BY <1>2 DEF EnMemoria
        <5>2. base[r] + tamanio[r] <= cursor
          BY <1>2, <1>4, <5>1
        <5>3. base[r] \in Nat /\ tamanio[r] \in Nat
          BY <1>2
        <5>. QED  BY <1>3, <3>1, <3>5, <5>2, <5>3 DEF Cubre
      <4>. QED  BY <3>2, <3>3, <3>5, <4>1
    <3>. QED  BY <1>3, <3>1, <3>4, <3>5
  <2>. QED  BY <2>1 DEF Reparto
<1>13. Pedidos'
  <2>1. 1 \in Caben(pedido[3])'
    BY <1>1, <1>6, <1>8 DEF Caben
  <2>. QED  BY <1>1, <2>1 DEF Pedidos
<1>14. Moviendo'
  BY <1>1 DEF Moviendo
<1>. QED  BY <1>9, <1>10, <1>11, <1>12, <1>13, <1>14 DEF IInv

-----------------------------------------------------------------------------
(* deletear_segmento gives back exactly the bytes of its segment. *)
LEMMA DeleteaSegmentoBien ==
    ASSUME IInv, NEW p \in Pid, NEW r \in Ref, DeleteaSegmento(p, r)
    PROVE  IInv'
<1>. PICK n : n = Len(segmentos)
  OBVIOUS
<1>. PICK b : b = base[r]
  OBVIOUS
<1>. PICK t : t = tamanio[r]
  OBVIOUS
<1>1. /\ pc = "recv" /\ fase[p] = "activo" /\ \A x \in accesosFs : x.pid # p
      /\ pedido = <<>> /\ r \in tabla[p] /\ r # Compartido
      /\ tabla' = [tabla EXCEPT ![p] = @ \ {r}]
      /\ segmentos' = RemoveFirst(segmentos, r)
      /\ huecos' = AgregaHueco(b, t)
      /\ base' = [base EXCEPT ![r] = 0]
      /\ tamanio' = [tamanio EXCEPT ![r] = 0]
      /\ UNCHANGED <<fase, tamanioTotal, pc, pedido, cursor, movidos>>
      /\ UNCHANGED <<espacio, accesosFs>>
  BY DEF DeleteaSegmento, Atiende, compacta
<1>2. /\ segmentos \in Seq(Ref) /\ n \in Nat /\ DOMAIN segmentos = 1..n
      /\ EnMemoria \subseteq Ref
      /\ \A q \in Ref : base[q] \in Nat /\ tamanio[q] \in Nat
      /\ huecos \in Seq(HuecoTipo) /\ HuecosBien(huecos)
  BY EnRef DEF IInv, TipoMemoria
<1>3. \E id \in Ids : r = <<p, id>>
  <2>1. PICK q \in Pid, id \in Ids : r = <<q, id>>
    BY <1>1 DEF Ref
  <2>. QED  BY <1>1, <2>1 DEF IInv, TablasYLista
<1>4. r \in EnMemoria
  BY <1>1, <1>3 DEF IInv, TablasYLista
<1>5. /\ b \in Nat /\ t \in Nat /\ t > 0 /\ b + t <= TAM_MEMORIA
  BY <1>2, <1>4 DEF IInv, Propios
<1>6. PICK k \in 1..n : segmentos[k] = r
  BY <1>2, <1>4 DEF EnMemoria
<1>7. /\ segmentos' \in Seq(Ref) /\ EnMemoria' = EnMemoria \ {r}
      /\ \A i, j \in DOMAIN segmentos' : segmentos'[i] = segmentos'[j] => i = j
  <2>1. \A i, j \in 1..n : segmentos[i] = segmentos[j] => i = j
    BY <1>2 DEF IInv, TablasYLista
  <2>2. RemoveFirst(segmentos, segmentos[k]) = RemoveAt(segmentos, k)
    <3>1. \A j \in 1..Len(segmentos) : segmentos[j] = segmentos[k] => j = k
      BY <2>1
    <3>. QED  BY <1>2, <3>1, QuitaPrimero
  <2>. PICK z : z = RemoveAt(segmentos, k)
    OBVIOUS
  <2>3. segmentos' = z
    BY <1>1, <1>6, <2>2
  <2>4. /\ z \in Seq(Ref)
        /\ \A j \in DOMAIN z : \E i \in 1..n : i # k /\ z[j] = segmentos[i]
        /\ \A i \in 1..n : i # k => \E j \in DOMAIN z : z[j] = segmentos[i]
        /\ \A i, j \in DOMAIN z : z[i] = z[j] => i = j
    BY <1>2, <2>1, QuitaUno
  <2>5. EnMemoria' = {z[j] : j \in DOMAIN z}
    BY <2>3 DEF EnMemoria
  <2>6. \A q \in EnMemoria : q # r => q \in {z[j] : j \in DOMAIN z}
    <3>1. \A q \in EnMemoria : \E i \in 1..n : q = segmentos[i]
      BY <1>2 DEF EnMemoria
    <3>. QED  BY <3>1, <1>6, <2>4
  <2>7. ASSUME NEW j \in DOMAIN z PROVE z[j] \in EnMemoria /\ z[j] # r
    <3>1. PICK i \in 1..n : i # k /\ z[j] = segmentos[i]
      BY <2>4
    <3>2. segmentos[i] \in EnMemoria
      BY <1>2 DEF EnMemoria
    <3>. QED  BY <3>1, <3>2, <1>6, <2>1
  <2>. QED  BY <2>3, <2>4, <2>5, <2>6, <2>7
<1>8. \A q \in EnMemoria' : /\ q \in EnMemoria /\ q # r
                            /\ base'[q] = base[q] /\ tamanio'[q] = tamanio[q]
  BY <1>1, <1>2, <1>7 DEF IInv, TipoMemoria
<1>9. \A d \in Direcciones : Cubre(b, t, d) => ~ Libre(huecos, d)
  BY <1>1, <1>4 DEF IInv, Reparto, Ocupado
<1>10. /\ huecos' \in Seq(HuecoTipo) /\ HuecosBien(huecos')
       /\ \A d \in Nat : Libre(huecos', d) <=> Libre(huecos, d) \/ Cubre(b, t, d)
  <2>1. \A d \in Nat : Cubre(b, t, d) => ~ Libre(huecos, d)
    <3>1. \A d \in Nat : Cubre(b, t, d) => d \in Direcciones
      BY <1>5, MemoriaAssumption DEF Cubre, Direcciones
    <3>. QED  BY <1>9, <3>1
  <2>2. /\ AgregaHueco(b, t) \in Seq(HuecoTipo)
        /\ HuecosBien(AgregaHueco(b, t))
        /\ \A d \in Nat : Libre(AgregaHueco(b, t), d) <=>
                            Libre(huecos, d) \/ Cubre(b, t, d)
    BY <1>2, <1>5, <2>1, AgregaBien
  <2>. QED  BY <1>1, <2>2
<1>11. TipoMemoria'
  <2>1. tabla' \in [Pid -> SUBSET Ref]
    BY <1>1 DEF IInv, TipoMemoria
  <2>2. base' \in [Ref -> Nat] /\ tamanio' \in [Ref -> Nat]
    BY <1>1 DEF IInv, TipoMemoria
  <2>3. huecos' \in Seq([base : Nat, tamanio : Nat])
    BY <1>10 DEF HuecoTipo
  <2>. QED  BY <1>1, <1>7, <2>1, <2>2, <2>3 DEF IInv, TipoMemoria
<1>12. TablasYLista'
  <2>1. \A q \in Pid : tabla'[q] = IF q = p THEN tabla[p] \ {r} ELSE tabla[q]
    BY <1>1 DEF IInv, TipoMemoria
  <2>2. \A q, w \in Pid, i \in Ids : <<w, i>> \in tabla'[q] => w = q
    BY <2>1 DEF IInv, TablasYLista
  <2>3. \A q \in Pid : fase'[q] \in {"nuevo", "terminado"} => tabla'[q] = {}
    BY <1>1, <2>1 DEF IInv, TablasYLista
  <2>4. ASSUME NEW q \in Pid, NEW i \in Ids, fase'[q] # "terminado"
        PROVE  <<q, i>> \in tabla'[q] <=> <<q, i>> \in EnMemoria'
    <3>1. <<q, i>> \in tabla[q] <=> <<q, i>> \in EnMemoria
      BY <1>1, <2>4 DEF IInv, TablasYLista
    <3>2. CASE q = p
      BY <3>1, <3>2, <1>7, <2>1
    <3>3. CASE q # p
      <4>1. <<q, i>> # r
        BY <1>3, <3>3
      <4>. QED  BY <3>1, <3>3, <4>1, <1>7, <2>1
    <3>. QED  BY <3>2, <3>3
  <2>5. Compartido \in EnMemoria'
    BY <1>1, <1>7 DEF IInv, TablasYLista
  <2>. QED  BY <1>7, <2>2, <2>3, <2>4, <2>5 DEF TablasYLista
<1>13. Propios'
  <2>1. \A q \in EnMemoria' :
          tamanio'[q] > 0 /\ base'[q] + tamanio'[q] <= TAM_MEMORIA
    BY <1>8 DEF IInv, Propios
  <2>2. \A q, w \in EnMemoria' :
          q # w => \/ base'[q] + tamanio'[q] <= base'[w]
                   \/ base'[w] + tamanio'[w] <= base'[q]
    BY <1>8 DEF IInv, Propios
  <2>. QED  BY <2>1, <2>2 DEF Propios
<1>14. Reparto'
  <2>1. ASSUME NEW d \in Direcciones
        PROVE  Libre(huecos', d) <=> ~ Ocupado(d)'
    <3>1. d \in Nat
      BY MemoriaAssumption DEF Direcciones
    <3>2. Libre(huecos, d) <=> ~ Ocupado(d)
      BY <1>1 DEF IInv, Reparto
    <3>3. Ocupado(d) <=> Ocupado(d)' \/ Cubre(b, t, d)
      BY <1>4, <1>7, <1>8 DEF Ocupado
    <3>4. ASSUME Cubre(b, t, d), Ocupado(d)' PROVE FALSE
      <4>1. PICK q \in EnMemoria' : Cubre(base[q], tamanio[q], d)
        BY <3>4, <1>8 DEF Ocupado
      <4>2. /\ q \in EnMemoria /\ q # r
            /\ base[q] \in Nat /\ tamanio[q] \in Nat
        BY <1>2, <1>8
      <4>3. b + t <= base[q] \/ base[q] + tamanio[q] <= b
        BY <1>4, <4>2 DEF IInv, Propios
      <4>. QED  BY <1>5, <3>1, <3>4, <4>1, <4>2, <4>3 DEF Cubre
    <3>. QED  BY <3>1, <3>2, <3>3, <3>4, <1>10
  <2>2. \A d : Libre(huecos, d)' <=> Libre(huecos', d)
    BY DEF Libre
  <2>. QED  BY <2>1, <2>2 DEF Reparto
<1>15. Pedidos' /\ Moviendo'
  BY <1>1 DEF Pedidos, Moviendo
<1>16. Accesos'
  <2>1. ASSUME NEW x \in accesosFs
        PROVE  /\ x.ref \in tabla'[x.pid] /\ fase[x.pid] = "activo"
               /\ base'[x.ref] = base[x.ref] /\ tamanio'[x.ref] = tamanio[x.ref]
    <3>1. /\ x.pid \in Pid /\ x.ref \in Ref /\ x.pid # p
          /\ x.ref \in tabla[x.pid] /\ fase[x.pid] = "activo"
      BY <1>1 DEF IInv, TipoMemoria, Accesos
    <3>2. x.ref # r
      BY <1>3, <3>1 DEF IInv, TablasYLista
    <3>. QED  BY <1>1, <3>1, <3>2 DEF IInv, TipoMemoria
  <2>. QED  BY <1>1, <2>1 DEF IInv, Accesos
<1>17. HuecosBien(huecos)'
  BY <1>10 DEF HuecosBien, Fin
<1>. QED  BY <1>11, <1>12, <1>13, <1>14, <1>15, <1>16, <1>17 DEF IInv

-----------------------------------------------------------------------------
(* Every step keeps the invariant. *)
LEMMA PasoBien == IInv /\ [Next]_vars => IInv'
<1>. SUFFICES ASSUME IInv, [Next]_vars PROVE IInv'
  OBVIOUS
<1>1. ASSUME NEW p \in Pid, InicializarProceso(p) PROVE IInv'
  BY <1>1, InicializarProcesoBien
<1>2. ASSUME NEW p \in Pid, Sale(p) PROVE IInv'
  BY <1>2, SaleBien
<1>3. ASSUME NEW p \in Pid, TerminarProceso(p) PROVE IInv'
  BY <1>3, TerminarProcesoBien
<1>4. ASSUME NEW p \in Pid, NEW id \in Ids, NEW t \in Tamanios,
             \/ CreaSegmento(p, id, t) \/ SinEspacio(p, id, t)
             \/ PideCompactar(p, id, t)
      PROVE  IInv'
  BY <1>4, CreaSegmentoBien, SinEspacioBien, PideCompactarBien
<1>5. CASE CompactaInicia \/ CompactaTermina
             \/ \E orden \in Ordenes : MueveSegmento(orden)
  BY <1>5, CompactaIniciaBien, MueveSegmentoBien, CompactaTerminaBien
<1>6. ASSUME NEW p \in Pid, NEW r \in Ref, DeleteaSegmento(p, r) PROVE IInv'
  BY <1>6, DeleteaSegmentoBien
<1>7. ASSUME NEW p \in Pid, NEW r \in Ref, NEW o \in Desplazamientos,
             NEW n \in Cantidades,
             \/ \E bytes \in Bytes(n) : EscribeCpu(p, r, o, n, bytes)
             \/ PideAccesoFs(p, r, o, n)
      PROVE  IInv'
  BY <1>7, EscribeCpuBien, PideAccesoFsBien
<1>8. ASSUME NEW x \in accesosFs,
             LeeFs(x) \/ \E bytes \in Bytes(x.n) : EscribeFs(x, bytes)
      PROVE  IInv'
  BY <1>8, LeeFsBien, EscribeFsBien
<1>9. CASE Reposo \/ UNCHANGED vars
  BY <1>9, Quieto DEF Reposo
<1>. QED  BY <1>1, <1>2, <1>3, <1>4, <1>5, <1>6, <1>7, <1>8, <1>9 DEF Next

(* The invariant holds for every memory, algorithm and set of processes. *)
THEOREM Invariante == Spec => []IInv
<1>. QED  BY Iniciales, PasoBien, PTL DEF Spec

(* Every variable of memoria.c keeps its type: in particular no address    *)
(* leaves the area, whatever is created, deleted or compacted.             *)
THEOREM TipoSiempre == Spec => []TipoMemoria
<1>1. IInv => TipoMemoria
  BY DEF IInv
<1>. QED  BY <1>1, Invariante, PTL

(* The holes are in address order and no two touch: agregar_hueco_libre    *)
(* always joins free neighbours (memoria.c:376-441).                       *)
THEOREM HuecosApartados == Spec => []HuecosSeparados
<1>1. IInv => HuecosSeparados
  BY DEF IInv, HuecosBien, HuecosSeparados, Fin
<1>. QED  BY <1>1, Invariante, PTL

(* One compaction is enough for the CREATE_SEGMENT it was made for,        *)
(* whatever the sizes: manejar_create_segment calls itself once            *)
(* (kernel.c:952).                                                         *)
THEOREM CompactaUnaVez == Spec => []CompactarAlcanza
<1>1. IInv => CompactarAlcanza
  BY DEF IInv, Pedidos, CompactarAlcanza, VerificarEspacio
<1>. QED  BY <1>1, Invariante, PTL

(* A byte that a segment has is in that one and no hole; one that is free  *)
(* is in one hole and no segment.                                          *)
LEMMA ParticionBien == IInv => Particion
<1>. SUFFICES ASSUME IInv, pc # "mueve", NEW d \in Direcciones
     PROVE  Cardinality({i \in DOMAIN huecos :
                           Cubre(huecos[i].base, huecos[i].tamanio, d)})
            + Cardinality({i \in DOMAIN segmentos :
                             Cubre(base[segmentos[i]], tamanio[segmentos[i]], d)})
            = 1
  BY DEF Particion
<1>. PICK H : H = {i \in DOMAIN huecos :
                     Cubre(huecos[i].base, huecos[i].tamanio, d)}
  OBVIOUS
<1>. PICK G : G = {i \in DOMAIN segmentos :
                     Cubre(base[segmentos[i]], tamanio[segmentos[i]], d)}
  OBVIOUS
<1>1. /\ DOMAIN segmentos = 1..Len(segmentos)
      /\ EnMemoria \subseteq Ref
      /\ \A q \in Ref : base[q] \in Nat /\ tamanio[q] \in Nat
      /\ huecos \in Seq(HuecoTipo) /\ HuecosBien(huecos)
      /\ \A i \in 1..Len(segmentos) : segmentos[i] \in EnMemoria
  BY EnRef DEF IInv
<1>2. d \in Nat
  BY MemoriaAssumption DEF Direcciones
<1>3. Libre(huecos, d) <=> ~ Ocupado(d)
  BY DEF IInv, Reparto
<1>4. H # {} <=> Libre(huecos, d)
  BY DEF Libre
<1>5. G # {} <=> Ocupado(d)
  BY DEF Ocupado, EnMemoria
<1>6. \A i, j \in H : i = j
  <2>1. \A i \in H : /\ i \in 1..Len(huecos)
                     /\ Cubre(huecos[i].base, huecos[i].tamanio, d)
    BY <1>1, HuecosTipo
  <2>. QED  BY <1>1, <1>2, <2>1, HuecosDisjuntos
<1>7. \A i, j \in G : i = j
  <2>1. SUFFICES ASSUME NEW i \in G, NEW j \in G PROVE i = j
    OBVIOUS
  <2>. PICK r \in EnMemoria : r = segmentos[i]
    BY <1>1
  <2>. PICK q \in EnMemoria : q = segmentos[j]
    BY <1>1
  <2>2. Cubre(base[r], tamanio[r], d) /\ Cubre(base[q], tamanio[q], d)
    OBVIOUS
  <2>3. r = q
    <3>1. /\ base[r] \in Nat /\ tamanio[r] \in Nat
          /\ base[q] \in Nat /\ tamanio[q] \in Nat
      BY <1>1
    <3>2. r # q => \/ base[r] + tamanio[r] <= base[q]
                   \/ base[q] + tamanio[q] <= base[r]
      BY DEF IInv, Propios
    <3>. QED  BY <1>2, <2>2, <3>1, <3>2 DEF Cubre
  <2>. QED  BY <2>3 DEF IInv, TablasYLista
<1>8. CASE Ocupado(d)
  <2>1. Cardinality(H) = 0
    BY <1>3, <1>4, <1>8, Ninguno
  <2>2. Cardinality(G) = 1
    <3>1. PICK i : i \in G
      BY <1>5, <1>8
    <3>. QED  BY <3>1, <1>7, SoloUno
  <2>. QED  BY <2>1, <2>2
<1>9. CASE ~ Ocupado(d)
  <2>1. Cardinality(G) = 0
    BY <1>5, <1>9, Ninguno
  <2>2. Cardinality(H) = 1
    <3>1. PICK i : i \in H
      BY <1>3, <1>4, <1>9
    <3>. QED  BY <3>1, <1>6, SoloUno
  <2>. QED  BY <2>1, <2>2
<1>. QED  BY <1>8, <1>9

(* Every byte is in exactly one segment or hole: none is lost, none is     *)
(* handed out twice (memoria.c:281-298, 376-441, 444-484).                 *)
THEOREM ParteLaMemoria == Spec => []Particion
<1>. QED  BY ParticionBien, Invariante, PTL

(* The holes are in address order, so the first that fits has the lowest   *)
(* base.                                                                   *)
LEMMA EligeElHuecoBien == IInv => EligeElHueco
<1>. SUFFICES ASSUME IInv, NEW a \in Algoritmos, NEW t \in Tamanios, Caben(t) # {}
     PROVE  /\ HuecoElegido(a, t) \in Caben(t)
            /\ \A j \in Caben(t) :
                 /\ a = "FIRST" =>
                      huecos[HuecoElegido(a, t)].base <= huecos[j].base
                 /\ a = "BEST" =>
                      huecos[HuecoElegido(a, t)].tamanio <= huecos[j].tamanio
                 /\ a = "WORST" =>
                      huecos[HuecoElegido(a, t)].tamanio >= huecos[j].tamanio
  <2>1. /\ "FIRST" # "BEST" /\ "FIRST" # "WORST" /\ "BEST" # "WORST"
    OBVIOUS
  <2>. QED  BY <2>1 DEF EligeElHueco, Algoritmos
<1>. PICK e : e = HuecoElegido(a, t)
  OBVIOUS
<1>1. /\ e \in 1..Len(huecos) /\ huecos[e].tamanio >= t
      /\ \A j \in Caben(t) :
           /\ a = "FIRST" => e <= j
           /\ a = "BEST" => huecos[e].tamanio <= huecos[j].tamanio
           /\ a = "WORST" => huecos[e].tamanio >= huecos[j].tamanio
  BY HayHueco
<1>2. huecos \in Seq(HuecoTipo) /\ HuecosBien(huecos)
  BY EnRef DEF IInv
<1>3. /\ DOMAIN huecos = 1..Len(huecos) /\ Len(huecos) \in Nat
      /\ \A i \in 1..Len(huecos) :
           huecos[i].base \in Nat /\ huecos[i].tamanio \in Nat
  BY <1>2, HuecosTipo
<1>4. e \in Caben(t)
  BY <1>1, <1>3 DEF Caben
<1>5. ASSUME NEW j \in Caben(t), a = "FIRST"
      PROVE  huecos[e].base <= huecos[j].base
  <2>1. j \in 1..Len(huecos) /\ e <= j
    BY <1>1, <1>3, <1>5 DEF Caben
  <2>2. e = j \/ e < j
    BY <1>1, <2>1
  <2>3. CASE e < j
    <3>1. huecos[e].base + huecos[e].tamanio < huecos[j].base
      BY <1>1, <1>2, <1>3, <2>1, <2>3 DEF HuecosBien, Fin
    <3>. QED  BY <3>1, <1>1, <1>3, <2>1
  <2>4. CASE e = j
    BY <2>4, <1>1, <1>3
  <2>. QED  BY <2>2, <2>3, <2>4
<1>. QED  BY <1>1, <1>4, <1>5

(* Whatever the list of holes, the configured algorithm chooses the hole   *)
(* its name says (encontrar_hueco_first, _best and _worst).                *)
THEOREM EligeSiempre == Spec => []EligeElHueco
<1>. QED  BY EligeElHuecoBien, Invariante, PTL

-----------------------------------------------------------------------------
(* A segment some process can reach. *)
Vivo(r) == r = Compartido \/ \E p \in Pid : r \in tabla[p]

(* Byte o of a segment, from 1. *)
Byte(r, o) == espacio[base[r] + o - 1]

(* The segment keeps its size and its bytes. *)
Conserva(r) ==
    /\ tamanio'[r] = tamanio[r]
    /\ \A o \in 1..tamanio[r] : Byte(r, o)' = Byte(r, o)

(* What Contenido says of one segment, before and after a step. *)
LEMMA ContenidoDe ==
    ASSUME NEW r \in Ref
    PROVE  /\ Contenido[r] =
                IF Vivo(r) THEN [o \in 1..tamanio[r] |-> Byte(r, o)] ELSE <<>>
           /\ Contenido'[r] =
                IF Vivo(r)' THEN [o \in 1..tamanio'[r] |-> Byte(r, o)'] ELSE <<>>
<1>1. Vivo(r) <=> r = Compartido \/ r \in UNION {tabla[p] : p \in Pid}
  BY DEF Vivo
<1>2. Vivo(r)' <=> r = Compartido \/ r \in UNION {tabla'[p] : p \in Pid}
  BY DEF Vivo
<1>3. Contenido[r] =
        IF Vivo(r) THEN [o \in 1..tamanio[r] |-> espacio[base[r] + o - 1]]
                   ELSE <<>>
  BY <1>1 DEF Contenido
<1>4. Contenido'[r] =
        IF Vivo(r)' THEN [o \in 1..tamanio'[r] |-> espacio'[base'[r] + o - 1]]
                    ELSE <<>>
  BY <1>2 DEF Contenido
<1>. QED  BY <1>3, <1>4 DEF Byte

(* A segment that keeps its bytes, or that nobody can reach any more,      *)
(* keeps its content.                                                      *)
LEMMA ConservaBasta ==
    ASSUME NEW r \in Ref, Vivo(r), Vivo(r)' => Conserva(r)
    PROVE  Contenido'[r] \in {<<>>, Contenido[r]}
<1>1. CASE ~ Vivo(r)'
  BY <1>1, ContenidoDe
<1>2. CASE Vivo(r)'
  <2>1. [o \in 1..tamanio'[r] |-> Byte(r, o)'] =
          [o \in 1..tamanio[r] |-> Byte(r, o)]
    BY <1>2 DEF Conserva
  <2>. QED  BY <1>2, <2>1, ContenidoDe
<1>. QED  BY <1>1, <1>2

(* A segment some process can reach is in memory. *)
LEMMA VivoEsta ==
    ASSUME IInv, NEW r \in Ref, Vivo(r)
    PROVE  /\ r \in EnMemoria /\ base[r] \in Nat /\ tamanio[r] \in Nat
           /\ tamanio[r] > 0 /\ base[r] + tamanio[r] <= TAM_MEMORIA
<1>1. r \in EnMemoria
  <2>1. CASE r = Compartido
    BY <2>1 DEF IInv, TablasYLista
  <2>2. CASE r # Compartido
    <3>1. PICK p \in Pid : r \in tabla[p]
      BY <2>2 DEF Vivo
    <3>2. PICK q \in Pid, id \in Ids : r = <<q, id>>
      BY <2>2 DEF Ref
    <3>3. q = p /\ fase[p] # "terminado"
      BY <3>1, <3>2 DEF IInv, TablasYLista
    <3>. QED  BY <3>1, <3>2, <3>3 DEF IInv, TablasYLista
  <2>. QED  BY <2>1, <2>2
<1>. QED  BY <1>1 DEF IInv, TipoMemoria, Propios

(* A step that neither moves the segment nor writes keeps it. *)
LEMMA MismosBytes ==
    ASSUME IInv, NEW r \in Ref, Vivo(r),
           base'[r] = base[r], tamanio'[r] = tamanio[r], espacio' = espacio
    PROVE  Conserva(r)
BY DEF Conserva, Byte

(* A write inside one segment changes no byte of another. *)
LEMMA EscribeOtro ==
    ASSUME IInv, NEW r \in Ref, Vivo(r), NEW q \in Ref, Vivo(q), q # r,
           NEW d \in Nat, NEW n \in Nat, NEW bytes \in Bytes(n),
           base[q] <= d, d + n <= base[q] + tamanio[q],
           espacio' = Escribe(espacio, d, bytes),
           UNCHANGED <<base, tamanio>>
    PROVE  Conserva(r)
<1>1. /\ r \in EnMemoria /\ base[r] \in Nat /\ tamanio[r] \in Nat
      /\ base[r] + tamanio[r] <= TAM_MEMORIA
      /\ q \in EnMemoria /\ base[q] \in Nat /\ tamanio[q] \in Nat
  BY VivoEsta
<1>2. \/ base[r] + tamanio[r] <= base[q]
      \/ base[q] + tamanio[q] <= base[r]
  BY <1>1 DEF IInv, Propios
<1>3. ASSUME NEW o \in 1..tamanio[r]
      PROVE  espacio'[base[r] + o - 1] = espacio[base[r] + o - 1]
  <2>. PICK a \in Nat : a = base[r] + o - 1
    BY <1>1
  <2>1. a \in Direcciones
    BY <1>1, MemoriaAssumption DEF Direcciones
  <2>c. ~ Cubre(d, n, a)
    <3>. PICK b \in Nat, t \in Nat : b = base[r] /\ t = tamanio[r]
      BY <1>1
    <3>. PICK bq \in Nat, tq \in Nat : bq = base[q] /\ tq = tamanio[q]
      BY <1>1
    <3>1. b + t <= bq \/ bq + tq <= b
      BY <1>2
    <3>2. b <= a /\ a < b + t /\ bq <= d /\ d + n <= bq + tq
      OBVIOUS
    <3>. QED  BY <3>1, <3>2 DEF Cubre
  <2>2. espacio'[a] = espacio[a]
    <3>1. espacio \in [Direcciones -> Valores]
      BY DEF IInv, TipoMemoria
    <3>. PICK e \in [Direcciones -> Valores] : e = espacio
      BY <3>1
    <3>2. Escribe(e, d, bytes)[a] = e[a]
      BY <2>1, <2>c, EscribeTipo
    <3>. QED  BY <3>2
  <2>. QED  BY <2>2
<1>. QED  BY <1>3 DEF Conserva, Byte

(* An address of a block is outside of a block that is on one side of it. *)
LEMMA Fuera ==
    ASSUME NEW a \in Nat, NEW k \in Nat, NEW c \in Nat, NEW t \in Nat,
           NEW d \in Nat, a <= d, d < a + k, a + k <= c \/ c + t <= a
    PROVE  d < c \/ c + t <= d
  OBVIOUS

(* compactar: the segment that moves takes its bytes along, unless memcpy  *)
(* copies it over itself backwards, and writes over no byte of the others. *)
LEMMA MueveAisla ==
    ASSUME IInv, NEW orden \in Ordenes, MueveSegmento(orden),
           NEW r \in Ref, Vivo(r)
    PROVE  Conserva(r) \/ SePisa(r)
<1>. PICK n : n = Len(segmentos)
  OBVIOUS
<1>. PICK m : m = movidos + 1
  OBVIOUS
<1>. PICK s : s = segmentos[m]
  OBVIOUS
<1>. PICK c : c = cursor
  OBVIOUS
<1>. PICK b : b = base[s]
  OBVIOUS
<1>. PICK t : t = tamanio[s]
  OBVIOUS
<1>1. /\ pc = "mueve" /\ movidos < n
      /\ espacio' = Copia(orden, espacio, c, b, t)
      /\ base' = [base EXCEPT ![s] = c]
      /\ tamanio' = tamanio
  BY DEF MueveSegmento
<1>2. /\ n \in Nat /\ DOMAIN segmentos = 1..n
      /\ EnMemoria \subseteq Ref
      /\ \A q \in Ref : base[q] \in Nat /\ tamanio[q] \in Nat
      /\ \A i \in 1..n : segmentos[i] \in EnMemoria
  BY EnRef DEF IInv, TipoMemoria
<1>3. movidos \in Nat /\ c \in Nat /\ m \in 1..n /\ m - 1 = movidos
  BY <1>1, <1>2 DEF IInv, TipoMemoria
<1>4. /\ s \in Ref /\ b \in Nat /\ t \in Nat /\ t > 0
      /\ b + t <= TAM_MEMORIA /\ c <= b
  BY <1>1, <1>2, <1>3 DEF IInv, Propios, Moviendo
<1>5. /\ r \in EnMemoria /\ base[r] \in Nat /\ tamanio[r] \in Nat
      /\ base[r] + tamanio[r] <= TAM_MEMORIA
  BY VivoEsta
<1>. DEFINE salto == b - c
            desde(k) == IF orden = "adelante" \/ salto = 0 THEN b + k
                        ELSE b + k + salto * ((t - 1 - k) \div salto)
<1>6. \A d \in Direcciones :
        espacio'[d] = IF d \in c..(c + t - 1) THEN espacio[desde(d - c)]
                                              ELSE espacio[d]
  <2>1. DOMAIN espacio = Direcciones
    BY DEF IInv, TipoMemoria
  <2>. QED  BY <1>1, <2>1 DEF Copia
<1>e. \/ orden = "atras" /\ c < b /\ b < c + t
      \/ \A k \in 0..(t - 1) : desde(k) = b + k
  <2>1. CASE orden = "adelante" \/ salto = 0
    BY <2>1
  <2>2. CASE orden = "atras" /\ c < b /\ c + t <= b
    <3>1. salto \in Nat /\ salto > 0 /\ t <= salto
      BY <1>3, <1>4, <2>2
    <3>2. ASSUME NEW k \in 0..(t - 1) PROVE desde(k) = b + k
      <4>1. (t - 1 - k) \in Nat /\ t - 1 - k < salto
        BY <1>4, <3>1
      <4>2. salto * ((t - 1 - k) \div salto) = 0
        BY <3>1, <4>1, PocoSalto
      <4>. QED  BY <1>4, <4>2
    <3>. QED  BY <3>2
  <2>. QED  BY <1>3, <1>4, <2>1, <2>2 DEF Ordenes
<1>. HIDE DEF desde, salto
<1>7. CASE r = s
  <2>1. base'[r] = c /\ base[r] = b /\ tamanio[r] = t
    BY <1>1, <1>4, <1>7 DEF IInv, TipoMemoria
  <2>2. CASE orden = "atras" /\ c < b /\ b < c + t
    BY <1>7, <2>1, <2>2 DEF SePisa
  <2>3. CASE \A k \in 0..(t - 1) : desde(k) = b + k
    <3>1. ASSUME NEW o \in 1..t PROVE espacio'[c + o - 1] = espacio[b + o - 1]
      <4>. PICK d : d = c + o - 1
        OBVIOUS
      <4>0. /\ c \in Nat /\ b \in Nat /\ t \in Nat /\ o \in Nat /\ 1 <= o /\ o <= t
            /\ c + t <= TAM_MEMORIA /\ TAM_MEMORIA \in Nat /\ d = c + o - 1
        BY <1>3, <1>4, MemoriaAssumption
      <4>1. /\ d \in Direcciones /\ d \in c..(c + t - 1)
            /\ d - c \in 0..(t - 1) /\ b + (d - c) = b + o - 1
        BY ONLY <4>0 DEF Direcciones
      <4>2. desde(d - c) = b + o - 1
        BY <2>3, <4>1
      <4>. QED  BY <4>1, <4>2, <1>6
    <3>. QED  BY <1>1, <2>1, <3>1 DEF Conserva, Byte
  <2>. QED  BY <1>e, <2>2, <2>3
<1>8. CASE r # s
  <2>1. base'[r] = base[r]
    BY <1>1, <1>8 DEF IInv, TipoMemoria
  <2>2. PICK i \in 1..n : r = segmentos[i]
    BY <1>2, <1>5 DEF EnMemoria
  <2>3. base[r] + tamanio[r] <= c \/ c + t <= base[r]
    <3>1. CASE i < m
      BY <1>1, <1>3, <2>2, <3>1 DEF IInv, Moviendo
    <3>2. CASE i > m
      <4>1. b + t <= base[r]
        BY <1>1, <1>3, <2>2, <3>2 DEF IInv, Moviendo
      <4>. QED  BY <4>1, <1>3, <1>4, <1>5
    <3>3. i # m
      BY <1>8, <2>2
    <3>. QED  BY <3>1, <3>2, <3>3, <1>2, <1>3
  <2>4. ASSUME NEW o \in 1..tamanio[r]
        PROVE  espacio'[base[r] + o - 1] = espacio[base[r] + o - 1]
    <3>. PICK a \in Nat, k \in Nat : a = base[r] /\ k = tamanio[r]
      BY <1>5
    <3>1. a + k <= TAM_MEMORIA /\ (a + k <= c \/ c + t <= a)
      BY <1>5, <2>3
    <3>d. PICK d \in Nat : d = a + o - 1
      OBVIOUS
    <3>e. a <= d /\ d < a + k
      BY <3>d
    <3>2. d \in Direcciones
      BY <3>1, <3>e, MemoriaAssumption DEF Direcciones
    <3>3. c \in Nat /\ t \in Nat
      BY <1>3, <1>4
    <3>4. d < c \/ c + t <= d
      BY <3>1, <3>3, <3>e, Fuera
    <3>5. d \notin c..(c + t - 1)
      BY <3>3, <3>4
    <3>6. espacio'[d] = espacio[d]
      BY <3>2, <3>5, <1>6
    <3>. QED  BY <3>6, <3>d
  <2>. QED  BY <1>1, <2>1, <2>4 DEF Conserva, Byte
<1>. QED  BY <1>7, <1>8

(* Every step keeps the bytes of a segment, or is one of the three that    *)
(* may change them.                                                        *)
LEMMA PasoAislado ==
    ASSUME IInv, [Next]_vars, NEW r \in Ref, Vivo(r)
    PROVE  \/ Vivo(r)' => Conserva(r)
           \/ EscribeEn(r) \/ EscribeDesviado \/ SePisa(r)
<1>1. ASSUME UNCHANGED <<base, tamanio, espacio>> PROVE Conserva(r)
  BY <1>1, MismosBytes
<1>2. ASSUME NEW p \in Pid,
             InicializarProceso(p) \/ Sale(p) \/ TerminarProceso(p)
      PROVE  Conserva(r)
  BY <1>1, <1>2 DEF InicializarProceso, Sale, TerminarProceso, listas
<1>3. ASSUME NEW p \in Pid, NEW id \in Ids, NEW t \in Tamanios,
             SinEspacio(p, id, t) \/ PideCompactar(p, id, t)
      PROVE  Conserva(r)
  BY <1>1, <1>3 DEF SinEspacio, PideCompactar, listas
<1>4. ASSUME NEW p \in Pid, NEW id \in Ids, NEW t \in Tamanios,
             CreaSegmento(p, id, t)
      PROVE  Conserva(r)
  <2>. PICK i : i = HuecoElegido(ALGORITMO_ASIGNACION, t)
    OBVIOUS
  <2>. PICK q : q = <<p, id>>
    OBVIOUS
  <2>1. /\ q \notin tabla[p] /\ espacio' = espacio
        /\ base' = [base EXCEPT ![q] = huecos[i].base]
        /\ tamanio' = [tamanio EXCEPT ![q] = t]
    BY <1>4 DEF CreaSegmento
  <2>2. q # Compartido
    BY MemoriaAssumption
  <2>3. r # q
    BY <2>1, <2>2 DEF Vivo, IInv, TablasYLista
  <2>4. base'[r] = base[r] /\ tamanio'[r] = tamanio[r]
    BY <2>1, <2>3 DEF IInv, TipoMemoria
  <2>. QED  BY <2>1, <2>4, MismosBytes
<1>5. CASE CompactaInicia \/ CompactaTermina
  BY <1>1, <1>5 DEF CompactaInicia, CompactaTermina
<1>6. ASSUME NEW orden \in Ordenes, MueveSegmento(orden)
      PROVE  Conserva(r) \/ SePisa(r)
  BY <1>6, MueveAisla
<1>7. ASSUME NEW p \in Pid, NEW q \in Ref, DeleteaSegmento(p, q), Vivo(r)'
      PROVE  Conserva(r)
  <2>1. /\ q \in tabla[p] /\ q # Compartido /\ espacio' = espacio
        /\ tabla' = [tabla EXCEPT ![p] = @ \ {q}]
        /\ base' = [base EXCEPT ![q] = 0]
        /\ tamanio' = [tamanio EXCEPT ![q] = 0]
    BY <1>7 DEF DeleteaSegmento
  <2>2. r # q
    <3>1. PICK id \in Ids : q = <<p, id>>
      <4>1. PICK w \in Pid, id \in Ids : q = <<w, id>>
        BY <2>1 DEF Ref
      <4>. QED  BY <2>1, <4>1 DEF IInv, TablasYLista
    <3>2. \A w \in Pid : q \notin tabla'[w]
      BY <2>1, <3>1 DEF IInv, TablasYLista, TipoMemoria
    <3>. QED  BY <1>7, <2>1, <3>2 DEF Vivo
  <2>3. base'[r] = base[r] /\ tamanio'[r] = tamanio[r]
    BY <2>1, <2>2 DEF IInv, TipoMemoria
  <2>. QED  BY <2>1, <2>3, MismosBytes
<1>8. ASSUME NEW p \in Pid, NEW q \in Ref, NEW o \in Desplazamientos,
             NEW n \in Cantidades, NEW bytes \in Bytes(n),
             EscribeCpu(p, q, o, n, bytes)
      PROVE  Conserva(r) \/ EscribeEn(r)
  <2>1. CASE q = r
    BY <1>8, <2>1 DEF EscribeEn
  <2>2. CASE q # r
    <3>1. /\ q \in tabla[p] /\ o + n <= tamanio[q]
          /\ espacio' = Escribe(espacio, base[q] + o, bytes)
          /\ UNCHANGED <<base, tamanio>>
      BY <1>8 DEF EscribeCpu, listas
    <3>2. Vivo(q)
      BY <3>1 DEF Vivo
    <3>3. base[q] \in Nat /\ tamanio[q] \in Nat /\ o \in Nat /\ n \in Nat
      BY MemoriaAssumption DEF IInv, TipoMemoria
    <3>. PICK d \in Nat : d = base[q] + o
      BY <3>3
    <3>4. base[q] <= d /\ d + n <= base[q] + tamanio[q]
      BY <3>1, <3>3
    <3>. QED  BY <2>2, <3>1, <3>2, <3>3, <3>4, EscribeOtro
  <2>. QED  BY <2>1, <2>2
<1>9. ASSUME NEW p \in Pid, NEW q \in Ref, NEW o \in Desplazamientos,
             NEW n \in Cantidades, PideAccesoFs(p, q, o, n)
      PROVE  Conserva(r)
  BY <1>1, <1>9 DEF PideAccesoFs, listas
<1>10. ASSUME NEW x \in accesosFs, LeeFs(x)
       PROVE  Conserva(r)
  BY <1>1, <1>10 DEF LeeFs, listas
<1>11. ASSUME NEW x \in accesosFs, NEW bytes \in Bytes(x.n), EscribeFs(x, bytes)
       PROVE  Conserva(r) \/ EscribeEn(r) \/ EscribeDesviado
  <2>1. CASE x.ref = r
    BY <1>11, <2>1 DEF EscribeEn
  <2>2. CASE Desborda(x) \/ Viejo(x)
    BY <1>11, <2>2 DEF EscribeDesviado
  <2>3. CASE x.ref # r /\ ~ Desborda(x) /\ ~ Viejo(x)
    <3>1. /\ espacio' = Escribe(espacio, x.direccion, bytes)
          /\ UNCHANGED <<base, tamanio>>
      BY <1>11 DEF EscribeFs, listas
    <3>2. /\ x.pid \in Pid /\ x.ref \in Ref /\ x.direccion \in Nat
          /\ x.desde \in Nat /\ x.n \in Nat /\ x.ref \in tabla[x.pid]
      BY DEF IInv, TipoMemoria, Accesos
    <3>3. Vivo(x.ref)
      BY <3>2 DEF Vivo
    <3>. PICK q \in Ref : q = x.ref
      BY <3>2
    <3>. PICK d \in Nat : d = x.direccion
      BY <3>2
    <3>. PICK n \in Nat : n = x.n
      BY <3>2
    <3>4. base[q] \in Nat /\ tamanio[q] \in Nat
      BY DEF IInv, TipoMemoria
    <3>5. base[q] <= d /\ d + n <= base[q] + tamanio[q]
      BY <2>3, <3>2, <3>4 DEF Desborda, Viejo
    <3>. QED  BY <2>3, <3>1, <3>2, <3>3, <3>5, EscribeOtro
  <2>. QED  BY <2>1, <2>2, <2>3
<1>12. CASE Reposo \/ UNCHANGED vars
  BY <1>1, <1>12 DEF Reposo, vars, listas
<1>. QED
  BY <1>2, <1>3, <1>4, <1>5, <1>6, <1>7, <1>8, <1>9, <1>10, <1>11, <1>12 DEF Next

(* To the processes every segment is an array of its own, with no          *)
(* hypothesis on what programs ask of the file system, on when the kernel  *)
(* compacts or on memcpy: its content changes only by a write asked for    *)
(* it, by an access of the file system that overran its segment or that a  *)
(* compaction left behind, or when memcpy copies it backwards over itself. *)
THEOREM Aislados == Spec => SegmentosAislados
<1>. DEFINE Paso == \A r \in Ref :
                      Contenido[r] # <<>> /\ Contenido'[r] \notin {<<>>, Contenido[r]}
                      => EscribeEn(r) \/ EscribeDesviado \/ SePisa(r)
<1>1. IInv /\ [Next]_vars => [Paso]_vars
  <2>1. SUFFICES ASSUME IInv, [Next]_vars, NEW r \in Ref, Contenido[r] # <<>>,
                        Contenido'[r] \notin {<<>>, Contenido[r]}
                 PROVE  EscribeEn(r) \/ EscribeDesviado \/ SePisa(r)
    OBVIOUS
  <2>2. Vivo(r)
    BY <2>1, ContenidoDe
  <2>3. ~ (Vivo(r)' => Conserva(r))
    BY <2>1, <2>2, ConservaBasta
  <2>. QED  BY <2>1, <2>2, <2>3, PasoAislado
<1>. QED  BY <1>1, Invariante, PTL DEF Spec, SegmentosAislados
=============================================================================
