------------------------------- MODULE Listas -------------------------------
(***************************************************************************)
(* What the sequence and fold operators the models use return, element by  *)
(* element, for every list. tlapm cannot instantiate an induction theorem  *)
(* that takes an operator, so induction is made from the well-founded      *)
(* order of the naturals (Minimo, Induccion), and a fold, which the        *)
(* community modules define by a CHOOSE of a recursive function, is shown  *)
(* to exist and then to pass through its partial results (PorPartes).      *)
(***************************************************************************)
EXTENDS Integers, SequencesExt, SequenceTheorems, FiniteSetTheorems, TLAPS

(* The order of the naturals, as a relation. *)
MenorQue == {ss \in Nat \X Nat : ss[1] < ss[2]}

(* A set of naturals that is not empty has a smallest element:             *)
(* NatLessThanWellFounded, for the strict order written as a relation.     *)
LEMMA Minimo ==
    ASSUME NEW T \in SUBSET Nat, T # {}
    PROVE  \E x \in T : \A y \in T : x <= y
<1>1. IsWellFoundedOn(MenorQue, Nat)
  BY NatLessThanWellFounded DEF MenorQue, OpToRel
<1>2. T \subseteq Nat
  OBVIOUS
<1>. HIDE DEF MenorQue
<1>3. \E x \in T : \A y \in T : ~ (<<y, x>> \in MenorQue)
  BY <1>1, <1>2, WFMin, Zenon
<1>4. PICK x \in T : \A y \in T : ~ (<<y, x>> \in MenorQue)
  BY <1>3
<1>5. ASSUME NEW y \in T PROVE x <= y
  <2>1. <<y, x>> \in Nat \X Nat /\ <<y, x>>[1] = y /\ <<y, x>>[2] = x
    BY <1>2
  <2>2. ~ (<<y, x>>[1] < <<y, x>>[2])
    BY <1>4, <2>1 DEF MenorQue
  <2>3. y \in Nat /\ x \in Nat
    BY <1>2
  <2>. QED  BY <2>1, <2>2, <2>3
<1>. QED  BY <1>5

(* Induction over a set of naturals: the set takes the place of the        *)
(* predicate, so that no operator is passed.                               *)
LEMMA Induccion ==
    ASSUME NEW T \in SUBSET Nat, 0 \in T, \A k \in T : k + 1 \in T
    PROVE  T = Nat
<1>1. SUFFICES ASSUME Nat \ T # {} PROVE FALSE
  OBVIOUS
<1>2. PICK x \in Nat \ T : \A y \in Nat \ T : x <= y
  BY <1>1, Minimo
<1>3. x # 0 /\ x - 1 \in Nat
  BY <1>2
<1>4. x - 1 \in T
  BY <1>2, <1>3
<1>5. (x - 1) + 1 = x
  BY <1>2
<1>. QED  BY <1>2, <1>4, <1>5

(* Min of FiniteSetsExt is in the set and below all of it. *)
LEMMA MinEsta ==
    ASSUME NEW T \in SUBSET Nat, T # {}
    PROVE  Min(T) \in T /\ \A y \in T : Min(T) <= y
  BY Minimo DEF Min

(* Max of FiniteSetsExt is in a bounded set and above all of it. *)
LEMMA MaxEsta ==
    ASSUME NEW T \in SUBSET Nat, T # {}, NEW n \in Nat, \A x \in T : x <= n
    PROVE  Max(T) \in T /\ \A y \in T : Max(T) >= y
<1>. DEFINE R == {n - x : x \in T}
<1>1. R \in SUBSET Nat /\ R # {}
  <2>1. \A x \in T : x \in Nat /\ x <= n /\ n - x \in Nat
    OBVIOUS
  <2>2. R \subseteq Nat
    BY <2>1
  <2>3. PICK x : x \in T
    OBVIOUS
  <2>4. n - x \in R
    BY <2>3
  <2>. QED  BY <2>2, <2>4
<1>2. PICK m \in R : \A y \in R : m <= y
  BY <1>1, Minimo
<1>3. PICK x \in T : m = n - x
  BY <1>2
<1>4. ASSUME NEW y \in T PROVE x >= y
  <2>1. n - y \in R
    OBVIOUS
  <2>2. m <= n - y
    BY <1>2, <2>1
  <2>3. x \in Nat /\ y \in Nat
    OBVIOUS
  <2>. QED  BY <1>3, <2>2, <2>3
<1>. QED  BY <1>4 DEF Max

(* The largest index of a set of indices, or 0, with nothing beyond it. *)
LEMMA Ultimo ==
    ASSUME NEW n \in Nat, NEW T \in SUBSET (1..n), NEW q,
           q = IF T # {} THEN Max(T) ELSE 0
    PROVE  /\ q \in 0..n /\ (q > 0 => q \in T)
           /\ \A i \in (q + 1)..n : i \notin T
<1>1. CASE T = {}
  BY <1>1
<1>2. CASE T # {}
  <2>1. T \in SUBSET Nat /\ \A x \in T : x <= n
    OBVIOUS
  <2>2. Max(T) \in T /\ \A y \in T : Max(T) >= y
    BY <1>2, <2>1, MaxEsta
  <2>3. q \in T /\ \A y \in T : q >= y
    BY <1>2, <2>2
  <2>. QED  BY <2>3
<1>. QED  BY <1>1, <1>2

(* A multiple of s that comes from dividing a is not above a. *)
LEMMA Salto ==
    ASSUME NEW a \in Nat, NEW s \in Nat, s > 0
    PROVE  /\ s * (a \div s) \in Nat
           /\ s * (a \div s) <= a
<1>1. /\ a \div s \in Nat /\ a % s \in Nat /\ a % s >= 0
      /\ a = s * (a \div s) + (a % s)
  OBVIOUS
<1>. PICK q \in Nat : q = a \div s
  BY <1>1
<1>2. s * q \in Nat
  OBVIOUS
<1>. QED  BY <1>1, <1>2

(* A number below s holds no multiple of s but zero. *)
LEMMA PocoSalto ==
    ASSUME NEW a \in Nat, NEW s \in Nat, a < s
    PROVE  s * (a \div s) = 0
<1>1. s > 0 /\ a \div s \in Nat
  OBVIOUS
<1>2. PICK q \in Nat : q = a \div s
  BY <1>1
<1>3. s * q \in Nat /\ s * q <= a
  BY <1>1, <1>2, Salto
<1>4. CASE q = 0
  BY <1>2, <1>4
<1>5. CASE q >= 1
  <2>1. PICK k \in Nat : q = k + 1
    BY <1>5
  <2>2. s * q = s * k + s /\ s * k \in Nat
    BY <2>1
  <2>. QED  BY <1>3, <2>2
<1>. QED  BY <1>4, <1>5

(* A set with one element has one element. *)
LEMMA SoloUno ==
    ASSUME NEW S, NEW e, e \in S, \A x \in S : x = e
    PROVE  Cardinality(S) = 1
<1>1. S = {e}
  OBVIOUS
<1>. QED  BY <1>1, FS_Singleton

(* A set without elements has none. *)
LEMMA Ninguno ==
    ASSUME NEW S, \A x \in S : FALSE
    PROVE  Cardinality(S) = 0
<1>1. S = {}
  OBVIOUS
<1>. QED  BY <1>1, FS_EmptySet

-----------------------------------------------------------------------------
(* SubSeq, element by element. *)
LEMMA Tramo ==
    ASSUME NEW S, NEW s \in Seq(S), NEW i \in Nat, NEW k \in Nat,
           1 <= i, i <= k + 1, k <= Len(s)
    PROVE  /\ SubSeq(s, i, k) \in Seq(S)
           /\ Len(SubSeq(s, i, k)) = k - i + 1
           /\ \A j \in 1..(k - i + 1) : SubSeq(s, i, k)[j] = s[i + j - 1]
<1>1. Len(s) \in Nat /\ \A j \in 1..Len(s) : s[j] \in S
  BY LenProperties, ElementOfSeq
<1>2. \A j \in i..k : s[j] \in S
  BY <1>1
<1>3. i \in Int /\ k \in Int
  OBVIOUS
<1>4. /\ SubSeq(s, i, k) \in Seq(S)
      /\ Len(SubSeq(s, i, k)) = IF i <= k THEN k - i + 1 ELSE 0
      /\ \A j \in 1..(k - i + 1) : SubSeq(s, i, k)[j] = s[i + j - 1]
  BY <1>2, <1>3, SubSeqProperties
<1>5. (IF i <= k THEN k - i + 1 ELSE 0) = k - i + 1
  OBVIOUS
<1>. QED  BY <1>4, <1>5

(* Concatenation, element by element. *)
LEMMA Unidas ==
    ASSUME NEW S, NEW a \in Seq(S), NEW b \in Seq(S)
    PROVE  /\ a \o b \in Seq(S) /\ Len(a \o b) = Len(a) + Len(b)
           /\ \A j \in 1..Len(a) : (a \o b)[j] = a[j]
           /\ \A j \in (Len(a) + 1)..(Len(a) + Len(b)) :
                (a \o b)[j] = b[j - Len(a)]
<1>1. Len(a) \in Nat /\ Len(b) \in Nat
  BY LenProperties
<1>2. /\ a \o b \in Seq(S) /\ Len(a \o b) = Len(a) + Len(b)
      /\ \A j \in 1..(Len(a) + Len(b)) :
           (a \o b)[j] = IF j <= Len(a) THEN a[j] ELSE b[j - Len(a)]
  BY ConcatProperties
<1>. QED  BY <1>1, <1>2

(* list_add_in_index: what comes before stays, what comes after moves up. *)
LEMMA InsertaEn ==
    ASSUME NEW S, NEW s \in Seq(S), NEW e \in S, NEW i \in 1..(Len(s) + 1)
    PROVE  /\ InsertAt(s, i, e) \in Seq(S)
           /\ Len(InsertAt(s, i, e)) = Len(s) + 1
           /\ \A j \in 1..(i - 1) : InsertAt(s, i, e)[j] = s[j]
           /\ InsertAt(s, i, e)[i] = e
           /\ \A j \in (i + 1)..(Len(s) + 1) : InsertAt(s, i, e)[j] = s[j - 1]
<1>. DEFINE a == SubSeq(s, 1, i - 1)  b == <<e>>  c == SubSeq(s, i, Len(s))
            ab == a \o b
<1>0. /\ Len(s) \in Nat /\ i \in Nat /\ 1 <= i /\ i <= Len(s) + 1
      /\ i - 1 \in Nat
  BY LenProperties
<1>1. /\ a \in Seq(S) /\ Len(a) = i - 1 - 1 + 1
      /\ \A j \in 1..(i - 1 - 1 + 1) : a[j] = s[1 + j - 1]
  BY <1>0, Tramo
<1>2. b \in Seq(S) /\ Len(b) = 1 /\ b[1] = e
  OBVIOUS
<1>3. /\ c \in Seq(S) /\ Len(c) = Len(s) - i + 1
      /\ \A j \in 1..(Len(s) - i + 1) : c[j] = s[i + j - 1]
  BY <1>0, Tramo
<1>. HIDE DEF a, b, c
<1>4. /\ ab \in Seq(S) /\ Len(ab) = i - 1 + 1
      /\ \A j \in 1..(i - 1) : ab[j] = a[j]
      /\ \A j \in (i - 1 + 1)..(i - 1 + 1) : ab[j] = b[j - (i - 1)]
  <2>1. Len(a) = i - 1 /\ Len(b) = 1
    BY <1>0, <1>1, <1>2
  <2>2. /\ ab \in Seq(S) /\ Len(ab) = Len(a) + Len(b)
        /\ \A j \in 1..Len(a) : ab[j] = a[j]
        /\ \A j \in (Len(a) + 1)..(Len(a) + Len(b)) : ab[j] = b[j - Len(a)]
    BY <1>1, <1>2, Unidas
  <2>. QED  BY <2>1, <2>2
<1>. HIDE DEF ab
<1>5. /\ ab \o c \in Seq(S) /\ Len(ab \o c) = i + (Len(s) - i + 1)
      /\ \A j \in 1..i : (ab \o c)[j] = ab[j]
      /\ \A j \in (i + 1)..(i + (Len(s) - i + 1)) : (ab \o c)[j] = c[j - i]
  <2>1. Len(ab) = i /\ Len(c) = Len(s) - i + 1
    BY <1>0, <1>3, <1>4
  <2>2. /\ ab \o c \in Seq(S) /\ Len(ab \o c) = Len(ab) + Len(c)
        /\ \A j \in 1..Len(ab) : (ab \o c)[j] = ab[j]
        /\ \A j \in (Len(ab) + 1)..(Len(ab) + Len(c)) :
             (ab \o c)[j] = c[j - Len(ab)]
    BY <1>3, <1>4, Unidas
  <2>. QED  BY <2>1, <2>2
<1>6. InsertAt(s, i, e) = ab \o c
  BY DEF InsertAt, ab, a, b, c
<1>7. ASSUME NEW j \in 1..(i - 1) PROVE (ab \o c)[j] = s[j]
  <2>1. /\ j \in 1..i /\ j \in 1..(i - 1 - 1 + 1) /\ 1 + j - 1 = j
    BY <1>0
  <2>2. (ab \o c)[j] = ab[j] /\ ab[j] = a[j] /\ a[j] = s[1 + j - 1]
    BY <2>1, <1>1, <1>4, <1>5
  <2>. QED  BY <2>1, <2>2
<1>8. (ab \o c)[i] = e
  <2>1. i \in (i - 1 + 1)..(i - 1 + 1) /\ i - (i - 1) = 1 /\ i \in 1..i
    BY <1>0
  <2>2. ab[i] = b[i - (i - 1)] /\ (ab \o c)[i] = ab[i]
    BY <2>1, <1>4, <1>5
  <2>. QED  BY <2>1, <2>2, <1>2
<1>9. ASSUME NEW j \in (i + 1)..(Len(s) + 1)
      PROVE  (ab \o c)[j] = s[j - 1]
  <2>1. /\ j - i \in 1..(Len(s) - i + 1) /\ i + (j - i) - 1 = j - 1
        /\ j \in (i + 1)..(i + (Len(s) - i + 1))
    BY <1>0
  <2>. QED  BY <2>1, <1>3, <1>5
<1>10. i + (Len(s) - i + 1) = Len(s) + 1
  BY <1>0
<1>. QED  BY <1>5, <1>6, <1>7, <1>8, <1>9, <1>10

(* list_remove: what comes before stays, what comes after moves down. *)
LEMMA QuitaDe ==
    ASSUME NEW S, NEW s \in Seq(S), NEW i \in 1..Len(s)
    PROVE  /\ RemoveAt(s, i) \in Seq(S)
           /\ Len(RemoveAt(s, i)) = Len(s) - 1
           /\ \A j \in 1..(i - 1) : RemoveAt(s, i)[j] = s[j]
           /\ \A j \in i..(Len(s) - 1) : RemoveAt(s, i)[j] = s[j + 1]
<1>. DEFINE a == SubSeq(s, 1, i - 1)  c == SubSeq(s, i + 1, Len(s))
<1>0. /\ Len(s) \in Nat /\ i \in Nat /\ 1 <= i /\ i <= Len(s)
      /\ i - 1 \in Nat /\ i + 1 \in Nat
  BY LenProperties
<1>1. /\ a \in Seq(S) /\ Len(a) = i - 1 - 1 + 1
      /\ \A j \in 1..(i - 1 - 1 + 1) : a[j] = s[1 + j - 1]
  BY <1>0, Tramo
<1>2. /\ c \in Seq(S) /\ Len(c) = Len(s) - (i + 1) + 1
      /\ \A j \in 1..(Len(s) - (i + 1) + 1) : c[j] = s[i + 1 + j - 1]
  BY <1>0, Tramo
<1>. HIDE DEF a, c
<1>3. Len(a) = i - 1 /\ Len(c) = Len(s) - i
  BY <1>0, <1>1, <1>2
<1>4. /\ a \o c \in Seq(S) /\ Len(a \o c) = i - 1 + (Len(s) - i)
      /\ \A j \in 1..(i - 1) : (a \o c)[j] = a[j]
      /\ \A j \in (i - 1 + 1)..(i - 1 + (Len(s) - i)) :
           (a \o c)[j] = c[j - (i - 1)]
  <2>1. /\ a \o c \in Seq(S) /\ Len(a \o c) = Len(a) + Len(c)
        /\ \A j \in 1..Len(a) : (a \o c)[j] = a[j]
        /\ \A j \in (Len(a) + 1)..(Len(a) + Len(c)) :
             (a \o c)[j] = c[j - Len(a)]
    BY <1>1, <1>2, Unidas
  <2>. QED  BY <1>3, <2>1
<1>5. RemoveAt(s, i) = a \o c
  BY DEF RemoveAt, a, c
<1>6. ASSUME NEW j \in 1..(i - 1) PROVE (a \o c)[j] = s[j]
  BY <1>0, <1>1, <1>4
<1>7. ASSUME NEW j \in i..(Len(s) - 1) PROVE (a \o c)[j] = s[j + 1]
  <2>1. /\ j - (i - 1) \in 1..(Len(s) - (i + 1) + 1)
        /\ i + 1 + (j - (i - 1)) - 1 = j + 1
        /\ j \in (i - 1 + 1)..(i - 1 + (Len(s) - i))
    BY <1>0
  <2>. QED  BY <2>1, <1>2, <1>4
<1>8. i - 1 + (Len(s) - i) = Len(s) - 1
  BY <1>0
<1>. QED  BY <1>4, <1>5, <1>6, <1>7, <1>8

(* Where nothing is repeated, list_remove takes out one element: all the   *)
(* others stay, once each.                                                 *)
LEMMA QuitaUno ==
    ASSUME NEW S, NEW s \in Seq(S), NEW k \in 1..Len(s), NEW z,
           z = RemoveAt(s, k),
           \A i, j \in 1..Len(s) : s[i] = s[j] => i = j
    PROVE  /\ z \in Seq(S) /\ DOMAIN z = 1..(Len(s) - 1)
           /\ \A j \in DOMAIN z : \E i \in 1..Len(s) : i # k /\ z[j] = s[i]
           /\ \A i \in 1..Len(s) : i # k => \E j \in DOMAIN z : z[j] = s[i]
           /\ \A i, j \in DOMAIN z : z[i] = z[j] => i = j
<1>1. Len(s) \in Nat
  BY LenProperties
<1>. PICK n \in Nat : n = Len(s)
  BY <1>1
<1>2. /\ z \in Seq(S) /\ Len(z) = n - 1
      /\ \A j \in 1..(k - 1) : z[j] = s[j]
      /\ \A j \in k..(n - 1) : z[j] = s[j + 1]
  BY QuitaDe
<1>3. DOMAIN z = 1..(n - 1)
  BY <1>2, LenProperties
<1>. DEFINE o(j) == IF j < k THEN j ELSE j + 1
<1>4. \A j \in 1..(n - 1) : o(j) \in 1..n /\ o(j) # k /\ z[j] = s[o(j)]
  BY <1>2
<1>5. \A i, j \in 1..(n - 1) : o(i) = o(j) => i = j
  OBVIOUS
<1>6. ASSUME NEW i \in 1..n, i # k
      PROVE  \E j \in 1..(n - 1) : z[j] = s[i]
  <2>1. CASE i < k
    <3>1. i \in 1..(n - 1) /\ i \in 1..(k - 1)
      BY <2>1
    <3>. QED  BY <3>1, <1>2
  <2>2. CASE i > k
    <3>. PICK j : j = i - 1
      OBVIOUS
    <3>1. j \in k..(n - 1) /\ j \in 1..(n - 1) /\ j + 1 = i
      BY <2>2
    <3>. QED  BY <3>1, <1>2
  <2>. QED  BY <1>6, <2>1, <2>2
<1>7. \A j \in 1..(n - 1) : \E i \in 1..n : i # k /\ z[j] = s[i]
  <2>. HIDE DEF o
  <2>. QED  BY <1>4
<1>8. ASSUME NEW i \in 1..(n - 1), NEW j \in 1..(n - 1), z[i] = z[j]
      PROVE  i = j
  <2>. HIDE DEF o
  <2>1. s[o(i)] = s[o(j)] /\ o(i) \in 1..n /\ o(j) \in 1..n
    BY <1>4, <1>8
  <2>. QED  BY <2>1, <1>5
<1>9. DOMAIN z = 1..(Len(s) - 1)
  BY <1>3
<1>10. \A j \in DOMAIN z : \E i \in 1..Len(s) : i # k /\ z[j] = s[i]
  BY <1>3, <1>7
<1>11. \A i \in 1..Len(s) : i # k => \E j \in DOMAIN z : z[j] = s[i]
  BY <1>3, <1>6
<1>12. \A i, j \in DOMAIN z : z[i] = z[j] => i = j
  BY <1>3, <1>8
<1>. QED  BY <1>2, <1>9, <1>10, <1>11, <1>12

(* list_remove_element of an element that is in the list once takes it     *)
(* from its place.                                                         *)
LEMMA QuitaPrimero ==
    ASSUME NEW S, NEW s \in Seq(S), NEW i \in 1..Len(s),
           \A j \in 1..Len(s) : s[j] = s[i] => j = i
    PROVE  RemoveFirst(s, s[i]) = RemoveAt(s, i)
<1>1. {j \in 1..Len(s) : s[j] = s[i]} = {i}
  OBVIOUS
<1>2. i \in Nat /\ {i} \in SUBSET Nat /\ {i} # {}
  BY LenProperties
<1>3. Min({i}) = i
  BY <1>2, MinEsta
<1>4. SelectInSeq(s, LAMBDA v : v = s[i]) = i
  BY <1>1, <1>3 DEF SelectInSeq
<1>. QED  BY <1>4 DEF RemoveFirst

-----------------------------------------------------------------------------
(* A set of indices that has the last one has it for maximum. *)
LEMMA MaxIntervalo ==
    ASSUME NEW k \in Nat, NEW s \in SUBSET (1..(k + 1)), k + 1 \in s
    PROVE  Max(s) = k + 1
<1>1. s \in SUBSET Nat /\ s # {} /\ k + 1 \in Nat /\ \A x \in s : x <= k + 1
  OBVIOUS
<1>2. Max(s) \in s /\ \A y \in s : Max(s) >= y
  BY <1>1, MaxEsta
<1>3. Max(s) >= k + 1
  BY <1>2
<1>4. Max(s) \in 1..(k + 1)
  BY <1>2
<1>. QED  BY <1>3, <1>4

(* The folds of the community modules visit a set of indices from its      *)
(* largest down: g is such a fold of G over the parts of 1..k, from b.     *)
Recorrido(G, V, b, k, g) ==
    /\ g \in [SUBSET (1..k) -> V]
    /\ \A s \in SUBSET (1..k) :
         g[s] = IF s = {} THEN b ELSE G[<<g[s \ {Max(s)}], Max(s)>>]

(* That fold exists, so that the CHOOSE that defines it finds it: by       *)
(* induction on the number of indices.                                     *)
LEMMA RecorridoExiste ==
    ASSUME NEW V, NEW b \in V, NEW n \in Nat, NEW G \in [V \X (1..n) -> V]
    PROVE  \E g : Recorrido(G, V, b, n, g)
<1>. DEFINE T == {k \in Nat : k <= n => \E g : Recorrido(G, V, b, k, g)}
<1>1. 0 \in T
  <2>. DEFINE g == [s \in SUBSET (1..0) |-> b]
  <2>1. g \in [SUBSET (1..0) -> V] /\ \A s \in SUBSET (1..0) : s = {} /\ g[s] = b
    OBVIOUS
  <2>2. Recorrido(G, V, b, 0, g)
    BY <2>1 DEF Recorrido
  <2>. QED  BY <2>2
<1>2. ASSUME NEW k \in T PROVE k + 1 \in T
  <2>1. SUFFICES ASSUME k + 1 <= n PROVE \E g : Recorrido(G, V, b, k + 1, g)
    OBVIOUS
  <2>2. PICK g : Recorrido(G, V, b, k, g)
    BY <2>1
  <2>. DEFINE h == [s \in SUBSET (1..(k + 1)) |->
                       IF k + 1 \in s THEN G[<<g[s \ {k + 1}], k + 1>>] ELSE g[s]]
  <2>. k \in Nat /\ k + 1 \in 1..n
    BY <2>1
  <2>3. ASSUME NEW s \in SUBSET (1..(k + 1)) PROVE s \ {k + 1} \in SUBSET (1..k)
    OBVIOUS
  <2>4. ASSUME NEW s \in SUBSET (1..(k + 1)) PROVE h[s] \in V
    <3>1. CASE k + 1 \in s
      <4>1. g[s \ {k + 1}] \in V
        BY <2>2, <2>3 DEF Recorrido
      <4>2. h[s] = G[<<g[s \ {k + 1}], k + 1>>]
        BY <3>1
      <4>. QED  BY <4>1, <4>2
    <3>2. CASE k + 1 \notin s
      <4>1. s \in SUBSET (1..k)
        BY <3>2
      <4>. QED  BY <3>2, <4>1, <2>2 DEF Recorrido
    <3>. QED  BY <3>1, <3>2
  <2>5. h \in [SUBSET (1..(k + 1)) -> V]
    BY <2>4
  <2>6. ASSUME NEW s \in SUBSET (1..(k + 1))
        PROVE  h[s] = IF s = {} THEN b ELSE G[<<h[s \ {Max(s)}], Max(s)>>]
    <3>1. CASE k + 1 \in s
      <4>1. Max(s) = k + 1 /\ s # {}
        BY <3>1, MaxIntervalo
      <4>2. s \ {k + 1} \in SUBSET (1..(k + 1)) /\ k + 1 \notin s \ {k + 1}
        OBVIOUS
      <4>3. h[s \ {k + 1}] = g[s \ {k + 1}]
        BY <4>2
      <4>4. h[s] = G[<<g[s \ {k + 1}], k + 1>>]
        BY <3>1
      <4>. HIDE DEF h
      <4>. QED  BY <4>1, <4>3, <4>4
    <3>2. CASE k + 1 \notin s
      <4>1. s \in SUBSET (1..k) /\ h[s] = g[s]
        BY <3>2
      <4>2. g[s] = IF s = {} THEN b ELSE G[<<g[s \ {Max(s)}], Max(s)>>]
        BY <4>1, <2>2 DEF Recorrido
      <4>3. /\ s \ {Max(s)} \in SUBSET (1..(k + 1))
            /\ k + 1 \notin s \ {Max(s)}
        BY <3>2
      <4>4. h[s \ {Max(s)}] = g[s \ {Max(s)}]
        BY <4>3
      <4>. HIDE DEF h
      <4>. QED  BY <4>1, <4>2, <4>4
    <3>. QED  BY <3>1, <3>2
  <2>. HIDE DEF h
  <2>7. Recorrido(G, V, b, k + 1, h)
    BY <2>5, <2>6 DEF Recorrido
  <2>. QED  BY <2>7
<1>. HIDE DEF T
<1>3. T = Nat
  <2>1. T \in SUBSET Nat
    BY DEF T
  <2>. QED  BY <1>1, <1>2, <2>1, Induccion
<1>. QED  BY <1>3 DEF T

(* The largest index of 1..(k + 1), and what is left without it. *)
LEMMA Intervalo ==
    ASSUME NEW k \in Nat
    PROVE  /\ 1..(k + 1) # {} /\ Max(1..(k + 1)) = k + 1
           /\ (1..(k + 1)) \ {k + 1} = 1..k
<1>1. k + 1 \in 1..(k + 1)
  OBVIOUS
<1>2. Max(1..(k + 1)) = k + 1
  BY <1>1, MaxIntervalo
<1>3. (1..(k + 1)) \ {k + 1} = 1..k
  OBVIOUS
<1>. QED  BY <1>1, <1>2, <1>3

(* it follows the recursive equation of a fold on the parts of 1..n. *)
PasosDeFold(G, V, b, n, it) ==
    /\ it[{}] = b
    /\ \A c \in SUBSET (1..n) : c # {} /\ it[c \ {Max(c)}] \in V =>
         it[c] = G[<<it[c \ {Max(c)}], Max(c)>>]

(* The same fold seen as the sequence of its partial results. *)
Parcial(G, V, b, n, it, f) ==
    /\ f \in [0..n -> V] /\ f[0] = b /\ f[n] = it[1..n]
    /\ \A k \in 1..n : f[k - 1] \in V /\ f[k] = G[<<f[k - 1], k>>]

(* One turn of a fold. *)
EsPaso(G, V, g, c) ==
    /\ g[c \ {Max(c)}] \in V
    /\ g[c] = G[<<g[c \ {Max(c)}], Max(c)>>]

(* A part of 1..n has its maximum in 1..n. *)
LEMMA MaxDeParte ==
    ASSUME NEW n \in Nat, NEW c \in SUBSET (1..n), c # {}
    PROVE  Max(c) \in 1..n /\ c \ {Max(c)} \in SUBSET (1..n)
<1>1. c \in SUBSET Nat /\ \A x \in c : x <= n
  OBVIOUS
<1>2. Max(c) \in c
  BY <1>1, MaxEsta
<1>. QED  BY <1>2

(* Every turn of the fold that exists follows the equation. *)
LEMMA PasosDeRecorrido ==
    ASSUME NEW V, NEW b, NEW n \in Nat, NEW G, NEW g, Recorrido(G, V, b, n, g),
           NEW c \in SUBSET (1..n), c # {}
    PROVE  EsPaso(G, V, g, c)
<1>1. Max(c) \in 1..n /\ c \ {Max(c)} \in SUBSET (1..n)
  BY MaxDeParte
<1>. QED  BY <1>1 DEF Recorrido, EsPaso

(* A function that follows the equation of a fold passes through partial   *)
(* results, each got from the one before: a fold over a list is a loop.    *)
LEMMA PorPartes ==
    ASSUME NEW V, NEW b \in V, NEW n \in Nat, NEW G \in [V \X (1..n) -> V],
           NEW it, PasosDeFold(G, V, b, n, it)
    PROVE  \E f : Parcial(G, V, b, n, it, f)
<1>1. ASSUME NEW k \in Nat, k + 1 <= n, it[1..k] \in V
      PROVE  it[1..(k + 1)] = G[<<it[1..k], k + 1>>]
  <2>1. 1..(k + 1) \in SUBSET (1..n)
    BY <1>1
  <2>2. /\ 1..(k + 1) # {} /\ Max(1..(k + 1)) = k + 1
        /\ (1..(k + 1)) \ {k + 1} = 1..k
    BY Intervalo
  <2>. QED  BY <1>1, <2>1, <2>2 DEF PasosDeFold
<1>0. it[1..0] = b
  <2>1. 1..0 = {}
    OBVIOUS
  <2>. QED  BY <2>1 DEF PasosDeFold
<1>. DEFINE T == {k \in Nat : k <= n => it[1..k] \in V}
<1>2. T = Nat
  <2>1. T \in SUBSET Nat /\ 0 \in T
    BY <1>0
  <2>2. ASSUME NEW k \in T PROVE k + 1 \in T
    <3>1. SUFFICES ASSUME k + 1 <= n PROVE it[1..(k + 1)] \in V
      OBVIOUS
    <3>2. it[1..k] \in V /\ k + 1 \in 1..n
      BY <3>1
    <3>. QED  BY <1>1, <3>1, <3>2
  <2>. HIDE DEF T
  <2>. QED  BY <2>1, <2>2, Induccion
<1>. DEFINE f == [k \in 0..n |-> it[1..k]]
<1>3. f \in [0..n -> V]
  BY <1>2
<1>4. f[0] = b /\ f[n] = it[1..n]
  BY <1>0
<1>5. ASSUME NEW k \in 1..n PROVE f[k - 1] \in V /\ f[k] = G[<<f[k - 1], k>>]
  <2>1. k - 1 \in Nat /\ (k - 1) + 1 = k /\ k \in 0..n /\ k - 1 \in 0..n
    OBVIOUS
  <2>2. it[1..((k - 1) + 1)] = G[<<it[1..(k - 1)], (k - 1) + 1>>]
    BY <1>1, <1>2, <2>1
  <2>. QED  BY <1>3, <2>1, <2>2
<1>. HIDE DEF f
<1>6. Parcial(G, V, b, n, it, f)
  BY <1>3, <1>4, <1>5 DEF Parcial
<1>. QED  BY <1>6
=============================================================================
