-------------------------- MODULE ThreadPoolProofs --------------------------
(***************************************************************************)
(* For every number of blocks: the list of server/aesdsocket.c never holds *)
(* a block that has been freed, never loses one, and implements Pool.      *)
(***************************************************************************)
EXTENDS ThreadPool, SequencesExt, FiniteSetTheorems, WellFoundedInduction, TLAPS

-----------------------------------------------------------------------------
(* Lists in memory.                                                        *)

(***************************************************************************)
(* The list with head h and links nx holds the blocks of the sequence s,   *)
(* each once, and ends.                                                    *)
(***************************************************************************)
IsList(s, h, nx) ==
  /\ s \in Seq(Addr)
  /\ \A i, j \in 1 .. Len(s) : s[i] = s[j] => i = j
  /\ h = IF Len(s) = 0 THEN NULL ELSE s[1]
  /\ \A i \in 1 .. Len(s) : nx[s[i]] = IF i = Len(s) THEN NULL ELSE s[i + 1]

Elems(s) == {s[i] : i \in 1 .. Len(s)}

(* Node and Chain for any head and links.                                  *)
IsNode(h, nx, g) ==
  g = [i \in 1 .. Cardinality(Addr) + 1 |->
         IF i = 1 THEN h ELSE IF g[i - 1] = NULL THEN NULL ELSE nx[g[i - 1]]]
NodeOf(h, nx) == CHOOSE g : IsNode(h, nx, g)
LengthOf(h, nx) == Cardinality({i \in DOMAIN NodeOf(h, nx) : NodeOf(h, nx)[i] # NULL})
ChainOf(h, nx) == [i \in 1 .. LengthOf(h, nx) |-> NodeOf(h, nx)[i]]

LEMMA ChainIs ==
  /\ Chain = ChainOf(slh_first, sle_next) /\ Chain' = ChainOf(slh_first', sle_next')
  /\ Length = LengthOf(slh_first, sle_next) /\ Length' = LengthOf(slh_first', sle_next')
BY Zenon DEF Chain, Length, Node, ChainOf, LengthOf, NodeOf, IsNode

(* A set of naturals has a least element: what holds of every index is     *)
(* shown by the absence of a first exception.                              *)
Less == {p \in Nat \X Nat : p[1] < p[2]}

LEMMA LeastElement ==
  ASSUME NEW S, S \subseteq Nat, S # {}
  PROVE  \E m \in S : \A k \in S : m <= k
<1>1. IsWellFoundedOn(Less, Nat)
  BY NatLessThanWellFounded, Zenon DEF OpToRel, Less
<1>2. PICK m \in S : \A k \in S : <<k, m>> \notin Less
  BY <1>1, WFMin
<1>3. \A k \in S : ~(k < m)
  BY <1>2 DEF Less
<1> QED
  BY <1>2, <1>3

(* A list has at most one node for each block.                             *)
LEMMA ListLength ==
  ASSUME NEW s, NEW h, NEW nx, IsList(s, h, nx)
  PROVE  Len(s) \in Nat /\ Cardinality(Addr) \in Nat /\ Len(s) <= Cardinality(Addr)
<1>1. Len(s) \in Nat /\ s \in [1 .. Len(s) -> Addr]
  BY DEF IsList
<1>2. s \in Injection(1 .. Len(s), Addr)
  BY <1>1 DEF IsList, Injection, IsInjective
<1>3. Cardinality(1 .. Len(s)) <= Cardinality(Addr) /\ Cardinality(Addr) \in Nat
  BY <1>2, AddrAssumption, FS_Injection, FS_CardinalityType
<1>4. Cardinality(1 .. Len(s)) = Len(s)
  <2>1. 1 \in Int /\ Len(s) \in Int
    BY <1>1
  <2>2. Cardinality(1 .. Len(s)) = IF 1 > Len(s) THEN 0 ELSE Len(s) - 1 + 1
    BY <2>1, FS_Interval
  <2> QED
    BY <1>1, <2>2
<1> QED
  BY <1>1, <1>3, <1>4

(* Following the links from the head gives the sequence, and then NULL.    *)
LEMMA ListNodes ==
  ASSUME NEW s, NEW h, NEW nx, IsList(s, h, nx)
  PROVE  NodeOf(h, nx) = [i \in 1 .. Cardinality(Addr) + 1 |-> IF i <= Len(s) THEN s[i] ELSE NULL]
<1> DEFINE c == Cardinality(Addr)
           f == [i \in 1 .. c + 1 |-> IF i <= Len(s) THEN s[i] ELSE NULL]
<1>1. Len(s) \in Nat /\ c \in Nat /\ Len(s) <= c
  BY ListLength
<1>2. /\ h = IF Len(s) = 0 THEN NULL ELSE s[1]
      /\ \A i \in 1 .. Len(s) : s[i] \in Addr /\ s[i] # NULL
      /\ \A i \in 1 .. Len(s) : nx[s[i]] = IF i = Len(s) THEN NULL ELSE s[i + 1]
  BY AddrAssumption DEF IsList
<1> HIDE DEF c
<1>3. ASSUME NEW i \in 1 .. c + 1
      PROVE  f[i] = IF i = 1 THEN h ELSE IF f[i - 1] = NULL THEN NULL ELSE nx[f[i - 1]]
  <2>1. CASE i = 1
    BY <1>1, <1>2, <2>1
  <2>2. CASE i # 1
    <3> DEFINE j == i - 1
    <3>1. j \in 1 .. c + 1 /\ j + 1 = i /\ j \in Nat /\ i \in Nat
      BY <1>1, <2>2
    <3> HIDE DEF j
    <3>2. CASE j <= Len(s)
      <4>1. j \in 1 .. Len(s) /\ f[j] = s[j]
        BY <1>1, <3>1, <3>2
      <4>2. nx[f[j]] = IF j = Len(s) THEN NULL ELSE s[j + 1]
        BY <1>2, <4>1
      <4>3. f[i] = IF j = Len(s) THEN NULL ELSE s[j + 1]
        BY <1>1, <3>1, <3>2
      <4> QED
        BY <1>2, <2>2, <4>1, <4>2, <4>3 DEF j
    <3>3. CASE ~(j <= Len(s))
      <4>1. f[j] = NULL /\ f[i] = NULL
        BY <1>1, <3>1, <3>3
      <4> QED
        BY <2>2, <4>1 DEF j
    <3> QED
      BY <3>2, <3>3
  <2> QED
    BY <2>1, <2>2
<1>4. IsNode(h, nx, f)
  <2>1. f = [i \in 1 .. c + 1 |-> IF i = 1 THEN h ELSE IF f[i - 1] = NULL THEN NULL ELSE nx[f[i - 1]]]
    BY <1>3
  <2> QED
    BY <2>1 DEF IsNode, c
<1> DEFINE g == NodeOf(h, nx)
<1>5. IsNode(h, nx, g)
  BY <1>4, Zenon DEF NodeOf
<1> HIDE DEF g, f
<1>6. /\ \A i \in 1 .. c + 1 : g[i] = IF i = 1 THEN h ELSE IF g[i - 1] = NULL THEN NULL ELSE nx[g[i - 1]]
      /\ \A i \in 1 .. c + 1 : f[i] = IF i = 1 THEN h ELSE IF f[i - 1] = NULL THEN NULL ELSE nx[f[i - 1]]
      /\ g = [i \in 1 .. c + 1 |-> g[i]] /\ f = [i \in 1 .. c + 1 |-> f[i]]
  BY <1>4, <1>5 DEF IsNode, c
<1> DEFINE Bad == {i \in 1 .. c + 1 : g[i] # f[i]}
<1>7. Bad = {}
  <2> SUFFICES ASSUME Bad # {} PROVE FALSE
    OBVIOUS
  <2>1. Bad \subseteq Nat
    BY <1>1
  <2>2. PICK m \in Bad : \A k \in Bad : m <= k
    BY <2>1, LeastElement
  <2>3. m \in 1 .. c + 1 /\ m \in Nat /\ g[m] # f[m]
    BY <2>1, <2>2
  <2>4. m # 1
    BY <1>6, <2>3
  <2>5. m - 1 \in 1 .. c + 1 /\ ~(m <= m - 1)
    BY <1>1, <2>3, <2>4
  <2>6. g[m - 1] = f[m - 1]
    BY <2>2, <2>5
  <2> QED
    BY <1>6, <2>3, <2>4, <2>6
<1>8. g = f
  BY <1>6, <1>7, ZenonT(60)
<1> QED
  BY <1>8 DEF g, f, c

(* So the model's Chain is the sequence.                                   *)
LEMMA ListChain ==
  ASSUME NEW s, NEW h, NEW nx, IsList(s, h, nx)
  PROVE  ChainOf(h, nx) = s /\ LengthOf(h, nx) = Len(s)
<1> DEFINE c == Cardinality(Addr)
           g == NodeOf(h, nx)
<1>1. Len(s) \in Nat /\ c \in Nat /\ Len(s) <= c
  BY ListLength
<1>2. g = [i \in 1 .. c + 1 |-> IF i <= Len(s) THEN s[i] ELSE NULL]
  BY ListNodes
<1>3. s \in Seq(Addr) /\ \A i \in 1 .. Len(s) : s[i] \in Addr /\ s[i] # NULL
  BY AddrAssumption DEF IsList
<1> HIDE DEF c, g
<1>4. {i \in DOMAIN g : g[i] # NULL} = 1 .. Len(s)
  <2>1. DOMAIN g = 1 .. c + 1
    BY <1>2
  <2>2. \A i \in 1 .. c + 1 : g[i] # NULL <=> i <= Len(s)
    BY <1>1, <1>2, <1>3
  <2>3. \A i : i \in 1 .. Len(s) <=> i \in 1 .. c + 1 /\ i <= Len(s)
    BY <1>1
  <2> QED
    BY <2>1, <2>2, <2>3
<1>5. LengthOf(h, nx) = Len(s)
  <2>1. 1 \in Int /\ Len(s) \in Int
    BY <1>1
  <2>2. Cardinality(1 .. Len(s)) = IF 1 > Len(s) THEN 0 ELSE Len(s) - 1 + 1
    BY <2>1, FS_Interval
  <2>3. Cardinality(1 .. Len(s)) = Len(s)
    BY <1>1, <2>2
  <2> QED
    BY <1>4, <2>3 DEF LengthOf, g
<1>6. \A i \in 1 .. Len(s) : g[i] = s[i]
  BY <1>1, <1>2
<1>7. ChainOf(h, nx) = [i \in 1 .. Len(s) |-> s[i]]
  BY <1>5, <1>6 DEF ChainOf, g
<1> QED
  BY <1>3, <1>5, <1>7

(* RemoveAt drops one element and keeps the order of the others.           *)
LEMMA RemoveAtIs ==
  ASSUME NEW S, NEW s \in Seq(S), NEW i \in 1 .. Len(s)
  PROVE  /\ RemoveAt(s, i) \in Seq(S) /\ Len(RemoveAt(s, i)) = Len(s) - 1
         /\ \A k \in 1 .. Len(s) - 1 : RemoveAt(s, i)[k] = IF k < i THEN s[k] ELSE s[k + 1]
<1> DEFINE a == SubSeq(s, 1, i - 1)
           b == SubSeq(s, i + 1, Len(s))
<1>1. Len(s) \in Nat /\ i \in Nat
  OBVIOUS
<1>2. a \in Seq(S) /\ Len(a) = i - 1 /\ \A k \in 1 .. i - 1 : a[k] = s[k]
  BY <1>1
<1>3. b \in Seq(S) /\ Len(b) = Len(s) - i /\ \A k \in 1 .. Len(s) - i : b[k] = s[i + k]
  BY <1>1
<1>4. RemoveAt(s, i) = a \o b
  BY DEF RemoveAt
<1> HIDE DEF a, b
<1>5. a \o b \in Seq(S) /\ Len(a \o b) = Len(s) - 1
  <2>1. a \o b \in Seq(S) /\ Len(a \o b) = Len(a) + Len(b)
    <3>1. a \in Seq(S) /\ b \in Seq(S)
      BY <1>2, <1>3
    <3> QED
      BY ONLY <3>1
  <2>2. (i - 1) + (Len(s) - i) = Len(s) - 1
    BY <1>1
  <2> QED
    BY <1>2, <1>3, <2>1, <2>2
<1>6. ASSUME NEW k \in 1 .. Len(s) - 1
      PROVE  (a \o b)[k] = IF k < i THEN s[k] ELSE s[k + 1]
  <2>1. CASE k < i
    BY <1>1, <1>2, <1>3, <2>1
  <2>2. CASE ~(k < i)
    <3> DEFINE l == k - (i - 1)
    <3>1. l \in 1 .. Len(s) - i /\ i + l = k + 1
      BY <1>1, <2>2
    <3>2. (a \o b)[k] = b[l]
      BY <1>1, <1>2, <1>3, <2>2
    <3> HIDE DEF l
    <3> QED
      BY <1>3, <2>2, <3>1, <3>2
  <2> QED
    BY <2>1, <2>2
<1> QED
  BY <1>4, <1>5, <1>6

(* Its elements, if there are no duplicates.                               *)
LEMMA RemoveAtElems ==
  ASSUME NEW s \in Seq(Addr), NEW i \in 1 .. Len(s),
         \A j, k \in 1 .. Len(s) : s[j] = s[k] => j = k
  PROVE  Elems(RemoveAt(s, i)) = Elems(s) \ {s[i]}
<1> DEFINE r == RemoveAt(s, i)
<1>1. /\ Len(s) \in Nat /\ Len(r) = Len(s) - 1
      /\ \A k \in 1 .. Len(s) - 1 : r[k] = IF k < i THEN s[k] ELSE s[k + 1]
  BY RemoveAtIs
<1> HIDE DEF r
<1>2. ASSUME NEW k \in 1 .. Len(r) PROVE r[k] \in Elems(s) \ {s[i]}
  <2> DEFINE l == IF k < i THEN k ELSE k + 1
  <2>1. l \in 1 .. Len(s) /\ l # i
    BY <1>1
  <2>2. r[k] = s[l]
    BY <1>1
  <2> HIDE DEF l
  <2> QED
    BY <2>1, <2>2 DEF Elems
<1>3. ASSUME NEW k \in 1 .. Len(s), k # i PROVE s[k] \in Elems(r)
  <2> DEFINE l == IF k < i THEN k ELSE k - 1
  <2>1. l \in 1 .. Len(r) /\ l \in 1 .. Len(s) - 1 /\ (IF l < i THEN l ELSE l + 1) = k
    BY <1>1, <1>3
  <2> HIDE DEF l
  <2>2. r[l] = s[k]
    BY <1>1, <2>1
  <2> QED
    BY <2>1, <2>2 DEF Elems
<1>4. \A x \in Elems(s) \ {s[i]} : x \in Elems(r)
  BY <1>3 DEF Elems
<1>5. \A x \in Elems(r) : x \in Elems(s) \ {s[i]}
  BY <1>2 DEF Elems
<1> QED
  BY <1>4, <1>5 DEF r

(* SLIST_INSERT_HEAD puts a block that is not in the list before it.       *)
LEMMA ListInsert ==
  ASSUME NEW s, NEW h, NEW nx \in [Addr -> Addr \cup {NULL}], IsList(s, h, nx),
         NEW a \in Addr, a \notin Elems(s)
  PROVE  IsList(<<a>> \o s, a, [nx EXCEPT ![a] = h]) /\ Elems(<<a>> \o s) = Elems(s) \cup {a}
<1> DEFINE t == <<a>> \o s
           mx == [nx EXCEPT ![a] = h]
<1>1. /\ s \in Seq(Addr) /\ Len(s) \in Nat
      /\ \A i, j \in 1 .. Len(s) : s[i] = s[j] => i = j
      /\ h = IF Len(s) = 0 THEN NULL ELSE s[1]
      /\ \A i \in 1 .. Len(s) : nx[s[i]] = IF i = Len(s) THEN NULL ELSE s[i + 1]
      /\ \A i \in 1 .. Len(s) : s[i] # a /\ s[i] \in Addr
  BY DEF IsList, Elems
<1>2. t \in Seq(Addr) /\ Len(t) = Len(s) + 1 /\ t[1] = a
  BY <1>1
<1>3. \A i \in 1 .. Len(s) : t[i + 1] = s[i]
  BY <1>1
<1>4. mx[a] = h /\ \A x \in Addr : x # a => mx[x] = nx[x]
  OBVIOUS
<1> HIDE DEF t, mx
<1>5. \A i \in 1 .. Len(t) : i = 1 \/ (i - 1 \in 1 .. Len(s) /\ (i - 1) + 1 = i)
  BY <1>1, <1>2
<1>6. \A i \in 1 .. Len(t) : i # 1 => t[i] = s[i - 1] /\ i - 1 \in 1 .. Len(s)
  BY <1>3, <1>5
<1>7. ASSUME NEW i \in 1 .. Len(t), NEW j \in 1 .. Len(t), t[i] = t[j] PROVE i = j
  BY <1>1, <1>2, <1>6, <1>7
<1>8. ASSUME NEW i \in 1 .. Len(t)
      PROVE  mx[t[i]] = IF i = Len(t) THEN NULL ELSE t[i + 1]
  <2>1. CASE i = 1
    <3>1. mx[t[i]] = h
      BY <1>2, <1>4, <2>1
    <3>2. CASE Len(s) = 0
      BY <1>1, <1>2, <2>1, <3>1, <3>2
    <3>3. CASE Len(s) # 0
      <4>1. 1 \in 1 .. Len(s) /\ i # Len(t)
        BY <1>1, <1>2, <2>1, <3>3
      <4>2. t[1 + 1] = s[1]
        BY <1>3, <4>1
      <4> QED
        BY <1>1, <2>1, <3>1, <3>3, <4>1, <4>2
    <3> QED
      BY <3>2, <3>3
  <2>2. CASE i # 1
    <3> DEFINE j == i - 1
    <3>1. j \in 1 .. Len(s) /\ t[i] = s[j] /\ j + 1 = i
      BY <1>2, <1>6, <2>2
    <3>2. (i = Len(t) <=> j = Len(s)) /\ (j # Len(s) => j + 1 \in 1 .. Len(s))
      BY <1>1, <1>2, <3>1
    <3> HIDE DEF j
    <3>3. mx[t[i]] = nx[s[j]]
      BY <1>1, <1>4, <3>1
    <3>4. j # Len(s) => t[(j + 1) + 1] = s[j + 1]
      BY <1>3, <3>2
    <3> QED
      BY <1>1, <3>1, <3>2, <3>3, <3>4
  <2> QED
    BY <2>1, <2>2
<1>9. IsList(t, a, mx)
  BY <1>1, <1>2, <1>7, <1>8 DEF IsList
<1>10. Elems(t) = Elems(s) \cup {a}
  <2>1. \A x \in Elems(t) : x \in Elems(s) \cup {a}
    BY <1>2, <1>6 DEF Elems
  <2>2. a \in Elems(t)
    BY <1>1, <1>2 DEF Elems
  <2>3. ASSUME NEW i \in 1 .. Len(s) PROVE s[i] \in Elems(t)
    <3>1. i + 1 \in 1 .. Len(t)
      BY <1>1, <1>2
    <3> QED
      BY <1>3, <3>1 DEF Elems
  <2> QED
    BY <2>1, <2>2, <2>3 DEF Elems
<1> QED
  BY <1>9, <1>10 DEF t, mx

(* SLIST_REMOVE_HEAD, and SLIST_REMOVE of the first block.                 *)
LEMMA ListRemoveHead ==
  ASSUME NEW s, NEW h, NEW nx, IsList(s, h, nx), h # NULL
  PROVE  /\ 1 \in 1 .. Len(s) /\ h = s[1]
         /\ IsList(RemoveAt(s, 1), nx[h], nx) /\ Elems(RemoveAt(s, 1)) = Elems(s) \ {h}
<1> DEFINE r == RemoveAt(s, 1)
<1>1. /\ s \in Seq(Addr) /\ Len(s) \in Nat
      /\ \A i, j \in 1 .. Len(s) : s[i] = s[j] => i = j
      /\ h = IF Len(s) = 0 THEN NULL ELSE s[1]
      /\ \A i \in 1 .. Len(s) : nx[s[i]] = IF i = Len(s) THEN NULL ELSE s[i + 1]
  BY DEF IsList
<1>2. Len(s) # 0 /\ 1 \in 1 .. Len(s) /\ h = s[1]
  BY <1>1
<1>3. r \in Seq(Addr) /\ Len(r) = Len(s) - 1 /\ \A k \in 1 .. Len(s) - 1 : r[k] = IF k < 1 THEN s[k] ELSE s[k + 1]
  BY <1>1, <1>2, RemoveAtIs
<1>4. Elems(r) = Elems(s) \ {s[1]}
  BY <1>1, <1>2, RemoveAtElems
<1> HIDE DEF r
<1>5. \A k \in 1 .. Len(r) : r[k] = s[k + 1] /\ k + 1 \in 1 .. Len(s)
  BY <1>1, <1>3
<1>6. ASSUME NEW i \in 1 .. Len(r), NEW j \in 1 .. Len(r), r[i] = r[j] PROVE i = j
  <2>1. i + 1 = j + 1
    BY <1>1, <1>5, <1>6
  <2> QED
    BY <2>1
<1>7. nx[h] = IF Len(r) = 0 THEN NULL ELSE r[1]
  <2>1. nx[h] = IF 1 = Len(s) THEN NULL ELSE s[1 + 1]
    BY <1>1, <1>2
  <2>2. Len(r) = 0 <=> 1 = Len(s)
    BY <1>1, <1>3
  <2>3. Len(r) # 0 => r[1] = s[1 + 1]
    BY <1>1, <1>3, <1>5
  <2> QED
    BY <2>1, <2>2, <2>3
<1>8. ASSUME NEW i \in 1 .. Len(r) PROVE nx[r[i]] = IF i = Len(r) THEN NULL ELSE r[i + 1]
  <2>1. nx[r[i]] = IF i + 1 = Len(s) THEN NULL ELSE s[(i + 1) + 1]
    BY <1>1, <1>5
  <2>2. i = Len(r) <=> i + 1 = Len(s)
    BY <1>1, <1>3
  <2>3. i # Len(r) => i + 1 \in 1 .. Len(r)
    BY <1>1, <1>3
  <2> QED
    BY <1>5, <2>1, <2>2, <2>3
<1>9. IsList(r, nx[h], nx)
  BY <1>3, <1>6, <1>7, <1>8 DEF IsList
<1> QED
  BY <1>2, <1>4, <1>9 DEF r

(* SLIST_REMOVE of a later block, past which its predecessor is linked.    *)
LEMMA ListRemoveAfter ==
  ASSUME NEW s, NEW h, NEW nx \in [Addr -> Addr \cup {NULL}], IsList(s, h, nx),
         NEW i \in 2 .. Len(s)
  PROVE  /\ nx[s[i - 1]] = s[i]
         /\ IsList(RemoveAt(s, i), h, [nx EXCEPT ![s[i - 1]] = nx[s[i]]])
         /\ Elems(RemoveAt(s, i)) = Elems(s) \ {s[i]}
<1> DEFINE r == RemoveAt(s, i)
           p == i - 1
           mx == [nx EXCEPT ![s[p]] = nx[s[i]]]
<1>1. /\ s \in Seq(Addr) /\ Len(s) \in Nat
      /\ \A j, k \in 1 .. Len(s) : s[j] = s[k] => j = k
      /\ h = IF Len(s) = 0 THEN NULL ELSE s[1]
      /\ \A k \in 1 .. Len(s) : nx[s[k]] = IF k = Len(s) THEN NULL ELSE s[k + 1]
      /\ \A k \in 1 .. Len(s) : s[k] \in Addr
  BY DEF IsList
<1>2. i \in 1 .. Len(s) /\ p \in 1 .. Len(s) /\ p + 1 = i /\ p # Len(s) /\ i \in Nat /\ p \in Nat
  BY <1>1
<1>3. /\ r \in Seq(Addr) /\ Len(r) = Len(s) - 1
      /\ \A k \in 1 .. Len(s) - 1 : r[k] = IF k < i THEN s[k] ELSE s[k + 1]
  BY <1>1, <1>2, RemoveAtIs
<1>4. Elems(r) = Elems(s) \ {s[i]}
  BY <1>1, <1>2, RemoveAtElems
<1>5. mx[s[p]] = nx[s[i]] /\ \A x \in Addr : x # s[p] => mx[x] = nx[x]
  BY <1>1, <1>2
<1>6. nx[s[p]] = s[i]
  BY <1>1, <1>2
<1> HIDE DEF r, mx, p
<1> DEFINE l(k) == IF k < i THEN k ELSE k + 1
<1>7. ASSUME NEW k \in 1 .. Len(r)
      PROVE  k \in 1 .. Len(s) - 1 /\ l(k) \in 1 .. Len(s) /\ l(k) # i /\ r[k] = s[l(k)]
  <2>1. k \in 1 .. Len(s) - 1 /\ l(k) \in 1 .. Len(s) /\ l(k) # i
    BY <1>1, <1>2, <1>3
  <2> QED
    BY <1>3, <2>1
<1>8. ASSUME NEW j \in 1 .. Len(r), NEW k \in 1 .. Len(r), r[j] = r[k] PROVE j = k
  <2>1. l(j) = l(k)
    BY <1>1, <1>7, <1>8, SMTT(30)
  <2> QED
    BY <1>2, <2>1
<1>9. h = IF Len(r) = 0 THEN NULL ELSE r[1]
  <2>1. Len(r) # 0 /\ 1 \in 1 .. Len(s) - 1 /\ 1 < i /\ Len(s) # 0
    BY <1>1, <1>2, <1>3
  <2> QED
    BY <1>1, <1>3, <2>1
<1>10. ASSUME NEW k \in 1 .. Len(r) PROVE mx[r[k]] = IF k = Len(r) THEN NULL ELSE r[k + 1]
  <2>1. k # Len(r) => k + 1 \in 1 .. Len(s) - 1
    BY <1>1, <1>3
  <2>2. CASE k < p
    <3>1. k \in 1 .. Len(s) /\ k # p /\ k # Len(s) /\ k # Len(r) /\ k < i /\ k + 1 < i
      BY <1>1, <1>2, <1>3, <2>2
    <3>2. r[k] = s[k] /\ r[k + 1] = s[k + 1]
      BY <1>3, <1>7, <2>1, <3>1
    <3>3. s[k] # s[p] /\ s[k] \in Addr
      BY <1>1, <1>2, <3>1
    <3> QED
      BY <1>1, <1>5, <3>1, <3>2, <3>3
  <2>3. CASE k = p
    <3>1. k < i /\ ~(k + 1 < i) /\ k + 1 = i /\ (k = Len(r) <=> i = Len(s))
      BY <1>1, <1>2, <1>3, <2>3
    <3>2. r[k] = s[p]
      BY <1>3, <1>7, <2>3, <3>1
    <3>3. mx[r[k]] = IF i = Len(s) THEN NULL ELSE s[i + 1]
      BY <1>1, <1>2, <1>5, <3>2
    <3>4. k # Len(r) => r[k + 1] = s[(k + 1) + 1]
      BY <1>3, <2>1, <3>1
    <3> QED
      BY <3>1, <3>3, <3>4
  <2>4. CASE k > p
    <3>1. /\ ~(k < i) /\ ~(k + 1 < i) /\ k + 1 \in 1 .. Len(s) /\ k + 1 # p
          /\ (k = Len(r) <=> k + 1 = Len(s))
      BY <1>1, <1>2, <1>3, <2>4
    <3>2. r[k] = s[k + 1]
      BY <1>3, <1>7, <3>1
    <3>3. s[k + 1] # s[p] /\ s[k + 1] \in Addr
      BY <1>1, <1>2, <3>1
    <3>4. mx[r[k]] = IF k + 1 = Len(s) THEN NULL ELSE s[(k + 1) + 1]
      BY <1>1, <1>5, <3>1, <3>2, <3>3
    <3>5. k # Len(r) => r[k + 1] = s[(k + 1) + 1]
      BY <1>3, <2>1, <3>1
    <3> QED
      BY <3>1, <3>4, <3>5
  <2> QED
    BY <1>2, <2>2, <2>3, <2>4
<1>11. IsList(r, h, mx)
  BY <1>3, <1>8, <1>9, <1>10 DEF IsList
<1> QED
  BY <1>4, <1>6, <1>11 DEF r, mx, p

(* The successor of a block is another block of the list, or NULL.         *)
LEMMA ListSuccessor ==
  ASSUME NEW s, NEW h, NEW nx, IsList(s, h, nx), NEW a \in Elems(s)
  PROVE  nx[a] \in (Elems(s) \ {a}) \cup {NULL}
<1>1. PICK i \in 1 .. Len(s) : a = s[i]
  BY DEF Elems
<1>2. nx[a] = IF i = Len(s) THEN NULL ELSE s[i + 1]
  BY <1>1 DEF IsList
<1>3. CASE i = Len(s)
  BY <1>2, <1>3
<1>4. CASE i # Len(s)
  <2>1. i + 1 \in 1 .. Len(s) /\ i + 1 # i
    BY <1>4 DEF IsList
  <2>2. s[i + 1] # s[i]
    BY <2>1 DEF IsList
  <2> QED
    BY <1>1, <1>2, <1>4, <2>1, <2>2 DEF Elems
<1> QED
  BY <1>3, <1>4
-----------------------------------------------------------------------------
(* The invariant.                                                          *)

Pointer == Addr \cup {NULL}

TypeOK ==
  /\ slh_first \in Pointer /\ sle_next \in [Addr -> Pointer]
  /\ alloc \subseteq Addr /\ complete \subseteq Addr
  /\ place \in {"accept", "insert", "lock", "test", "body", "next", "drain"}
  /\ new_client \in Pointer /\ current_client \in Pointer /\ temp_client \in Pointer
  /\ fault \in BOOLEAN

(* The pointers main keeps during a sweep, for the list s.                 *)
Cursors(s) ==
  /\ place = "insert" => new_client \in alloc
  /\ place = "test" => current_client \in Elems(s) \cup {NULL}
  /\ place = "body" => current_client \in Elems(s) /\ temp_client = sle_next[current_client]
  /\ place = "next" => temp_client \in Elems(s) \cup {NULL}

Held == alloc \ (IF place = "insert" THEN {new_client} ELSE {})

(***************************************************************************)
(* The inductive invariant.  That the blocks of the list are the allocated *)
(* ones is not enough: the list must end and hold each block once, for     *)
(* otherwise a removed block could still be reached; and the successor     *)
(* that SLIST_FOREACH_SAFE keeps over the body must be in the list when    *)
(* the body has removed and freed the current block.                       *)
(***************************************************************************)
ListInv(s) ==
  TypeOK /\ ~fault /\ IsList(s, slh_first, sle_next) /\ Elems(s) = Held /\ Cursors(s)
IInv == ListInv(Chain)

(* What a step may do to the sequence s and to complete: a step of Pool.   *)
PoolStep(s, t) ==
  \/ t = s /\ complete' = complete
  \/ \E a \in Addr :
       \/ a \notin Elems(s) /\ t = <<a>> \o s /\ complete' = complete
       \/ complete' = complete \cup {a} /\ t = s
       \/ a \notin Elems(s) /\ complete' = complete \ {a} /\ t = s
       \/ /\ a \in complete /\ complete' = complete
          /\ \E i \in 1 .. Len(s) : s[i] = a /\ t = RemoveAt(s, i)

LEMMA ListOfChain ==
  /\ IInv => Length = Len(Chain)
  /\ \A s : ListInv(s) => Chain = s /\ Length = Len(s)
  /\ \A s : ListInv(s)' => Chain' = s /\ Length' = Len(s)
<1>1. ASSUME NEW s, ListInv(s) PROVE Chain = s /\ Length = Len(s)
  BY <1>1, ListChain, ChainIs DEF ListInv
<1>2. ASSUME NEW s, ListInv(s)' PROVE Chain' = s /\ Length' = Len(s)
  <2>1. IsList(s, slh_first', sle_next')
    BY <1>2 DEF ListInv, IsList
  <2> QED
    BY <2>1, ListChain, ChainIs
<1>3. IInv => Length = Len(Chain)
  BY ListChain, ChainIs DEF IInv, ListInv
<1> QED
  BY <1>1, <1>2, <1>3

(* The initial list is empty.                                              *)
LEMMA InitList == Init => ListInv(<< >>)
<1> SUFFICES ASSUME Init PROVE ListInv(<< >>)
  OBVIOUS
<1>1. TypeOK /\ ~fault
  BY DEF Init, TypeOK, Pointer
<1>2. IsList(<< >>, slh_first, sle_next)
  BY DEF Init, IsList
<1>3. Elems(<< >>) = Held /\ Cursors(<< >>)
  BY DEF Init, Elems, Held, Cursors
<1> QED
  BY <1>1, <1>2, <1>3 DEF ListInv

(* Steps that leave the list as it is.                                     *)
LEMMA SameList ==
  ASSUME NEW s, ListInv(s), UNCHANGED list, TypeOK', ~fault', Held' = Held, Cursors(s)'
  PROVE  ListInv(s)'
BY DEF ListInv, list, IsList, Elems

LEMMA SpawnKeeps ==
  ASSUME NEW s, ListInv(s), NEW a \in Addr, Spawn(a)
  PROVE  ListInv(s)' /\ PoolStep(s, s)
<1>1. TypeOK'
  BY DEF ListInv, TypeOK, Spawn, list, Pointer
<1>2. a \notin Elems(s) /\ Held' = Held
  BY DEF ListInv, Held, Spawn
<1>3. Cursors(s)' /\ ~fault'
  BY DEF ListInv, Cursors, Spawn
<1> QED
  BY <1>1, <1>2, <1>3, SameList DEF Spawn, PoolStep

LEMMA InsertKeeps ==
  ASSUME NEW s, ListInv(s), SLIST_INSERT_HEAD
  PROVE  ListInv(<<new_client>> \o s)' /\ PoolStep(s, <<new_client>> \o s)
<1> DEFINE a == new_client
           t == <<a>> \o s
<1>1. /\ a \in Addr /\ a \in alloc /\ a \notin Elems(s) /\ Elems(s) = alloc \ {a}
      /\ sle_next \in [Addr -> Addr \cup {NULL}] /\ IsList(s, slh_first, sle_next)
  BY DEF ListInv, Held, Cursors, SLIST_INSERT_HEAD, TypeOK, Pointer
<1>2. /\ slh_first' = a /\ sle_next' = [sle_next EXCEPT ![a] = slh_first]
      /\ UNCHANGED <<alloc, complete, locals>> /\ place' = "lock"
  BY DEF SLIST_INSERT_HEAD
<1>3. IsList(t, slh_first', sle_next') /\ Elems(t) = Elems(s) \cup {a}
  BY <1>1, <1>2, ListInsert
<1>4. TypeOK' /\ ~fault'
  BY <1>1, <1>2 DEF ListInv, TypeOK, Pointer, SLIST_INSERT_HEAD, Use, locals
<1>5. Held' = alloc
  BY <1>2 DEF Held
<1>6. \A u : Cursors(u)'
  BY <1>2 DEF Cursors
<1> HIDE DEF t, a
<1>7. \A u : IsList(u, slh_first', sle_next') /\ Elems(u) = Held' => ListInv(u)'
  BY <1>4, <1>6 DEF ListInv, IsList, Elems
<1>8. Elems(t) = Held'
  BY <1>1, <1>3, <1>5
<1>9. PoolStep(s, t)
  BY <1>1, <1>2 DEF PoolStep, t
<1>10. a' = a
  BY <1>2 DEF a, locals
<1> QED
  BY <1>3, <1>7, <1>8, <1>9, <1>10 DEF t, a

LEMMA SweepKeeps ==
  ASSUME NEW s, ListInv(s), SweepStarts \/ SweepTest \/ SweepNext \/ Shutdown
  PROVE  ListInv(s)' /\ PoolStep(s, s)
<1>1. /\ slh_first \in Elems(s) \cup {NULL} /\ Elems(s) \subseteq Addr
  BY DEF ListInv, IsList, Elems
<1>2. CASE SweepStarts
  <2>1. TypeOK' /\ ~fault'
    BY <1>2 DEF ListInv, TypeOK, SweepStarts, list, Pointer
  <2>2. Held' = Held /\ Cursors(s)'
    BY <1>1, <1>2 DEF Held, Cursors, SweepStarts
  <2> QED
    BY <1>2, <2>1, <2>2, SameList DEF SweepStarts, PoolStep
<1>3. CASE SweepTest
  <2>1. current_client # NULL => current_client \in Elems(s) /\ current_client \in alloc /\ current_client \in Addr
    BY <1>1, <1>3 DEF SweepTest, ListInv, Cursors, Held
  <2>2. TypeOK' /\ ~fault'
    BY <1>3, <2>1 DEF ListInv, TypeOK, SweepTest, list, Pointer, Use
  <2>3. Held' = Held /\ Cursors(s)'
    BY <1>3, <2>1 DEF Held, Cursors, SweepTest, list
  <2> QED
    BY <1>3, <2>2, <2>3, SameList DEF SweepTest, PoolStep
<1>4. CASE SweepNext
  <2>1. TypeOK' /\ ~fault'
    BY <1>4 DEF ListInv, TypeOK, SweepNext, Successor, list, Pointer
  <2>2. Held' = Held /\ Cursors(s)'
    BY <1>4 DEF Held, Cursors, SweepNext, Successor, ListInv
  <2> QED
    BY <1>4, <2>1, <2>2, SameList DEF SweepNext, PoolStep
<1>5. CASE Shutdown
  <2>1. TypeOK' /\ ~fault'
    BY <1>5 DEF ListInv, TypeOK, Shutdown, list, locals, Pointer
  <2>2. Held' = Held /\ Cursors(s)'
    BY <1>5 DEF Held, Cursors, Shutdown
  <2> QED
    BY <1>5, <2>1, <2>2, SameList DEF Shutdown, PoolStep
<1> QED
  BY <1>2, <1>3, <1>4, <1>5

LEMMA CompleteKeeps ==
  ASSUME NEW s, ListInv(s), NEW a \in Addr, Complete(a)
  PROVE  ListInv(s)' /\ PoolStep(s, s)
<1>1. TypeOK' /\ ~fault'
  BY DEF ListInv, TypeOK, Complete, list, locals, Pointer
<1>2. Held' = Held /\ Cursors(s)'
  BY DEF Held, Cursors, Complete, ListInv, locals
<1> QED
  BY <1>1, <1>2, SameList DEF Complete, PoolStep

(* The first block is removed and freed.                                   *)
LEMMA DrainKeeps ==
  ASSUME NEW s, ListInv(s), Drain
  PROVE  ListInv(RemoveAt(s, 1))' /\ PoolStep(s, RemoveAt(s, 1))
<1> DEFINE t == RemoveAt(s, 1)
<1>1. IsList(s, slh_first, sle_next) /\ slh_first # NULL /\ Elems(s) = alloc /\ slh_first \in Addr
  BY DEF ListInv, Held, Drain, TypeOK, Pointer
<1>2. /\ 1 \in 1 .. Len(s) /\ slh_first = s[1]
      /\ IsList(t, sle_next[slh_first], sle_next) /\ Elems(t) = Elems(s) \ {slh_first}
  BY <1>1, ListRemoveHead
<1>3. slh_first \in alloc
  BY <1>1, <1>2 DEF Elems
<1>4. TypeOK' /\ ~fault'
  BY <1>1, <1>3 DEF ListInv, TypeOK, Pointer, Drain, Use, locals
<1>5. Held' = alloc \ {slh_first}
  BY DEF Held, Drain
<1>6. \A u : Cursors(u)'
  BY DEF Cursors, Drain
<1> HIDE DEF t
<1>7. \A u : IsList(u, slh_first', sle_next') /\ Elems(u) = Held' => ListInv(u)'
  BY <1>4, <1>6 DEF ListInv, IsList, Elems
<1>8. IsList(t, slh_first', sle_next') /\ Elems(t) = Held'
  BY <1>1, <1>2, <1>5 DEF Drain
<1>9. PoolStep(s, t)
  BY <1>1, <1>2 DEF PoolStep, t, Drain
<1> QED
  BY <1>7, <1>8, <1>9 DEF t

(* The current block is kept, or removed and freed; its successor stays.   *)
LEMMA BodyKeeps ==
  ASSUME NEW s, ListInv(s), SweepBody
  PROVE  \E t : ListInv(t)' /\ PoolStep(s, t)
<1> DEFINE c == current_client
<1>1. /\ IsList(s, slh_first, sle_next) /\ Elems(s) = alloc /\ c \in Elems(s) /\ c \in Addr /\ c # NULL
      /\ temp_client = sle_next[c] /\ sle_next \in [Addr -> Addr \cup {NULL}]
  BY AddrAssumption DEF ListInv, Held, Cursors, SweepBody, TypeOK, Pointer
<1>2. temp_client \in (Elems(s) \ {c}) \cup {NULL}
  BY <1>1, ListSuccessor
<1>3. place' = "next" /\ UNCHANGED <<complete, locals>>
  BY DEF SweepBody
<1>4. CASE c \notin complete
  <2>1. UNCHANGED <<list, alloc>> /\ fault' = FALSE
    BY <1>1, <1>4 DEF SweepBody, Use, ListInv
  <2>2. TypeOK' /\ Held' = Held /\ Cursors(s)'
    BY <1>1, <1>2, <1>3, <2>1 DEF ListInv, TypeOK, Held, Cursors, list, locals, SweepBody, Pointer
  <2>3. ListInv(s)'
    BY <2>1, <2>2, SameList
  <2> QED
    BY <1>3, <2>3 DEF PoolStep
<1>5. CASE c \in complete
  <2>1. SLIST_REMOVE(c) /\ alloc' = alloc \ {c}
    BY <1>5 DEF SweepBody
  <2>2. ASSUME NEW i \in 1 .. Len(s), s[i] = c, IsList(RemoveAt(s, i), slh_first', sle_next'),
               Elems(RemoveAt(s, i)) = Elems(s) \ {c}, fault' = FALSE,
               slh_first' \in Pointer, sle_next' \in [Addr -> Pointer]
        PROVE  ListInv(RemoveAt(s, i))' /\ PoolStep(s, RemoveAt(s, i))
    <3> DEFINE t == RemoveAt(s, i)
    <3>1. PoolStep(s, t)
      BY <1>1, <1>3, <1>5, <2>2 DEF PoolStep
    <3>2. TypeOK'
      BY <1>3, <2>1, <2>2 DEF ListInv, TypeOK, locals, Pointer
    <3>3. Held' = alloc \ {c}
      BY <1>3, <2>1 DEF Held
    <3> HIDE DEF t
    <3>4. \A u : /\ IsList(u, slh_first', sle_next') /\ Elems(u) = Held'
                 /\ temp_client' \in Elems(u) \cup {NULL}
                 => ListInv(u)'
      BY <1>3, <2>2, <3>2 DEF ListInv, IsList, Elems, Cursors
    <3>5. IsList(t, slh_first', sle_next') /\ Elems(t) = Held' /\ temp_client' \in Elems(t) \cup {NULL}
      BY <1>1, <1>2, <1>3, <2>2, <3>3 DEF t, locals
    <3>6. ListInv(t)'
      BY <3>4, <3>5
    <3> QED
      BY <3>1, <3>6 DEF t
  <2>3. CASE slh_first = c
    <3>1. /\ 1 \in 1 .. Len(s) /\ slh_first = s[1]
          /\ IsList(RemoveAt(s, 1), sle_next[slh_first], sle_next)
          /\ Elems(RemoveAt(s, 1)) = Elems(s) \ {slh_first}
      BY <1>1, <2>3, ListRemoveHead
    <3>2. slh_first' = sle_next[slh_first] /\ sle_next' = sle_next /\ fault' = FALSE
      BY <1>1, <2>1, <2>3 DEF SLIST_REMOVE, Use, ListInv
    <3>3. slh_first' \in Pointer /\ sle_next' \in [Addr -> Pointer]
      BY <1>1, <2>3, <3>2 DEF Pointer
    <3>4. ListInv(RemoveAt(s, 1))' /\ PoolStep(s, RemoveAt(s, 1))
      BY <2>2, <2>3, <3>1, <3>2, <3>3
    <3> QED
      BY <3>4
  <2>4. CASE slh_first # c
    <3>1. Chain = s /\ Length = Len(s)
      BY ListOfChain
    <3>2. PICK i \in 2 .. Length :
            /\ Chain[i] = c /\ SLIST_REMOVE_AFTER(Chain[i - 1])
            /\ Use({Chain[j] : j \in 1 .. i}) /\ slh_first' = slh_first
      BY <2>1, <2>4 DEF SLIST_REMOVE
    <3>3. /\ i \in 2 .. Len(s) /\ s[i] = c /\ slh_first' = slh_first
          /\ sle_next' = [sle_next EXCEPT ![s[i - 1]] = sle_next[sle_next[s[i - 1]]]]
      BY <3>1, <3>2 DEF SLIST_REMOVE_AFTER
    <3>4. /\ i \in 1 .. Len(s) /\ i - 1 \in 1 .. Len(s) /\ \A j \in 1 .. i : j \in 1 .. Len(s)
          /\ \A j \in 1 .. Len(s) : s[j] \in Addr
      <4>1. s \in Seq(Addr) /\ Len(s) \in Nat
        BY <1>1 DEF IsList
      <4> QED
        BY <3>3, <4>1
    <3>5. /\ sle_next[s[i - 1]] = s[i]
          /\ IsList(RemoveAt(s, i), slh_first, [sle_next EXCEPT ![s[i - 1]] = sle_next[s[i]]])
          /\ Elems(RemoveAt(s, i)) = Elems(s) \ {s[i]}
      BY <1>1, <3>3, ListRemoveAfter
    <3>6. fault' = FALSE
      <4>1. {s[j] : j \in 1 .. i} \subseteq alloc
        BY <1>1, <3>4 DEF Elems
      <4> QED
        BY <3>1, <3>2, <4>1 DEF Use, ListInv
    <3>7. slh_first' \in Pointer /\ sle_next' \in [Addr -> Pointer]
      BY <1>1, <3>3, <3>4, <3>5 DEF Pointer, ListInv, TypeOK
    <3>8. ListInv(RemoveAt(s, i))' /\ PoolStep(s, RemoveAt(s, i))
      BY <2>2, <3>3, <3>4, <3>5, <3>6, <3>7
    <3> QED
      BY <3>8
  <2> QED
    BY <2>3, <2>4
<1> QED
  BY <1>4, <1>5

(* Every step keeps the invariant and is a step of Pool.                   *)
LEMMA NextKeeps ==
  ASSUME NEW s, ListInv(s), [Next]_vars
  PROVE  \E t : ListInv(t)' /\ PoolStep(s, t)
<1>1. CASE UNCHANGED vars
  <2>1. TypeOK' /\ ~fault' /\ Held' = Held /\ Cursors(s)' /\ UNCHANGED list /\ complete' = complete
    BY <1>1 DEF vars, list, locals, ListInv, TypeOK, Held, Cursors
  <2>2. ListInv(s)'
    BY <2>1, SameList
  <2> QED
    BY <2>1, <2>2 DEF PoolStep
<1>2. CASE SLIST_INSERT_HEAD
  <2>1. new_client' = new_client
    BY <1>2 DEF SLIST_INSERT_HEAD, locals
  <2>2. ListInv(<<new_client>> \o s)' /\ PoolStep(s, <<new_client>> \o s)
    BY <1>2, InsertKeeps
  <2> QED
    BY <2>1, <2>2
<1>3. CASE Next /\ ~SLIST_INSERT_HEAD
  BY <1>3, SpawnKeeps, CompleteKeeps, SweepKeeps, BodyKeeps, DrainKeeps DEF Next
<1> QED
  BY <1>1, <1>2, <1>3

LEMMA IInvHolds == Spec => []IInv
<1>1. Init => IInv
  <2> SUFFICES ASSUME Init PROVE IInv
    OBVIOUS
  <2>1. ListInv(<< >>) /\ Chain = << >>
    BY InitList, ListOfChain
  <2> QED
    BY <2>1 DEF IInv
<1>2. IInv /\ [Next]_vars => IInv'
  <2> SUFFICES ASSUME IInv, [Next]_vars PROVE IInv'
    OBVIOUS
  <2> DEFINE s == Chain
  <2>1. ListInv(s)
    BY DEF IInv
  <2> HIDE DEF s
  <2>2. PICK t : ListInv(t)'
    BY <2>1, NextKeeps
  <2>3. Chain' = t
    BY <2>2, ListOfChain
  <2> QED
    BY <2>2, <2>3 DEF IInv, ListInv, IsList, Elems, Cursors
<1> QED
  BY <1>1, <1>2, PTL DEF Spec

(***************************************************************************)
(* In no order of accepts, completions and sweeps, with any number of      *)
(* blocks, does main follow a pointer to a freed block: the successor is   *)
(* read before the free and is itself never freed by the same body.        *)
(***************************************************************************)
THEOREM NothingUsedAfterFree == Spec => []NoUseAfterFree
<1>1. IInv => NoUseAfterFree
  BY DEF IInv, ListInv, NoUseAfterFree
<1> QED
  BY <1>1, IInvHolds, PTL

(***************************************************************************)
(* Every allocated struct thread_data can be reached from the head, but    *)
(* for one that is about to be inserted, and every block that can be       *)
(* reached is allocated.                                                   *)
(***************************************************************************)
THEOREM ListHoldsTheAllocated == Spec => []ListIsAllocated
<1>1. IInv => ListIsAllocated
  <2> SUFFICES ASSUME IInv PROVE ListIsAllocated
    OBVIOUS
  <2>1. Length = Len(Chain) /\ Elems(Chain) = Held
    BY ListOfChain DEF IInv, ListInv
  <2> QED
    BY <2>1 DEF ListIsAllocated, Elems, Held
<1> QED
  BY <1>1, IInvHolds, PTL

(***************************************************************************)
(* The macros of queue.h implement a sequence: whatever SLIST_REMOVE and   *)
(* SLIST_INSERT_HEAD do to the links, the chain changes only by one block  *)
(* in front or by one finished block less, the order of the rest kept.     *)
(***************************************************************************)
THEOREM ImplementsPool == Spec => PoolSpec
<1>1. Init => Abstract!Init
  <2> SUFFICES ASSUME Init PROVE Abstract!Init
    OBVIOUS
  <2>1. Chain = << >>
    BY InitList, ListOfChain
  <2> QED
    BY <2>1 DEF Init, Abstract!Init
<1>2. IInv /\ [Next]_vars => [Abstract!Next]_<<Chain, complete>>
  <2> SUFFICES ASSUME IInv, [Next]_vars PROVE [Abstract!Next]_<<Chain, complete>>
    OBVIOUS
  <2> DEFINE s == Chain
  <2>1. ListInv(s)
    BY DEF IInv
  <2>2. s \in Seq(Addr) /\ DOMAIN s = 1 .. Len(s)
    BY <2>1 DEF ListInv, IsList
  <2> HIDE DEF s
  <2>3. PICK t : ListInv(t)' /\ PoolStep(s, t)
    BY <2>1, NextKeeps
  <2>4. Chain' = t /\ Chain = s
    BY <2>3, ListOfChain DEF s
  <2>5. Abstract!Range(Chain) = Elems(s)
    BY <2>2, <2>4 DEF Abstract!Range, Elems
  <2>6. CASE t = s /\ complete' = complete
    BY <2>4, <2>6
  <2>7. ASSUME NEW a \in Addr,
               \/ a \notin Elems(s) /\ t = <<a>> \o s /\ complete' = complete
               \/ complete' = complete \cup {a} /\ t = s
               \/ a \notin Elems(s) /\ complete' = complete \ {a} /\ t = s
        PROVE  Abstract!Next
    BY <2>4, <2>5, <2>7 DEF Abstract!Next, Abstract!Insert, Abstract!Finish, Abstract!Reuse
  <2>8. ASSUME NEW a \in Addr, a \in complete, complete' = complete,
               NEW i \in 1 .. Len(s), s[i] = a, t = RemoveAt(s, i)
        PROVE  Abstract!Next
    <3>1. Chain' = Abstract!RemoveAt(Chain, i)
      BY <2>4, <2>8 DEF RemoveAt, Abstract!RemoveAt
    <3>2. Abstract!Delete(a)
      BY <2>2, <2>4, <2>8, <3>1 DEF Abstract!Delete
    <3> QED
      BY <3>2 DEF Abstract!Next
  <2> QED
    BY <2>3, <2>6, <2>7, <2>8 DEF PoolStep
<1> QED
  BY <1>1, <1>2, IInvHolds, PTL DEF Spec, PoolSpec, Abstract!Spec
=============================================================================
