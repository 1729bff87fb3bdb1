------------------------ MODULE CircularBufferProofs ------------------------
(***************************************************************************)
(* The circular buffer is correct for every MaxOps from 1 to 255 and every *)
(* set of entries: its offsets stay in the array, its shape is sound, it   *)
(* implements the log of the last MaxOps commands, the search finds every  *)
(* byte, and the total size is that of all slots.                          *)
(***************************************************************************)
EXTENDS CircularBuffer, CircularBufferLemmas, FiniteSetTheorems

(***************************************************************************)
(* The inductive invariant.  TypeOK alone is not enough for the refinement *)
(* (a buffer that is not full may not start in the middle of the array),   *)
(* and RingInv needs TypeOK for the arithmetic on the offsets.             *)
(***************************************************************************)
IInv == TypeOK /\ RingInv

LEMMA InitIInv == Init => IInv
BY InitWellFormed DEF Init, IInv, TypeOK, RingInv, WellFormed

LEMMA NextIInv == IInv /\ [Next]_buffer => IInv'
<1> SUFFICES ASSUME IInv, [Next]_buffer PROVE IInv'
  OBVIOUS
<1>1. WellFormed(buffer, Entry)
  BY DEF IInv, TypeOK, RingInv, WellFormed
<1>2. ASSUME NEW e \in Entry, AddEntry(e) PROVE IInv'
  <2>1. WellFormed(buffer', Entry)
    BY <1>1, <1>2, AddEntryWellFormed DEF AddEntry
  <2> QED
    BY <2>1 DEF IInv, TypeOK, RingInv, WellFormed
<1>3. CASE UNCHANGED buffer
  BY <1>3 DEF IInv, TypeOK, RingInv
<1> QED
  BY <1>2, <1>3 DEF Next

(* The invariant holds in every state of every behaviour.                  *)
LEMMA IInvHolds == Spec => []IInv
BY InitIInv, NextIInv, PTL DEF Spec

(***************************************************************************)
(* Both offsets are slots of the array and every slot holds an entry or is *)
(* cleared, whatever sequence of aesd_circular_buffer_add_entry ran.       *)
(***************************************************************************)
THEOREM TypeCorrect == Spec => []TypeOK
<1>1. IInv => TypeOK
  BY DEF IInv
<1> QED
  BY <1>1, IInvHolds, PTL

(***************************************************************************)
(* in_offs, out_offs and full always agree on which slots hold entries, so *)
(* the count computed by calculate_size, find_entry_offset_for_fpos and    *)
(* aesd_adjust_file_offset is the number of entries.                       *)
(***************************************************************************)
THEOREM RingCorrect == Spec => []RingInv
<1>1. IInv => RingInv
  BY DEF IInv
<1> QED
  BY <1>1, IInvHolds, PTL

(***************************************************************************)
(* aesd_circular_buffer_add_entry implements "remember the last MaxOps     *)
(* commands in order", with Contents(buffer) as the abstract log.          *)
(***************************************************************************)
THEOREM ImplementsLog == Spec => LogSpec
<1>1. Init => Log!Init
  BY MaxOpsAssumption DEF Init, Log!Init, Contents, Count, aesd_circular_buffer_init
<1>2. IInv /\ [Next]_buffer => [Log!Next]_(Contents(buffer))
  <2> SUFFICES ASSUME IInv, [Next]_buffer PROVE [Log!Next]_(Contents(buffer))
    OBVIOUS
  <2>1. WellFormed(buffer, Entry)
    BY DEF IInv, TypeOK, RingInv, WellFormed
  <2>2. ASSUME NEW e \in Entry, AddEntry(e) PROVE Log!Next
    <3>1. Contents(buffer') = Append(IF Len(Contents(buffer)) < MaxOps
                                     THEN Contents(buffer)
                                     ELSE Tail(Contents(buffer)), e)
      BY <2>1, <2>2, AddEntryContents DEF AddEntry
    <3>2. Contents(buffer)' = Contents(buffer')
      BY DEF Contents, Count, EntryPos
    <3>3. Log!Remember(e)
      BY <3>1, <3>2 DEF Log!Remember
    <3> QED
      BY <3>3 DEF Log!Next
  <2>3. CASE UNCHANGED buffer
    BY <2>3 DEF Contents, Count, EntryPos
  <2> QED
    BY <2>2, <2>3 DEF Next
<1> QED
  BY <1>1, <1>2, IInvHolds, PTL DEF Spec, LogSpec, Log!Spec

(* The buffer is well formed, and its entries have sizes.                  *)
LEMMA InvWellFormed == IInv => WellFormed(buffer, Entry) /\ Sized(Entry)
BY EntryAssumption DEF IInv, TypeOK, RingInv, WellFormed, Sized

(* The concatenation: its length and its bytes, entry by entry.            *)
LEMMA BytesPlaced ==
  ASSUME IInv
  PROVE  /\ Len(AllBytes) = aesd_circular_buffer_calculate_size(buffer)
         /\ \A j \in 0 .. Count(buffer) - 1 : \A x \in 1 .. SizeAt(buffer, j) :
              AllBytes[BytesBefore(buffer, j) + x] =
                [slot |-> EntryPos(buffer, j), offset |-> x - 1]
<1> DEFINE n == Count(buffer)
           ss == [i \in 1 .. n |-> BytesOf(i)]
           B == [k \in 0 .. n |-> BytesBefore(buffer, k)]
           T == [slot : Slots, offset : Nat]
<1>1. WellFormed(buffer, Entry) /\ Sized(Entry)
  BY InvWellFormed
<1>2. /\ n \in Nat
      /\ \A k \in 0 .. n - 1 : SizeAt(buffer, k) \in Nat /\ EntryPos(buffer, k) \in Slots
  BY <1>1, EntrySizes
<1>3. ASSUME NEW i \in 1 .. n
      PROVE  /\ BytesOf(i) \in Seq(T) /\ Len(BytesOf(i)) = SizeAt(buffer, i - 1)
             /\ \A x \in 1 .. SizeAt(buffer, i - 1) :
                  BytesOf(i)[x] = [slot |-> EntryPos(buffer, i - 1), offset |-> x - 1]
  <2>1. i - 1 \in 0 .. n - 1
    BY <1>2
  <2>2. SizeAt(buffer, i - 1) \in Nat /\ EntryPos(buffer, i - 1) \in Slots
    BY <1>2, <2>1
  <2>3. Contents(buffer)[i].size = SizeAt(buffer, i - 1)
    BY DEF Contents, SizeAt
  <2>4. BytesOf(i) = [j \in 1 .. SizeAt(buffer, i - 1) |->
                        [slot |-> EntryPos(buffer, i - 1), offset |-> j - 1]]
    BY <2>3 DEF BytesOf
  <2>5. \A j \in 1 .. SizeAt(buffer, i - 1) : j - 1 \in Nat
    BY <2>2
  <2>6. BytesOf(i) \in [1 .. SizeAt(buffer, i - 1) -> T]
    BY <2>2, <2>4, <2>5
  <2> HIDE DEF T
  <2>7. BytesOf(i) \in Seq(T) /\ Len(BytesOf(i)) = SizeAt(buffer, i - 1)
    BY <2>2, <2>6
  <2> QED
    BY <2>4, <2>7
<1> HIDE DEF n, T
<1>4. ss \in Seq(Seq(T)) /\ Len(ss) = n /\ \A i \in 1 .. n : ss[i] = BytesOf(i)
  <2>1. ss \in [1 .. n -> Seq(T)]
    BY <1>3
  <2> QED
    BY <1>2, <2>1
<1>5. /\ \A k \in 0 .. n : B[k] = BytesBefore(buffer, k)
      /\ B \in [0 .. n -> Nat] /\ B[0] = 0
  BY <1>1, <1>2, BytesBeforeNat, BytesBeforeStep DEF n
<1> HIDE DEF ss, B
<1>6. Starts(ss, B)
  <2>1. ASSUME NEW i \in 1 .. n PROVE B[i] = B[i - 1] + Len(ss[i])
    <3>1. i - 1 \in Nat /\ i - 1 \in 0 .. n /\ i \in 0 .. n /\ (i - 1) + 1 = i
      BY <1>2
    <3>2. BytesBefore(buffer, (i - 1) + 1) = BytesBefore(buffer, i - 1) + SizeAt(buffer, i - 1)
      BY <3>1, BytesBeforeStep
    <3> QED
      BY <1>3, <1>4, <1>5, <3>1, <3>2
  <2> QED
    BY <1>4, <1>5, <2>1 DEF Starts
<1>7. FlatOK(T, ss, B, AllBytes, n)
  <2>1. FlatOK(T, ss, B, FlattenSeq(ss), Len(ss))
    BY <1>4, <1>6, FlattenResult
  <2> QED
    BY <1>4, <2>1 DEF AllBytes, ss, n
<1>8. Len(AllBytes) = aesd_circular_buffer_calculate_size(buffer)
  BY <1>2, <1>5, <1>7 DEF FlatOK, aesd_circular_buffer_calculate_size, n
<1>9. ASSUME NEW j \in 0 .. n - 1, NEW x \in 1 .. SizeAt(buffer, j)
      PROVE  AllBytes[BytesBefore(buffer, j) + x] =
               [slot |-> EntryPos(buffer, j), offset |-> x - 1]
  <2>1. j + 1 \in 1 .. n /\ (j + 1) - 1 = j /\ j \in 0 .. n
    BY <1>2
  <2>2. ss[j + 1] = BytesOf(j + 1) /\ Len(ss[j + 1]) = SizeAt(buffer, j)
    BY <1>3, <1>4, <2>1
  <2>3. AllBytes[B[(j + 1) - 1] + x] = ss[j + 1][x]
    BY <1>7, <2>1, <2>2 DEF FlatOK
  <2>4. BytesOf(j + 1)[x] = [slot |-> EntryPos(buffer, j), offset |-> x - 1]
    BY <1>3, <2>1
  <2> QED
    BY <1>5, <2>1, <2>2, <2>3, <2>4
<1> QED
  BY <1>8, <1>9 DEF n

(***************************************************************************)
(* aesd_circular_buffer_find_entry_offset_for_fpos finds the byte at every *)
(* position of the concatenation of the entries, however the ring has      *)
(* wrapped around and whatever their sizes, 0 included, and returns NULL   *)
(* at every position past its end.                                         *)
(***************************************************************************)
THEOREM FindIsCorrect == Spec => []FindsTheByte
<1>1. IInv => FindsTheByte
  <2> SUFFICES ASSUME IInv, NEW c \in Position
               PROVE  aesd_circular_buffer_find_entry_offset_for_fpos(buffer, c) =
                        IF c < Len(AllBytes) THEN AllBytes[c + 1] ELSE NULL
    BY DEF FindsTheByte
  <2> DEFINE size == aesd_circular_buffer_calculate_size(buffer)
  <2>1. WellFormed(buffer, Entry) /\ Sized(Entry) /\ c \in Nat
    BY InvWellFormed, PositionAssumption
  <2>2. Len(AllBytes) = size
    BY BytesPlaced
  <2>3. size \in Nat /\ Count(buffer) \in Nat
    BY <2>1, EntrySizes, BytesBeforeNat DEF aesd_circular_buffer_calculate_size
  <2> HIDE DEF size
  <2>4. CASE c < size
    <3>1. PICK j \in 0 .. Count(buffer) - 1 : BytesBefore(buffer, j) <= c /\ c < BytesBefore(buffer, j + 1)
      BY <2>1, <2>4, EntryOfByte DEF size
    <3>2. aesd_circular_buffer_find_entry_offset_for_fpos(buffer, c) =
            [slot |-> EntryPos(buffer, j), offset |-> c - BytesBefore(buffer, j)]
      BY <2>1, <3>1, FindResult
    <3>3. j \in Nat /\ j \in 0 .. Count(buffer)
      BY <2>3
    <3>4. /\ BytesBefore(buffer, j + 1) = BytesBefore(buffer, j) + SizeAt(buffer, j)
          /\ BytesBefore(buffer, j) \in Nat /\ SizeAt(buffer, j) \in Nat
      BY <2>1, <3>3, BytesBeforeStep, BytesBeforeNat, EntrySizes
    <3> DEFINE x == c - BytesBefore(buffer, j) + 1
    <3>5. /\ x \in 1 .. SizeAt(buffer, j) /\ BytesBefore(buffer, j) + x = c + 1
          /\ x - 1 = c - BytesBefore(buffer, j)
      BY <2>1, <3>1, <3>4
    <3> HIDE DEF x
    <3>6. AllBytes[BytesBefore(buffer, j) + x] = [slot |-> EntryPos(buffer, j), offset |-> x - 1]
      BY <3>5, BytesPlaced
    <3> QED
      BY <2>2, <2>4, <3>2, <3>5, <3>6
  <2>5. CASE ~(c < size)
    <3>1. aesd_circular_buffer_find_entry_offset_for_fpos(buffer, c) = NULL
      BY <2>1, <2>3, <2>5, FindResult DEF size
    <3> QED
      BY <2>2, <2>5, <3>1
  <2> QED
    BY <2>4, <2>5
<1> QED
  BY <1>1, IInvHolds, PTL

(* The sums that MapThenSumSet tabulates: over each subset of S.           *)
Some(s) == CHOOSE x \in s : TRUE
IsSum(b, S, g) ==
  g = [s \in SUBSET S |-> IF s = {} THEN 0 ELSE b.entry[Some(s)].size + g[s \ {Some(s)}]]

(* The sizes of the entries in the slots S.                                *)
SumOf(b, S) == MapThenSumSet(LAMBDA s : b.entry[s].size, S)

(* It is the last of those sums, if there are any.                         *)
LEMMA SumIs ==
  ASSUME NEW b, NEW S, \E g : IsSum(b, S, g)
  PROVE  \E g : IsSum(b, S, g) /\ SumOf(b, S) = g[S]
<1> DEFINE g == CHOOSE t : t = [s \in SUBSET S |->
                   IF s = {} THEN 0
                   ELSE b.entry[CHOOSE x \in s : TRUE].size + t[s \ {CHOOSE x \in s : TRUE}]]
<1>1. IsSum(b, S, g)
  BY DEF IsSum, Some
<1>2. SumOf(b, S) = g[S]
  BY Zenon DEF SumOf, MapThenSumSet, MapThenFoldSet
<1> QED
  BY <1>1, <1>2

(* There are such sums: those over small sets give those over larger ones. *)
LEMMA SumExists ==
  ASSUME NEW b, NEW S, IsFiniteSet(S)
  PROVE  \E g : IsSum(b, S, g)
<1> DEFINE D(n) == {s \in SUBSET S : Cardinality(s) <= n}
           Part(g, n) == g = [s \in D(n) |-> IF s = {} THEN 0
                                             ELSE b.entry[Some(s)].size + g[s \ {Some(s)}]]
           Bad == {n \in Nat : ~ \E g : Part(g, n)}
<1>1. \A s \in SUBSET S : IsFiniteSet(s) /\ Cardinality(s) \in Nat /\ (Cardinality(s) = 0 <=> s = {})
  BY FS_Subset, FS_CardinalityType, FS_EmptySet
<1>2. ASSUME NEW s \in SUBSET S, s # {}
      PROVE  /\ Some(s) \in s /\ s \ {Some(s)} \in SUBSET S
             /\ Cardinality(s \ {Some(s)}) = Cardinality(s) - 1
  <2>1. Some(s) \in s
    BY <1>2 DEF Some
  <2> QED
    BY <1>1, <2>1, FS_RemoveElement
<1>3. Bad = {}
  <2> SUFFICES ASSUME Bad # {} PROVE FALSE
    OBVIOUS
  <2>1. Bad \subseteq Nat
    OBVIOUS
  <2>2. PICK m \in Bad : \A i \in Bad : m <= i
    BY <2>1, LeastElement
  <2>3. CASE m = 0
    <3> DEFINE g == [s \in D(0) |-> 0]
    <3>1. \A s \in D(0) : s = {}
      BY <1>1
    <3>2. Part(g, 0)
      BY <3>1
    <3> QED
      BY <2>2, <2>3, <3>2
  <2>4. CASE m # 0
    <3>0. m \in Nat
      BY <2>1, <2>2
    <3>1. m - 1 \in Nat /\ m - 1 \notin Bad /\ m \in Nat
      <4>1. m - 1 \in Nat /\ ~(m <= m - 1)
        BY <2>4, <3>0
      <4> HIDE DEF Bad
      <4> QED
        BY <2>2, <3>0, <4>1
    <3>2. PICK g : Part(g, m - 1)
      BY <3>1
    <3> DEFINE h == [s \in D(m) |-> IF s = {} THEN 0
                                    ELSE b.entry[Some(s)].size + g[s \ {Some(s)}]]
    <3>3. \A s \in D(m - 1) : s \in D(m) /\ g[s] = IF s = {} THEN 0
                                    ELSE b.entry[Some(s)].size + g[s \ {Some(s)}]
      <4>1. \A s \in D(m - 1) : s \in D(m)
        BY <1>1, <3>1
      <4> HIDE DEF D
      <4> QED
        BY <3>2, <4>1
    <3>4. \A s \in D(m - 1) : h[s] = g[s]
      BY <3>3
    <3>5. \A s \in D(m) : s # {} => s \ {Some(s)} \in D(m - 1)
      BY <1>1, <1>2, <3>1
    <3> HIDE DEF D
    <3>6. \A s \in D(m) : s # {} => h[s \ {Some(s)}] = g[s \ {Some(s)}]
      BY <3>4, <3>5
    <3>7. \A s \in D(m) : h[s] = IF s = {} THEN 0
                                 ELSE b.entry[Some(s)].size + h[s \ {Some(s)}]
      BY <3>6
    <3>8. Part(h, m)
      BY <3>7
    <3> QED
      BY <2>2, <3>8
  <2> QED
    BY <2>3, <2>4
<1>4. Cardinality(S) \in Nat /\ D(Cardinality(S)) = SUBSET S
  BY FS_CardinalityType, FS_Subset
<1>5. PICK g : Part(g, Cardinality(S))
  BY <1>3, <1>4
<1>6. g = [s \in SUBSET S |-> IF s = {} THEN 0 ELSE b.entry[Some(s)].size + g[s \ {Some(s)}]]
  BY <1>4, <1>5
<1> QED
  BY <1>6 DEF IsSum

(* The order in which the elements are taken does not matter.              *)
LEMMA SumRemove ==
  ASSUME NEW b, NEW S, IsFiniteSet(S), NEW g, IsSum(b, S, g),
         \A x \in S : b.entry[x].size \in Nat
  PROVE  /\ g[{}] = 0
         /\ \A s \in SUBSET S : /\ g[s] \in Nat
                                /\ \A x \in s : g[s] = b.entry[x].size + g[s \ {x}]
<1> DEFINE f(x) == b.entry[x].size
           OK(s) == g[s] \in Nat /\ \A x \in s : g[s] = f(x) + g[s \ {x}]
           Bad == {n \in Nat : \E s \in SUBSET S : Cardinality(s) = n /\ ~OK(s)}
<1>1. \A s \in SUBSET S : IsFiniteSet(s) /\ Cardinality(s) \in Nat
  BY FS_Subset, FS_CardinalityType
<1>2. \A s \in SUBSET S : \A x \in s : s \ {x} \in SUBSET S /\ Cardinality(s \ {x}) = Cardinality(s) - 1
  BY <1>1, FS_RemoveElement
<1>3. \A s \in SUBSET S : g[s] = IF s = {} THEN 0 ELSE f(Some(s)) + g[s \ {Some(s)}]
  BY DEF IsSum
<1>4. \A s \in SUBSET S : s # {} => Some(s) \in s
  BY DEF Some
<1>5. \A x \in S : f(x) \in Nat
  OBVIOUS
<1> HIDE DEF f
<1>6. Bad = {}
  <2> SUFFICES ASSUME Bad # {} PROVE FALSE
    OBVIOUS
  <2>1. Bad \subseteq Nat
    OBVIOUS
  <2>2. PICK m \in Bad : \A i \in Bad : m <= i
    BY <2>1, LeastElement
  <2>3. PICK s \in SUBSET S : Cardinality(s) = m /\ ~OK(s)
    BY <2>2
  <2> SUFFICES OK(s)
    BY <2>3
  <2>4. ASSUME NEW x \in s PROVE OK(s \ {x}) /\ s \ {x} \in SUBSET S
    <3>1. s \ {x} \in SUBSET S /\ Cardinality(s \ {x}) = m - 1 /\ m \in Nat
      BY <1>2, <2>2, <2>3
    <3>2. Cardinality(s \ {x}) \in Nat
      BY <1>1, <3>1
    <3>3. m - 1 \notin Bad
      BY <2>2, <3>1
    <3> QED
      BY <3>1, <3>2, <3>3
  <2>5. CASE s = {}
    <3>1. g[s] = 0
      BY <1>3, <2>5
    <3> QED
      BY <2>5, <3>1
  <2>6. CASE s # {}
    <3> DEFINE c == Some(s)
    <3>1. c \in s /\ g[s] = f(c) + g[s \ {c}]
      BY <1>3, <1>4, <2>6
    <3> HIDE DEF c
    <3>2. g[s \ {c}] \in Nat /\ f(c) \in Nat /\ g[s] \in Nat
      <4>1. OK(s \ {c})
        BY <2>4, <3>1
      <4>2. g[s \ {c}] \in Nat /\ f(c) \in Nat
        BY <1>5, <3>1, <4>1
      <4> DEFINE u == g[s \ {c}]
                 v == f(c)
      <4>3. g[s] = v + u /\ u \in Nat /\ v \in Nat
        BY <3>1, <4>2
      <4> HIDE DEF u, v
      <4>4. g[s] \in Nat
        BY <4>3
      <4> QED
        BY <4>2, <4>4
    <3>3. ASSUME NEW x \in s PROVE g[s] = f(x) + g[s \ {x}]
      <4>1. CASE x = c
        BY <3>1, <4>1
      <4>2. CASE x # c
        <5>1. x \in s \ {c} /\ c \in s \ {x} /\ (s \ {c}) \ {x} = (s \ {x}) \ {c}
          BY <3>1, <4>2
        <5>2. g[s \ {c}] = f(x) + g[(s \ {c}) \ {x}]
          BY <2>4, <3>1, <5>1
        <5>3. g[s \ {x}] = f(c) + g[(s \ {x}) \ {c}]
          BY <2>4, <5>1
        <5> DEFINE r == g[(s \ {c}) \ {x}]
        <5>4. r \in Nat
          <6>1. (s \ {c}) \ {x} \in SUBSET S /\ Cardinality((s \ {c}) \ {x}) = (m - 1) - 1
            <7>1. s \ {c} \in SUBSET S /\ Cardinality(s \ {c}) = m - 1
              BY <1>2, <2>3, <3>1
            <7> QED
              BY <1>2, <5>1, <7>1
          <6>2. (m - 1) - 1 \in Nat /\ (m - 1) - 1 \notin Bad
            <7>1. (m - 1) - 1 \in Nat /\ m \in Nat
              BY <1>1, <2>2, <6>1
            <7> QED
              BY <2>2, <7>1
          <6> QED
            BY <6>1, <6>2
        <5>5. f(x) \in Nat /\ f(c) \in Nat
          BY <1>5, <3>1
        <5>6. g[s] = f(c) + (f(x) + r) /\ g[s \ {x}] = f(c) + r
          BY <3>1, <5>1, <5>2, <5>3
        <5> HIDE DEF r
        <5> QED
          BY <5>4, <5>5, <5>6
      <4> QED
        BY <4>1, <4>2
    <3> QED
      BY <3>2, <3>3
  <2> QED
    BY <2>5, <2>6
<1>7. \A s \in SUBSET S : OK(s)
  BY <1>1, <1>6
<1>8. g[{}] = 0
  BY <1>3
<1> QED
  BY <1>7, <1>8 DEF f

(* The slots of the k oldest entries.                                      *)
Visited(b, k) == {EntryPos(b, i) : i \in 0 .. k - 1}

(* A walk of MaxOps slots from any slot meets each one once.               *)
LEMMA VisitedSlots ==
  ASSUME NEW b, b.out_offs \in Slots
  PROVE  /\ Visited(b, 0) = {}
         /\ \A k \in Slots : /\ EntryPos(b, k) \in Visited(b, k + 1)
                             /\ Visited(b, k + 1) \ {EntryPos(b, k)} = Visited(b, k)
         /\ \A k \in 0 .. MaxOps : Visited(b, k) \subseteq Slots
         /\ Visited(b, MaxOps) = Slots
<1> DEFINE o == b.out_offs
<1>1. \A i \in Slots : /\ EntryPos(b, i) \in Slots
                       /\ EntryPos(b, i) = IF o + i < MaxOps THEN o + i ELSE o + i - MaxOps
  <2>1. ASSUME NEW i \in Slots PROVE i \in 0 .. MaxOps
    BY MaxOpsAssumption DEF Slots
  <2> QED
    BY <2>1, EntrySlot DEF EntryPos
<1>2. o \in Nat /\ o < MaxOps /\ MaxOps \in Nat
  BY MaxOpsAssumption DEF Slots
<1> HIDE DEF o
<1>3. \A i, j \in Slots : i # j => EntryPos(b, i) # EntryPos(b, j)
  BY <1>1, <1>2 DEF Slots
<1>4. \A s \in Slots : \E i \in Slots : EntryPos(b, i) = s
  <2> SUFFICES ASSUME NEW s \in Slots PROVE \E i \in Slots : EntryPos(b, i) = s
    OBVIOUS
  <2> DEFINE i == IF s < o THEN s + MaxOps - o ELSE s - o
  <2>1. i \in Slots /\ (IF o + i < MaxOps THEN o + i ELSE o + i - MaxOps) = s
    BY <1>2 DEF Slots
  <2> HIDE DEF i
  <2> QED
    BY <1>1, <2>1
<1>5. Visited(b, 0) = {}
  BY DEF Visited
<1>6. \A k \in 0 .. MaxOps : \A i \in 0 .. k - 1 : i \in Slots
  BY <1>2 DEF Slots
<1>7. ASSUME NEW k \in Slots
      PROVE  /\ EntryPos(b, k) \in Visited(b, k + 1)
             /\ Visited(b, k + 1) \ {EntryPos(b, k)} = Visited(b, k)
  <2>1. /\ \A i : i \in 0 .. (k + 1) - 1 <=> i \in 0 .. k - 1 \/ i = k
        /\ k \notin 0 .. k - 1
    BY <1>2 DEF Slots
  <2>2. \A i \in 0 .. k - 1 : i \in Slots /\ i # k
    BY <1>2 DEF Slots
  <2> QED
    BY <1>3, <2>1, <2>2 DEF Visited
<1>8. \A k \in 0 .. MaxOps : Visited(b, k) \subseteq Slots
  BY <1>1, <1>6 DEF Visited
<1>9. Visited(b, MaxOps) = Slots
  <2>1. 0 .. MaxOps - 1 = Slots
    BY DEF Slots
  <2> QED
    BY <1>1, <1>4, <2>1, ZenonT(60) DEF Visited
<1> QED
  BY <1>5, <1>7, <1>8, <1>9

(* The accumulating loop of length k adds the sizes of the slots it meets. *)
LEMMA VisitedSum ==
  ASSUME NEW b, b.out_offs \in Slots, \A s \in Slots : b.entry[s].size \in Nat,
         NEW g, IsSum(b, Slots, g)
  PROVE  BytesBefore(b, MaxOps) = g[Slots]
<1> DEFINE Bad == {k \in 0 .. MaxOps : BytesBefore(b, k) # g[Visited(b, k)]}
<1>1. MaxOps \in Nat /\ IsFiniteSet(Slots)
  BY MaxOpsAssumption, FS_Interval DEF Slots
<1>2. /\ g[{}] = 0
      /\ \A s \in SUBSET Slots : /\ g[s] \in Nat
                                 /\ \A x \in s : g[s] = b.entry[x].size + g[s \ {x}]
  BY <1>1, SumRemove
<1>3. Bad \subseteq Nat
  BY <1>1
<1>4. Bad = {}
  <2> SUFFICES ASSUME Bad # {} PROVE FALSE
    OBVIOUS
  <2>1. PICK m \in Bad : \A i \in Bad : m <= i
    BY <1>3, LeastElement
  <2>2. m \in Nat /\ m <= MaxOps /\ BytesBefore(b, m) # g[Visited(b, m)]
    BY <1>1, <2>1
  <2>3. CASE m = 0
    BY <1>2, <2>2, <2>3, VisitedSlots, BytesBeforeStep
  <2>4. CASE m # 0
    <3> DEFINE k == m - 1
    <3>1. k \in Nat /\ k \in Slots /\ k \in 0 .. MaxOps /\ k + 1 = m /\ m \in 0 .. MaxOps /\ ~(m <= k)
      BY <1>1, <2>2, <2>4 DEF Slots
    <3> HIDE DEF k
    <3>2. BytesBefore(b, k) = g[Visited(b, k)]
      BY <2>1, <3>1
    <3>3. BytesBefore(b, m) = BytesBefore(b, k) + SizeAt(b, k)
      BY <3>1, BytesBeforeStep
    <3>4. /\ EntryPos(b, k) \in Visited(b, m) /\ Visited(b, m) \in SUBSET Slots
          /\ Visited(b, m) \ {EntryPos(b, k)} = Visited(b, k)
      BY <3>1, VisitedSlots
    <3>5. g[Visited(b, m)] = b.entry[EntryPos(b, k)].size + g[Visited(b, k)]
      BY <1>2, <3>4
    <3>6. b.entry[EntryPos(b, k)].size = SizeAt(b, k)
      BY DEF SizeAt
    <3>7. SizeAt(b, k) \in Nat
      BY <3>4, <3>6
    <3>8. g[Visited(b, k)] \in Nat
      BY <1>2, <3>1, VisitedSlots
    <3> DEFINE u == g[Visited(b, k)]
               v == SizeAt(b, k)
    <3>9. u \in Nat /\ v \in Nat /\ BytesBefore(b, m) = u + v /\ g[Visited(b, m)] = v + u
      BY <3>2, <3>3, <3>5, <3>6, <3>7, <3>8
    <3> HIDE DEF u, v
    <3> QED
      BY <2>2, <3>9
  <2> QED
    BY <2>3, <2>4
<1>5. MaxOps \in 0 .. MaxOps
  BY <1>1
<1> QED
  BY <1>4, <1>5, VisitedSlots

(* The slots that are not counted are cleared, and have no bytes.          *)
LEMMA UncountedEmpty ==
  ASSUME NEW b, WellFormed(b, Entry)
  PROVE  BytesBefore(b, MaxOps) = BytesBefore(b, Count(b))
<1>1. MaxOps \in Nat /\ b.in_offs \in Slots /\ b.full \in BOOLEAN
  BY MaxOpsAssumption DEF WellFormed, BufferType
<1>2. CASE b.full
  BY <1>2 DEF Count
<1>3. CASE ~b.full
  <2> DEFINE c == b.in_offs
             Bad == {k \in c .. MaxOps : BytesBefore(b, k) # BytesBefore(b, c)}
  <2>1. Count(b) = c /\ b.out_offs = 0 /\ c \in Nat /\ c <= MaxOps
    BY <1>1, <1>3 DEF Count, WellFormed, RingShape, Slots
  <2>2. ASSUME NEW i \in Slots, c <= i PROVE SizeAt(b, i) = 0
    <3>1. EntryPos(b, i) = i
      <4>1. 0 + i = i
        BY <2>2 DEF Slots
      <4> QED
        BY <2>1, <4>1, ModBelow DEF EntryPos
    <3>2. b.entry[i] = ZeroEntry
      <4>1. ~(i < c)
        BY <2>1, <2>2 DEF Slots
      <4> QED
        BY <1>3, <4>1 DEF WellFormed, RingShape
    <3> QED
      BY <3>1, <3>2, EntryAssumption DEF SizeAt
  <2> HIDE DEF c
  <2>3. WellFormed(b, Entry) /\ Sized(Entry) /\ BytesBefore(b, c) \in Nat
    <3>1. Sized(Entry)
      BY EntryAssumption DEF Sized
    <3>2. c \in 0 .. Count(b)
      BY <2>1
    <3> QED
      BY <3>1, <3>2, BytesBeforeNat
  <2>4. Bad = {}
    <3> SUFFICES ASSUME Bad # {} PROVE FALSE
      OBVIOUS
    <3>1. Bad \subseteq Nat
      BY <1>1, <2>1
    <3>2. PICK m \in Bad : \A i \in Bad : m <= i
      BY <3>1, LeastElement
    <3>3. m \in Nat /\ c <= m /\ m <= MaxOps /\ BytesBefore(b, m) # BytesBefore(b, c)
      BY <1>1, <2>1, <3>2
    <3> DEFINE k == m - 1
    <3>4. m # c
      BY <3>3
    <3>5. /\ k \in Nat /\ k \in Slots /\ c <= k /\ k \in c .. MaxOps /\ k + 1 = m /\ ~(m <= k)
      BY <1>1, <2>1, <3>3, <3>4 DEF Slots
    <3> HIDE DEF k
    <3>6. BytesBefore(b, k) = BytesBefore(b, c)
      BY <3>2, <3>5
    <3>7. BytesBefore(b, m) = BytesBefore(b, k) + SizeAt(b, k) /\ SizeAt(b, k) = 0
      BY <2>2, <3>5, BytesBeforeStep
    <3> DEFINE u == BytesBefore(b, c)
    <3>8. BytesBefore(b, m) = u + 0 /\ u \in Nat
      BY <2>3, <3>6, <3>7
    <3> HIDE DEF u
    <3>9. BytesBefore(b, m) = u
      BY <3>8
    <3> QED
      BY <3>3, <3>9 DEF u
  <2>5. MaxOps \in c .. MaxOps
    BY <1>1, <2>1
  <2> QED
    BY <2>1, <2>4, <2>5
<1> QED
  BY <1>2, <1>3

(***************************************************************************)
(* aesd_circular_buffer_calculate_size returns the bytes of all slots, for *)
(* a ring that starts anywhere: each slot that holds an entry is counted   *)
(* once, and the ones that are not counted are empty.                      *)
(***************************************************************************)
THEOREM SizeIsCorrect == Spec => []SizeIsTotal
<1>1. IInv => SizeIsTotal
  <2> SUFFICES ASSUME IInv PROVE SizeIsTotal
    OBVIOUS
  <2>1. WellFormed(buffer, Entry)
    BY InvWellFormed
  <2>2. IsFiniteSet(Slots)
    BY MaxOpsAssumption, FS_Interval DEF Slots
  <2>3. PICK g : /\ IsSum(buffer, Slots, g)
                 /\ SumOf(buffer, Slots) = g[Slots]
    <3>1. \E g : IsSum(buffer, Slots, g)
      BY <2>2, SumExists
    <3> QED
      BY <3>1, SumIs
  <2>4. buffer.out_offs \in Slots /\ \A s \in Slots : buffer.entry[s].size \in Nat
    <3>1. ASSUME NEW s \in Slots PROVE buffer.entry[s].size \in Nat
      <4>1. buffer.entry[s] \in Entry \cup {ZeroEntry}
        BY <2>1, <3>1 DEF WellFormed, BufferType
      <4> QED
        BY <4>1, EntryAssumption
    <3> QED
      BY <2>1, <3>1 DEF WellFormed, BufferType
  <2>5. BytesBefore(buffer, MaxOps) = g[Slots]
    BY <2>3, <2>4, VisitedSum
  <2>6. aesd_circular_buffer_calculate_size(buffer) = BytesBefore(buffer, MaxOps)
    BY <2>1, UncountedEmpty DEF aesd_circular_buffer_calculate_size
  <2> QED
    BY <2>3, <2>5, <2>6 DEF SizeIsTotal, SumOf
<1> QED
  BY <1>1, IInvHolds, PTL
=============================================================================
