------------------------ MODULE CircularBufferLemmas ------------------------
(***************************************************************************)
(* Lemmas about the operators of AesdCircularBuffer, for every MaxOps from *)
(* 1 to 255, every set E of entries and every well-formed buffer b; and    *)
(* about FlattenSeq, which says what the bytes of the entries are together.*)
(***************************************************************************)
EXTENDS AesdCircularBuffer, SequencesExt, SequenceTheorems, WellFoundedInduction, TLAPS

(* Indices below MaxOps are their own slot.                                *)
LEMMA ModBelow == \A k \in Slots : k % MaxOps = k
BY MaxOpsAssumption DEF Slots

(* One turn around the ring takes MaxOps off an index.                     *)
LEMMA ModWrapped == \A k \in MaxOps .. 2 * MaxOps - 1 : k % MaxOps = k - MaxOps
BY MaxOpsAssumption

(* The slot of the i-th entry from slot o on, without the modulo.          *)
LEMMA EntrySlot ==
  ASSUME NEW o \in Slots, NEW i \in 0 .. MaxOps
  PROVE  /\ (o + i) % MaxOps \in Slots
         /\ (o + i) % MaxOps = IF o + i < MaxOps THEN o + i ELSE o + i - MaxOps
<1>1. CASE o + i < MaxOps
  BY <1>1, ModBelow, MaxOpsAssumption DEF Slots
<1>2. CASE ~(o + i < MaxOps)
  BY <1>2, ModWrapped, MaxOpsAssumption DEF Slots
<1> QED
  BY <1>1, <1>2

WellFormed(b, E) == b \in BufferType(E) /\ RingShape(b, E)

(* aesd_circular_buffer_init returns a well-formed, empty buffer.          *)
LEMMA InitWellFormed ==
  ASSUME NEW E
  PROVE  WellFormed(aesd_circular_buffer_init, E)
BY MaxOpsAssumption
DEF WellFormed, BufferType, RingShape, aesd_circular_buffer_init, Slots

(* The assignments of aesd_circular_buffer_add_entry, field by field.      *)
LEMMA AddEntryFields ==
  ASSUME NEW E, NEW b, WellFormed(b, E), NEW e \in E, NEW d,
         d = aesd_circular_buffer_add_entry(b, e)
  PROVE  /\ d \in BufferType(E)
         /\ d.entry = [b.entry EXCEPT ![b.in_offs] = e]
         /\ d.in_offs = IF b.in_offs + 1 = MaxOps THEN 0 ELSE b.in_offs + 1
         /\ d.out_offs = IF b.full THEN d.in_offs ELSE 0
         /\ d.full = (b.full \/ b.in_offs + 1 = MaxOps)
<1> DEFINE next  == (b.in_offs + 1) % MaxOps
           first == IF b.full THEN next ELSE b.out_offs
<1>1. /\ b.in_offs \in Slots /\ b.out_offs \in Slots /\ b.full \in BOOLEAN
      /\ b.entry \in [Slots -> E \cup {ZeroEntry}]
      /\ ~b.full => b.out_offs = 0
  BY DEF WellFormed, BufferType, RingShape
<1>2. /\ next \in Slots
      /\ next = IF b.in_offs + 1 = MaxOps THEN 0 ELSE b.in_offs + 1
  <2>1. 1 \in 0 .. MaxOps
    BY MaxOpsAssumption
  <2>2. /\ next \in Slots
        /\ next = IF b.in_offs + 1 < MaxOps THEN b.in_offs + 1 ELSE b.in_offs + 1 - MaxOps
    BY <1>1, <2>1, EntrySlot
  <2> QED
    BY <1>1, <2>2, MaxOpsAssumption DEF Slots
<1>3. d = [entry |-> [b.entry EXCEPT ![b.in_offs] = e],
           in_offs |-> next, out_offs |-> first,
           full |-> b.full \/ next = first]
  BY DEF aesd_circular_buffer_add_entry
<1> HIDE DEF next
<1>4. d \in BufferType(E)
  BY <1>1, <1>2, <1>3 DEF BufferType
<1>5. ~b.full => (next = first <=> b.in_offs + 1 = MaxOps)
  BY <1>1, <1>2, MaxOpsAssumption DEF Slots
<1> QED
  BY <1>1, <1>2, <1>3, <1>4, <1>5

(* add_entry takes a well-formed buffer to a well-formed buffer.           *)
LEMMA AddEntryWellFormed ==
  ASSUME NEW E, NEW b, WellFormed(b, E), NEW e \in E
  PROVE  WellFormed(aesd_circular_buffer_add_entry(b, e), E)
<1> DEFINE d == aesd_circular_buffer_add_entry(b, e)
<1>1. /\ d \in BufferType(E)
      /\ d.entry = [b.entry EXCEPT ![b.in_offs] = e]
      /\ d.in_offs = IF b.in_offs + 1 = MaxOps THEN 0 ELSE b.in_offs + 1
      /\ d.out_offs = IF b.full THEN d.in_offs ELSE 0
      /\ d.full = (b.full \/ b.in_offs + 1 = MaxOps)
  BY AddEntryFields
<1>2. /\ b.in_offs \in Slots /\ b.full \in BOOLEAN
      /\ b.entry \in [Slots -> E \cup {ZeroEntry}]
      /\ RingShape(b, E)
  BY DEF WellFormed, BufferType
<1> HIDE DEF d
<1>3. ASSUME NEW s \in Slots
      PROVE  IF d.full \/ s < d.in_offs
             THEN d.entry[s] \in E
             ELSE d.entry[s] = ZeroEntry
  <2>1. d.entry[s] = IF s = b.in_offs THEN e ELSE b.entry[s]
    BY <1>1, <1>2
  <2>2. IF b.full \/ s < b.in_offs THEN b.entry[s] \in E ELSE b.entry[s] = ZeroEntry
    BY <1>2 DEF RingShape
  <2>3. d.full \/ s < d.in_offs <=> b.full \/ s < b.in_offs \/ s = b.in_offs
    <3>1. CASE b.full
      BY <1>1, <3>1
    <3>2. CASE ~b.full /\ b.in_offs + 1 = MaxOps
      <4>1. d.full
        BY <1>1, <3>2
      <4>2. s < b.in_offs \/ s = b.in_offs
        BY <1>2, <3>2, MaxOpsAssumption DEF Slots
      <4> QED
        BY <4>1, <4>2
    <3>3. CASE ~b.full /\ b.in_offs + 1 # MaxOps
      <4>1. ~d.full /\ d.in_offs = b.in_offs + 1
        BY <1>1, <3>3
      <4> QED
        BY <1>2, <3>3, <4>1, MaxOpsAssumption DEF Slots
    <3> QED
      BY <1>2, <3>1, <3>2, <3>3
  <2> QED
    BY <2>1, <2>2, <2>3
<1>4. RingShape(d, E)
  BY <1>1, <1>2, <1>3 DEF RingShape
<1> QED
  BY <1>1, <1>4 DEF WellFormed, d

(* The contents of a well-formed buffer are a sequence of Count entries,   *)
(* none of them a cleared slot.                                            *)
LEMMA ContentsSeq ==
  ASSUME NEW E, NEW b, WellFormed(b, E)
  PROVE  /\ Count(b) \in 0 .. MaxOps
         /\ Contents(b) \in Seq(E)
         /\ Len(Contents(b)) = Count(b)
         /\ \A i \in 1 .. Count(b) :
              Contents(b)[i] = b.entry[IF b.out_offs + i - 1 < MaxOps
                                       THEN b.out_offs + i - 1
                                       ELSE b.out_offs + i - 1 - MaxOps]
<1>1. /\ b.in_offs \in Slots /\ b.out_offs \in Slots /\ b.full \in BOOLEAN
      /\ RingShape(b, E)
  BY DEF WellFormed, BufferType
<1>2. Count(b) \in 0 .. MaxOps
  BY <1>1, MaxOpsAssumption DEF Count, Slots
<1>3. ASSUME NEW i \in 1 .. Count(b)
      PROVE  /\ b.entry[EntryPos(b, i - 1)] \in E
             /\ EntryPos(b, i - 1) = IF b.out_offs + i - 1 < MaxOps
                                     THEN b.out_offs + i - 1
                                     ELSE b.out_offs + i - 1 - MaxOps
  <2>1. i - 1 \in 0 .. MaxOps
    BY <1>2, MaxOpsAssumption
  <2>2. /\ EntryPos(b, i - 1) \in Slots
        /\ EntryPos(b, i - 1) = IF b.out_offs + (i - 1) < MaxOps
                                THEN b.out_offs + (i - 1)
                                ELSE b.out_offs + (i - 1) - MaxOps
    BY <1>1, <2>1, EntrySlot DEF EntryPos
  <2>3. b.full \/ EntryPos(b, i - 1) < b.in_offs
    BY <1>1, <1>2, <2>2, MaxOpsAssumption DEF RingShape, Count, Slots
  <2> QED
    BY <1>1, <1>2, <2>2, <2>3, MaxOpsAssumption DEF RingShape, Slots
<1>4. Contents(b) \in [1 .. Count(b) -> E]
  BY <1>3 DEF Contents
<1> QED
  BY <1>2, <1>3, <1>4 DEF Contents

(***************************************************************************)
(* One call of add_entry on the contents: until the buffer is full the new *)
(* entry goes behind the last one; once it is full, every entry moves one  *)
(* place towards the front and the oldest is lost.                         *)
(***************************************************************************)
LEMMA AddEntryContents ==
  ASSUME NEW E, NEW b, WellFormed(b, E), NEW e \in E
  PROVE  Contents(aesd_circular_buffer_add_entry(b, e)) =
           Append(IF Len(Contents(b)) < MaxOps
                  THEN Contents(b) ELSE Tail(Contents(b)), e)
<1> DEFINE d == aesd_circular_buffer_add_entry(b, e)
           C == Contents(b)
           D == Contents(d)
           kept == IF Len(C) < MaxOps THEN C ELSE Tail(C)
<1>1. /\ d.entry = [b.entry EXCEPT ![b.in_offs] = e]
      /\ d.in_offs = IF b.in_offs + 1 = MaxOps THEN 0 ELSE b.in_offs + 1
      /\ d.out_offs = IF b.full THEN d.in_offs ELSE 0
      /\ d.full = (b.full \/ b.in_offs + 1 = MaxOps)
  BY AddEntryFields
<1>2. /\ b.in_offs \in Slots /\ b.out_offs \in Slots /\ b.full \in BOOLEAN
      /\ b.entry \in [Slots -> E \cup {ZeroEntry}]
      /\ b.full => b.in_offs = b.out_offs
      /\ ~b.full => b.out_offs = 0
  BY DEF WellFormed, BufferType, RingShape
<1>3. WellFormed(d, E)
  BY AddEntryWellFormed
<1> HIDE DEF d
<1>4. /\ C \in Seq(E) /\ Len(C) = Count(b)
      /\ \A i \in 1 .. Count(b) :
           C[i] = b.entry[IF b.out_offs + i - 1 < MaxOps
                          THEN b.out_offs + i - 1 ELSE b.out_offs + i - 1 - MaxOps]
  BY ContentsSeq
<1>5. /\ D \in Seq(E) /\ Len(D) = Count(d)
      /\ \A i \in 1 .. Count(d) :
           D[i] = d.entry[IF d.out_offs + i - 1 < MaxOps
                          THEN d.out_offs + i - 1 ELSE d.out_offs + i - 1 - MaxOps]
  BY <1>3, ContentsSeq
<1> HIDE DEF C, D
<1>6. CASE ~b.full
  <2>1. Count(b) = b.in_offs /\ Count(d) = b.in_offs + 1 /\ d.out_offs = 0
    BY <1>1, <1>2, <1>6, MaxOpsAssumption DEF Count, Slots
  <2>2. kept = C
    BY <1>2, <1>4, <2>1, MaxOpsAssumption DEF Slots
  <2>3. /\ Append(C, e) \in Seq(E) /\ Len(Append(C, e)) = b.in_offs + 1
        /\ \A i \in 1 .. b.in_offs + 1 :
             Append(C, e)[i] = IF i = b.in_offs + 1 THEN e ELSE C[i]
    BY <1>2, <1>4, <2>1 DEF Slots
  <2>4. ASSUME NEW i \in 1 .. b.in_offs + 1 PROVE D[i] = Append(C, e)[i]
    <3>1. /\ i - 1 \in Slots /\ 0 + i - 1 = i - 1 /\ i - 1 < MaxOps
          /\ i - 1 = b.in_offs <=> i = b.in_offs + 1
      BY <1>2, MaxOpsAssumption DEF Slots
    <3>2. D[i] = d.entry[i - 1]
      <4>1. i \in 1 .. Count(d)
        BY <2>1
      <4> QED
        BY <1>5, <2>1, <3>1, <4>1
    <3>3. i # b.in_offs + 1 => C[i] = b.entry[i - 1]
      <4>1. SUFFICES ASSUME i # b.in_offs + 1 PROVE C[i] = b.entry[i - 1]
        OBVIOUS
      <4>2. i \in 1 .. Count(b)
        BY <1>2, <2>1, <4>1, MaxOpsAssumption DEF Slots
      <4> QED
        BY <1>2, <1>4, <1>6, <3>1, <4>2
    <3>4. d.entry[i - 1] = IF i = b.in_offs + 1 THEN e ELSE b.entry[i - 1]
      BY <1>1, <1>2, <3>1
    <3> QED
      BY <2>3, <3>2, <3>3, <3>4
  <2>5. D = Append(C, e)
    BY <1>5, <2>1, <2>3, <2>4, SeqEqual
  <2> QED
    BY <2>2, <2>5 DEF C, D, d
<1>7. CASE b.full
  <2>1. Count(b) = MaxOps /\ Count(d) = MaxOps /\ d.out_offs = d.in_offs
    BY <1>1, <1>7 DEF Count
  <2>2. kept = Tail(C)
    BY <1>4, <2>1, MaxOpsAssumption
  <2>3. /\ C # << >> /\ Tail(C) \in Seq(E) /\ Len(Tail(C)) = MaxOps - 1
        /\ \A i \in 1 .. MaxOps - 1 : Tail(C)[i] = C[i + 1]
    <3>1. C \in Seq(E) /\ Len(C) = MaxOps
      BY <1>4, <2>1
    <3>2. C # << >>
      BY <3>1, MaxOpsAssumption
    <3>3. /\ Tail(C) \in Seq(E) /\ Len(Tail(C)) = Len(C) - 1
          /\ \A i \in 1 .. Len(Tail(C)) : Tail(C)[i] = C[i + 1]
      BY <3>1, <3>2, HeadTailProperties
    <3> QED
      BY <3>1, <3>2, <3>3
  <2>4. /\ Append(Tail(C), e) \in Seq(E) /\ Len(Append(Tail(C), e)) = MaxOps
        /\ \A i \in 1 .. MaxOps :
             Append(Tail(C), e)[i] = IF i = MaxOps THEN e ELSE C[i + 1]
    BY <2>3, MaxOpsAssumption
  <2>5. ASSUME NEW i \in 1 .. MaxOps PROVE D[i] = Append(Tail(C), e)[i]
    <3> DEFINE s == IF d.out_offs + i - 1 < MaxOps
                    THEN d.out_offs + i - 1 ELSE d.out_offs + i - 1 - MaxOps
    <3>1. D[i] = d.entry[s]
      BY <1>5, <2>1
    <3>2. s \in Slots /\ (s = b.in_offs <=> i = MaxOps)
      BY <1>1, <1>2, <2>1, MaxOpsAssumption DEF Slots
    <3>3. i # MaxOps => C[i + 1] = b.entry[s]
      <4>1. SUFFICES ASSUME i # MaxOps PROVE C[i + 1] = b.entry[s]
        OBVIOUS
      <4>2. i + 1 \in 1 .. Count(b)
        BY <2>1, <4>1, MaxOpsAssumption
      <4>3. s = IF b.out_offs + (i + 1) - 1 < MaxOps
                THEN b.out_offs + (i + 1) - 1 ELSE b.out_offs + (i + 1) - 1 - MaxOps
        <5>1. /\ b.out_offs \in 0 .. MaxOps - 1 /\ b.in_offs = b.out_offs
              /\ d.out_offs = IF b.in_offs + 1 = MaxOps THEN 0 ELSE b.in_offs + 1
          BY <1>1, <1>2, <1>7 DEF Slots
        <5>2. CASE b.out_offs + 1 = MaxOps
          BY <4>1, <5>1, <5>2, MaxOpsAssumption
        <5>3. CASE b.out_offs + 1 # MaxOps
          BY <4>1, <5>1, <5>3, MaxOpsAssumption
        <5> QED
          BY <5>2, <5>3
      <4> QED
        BY <1>4, <4>2, <4>3
    <3> QED
      BY <1>1, <1>2, <2>4, <3>1, <3>2, <3>3
  <2>6. D = Append(Tail(C), e)
    BY <1>5, <2>1, <2>4, <2>5, SeqEqual
  <2> QED
    BY <2>2, <2>6 DEF C, D, d
<1> QED
  BY <1>2, <1>6, <1>7
-----------------------------------------------------------------------------
(* Loops over the entries.  A set of naturals has a least element: what a  *)
(* loop computes holds for every index, as there is no least exception.    *)

Less == {p \in Nat \X Nat : p[1] < p[2]}

LEMMA LeastElement ==
  ASSUME NEW S, S \subseteq Nat, S # {}
  PROVE  \E n \in S : \A m \in S : n <= m
<1>1. IsWellFoundedOn(Less, Nat)
  BY NatLessThanWellFounded, Zenon DEF OpToRel, Less
<1>2. PICK n \in S : \A m \in S : <<m, n>> \notin Less
  BY <1>1, WFMin
<1>3. \A m \in S : ~(m < n)
  BY <1>2 DEF Less
<1> QED
  BY <1>2, <1>3

(* The values of the accumulating loop after 0 to k turns.                 *)
IsTotal(b, g, k) ==
  g = [i \in 0 .. k |-> IF i = 0 THEN 0 ELSE g[i - 1] + SizeAt(b, i - 1)]

LEMMA TotalExists ==
  ASSUME NEW b, NEW k \in Nat
  PROVE  \E g : IsTotal(b, g, k)
<1> DEFINE Bad == {i \in Nat : ~ \E g : IsTotal(b, g, i)}
<1> SUFFICES ASSUME Bad # {} PROVE FALSE
  OBVIOUS
<1>1. PICK m \in Bad : \A i \in Bad : m <= i
  BY LeastElement
<1>2. CASE m = 0
  <2> DEFINE g == [i \in 0 .. 0 |-> 0]
  <2>1. IsTotal(b, g, 0)
    BY DEF IsTotal
  <2> QED
    BY <1>1, <1>2, <2>1
<1>3. CASE m # 0
  <2>1. m - 1 \in Nat /\ m - 1 \notin Bad
    BY <1>1, <1>3
  <2>2. PICK g : IsTotal(b, g, m - 1)
    BY <2>1
  <2> DEFINE h == [i \in 0 .. m |-> IF i = m THEN g[m - 1] + SizeAt(b, m - 1) ELSE g[i]]
  <2>3. IsTotal(b, h, m)
    BY <1>1, <1>3, <2>2 DEF IsTotal
  <2> QED
    BY <1>1, <2>3
<1> QED
  BY <1>2, <1>3

LEMMA TotalUnique ==
  ASSUME NEW b, NEW k \in Nat, NEW l \in Nat, NEW g, IsTotal(b, g, k), NEW h, IsTotal(b, h, l),
         NEW i \in 0 .. k, i <= l
  PROVE  g[i] = h[i]
<1> DEFINE Bad == {j \in 0 .. i : g[j] # h[j]}
<1> SUFFICES ASSUME Bad # {} PROVE FALSE
  OBVIOUS
<1>0. Bad \subseteq Nat
  OBVIOUS
<1>1. PICK m \in Bad : \A j \in Bad : m <= j
  BY <1>0, LeastElement
<1>2. /\ \A j \in 0 .. k : g[j] = IF j = 0 THEN 0 ELSE g[j - 1] + SizeAt(b, j - 1)
      /\ \A j \in 0 .. l : h[j] = IF j = 0 THEN 0 ELSE h[j - 1] + SizeAt(b, j - 1)
  BY DEF IsTotal
<1>3. m # 0 => m - 1 \in 0 .. i /\ m - 1 \notin Bad
  BY <1>1
<1> QED
  BY <1>1, <1>2, <1>3

LEMMA BytesBeforeIs ==
  ASSUME NEW b, NEW k \in Nat
  PROVE  \E g : IsTotal(b, g, k) /\ BytesBefore(b, k) = g[k]
<1> DEFINE g == CHOOSE t : t = [i \in 0 .. k |-> IF i = 0 THEN 0 ELSE t[i - 1] + SizeAt(b, i - 1)]
<1>1. \E t : t = [i \in 0 .. k |-> IF i = 0 THEN 0 ELSE t[i - 1] + SizeAt(b, i - 1)]
  BY TotalExists DEF IsTotal
<1>2. IsTotal(b, g, k)
  BY <1>1 DEF IsTotal
<1>3. BytesBefore(b, k) = g[k]
  BY DEF BytesBefore
<1> QED
  BY <1>2, <1>3

(* The loop of calculate_size adds one entry at a time.                    *)
LEMMA BytesBeforeStep ==
  ASSUME NEW b
  PROVE  /\ BytesBefore(b, 0) = 0
         /\ \A k \in Nat : BytesBefore(b, k + 1) = BytesBefore(b, k) + SizeAt(b, k)
<1>1. BytesBefore(b, 0) = 0
  BY BytesBeforeIs DEF IsTotal
<1>2. ASSUME NEW k \in Nat PROVE BytesBefore(b, k + 1) = BytesBefore(b, k) + SizeAt(b, k)
  <2>1. PICK g : IsTotal(b, g, k) /\ BytesBefore(b, k) = g[k]
    BY BytesBeforeIs
  <2>2. PICK h : IsTotal(b, h, k + 1) /\ BytesBefore(b, k + 1) = h[k + 1]
    BY BytesBeforeIs
  <2>3. h[k + 1] = h[k] + SizeAt(b, k)
    BY <2>2 DEF IsTotal
  <2>4. g[k] = h[k]
    BY <2>1, <2>2, TotalUnique
  <2> QED
    BY <2>1, <2>2, <2>3, <2>4
<1> QED
  BY <1>1, <1>2

(* The sizes of the entries of a buffer, and the bytes before each one.    *)
Sized(E) == \A e \in E : e.size \in Nat

LEMMA EntrySizes ==
  ASSUME NEW E, NEW b, WellFormed(b, E), Sized(E)
  PROVE  /\ Count(b) \in 0 .. MaxOps
         /\ \A i \in 0 .. Count(b) - 1 : /\ SizeAt(b, i) \in Nat
                                         /\ EntryPos(b, i) \in Slots
                                         /\ b.entry[EntryPos(b, i)] \in E
                                         /\ Contents(b)[i + 1] = b.entry[EntryPos(b, i)]
<1>1. /\ Count(b) \in 0 .. MaxOps /\ Contents(b) \in Seq(E) /\ Len(Contents(b)) = Count(b)
  BY ContentsSeq
<1>2. ASSUME NEW i \in 0 .. Count(b) - 1
      PROVE  /\ EntryPos(b, i) \in Slots /\ b.entry[EntryPos(b, i)] \in E
             /\ Contents(b)[i + 1] = b.entry[EntryPos(b, i)]
  <2>1. i + 1 \in 1 .. Count(b) /\ (i + 1) - 1 = i /\ i \in 0 .. MaxOps
    BY <1>1, MaxOpsAssumption
  <2>2. Contents(b)[i + 1] = b.entry[EntryPos(b, i)]
    BY <2>1 DEF Contents
  <2>3. Contents(b)[i + 1] \in E
    BY <1>1, <2>1, ElementOfSeq
  <2>4. EntryPos(b, i) \in Slots
    BY <2>1, EntrySlot DEF EntryPos, WellFormed, BufferType
  <2> QED
    BY <2>2, <2>3, <2>4
<1>3. \A i \in 0 .. Count(b) - 1 : SizeAt(b, i) \in Nat
  BY <1>2 DEF SizeAt, Sized
<1> QED
  BY <1>1, <1>2, <1>3

LEMMA BytesBeforeNat ==
  ASSUME NEW E, NEW b, WellFormed(b, E), Sized(E)
  PROVE  \A k \in 0 .. Count(b) : BytesBefore(b, k) \in Nat
<1> DEFINE Bad == {k \in 0 .. Count(b) : BytesBefore(b, k) \notin Nat}
<1>0. Count(b) \in Nat /\ \A i \in 0 .. Count(b) - 1 : SizeAt(b, i) \in Nat
  BY EntrySizes
<1> SUFFICES ASSUME Bad # {} PROVE FALSE
  OBVIOUS
<1>1. Bad \subseteq Nat
  BY <1>0
<1>2. PICK m \in Bad : \A k \in Bad : m <= k
  BY <1>1, LeastElement
<1>3. m # 0
  BY <1>2, BytesBeforeStep
<1>4. m - 1 \in 0 .. Count(b) /\ m - 1 \notin Bad /\ m - 1 \in 0 .. Count(b) - 1 /\ m - 1 \in Nat
  BY <1>0, <1>2, <1>3
<1>5. BytesBefore(b, (m - 1) + 1) = BytesBefore(b, m - 1) + SizeAt(b, m - 1)
  BY <1>4, BytesBeforeStep
<1>6. (m - 1) + 1 = m
  BY <1>1, <1>2
<1> QED
  BY <1>0, <1>2, <1>4, <1>5, <1>6

LEMMA BytesBeforeGrows ==
  ASSUME NEW E, NEW b, WellFormed(b, E), Sized(E), NEW i \in 0 .. Count(b), NEW j \in i .. Count(b)
  PROVE  BytesBefore(b, i) <= BytesBefore(b, j)
<1> DEFINE Bad == {k \in i .. Count(b) : BytesBefore(b, i) > BytesBefore(b, k)}
<1>0. /\ Count(b) \in Nat /\ \A k \in 0 .. Count(b) - 1 : SizeAt(b, k) \in Nat
      /\ \A k \in 0 .. Count(b) : BytesBefore(b, k) \in Nat
  BY EntrySizes, BytesBeforeNat
<1> SUFFICES ASSUME Bad # {} PROVE FALSE
  BY <1>0
<1>1. Bad \subseteq Nat
  BY <1>0
<1>2. PICK m \in Bad : \A k \in Bad : m <= k
  BY <1>1, LeastElement
<1>3. m # i
  BY <1>0, <1>2
<1>4. /\ m - 1 \in i .. Count(b) /\ m - 1 \notin Bad /\ m - 1 \in Nat
      /\ m - 1 \in 0 .. Count(b) - 1 /\ (m - 1) + 1 = m
  BY <1>0, <1>2, <1>3
<1>5. BytesBefore(b, (m - 1) + 1) = BytesBefore(b, m - 1) + SizeAt(b, m - 1)
  BY <1>4, BytesBeforeStep
<1> QED
  BY <1>0, <1>2, <1>4, <1>5
(* k entries of at most m bytes have at most k * m bytes.                  *)
LEMMA BytesBeforeBound ==
  ASSUME NEW E, NEW b, WellFormed(b, E), NEW m \in Nat, \A e \in E : e.size \in 0 .. m,
         NEW k \in 0 .. Count(b)
  PROVE  BytesBefore(b, k) <= k * m
<1> DEFINE Bad == {i \in 0 .. Count(b) : BytesBefore(b, i) > i * m}
<1>1. Sized(E)
  BY DEF Sized
<1>2. /\ Count(b) \in Nat
      /\ \A i \in 0 .. Count(b) - 1 : SizeAt(b, i) \in 0 .. m
      /\ \A i \in 0 .. Count(b) : BytesBefore(b, i) \in Nat
  <2>1. \A i \in 0 .. Count(b) - 1 : b.entry[EntryPos(b, i)] \in E
    BY <1>1, EntrySizes
  <2> QED
    BY <1>1, <2>1, EntrySizes, BytesBeforeNat DEF SizeAt
<1> SUFFICES ASSUME Bad # {} PROVE FALSE
  BY <1>2
<1>3. Bad \subseteq Nat
  BY <1>2
<1>4. PICK i \in Bad : \A j \in Bad : i <= j
  BY <1>3, LeastElement
<1>5. i # 0
  BY <1>2, <1>4, BytesBeforeStep
<1>6. /\ i - 1 \in 0 .. Count(b) /\ i - 1 \notin Bad /\ i - 1 \in Nat
      /\ i - 1 \in 0 .. Count(b) - 1 /\ (i - 1) + 1 = i
  BY <1>2, <1>4, <1>5
<1>7. BytesBefore(b, (i - 1) + 1) = BytesBefore(b, i - 1) + SizeAt(b, i - 1)
  BY <1>6, BytesBeforeStep
<1>8. i * m = (i - 1) * m + m
  BY <1>3, <1>4
<1>9. BytesBefore(b, i - 1) <= (i - 1) * m /\ SizeAt(b, i - 1) <= m /\ SizeAt(b, i - 1) \in Nat
      /\ BytesBefore(b, i - 1) \in Nat /\ (i - 1) * m \in Nat /\ i * m \in Nat
  BY <1>2, <1>6
<1> QED
  BY <1>4, <1>6, <1>7, <1>8, <1>9
-----------------------------------------------------------------------------
(* The search.                                                             *)

(* A table of the search from entry m on, for every rest of the offset.    *)
IsWalk(b, g, m) ==
  g = [i \in m .. Count(b) |->
         [remaining \in Nat |->
            IF i = Count(b) THEN NULL
            ELSE IF remaining < SizeAt(b, i)
                 THEN [slot |-> EntryPos(b, i), offset |-> remaining]
                 ELSE g[i + 1][remaining - SizeAt(b, i)]]]

LEMMA WalkExists ==
  ASSUME NEW b, Count(b) \in Nat, NEW k \in 0 .. Count(b)
  PROVE  \E g : IsWalk(b, g, Count(b) - k)
<1> DEFINE n == Count(b)
           Bad == {i \in 0 .. n : ~ \E g : IsWalk(b, g, n - i)}
<1>0. n \in Nat
  OBVIOUS
<1> HIDE DEF n
<1> SUFFICES ASSUME Bad # {} PROVE FALSE
  BY DEF n
<1>1. Bad \subseteq Nat
  BY <1>0
<1>2. PICK m \in Bad : \A i \in Bad : m <= i
  BY <1>1, LeastElement
<1>3. CASE m = 0
  <2> DEFINE g == [i \in n .. n |-> [r \in Nat |-> NULL]]
  <2>1. IsWalk(b, g, n)
    BY <1>0 DEF IsWalk, n
  <2>2. n - 0 = n
    BY <1>0
  <2> QED
    BY <1>2, <1>3, <2>1, <2>2
<1>4. CASE m # 0
  <2>1. m - 1 \in 0 .. n /\ m - 1 \notin Bad
    BY <1>0, <1>2, <1>4
  <2>2. PICK g : IsWalk(b, g, n - (m - 1))
    BY <2>1
  <2> DEFINE a == n - m
  <2>3. a \in 0 .. n - 1 /\ n - (m - 1) = a + 1 /\ a # n
    BY <1>0, <1>2, <1>4
  <2> HIDE DEF a
  <2> DEFINE Turn(f, i) == [remaining \in Nat |->
                              IF i = n THEN NULL
                              ELSE IF remaining < SizeAt(b, i)
                                   THEN [slot |-> EntryPos(b, i), offset |-> remaining]
                                   ELSE f[i + 1][remaining - SizeAt(b, i)]]
             h == [i \in a .. n |-> IF i = a THEN Turn(g, a) ELSE g[i]]
  <2>4. g = [i \in a + 1 .. n |-> Turn(g, i)]
    BY <2>2, <2>3 DEF IsWalk, n
  <2>5. ASSUME NEW i \in a .. n, i # n PROVE h[i + 1] = g[i + 1]
    BY <1>0, <2>3, <2>5
  <2>6. \A i \in a .. n : Turn(h, i) = Turn(g, i)
    BY <2>5, SMTT(30)
  <2>7. \A i \in a .. n : h[i] = Turn(g, i)
    <3>1. \A i \in a .. n : i # a => i \in a + 1 .. n
      BY <1>0, <2>3
    <3> HIDE DEF Turn
    <3> QED
      BY <2>4, <3>1
  <2>8. h = [i \in a .. n |-> Turn(h, i)]
    <3> HIDE DEF Turn
    <3> QED
      BY <2>6, <2>7
  <2>9. IsWalk(b, h, a)
    BY <2>8 DEF IsWalk, n
  <2> QED
    BY <1>2, <2>9 DEF a
<1> QED
  BY <1>3, <1>4

LEMMA FindIs ==
  ASSUME NEW b, Count(b) \in Nat, NEW c
  PROVE  \E g : /\ IsWalk(b, g, 0)
                /\ aesd_circular_buffer_find_entry_offset_for_fpos(b, c) = g[0][c]
<1> DEFINE g == CHOOSE w : w =
                  [i \in 0 .. Count(b) |->
                     [remaining \in Nat |->
                        IF i = Count(b) THEN NULL
                        ELSE IF remaining < SizeAt(b, i)
                             THEN [slot |-> EntryPos(b, i), offset |-> remaining]
                             ELSE w[i + 1][remaining - SizeAt(b, i)]]]
<1>1. \E w : IsWalk(b, w, 0)
  <2>1. Count(b) \in 0 .. Count(b) /\ Count(b) - Count(b) = 0
    OBVIOUS
  <2> QED
    BY <2>1, WalkExists
<1>2. IsWalk(b, g, 0)
  BY <1>1 DEF IsWalk
<1>3. aesd_circular_buffer_find_entry_offset_for_fpos(b, c) = g[0][c]
  BY DEF aesd_circular_buffer_find_entry_offset_for_fpos
<1> QED
  BY <1>2, <1>3

(* What the rest r of the offset leads to, when entry i is reached.        *)
WalkFinds(b, g, i) ==
  \A r \in Nat :
    /\ r >= BytesBefore(b, Count(b)) - BytesBefore(b, i) => g[i][r] = NULL
    /\ \A j \in i .. Count(b) - 1 :
         BytesBefore(b, j) - BytesBefore(b, i) <= r /\ r < BytesBefore(b, j + 1) - BytesBefore(b, i)
           => g[i][r] = [slot   |-> EntryPos(b, j),
                         offset |-> r - (BytesBefore(b, j) - BytesBefore(b, i))]

LEMMA WalkCorrect ==
  ASSUME NEW E, NEW b, WellFormed(b, E), Sized(E), NEW g, IsWalk(b, g, 0), NEW k \in 0 .. Count(b)
  PROVE  WalkFinds(b, g, Count(b) - k)
<1> DEFINE n == Count(b)
           B(i) == BytesBefore(b, i)
           Bad == {i \in 0 .. n : ~WalkFinds(b, g, n - i)}
<1>0. /\ n \in Nat /\ \A i \in 0 .. n - 1 : SizeAt(b, i) \in Nat /\ B(i + 1) = B(i) + SizeAt(b, i)
      /\ \A i \in 0 .. n : B(i) \in Nat
  BY EntrySizes, BytesBeforeNat, BytesBeforeStep
<1>5. \A i \in 0 .. n : \A j \in i .. n : B(i) <= B(j)
  BY BytesBeforeGrows
<1>6. /\ \A r \in Nat : g[n][r] = NULL
      /\ \A i \in 0 .. n - 1 : \A r \in Nat :
           /\ r < SizeAt(b, i) => g[i][r] = [slot |-> EntryPos(b, i), offset |-> r]
           /\ ~(r < SizeAt(b, i)) => g[i][r] = g[i + 1][r - SizeAt(b, i)]
  <2>1. \A i \in 0 .. n : g[i] = [remaining \in Nat |->
                                  IF i = n THEN NULL
                                  ELSE IF remaining < SizeAt(b, i)
                                       THEN [slot |-> EntryPos(b, i), offset |-> remaining]
                                       ELSE g[i + 1][remaining - SizeAt(b, i)]]
    BY DEF IsWalk
  <2>2. n \in 0 .. n /\ \A i \in 0 .. n - 1 : i \in 0 .. n /\ i # n
    BY <1>0
  <2> HIDE DEF n
  <2>3. ASSUME NEW i \in 0 .. n - 1, NEW r \in Nat
        PROVE  /\ r < SizeAt(b, i) => g[i][r] = [slot |-> EntryPos(b, i), offset |-> r]
               /\ ~(r < SizeAt(b, i)) => g[i][r] = g[i + 1][r - SizeAt(b, i)]
    <3>1. g[i] = [remaining \in Nat |->
                    IF i = n THEN NULL
                    ELSE IF remaining < SizeAt(b, i)
                         THEN [slot |-> EntryPos(b, i), offset |-> remaining]
                         ELSE g[i + 1][remaining - SizeAt(b, i)]]
      BY <2>1, <2>2, Zenon
    <3>2. g[i][r] = IF i = n THEN NULL
                    ELSE IF r < SizeAt(b, i) THEN [slot |-> EntryPos(b, i), offset |-> r]
                         ELSE g[i + 1][r - SizeAt(b, i)]
      BY <3>1, Zenon
    <3> QED
      BY <2>2, <3>2
  <2>4. ASSUME NEW r \in Nat PROVE g[n][r] = NULL
    <3>1. g[n] = [remaining \in Nat |->
                    IF n = n THEN NULL
                    ELSE IF remaining < SizeAt(b, n)
                         THEN [slot |-> EntryPos(b, n), offset |-> remaining]
                         ELSE g[n + 1][remaining - SizeAt(b, n)]]
      BY <2>1, <2>2, Zenon
    <3> QED
      BY <3>1, Zenon
  <2> QED
    BY <2>3, <2>4
<1> HIDE DEF n, B
<1> SUFFICES ASSUME Bad # {} PROVE FALSE
  BY DEF n
<1>1. Bad \subseteq Nat
  BY <1>0
<1>2. PICK m \in Bad : \A i \in Bad : m <= i
  BY <1>1, LeastElement
<1>3. CASE m = 0
  <2>1. n - m = n /\ \A j : j \notin n .. n - 1
    BY <1>0, <1>3
  <2>2. WalkFinds(b, g, n)
    BY <1>6, <2>1 DEF WalkFinds, n
  <2> QED
    BY <1>2, <2>1, <2>2
<1>4. CASE m # 0
  <2> DEFINE i == n - m
  <2>1. i \in 0 .. n - 1 /\ i + 1 \in 0 .. n /\ n - (m - 1) = i + 1 /\ m - 1 \in 0 .. n /\ m - 1 \notin Bad
    BY <1>0, <1>2, <1>4
  <2>2. WalkFinds(b, g, i + 1)
    BY <2>1
  <2> HIDE DEF i
  <2>3. /\ B(i) \in Nat /\ B(i + 1) \in Nat /\ B(n) \in Nat /\ SizeAt(b, i) \in Nat
        /\ B(i + 1) = B(i) + SizeAt(b, i)
    BY <1>0, <2>1
  <2>4. ASSUME NEW r \in Nat, r >= B(n) - B(i)
        PROVE  g[i][r] = NULL
    <3>1. B(i + 1) <= B(n)
      BY <1>0, <1>5, <2>1
    <3>2. ~(r < SizeAt(b, i)) /\ r - SizeAt(b, i) \in Nat /\ r - SizeAt(b, i) >= B(n) - B(i + 1)
      BY <2>3, <2>4, <3>1
    <3>3. g[i + 1][r - SizeAt(b, i)] = NULL
      BY <2>2, <3>2 DEF WalkFinds, n, B
    <3> QED
      BY <1>6, <2>1, <3>2, <3>3
  <2>5. ASSUME NEW r \in Nat, NEW j \in i .. n - 1, B(j) - B(i) <= r, r < B(j + 1) - B(i)
        PROVE  g[i][r] = [slot |-> EntryPos(b, j), offset |-> r - (B(j) - B(i))]
    <3>1. CASE j = i
      <4>1. r < SizeAt(b, i) /\ r - (B(i) - B(i)) = r
        BY <2>3, <2>5, <3>1
      <4> QED
        BY <1>6, <2>1, <3>1, <4>1
    <3>2. CASE j # i
      <4>1. j \in i + 1 .. n - 1 /\ j \in 0 .. n /\ j + 1 \in 0 .. n /\ j \in i + 1 .. n
        BY <1>0, <2>1, <3>2
      <4>2. B(j) \in Nat /\ B(j + 1) \in Nat /\ B(i + 1) <= B(j)
        BY <1>0, <1>5, <2>1, <4>1
      <4>3. /\ ~(r < SizeAt(b, i)) /\ r - SizeAt(b, i) \in Nat
            /\ B(j) - B(i + 1) <= r - SizeAt(b, i) /\ r - SizeAt(b, i) < B(j + 1) - B(i + 1)
            /\ r - SizeAt(b, i) - (B(j) - B(i + 1)) = r - (B(j) - B(i))
        BY <2>3, <2>5, <4>2
      <4>4. g[i + 1][r - SizeAt(b, i)] =
              [slot |-> EntryPos(b, j), offset |-> r - SizeAt(b, i) - (B(j) - B(i + 1))]
        BY <2>2, <4>1, <4>3 DEF WalkFinds, n, B
      <4> QED
        BY <1>6, <2>1, <4>3, <4>4
    <3> QED
      BY <3>1, <3>2
  <2>6. WalkFinds(b, g, i)
    BY <2>4, <2>5 DEF WalkFinds, n, B
  <2> QED
    BY <1>2, <2>6 DEF i
<1> QED
  BY <1>3, <1>4

(***************************************************************************)
(* The search returns the entry in which the byte lies and its offset      *)
(* there, or NULL when the offset is not below the total size.             *)
(***************************************************************************)
LEMMA FindResult ==
  ASSUME NEW E, NEW b, WellFormed(b, E), Sized(E), NEW c \in Nat
  PROVE  /\ c >= aesd_circular_buffer_calculate_size(b) =>
              aesd_circular_buffer_find_entry_offset_for_fpos(b, c) = NULL
         /\ \A j \in 0 .. Count(b) - 1 :
              BytesBefore(b, j) <= c /\ c < BytesBefore(b, j + 1) =>
                aesd_circular_buffer_find_entry_offset_for_fpos(b, c) =
                  [slot |-> EntryPos(b, j), offset |-> c - BytesBefore(b, j)]
<1>0. Count(b) \in Nat /\ Count(b) \in 0 .. Count(b) /\ Count(b) - Count(b) = 0
  BY EntrySizes
<1>1. PICK g : /\ IsWalk(b, g, 0)
               /\ aesd_circular_buffer_find_entry_offset_for_fpos(b, c) = g[0][c]
  BY <1>0, FindIs
<1>2. WalkFinds(b, g, 0)
  BY <1>0, <1>1, WalkCorrect
<1>3. BytesBefore(b, 0) = 0 /\ \A k \in 0 .. Count(b) : BytesBefore(b, k) \in Nat
  BY BytesBeforeStep, BytesBeforeNat
<1>4. c >= BytesBefore(b, Count(b)) => g[0][c] = NULL
  BY <1>0, <1>2, <1>3 DEF WalkFinds
<1>5. ASSUME NEW j \in 0 .. Count(b) - 1, BytesBefore(b, j) <= c, c < BytesBefore(b, j + 1)
      PROVE  g[0][c] = [slot |-> EntryPos(b, j), offset |-> c - BytesBefore(b, j)]
  <2>1. j \in 0 .. Count(b) /\ j + 1 \in 0 .. Count(b)
    BY <1>0
  <2>2. BytesBefore(b, j) - BytesBefore(b, 0) = BytesBefore(b, j)
        /\ BytesBefore(b, j + 1) - BytesBefore(b, 0) = BytesBefore(b, j + 1)
    BY <1>3, <2>1
  <2> QED
    BY <1>2, <1>5, <2>2 DEF WalkFinds
<1> QED
  BY <1>1, <1>4, <1>5 DEF aesd_circular_buffer_calculate_size

(* Every byte lies in an entry.                                            *)
LEMMA EntryOfByte ==
  ASSUME NEW E, NEW b, WellFormed(b, E), Sized(E), NEW c \in Nat,
         c < aesd_circular_buffer_calculate_size(b)
  PROVE  \E j \in 0 .. Count(b) - 1 : BytesBefore(b, j) <= c /\ c < BytesBefore(b, j + 1)
<1> DEFINE n == Count(b)
           S == {k \in 0 .. n : c < BytesBefore(b, k)}
<1>0. n \in Nat /\ BytesBefore(b, 0) = 0 /\ \A k \in 0 .. n : BytesBefore(b, k) \in Nat
  BY EntrySizes, BytesBeforeStep, BytesBeforeNat
<1>1. S \subseteq Nat /\ n \in S
  BY <1>0 DEF aesd_circular_buffer_calculate_size
<1>2. PICK m \in S : \A k \in S : m <= k
  BY <1>1, LeastElement
<1> HIDE DEF n
<1>3. m # 0 /\ m - 1 \in 0 .. n - 1 /\ m - 1 \in 0 .. n /\ m - 1 \notin S /\ m - 1 + 1 = m
  BY <1>0, <1>1, <1>2
<1>4. BytesBefore(b, m - 1) <= c /\ c < BytesBefore(b, m)
  BY <1>0, <1>2, <1>3
<1> QED
  BY <1>3, <1>4 DEF n
-----------------------------------------------------------------------------
(* Concatenation: FlattenSeq of the library.                               *)

(* A table of what FlattenSeq has concatenated after 1 to k sequences.     *)
IsFlat(ss, g, k) ==
  g = [i \in 1 .. k |-> IF i = 1 THEN ss[i] ELSE g[i - 1] \o ss[i]]

(* There is such a table, for otherwise there is a shortest one missing.   *)
LEMMA FlatExists ==
  ASSUME NEW ss, NEW k \in Nat \ {0}
  PROVE  \E g : IsFlat(ss, g, k)
<1> DEFINE Bad == {i \in Nat \ {0} : ~ \E g : IsFlat(ss, g, i)}
<1> SUFFICES ASSUME Bad # {} PROVE FALSE
  OBVIOUS
<1>0. Bad \subseteq Nat
  OBVIOUS
<1>1. PICK m \in Bad : \A i \in Bad : m <= i
  BY <1>0, LeastElement
<1>2. CASE m = 1
  <2> DEFINE g == [i \in 1 .. 1 |-> ss[1]]
  <2>1. IsFlat(ss, g, 1)
    BY DEF IsFlat
  <2> QED
    BY <1>1, <1>2, <2>1
<1>3. CASE m # 1
  <2>1. m - 1 \in Nat \ {0} /\ m - 1 \notin Bad /\ m \in Nat
    BY <1>1, <1>3
  <2>2. PICK g : IsFlat(ss, g, m - 1)
    BY <2>1
  <2> DEFINE h == [i \in 1 .. m |-> IF i = m THEN g[m - 1] \o ss[m] ELSE g[i]]
  <2>3. \A i \in 1 .. m : i # m => i \in 1 .. m - 1
    BY <2>1
  <2>4. \A i \in 1 .. m - 1 : g[i] = IF i = 1 THEN ss[i] ELSE g[i - 1] \o ss[i]
    BY <2>2 DEF IsFlat
  <2>5. \A i \in 1 .. m : i # 1 => i - 1 \in 1 .. m /\ h[i - 1] = g[i - 1]
    BY <2>1
  <2>6. \A i \in 1 .. m : h[i] = IF i = 1 THEN ss[i] ELSE h[i - 1] \o ss[i]
    BY <1>3, <2>1, <2>3, <2>4, <2>5
  <2>7. IsFlat(ss, h, m)
    BY <2>6 DEF IsFlat
  <2> QED
    BY <1>1, <2>7
<1> QED
  BY <1>2, <1>3

(* FlattenSeq returns the last entry of the table.                         *)
LEMMA FlattenIs ==
  ASSUME NEW T, NEW ss \in Seq(Seq(T)), Len(ss) # 0
  PROVE  \E g : IsFlat(ss, g, Len(ss)) /\ FlattenSeq(ss) = g[Len(ss)]
<1> DEFINE g == CHOOSE t : t = [i \in 1 .. Len(ss) |-> IF i = 1 THEN ss[i] ELSE t[i - 1] \o ss[i]]
<1>0. Len(ss) \in Nat \ {0}
  OBVIOUS
<1>1. \E t : t = [i \in 1 .. Len(ss) |-> IF i = 1 THEN ss[i] ELSE t[i - 1] \o ss[i]]
  BY <1>0, FlatExists DEF IsFlat
<1>2. IsFlat(ss, g, Len(ss))
  BY <1>1 DEF IsFlat
<1>3. FlattenSeq(ss) = g[Len(ss)]
  BY DEF FlattenSeq
<1> QED
  BY <1>2, <1>3

(* Where each of the sequences of ss starts in their concatenation.        *)
Starts(ss, B) ==
  /\ B \in [0 .. Len(ss) -> Nat] /\ B[0] = 0
  /\ \A i \in 1 .. Len(ss) : B[i] = B[i - 1] + Len(ss[i])

(* The types of what Starts speaks of.                                     *)
LEMMA StartsFacts ==
  ASSUME NEW T, NEW ss \in Seq(Seq(T)), NEW B, Starts(ss, B)
  PROVE  /\ Len(ss) \in Nat /\ B[0] = 0 /\ \A j \in 0 .. Len(ss) : B[j] \in Nat
         /\ \A j \in 1 .. Len(ss) : /\ ss[j] \in Seq(T) /\ Len(ss[j]) \in Nat
                                    /\ B[j] = B[j - 1] + Len(ss[j])
<1>1. Len(ss) \in Nat
  OBVIOUS
<1>2. \A j \in 1 .. Len(ss) : ss[j] \in Seq(T)
  BY ElementOfSeq
<1>3. \A s \in Seq(T) : Len(s) \in Nat
  OBVIOUS
<1>4. \A j \in 1 .. Len(ss) : Len(ss[j]) \in Nat
  BY <1>2, <1>3
<1>5. \A j \in 0 .. Len(ss) : B[j] \in Nat
  BY DEF Starts
<1> QED
  BY <1>1, <1>2, <1>4, <1>5 DEF Starts

(* Later sequences start later.                                            *)
LEMMA StartsGrow ==
  ASSUME NEW T, NEW ss \in Seq(Seq(T)), NEW B, Starts(ss, B), NEW i \in 0 .. Len(ss), NEW k \in i .. Len(ss)
  PROVE  B[i] <= B[k]
<1> DEFINE Bad == {j \in i .. Len(ss) : B[i] > B[j]}
<1>0. /\ Len(ss) \in Nat /\ \A j \in 0 .. Len(ss) : B[j] \in Nat
      /\ \A j \in 1 .. Len(ss) : Len(ss[j]) \in Nat /\ B[j] = B[j - 1] + Len(ss[j])
  BY StartsFacts
<1> SUFFICES ASSUME Bad # {} PROVE FALSE
  BY <1>0
<1>1. Bad \subseteq Nat
  BY <1>0
<1>2. PICK m \in Bad : \A j \in Bad : m <= j
  BY <1>1, LeastElement
<1>3. m # i
  BY <1>0, <1>2
<1>4. m \in 1 .. Len(ss) /\ m - 1 \in i .. Len(ss) /\ m - 1 \notin Bad /\ m - 1 \in 0 .. Len(ss)
  BY <1>0, <1>2, <1>3
<1>5. /\ B[m] \in Nat /\ B[m - 1] \in Nat /\ Len(ss[m]) \in Nat /\ B[i] \in Nat /\ B[i] > B[m]
      /\ B[m] = B[m - 1] + Len(ss[m])
  BY <1>0, <1>2, <1>4
<1>6. ~(B[i] > B[m - 1])
  BY <1>4
<1> QED
  BY <1>5, <1>6

(* The two parts of a concatenation.                                       *)
LEMMA ConcatParts ==
  ASSUME NEW T
  PROVE  \A u, v \in Seq(T) :
           /\ u \o v \in Seq(T) /\ Len(u \o v) = Len(u) + Len(v)
           /\ \A i \in 1 .. Len(u) : (u \o v)[i] = u[i]
           /\ \A j \in 1 .. Len(v) : (u \o v)[Len(u) + j] = v[j]
<1> SUFFICES ASSUME NEW u \in Seq(T), NEW v \in Seq(T)
             PROVE  /\ u \o v \in Seq(T) /\ Len(u \o v) = Len(u) + Len(v)
                    /\ \A i \in 1 .. Len(u) : (u \o v)[i] = u[i]
                    /\ \A j \in 1 .. Len(v) : (u \o v)[Len(u) + j] = v[j]
  OBVIOUS
<1>1. Len(u) \in Nat /\ Len(v) \in Nat
  OBVIOUS
<1>2. \A i \in 1 .. Len(u) : i \in 1 .. Len(u) + Len(v) /\ i <= Len(u)
  BY <1>1
<1>3. \A j \in 1 .. Len(v) : /\ Len(u) + j \in 1 .. Len(u) + Len(v) /\ ~(Len(u) + j <= Len(u))
                             /\ Len(u) + j - Len(u) = j
  BY <1>1
<1> QED
  BY <1>1, <1>2, <1>3

(* The first k sequences, concatenated.                                    *)
FlatOK(T, ss, B, s, k) ==
  /\ s \in Seq(T) /\ Len(s) = B[k]
  /\ \A i \in 1 .. k : \A j \in 1 .. Len(ss[i]) : s[B[i - 1] + j] = ss[i][j]

(* Every entry of the table is right, for there is no first wrong one.     *)
LEMMA FlatCorrect ==
  ASSUME NEW T, NEW ss \in Seq(Seq(T)), NEW B, Starts(ss, B), NEW g, IsFlat(ss, g, Len(ss)),
         NEW k \in 1 .. Len(ss)
  PROVE  FlatOK(T, ss, B, g[k], k)
<1> DEFINE Bad == {i \in 1 .. Len(ss) : ~FlatOK(T, ss, B, g[i], i)}
<1>0. /\ Len(ss) \in Nat /\ B[0] = 0 /\ \A j \in 0 .. Len(ss) : B[j] \in Nat
      /\ \A j \in 1 .. Len(ss) : ss[j] \in Seq(T) /\ Len(ss[j]) \in Nat /\ B[j] = B[j - 1] + Len(ss[j])
      /\ \A i \in 1 .. Len(ss) : g[i] = IF i = 1 THEN ss[i] ELSE g[i - 1] \o ss[i]
  <2>1. \A i \in 1 .. Len(ss) : g[i] = IF i = 1 THEN ss[i] ELSE g[i - 1] \o ss[i]
    BY DEF IsFlat
  <2>2. /\ Len(ss) \in Nat /\ B[0] = 0 /\ \A j \in 0 .. Len(ss) : B[j] \in Nat
        /\ \A j \in 1 .. Len(ss) : ss[j] \in Seq(T) /\ Len(ss[j]) \in Nat /\ B[j] = B[j - 1] + Len(ss[j])
    BY StartsFacts
  <2> QED
    BY <2>1, <2>2
<1> SUFFICES ASSUME Bad # {} PROVE FALSE
  OBVIOUS
<1>1. Bad \subseteq Nat
  BY <1>0
<1>2. PICK m \in Bad : \A i \in Bad : m <= i
  BY <1>1, LeastElement
<1>3. m \in 1 .. Len(ss) /\ m \in Nat
  BY <1>1, <1>2
<1>4. CASE m = 1
  <2>1. 1 \in 1 .. Len(ss) /\ 1 - 1 = 0
    BY <1>3, <1>4
  <2>2. g[1] = ss[1] /\ ss[1] \in Seq(T) /\ Len(ss[1]) \in Nat /\ B[1] = B[1 - 1] + Len(ss[1])
    BY <1>0, <2>1
  <2>3. Len(g[1]) = B[1]
    BY <1>0, <2>1, <2>2
  <2>4. \A i \in 1 .. 1 : \A j \in 1 .. Len(ss[i]) : g[1][B[i - 1] + j] = ss[i][j]
    <3> SUFFICES ASSUME NEW j \in 1 .. Len(ss[1]) PROVE g[1][B[1 - 1] + j] = ss[1][j]
      OBVIOUS
    <3>1. B[1 - 1] + j = j
      BY <1>0, <2>1, <2>2
    <3> QED
      BY <2>2, <3>1
  <2>5. FlatOK(T, ss, B, g[1], 1)
    BY <2>2, <2>3, <2>4 DEF FlatOK
  <2> QED
    BY <1>2, <1>4, <2>5
<1>5. CASE m # 1
  <2> DEFINE p == m - 1
             s == g[p]
             t == ss[m]
  <2>1. p \in 1 .. Len(ss) /\ p \in 0 .. Len(ss) /\ p \notin Bad /\ m = p + 1 /\ p \in Nat
    BY <1>0, <1>2, <1>3, <1>5
  <2>2. FlatOK(T, ss, B, s, p)
    BY <2>1
  <2>3. g[m] = s \o t /\ t \in Seq(T) /\ Len(t) \in Nat /\ B[m] = B[p] + Len(t) /\ B[p] \in Nat
    BY <1>0, <1>3, <1>5, <2>1
  <2> HIDE DEF p, s, t
  <2>4. s \in Seq(T) /\ Len(s) = B[p]
    BY <2>2 DEF FlatOK
  <2>5. /\ g[m] \in Seq(T) /\ Len(g[m]) = B[p] + Len(t)
        /\ \A i \in 1 .. B[p] : g[m][i] = s[i]
        /\ \A j \in 1 .. Len(t) : g[m][B[p] + j] = t[j]
    <3>1. s \in Seq(T) /\ t \in Seq(T)
      BY <2>3, <2>4
    <3>2. /\ s \o t \in Seq(T) /\ Len(s \o t) = Len(s) + Len(t)
          /\ \A i \in 1 .. Len(s) : (s \o t)[i] = s[i]
          /\ \A j \in 1 .. Len(t) : (s \o t)[Len(s) + j] = t[j]
      BY <3>1, ConcatParts
    <3> QED
      BY <2>3, <2>4, <3>2, Zenon
  <2>6. g[m] \in Seq(T) /\ Len(g[m]) = B[m]
    BY <2>3, <2>5
  <2>7. ASSUME NEW i \in 1 .. p, NEW j \in 1 .. Len(ss[i]) PROVE g[m][B[i - 1] + j] = ss[i][j]
    <3>1. /\ i \in 1 .. Len(ss) /\ i - 1 \in 0 .. Len(ss) /\ i \in 0 .. Len(ss) /\ p \in i .. Len(ss)
      BY <2>1
    <3>2. B[i] = B[i - 1] + Len(ss[i]) /\ B[i - 1] \in Nat /\ Len(ss[i]) \in Nat /\ B[i] \in Nat
      BY <1>0, <3>1
    <3>3. B[i] <= B[p]
      BY <3>1, StartsGrow
    <3>4. \A a, l, c, d \in Nat : \A x \in 1 .. l : c = a + l /\ c <= d => a + x \in 1 .. d
      OBVIOUS
    <3>5. B[i - 1] + j \in 1 .. B[p]
      BY <2>3, <3>2, <3>3, <3>4
    <3>6. g[m][B[i - 1] + j] = s[B[i - 1] + j]
      BY <2>5, <3>5
    <3> QED
      BY <2>2, <3>6 DEF FlatOK
  <2>8. ASSUME NEW j \in 1 .. Len(t) PROVE g[m][B[p] + j] = t[j]
    BY <2>5
  <2>9. \A i \in 1 .. m : i \in 1 .. p \/ (i = m /\ i - 1 = p)
    BY <2>1
  <2>10. \A i \in 1 .. m : \A j \in 1 .. Len(ss[i]) : g[m][B[i - 1] + j] = ss[i][j]
    BY <2>7, <2>8, <2>9 DEF t
  <2>11. FlatOK(T, ss, B, g[m], m)
    BY <2>6, <2>10 DEF FlatOK
  <2> QED
    BY <1>2, <2>11
<1> QED
  BY <1>4, <1>5

(* The concatenation of ss: its length, and where its elements come from.  *)
LEMMA FlattenResult ==
  ASSUME NEW T, NEW ss \in Seq(Seq(T)), NEW B, Starts(ss, B)
  PROVE  FlatOK(T, ss, B, FlattenSeq(ss), Len(ss))
<1>1. CASE Len(ss) = 0
  <2>1. FlattenSeq(ss) = ss /\ ss = << >>
    BY <1>1 DEF FlattenSeq
  <2>2. B[0] = 0
    BY DEF Starts
  <2> QED
    BY <1>1, <2>1, <2>2 DEF FlatOK
<1>2. CASE Len(ss) # 0
  <2>1. PICK g : IsFlat(ss, g, Len(ss)) /\ FlattenSeq(ss) = g[Len(ss)]
    BY <1>2, FlattenIs
  <2>2. Len(ss) \in 1 .. Len(ss)
    BY <1>2
  <2> QED
    BY <2>1, <2>2, FlatCorrect
<1> QED
  BY <1>1, <1>2

(* The first k sequences start where they start in all of them.            *)
LEMMA StartsPrefix ==
  ASSUME NEW T, NEW ss \in Seq(Seq(T)), NEW B, Starts(ss, B), NEW k \in 0 .. Len(ss)
  PROVE  /\ SubSeq(ss, 1, k) \in Seq(Seq(T)) /\ Len(SubSeq(ss, 1, k)) = k
         /\ Starts(SubSeq(ss, 1, k), [i \in 0 .. k |-> B[i]])
<1>1. Len(ss) \in Nat /\ k \in Nat /\ k <= Len(ss)
  OBVIOUS
<1>2. SubSeq(ss, 1, k) \in Seq(Seq(T)) /\ Len(SubSeq(ss, 1, k)) = k
      /\ \A i \in 1 .. k : SubSeq(ss, 1, k)[i] = ss[i]
  BY <1>1
<1>3. \A i \in 1 .. k : i \in 1 .. Len(ss) /\ i - 1 \in 0 .. k /\ i \in 0 .. k
  BY <1>1
<1>4. \A i \in 0 .. k : i \in 0 .. Len(ss) /\ 0 \in 0 .. k
  BY <1>1
<1> DEFINE C == [i \in 0 .. k |-> B[i]]
<1>5. C \in [0 .. k -> Nat] /\ C[0] = 0
  BY <1>1, <1>4 DEF Starts
<1>6. ASSUME NEW i \in 1 .. k PROVE C[i] = C[i - 1] + Len(SubSeq(ss, 1, k)[i])
  <2>1. C[i] = B[i] /\ C[i - 1] = B[i - 1] /\ SubSeq(ss, 1, k)[i] = ss[i]
    BY <1>2, <1>3
  <2> QED
    BY <1>3, <2>1 DEF Starts
<1> QED
  BY <1>2, <1>5, <1>6 DEF Starts
=============================================================================
