--------------------------- MODULE AesdCharProofs ---------------------------
(***************************************************************************)
(* For any number of files and blocks, any size of the buffer and any      *)
(* data, the driver keeps its types and its ownership of kernel memory     *)
(* (IInv); its commands are complete, its positions valid, and only an     *)
(* eviction loses memory; and it implements the atomic log of AesdLog.     *)
(***************************************************************************)
EXTENDS AesdChar, CircularBufferLemmas

(* A thread is between lock and unlock only if the mutex is its own.       *)
LockInv == \A f \in File : pc[f] \in Critical => mutex = f

(* No file is open on a module that is not there.                          *)
ModuleInv == ~loaded => \A f \in File : pc[f] = "closed"

(***************************************************************************)
(* The inductive invariant.  Ownership speaks of the slots that hold a     *)
(* command, so it needs the shape of the ring; krealloc and the copy are   *)
(* two steps of one write, so it needs that no other write comes between.  *)
(***************************************************************************)
IInv ==
  /\ TypeOK
  /\ RingShape(buffer, Command)
  /\ LockInv
  /\ ModuleInv
  /\ Ownership

LEMMA PcFacts ==
  /\ Waiting \cap Critical = {} /\ "open" \notin Critical /\ "closed" \notin Critical
  /\ "copy_in" \in Critical /\ "copy_in" \notin Waiting
  /\ \A w \in Waiting : Locked[w] \in Critical /\ Locked[w] # "copy_in"
  /\ Waiting \subseteq PcValues /\ Critical \subseteq PcValues
  /\ "closed" \notin Waiting
BY DEF Waiting, Critical, Locked, PcValues

LEMMA InitIInv == Init => IInv
<1> SUFFICES ASSUME Init PROVE IInv
  OBVIOUS
<1>1. WellFormed(buffer, Command)
  BY InitWellFormed DEF Init
<1>2. TypeOK
  <2>1. entry \in [buffptr : Pointer, size : 0 .. KMALLOC_MAX_SIZE]
    BY PtrAssumption, SizeAssumption DEF Init, Pointer
  <2>2. Live = {} /\ memory \in [Live -> Seq(Byte \cup {Junk})]
    BY DEF Init, Live
  <2>3. pc \in [File -> PcValues] /\ ubuf \in [File -> Seq(Byte)]
    BY DEF Init, PcValues
  <2> QED
    BY <1>1, <2>1, <2>2, <2>3 DEF TypeOK, Init, WellFormed
<1>3. RingShape(buffer, Command)
  BY <1>1 DEF WellFormed
<1>4. LockInv /\ ModuleInv /\ Ownership
  BY PcFacts DEF Init, LockInv, ModuleInv, Ownership
<1> QED
  BY <1>2, <1>3, <1>4 DEF IInv

(***************************************************************************)
(* A step that leaves the device and its memory alone, and in which no     *)
(* thread gets to, or away from, copy_from_user.                           *)
(***************************************************************************)
LEMMA QuietStep ==
  ASSUME IInv, UNCHANGED <<loaded, dev>>,
         mutex' \in File \cup {NULL},
         pc' \in [File -> PcValues], ubuf' \in [File -> Seq(Byte)],
         \A g \in File : /\ pc'[g] = "copy_in" <=> pc[g] = "copy_in"
                         /\ pc[g] = "copy_in" => ubuf'[g] = ubuf[g],
         LockInv', ModuleInv'
  PROVE  IInv'
<1>1. TypeOK'
  BY DEF IInv, TypeOK, dev, Live
<1>2. RingShape(buffer, Command)'
  BY DEF IInv, dev, RingShape
<1>3. Ownership'
  <2>1. /\ Copying' = Copying /\ \A f \in Copying : ubuf'[f] = ubuf[f]
        /\ Copying \subseteq File
    BY DEF Copying
  <2>2. Held' = Held /\ Live' = Live
    BY DEF Held, Live, dev
  <2> QED
    BY <2>1, <2>2 DEF Ownership, IInv, dev
<1> QED
  BY <1>1, <1>2, <1>3 DEF IInv

(* A call that returns and has not touched the device.                     *)
LEMMA QuietReturn ==
  ASSUME IInv, NEW f \in File, NEW op, NEW arg, NEW ret, NEW data,
         pc[f] \notin {"closed", "copy_in"},
         Return(f, op, arg, ret, data),
         UNCHANGED <<loaded, dev>>,
         mutex' = mutex \/ (mutex' = NULL /\ pc[f] \in Critical)
  PROVE  IInv'
<1>1. /\ pc \in [File -> PcValues] /\ ubuf \in [File -> Seq(Byte)]
      /\ mutex \in File \cup {NULL}
  BY DEF IInv, TypeOK
<1>2. /\ pc' = [pc EXCEPT ![f] = "open"]
      /\ ubuf' = [ubuf EXCEPT ![f] = << >>]
  BY DEF Return
<1>3. pc' \in [File -> PcValues] /\ ubuf' \in [File -> Seq(Byte)]
  <2>1. "open" \in PcValues
    BY DEF PcValues
  <2>2. << >> \in Seq(Byte)
    OBVIOUS
  <2> QED
    BY <1>1, <1>2, <2>1, <2>2
<1>4. LockInv'
  <2> SUFFICES ASSUME NEW g \in File, pc'[g] \in Critical PROVE mutex' = g
    BY DEF LockInv
  <2>1. g # f /\ pc[g] \in Critical
    BY <1>1, <1>2, PcFacts
  <2>2. mutex = g /\ ~(pc[f] \in Critical)
    BY <2>1 DEF IInv, LockInv
  <2> QED
    BY <2>2
<1>5. ModuleInv'
  BY DEF ModuleInv, IInv, dev
<1>6. \A g \in File : /\ pc'[g] = "copy_in" <=> pc[g] = "copy_in"
                      /\ pc[g] = "copy_in" => ubuf'[g] = ubuf[g]
  BY <1>1, <1>2
<1> QED
  BY <1>1, <1>3, <1>4, <1>5, <1>6, QuietStep

LEMMA CallInv ==
  ASSUME IInv, NEW f \in File, NEW op \in Waiting, Call(f, op)
  PROVE  IInv'
<1>1. /\ pc[f] = "open" /\ pc' = [pc EXCEPT ![f] = op]
      /\ UNCHANGED <<loaded, dev, mutex, ubuf>>
  BY DEF Call
<1>2. pc \in [File -> PcValues] /\ ubuf \in [File -> Seq(Byte)] /\ mutex \in File \cup {NULL}
  BY DEF IInv, TypeOK
<1>3. pc' \in [File -> PcValues]
  BY <1>1, <1>2, PcFacts
<1>4. LockInv' /\ ModuleInv'
  BY <1>1, <1>2, PcFacts DEF LockInv, ModuleInv, IInv
<1>5. \A g \in File : pc'[g] = "copy_in" <=> pc[g] = "copy_in"
  BY <1>1, <1>2, PcFacts
<1> QED
  BY <1>1, <1>2, <1>3, <1>4, <1>5, QuietStep

LEMMA LockStep ==
  ASSUME IInv, NEW f \in File, Lock(f)
  PROVE  IInv'
<1>1. /\ pc[f] \in Waiting /\ mutex = NULL /\ mutex' = f
      /\ pc' = [pc EXCEPT ![f] = Locked[pc[f]]]
      /\ UNCHANGED <<loaded, dev, ubuf>>
  BY DEF Lock
<1>2. pc \in [File -> PcValues] /\ ubuf \in [File -> Seq(Byte)]
  BY DEF IInv, TypeOK
<1>3. Locked[pc[f]] \in Critical /\ Locked[pc[f]] # "copy_in" /\ pc[f] # "copy_in"
  BY <1>1, PcFacts
<1>4. pc' \in [File -> PcValues]
  BY <1>1, <1>2, <1>3, PcFacts
<1>5. LockInv'
  <2>1. \A g \in File : pc[g] \notin Critical
    BY <1>1, FileAssumption DEF IInv, LockInv
  <2> QED
    BY <1>1, <1>2, <2>1 DEF LockInv
<1>6. ModuleInv'
  BY <1>1, <1>2, PcFacts DEF ModuleInv, IInv
<1>7. \A g \in File : pc'[g] = "copy_in" <=> pc[g] = "copy_in"
  BY <1>1, <1>2, <1>3
<1> QED
  BY <1>1, <1>2, <1>4, <1>5, <1>6, <1>7, QuietStep

(* open and release.                                                       *)
LEMMA OpenReleaseInv ==
  ASSUME IInv, NEW f \in File, aesd_open(f) \/ aesd_release(f)
  PROVE  IInv'
<1>1. /\ \/ loaded /\ pc[f] = "closed" /\ pc' = [pc EXCEPT ![f] = "open"]
         \/ pc[f] = "open" /\ pc' = [pc EXCEPT ![f] = "closed"]
      /\ UNCHANGED <<loaded, dev, mutex, ubuf>>
  BY DEF aesd_open, aesd_release
<1>2. pc \in [File -> PcValues] /\ ubuf \in [File -> Seq(Byte)] /\ mutex \in File \cup {NULL}
  BY DEF IInv, TypeOK
<1>3. pc' \in [File -> PcValues]
  BY <1>1, <1>2 DEF PcValues
<1>4. LockInv' /\ ModuleInv'
  BY <1>1, <1>2, PcFacts DEF LockInv, ModuleInv, IInv
<1>5. \A g \in File : pc'[g] = "copy_in" <=> pc[g] = "copy_in"
  BY <1>1, <1>2
<1> QED
  BY <1>1, <1>2, <1>3, <1>4, <1>5, QuietStep

(* The operations that only read the device.                               *)
LEMMA ReadOnlyInv ==
  ASSUME IInv, NEW f \in File,
         \/ Interrupted(f) \/ aesd_ioctl(f)
         \/ ReadFind(f) \/ ReadCopy(f) \/ aesd_seek(f) \/ aesd_adjust_file_offset(f)
  PROVE  IInv'
<1>1. CASE Interrupted(f)
  <2>1. pc[f] \notin {"closed", "copy_in"}
    BY <1>1, PcFacts DEF Interrupted
  <2> QED
    BY <1>1, <2>1, QuietReturn DEF Interrupted
<1>2. CASE aesd_ioctl(f)
  BY <1>2, QuietReturn DEF aesd_ioctl
<1>3. CASE ReadFind(f)
  <2>1. pc[f] = "reading" /\ UNCHANGED <<loaded, dev>>
    BY <1>3 DEF ReadFind
  <2>2. CASE UnlockAndReturn(f, "read", << >>, 0, << >>)
    BY <2>1, <2>2, QuietReturn DEF UnlockAndReturn, Critical
  <2>3. CASE pc' = [pc EXCEPT ![f] = "copy_out"] /\ UNCHANGED <<mutex, ubuf>>
    <3>1. /\ pc \in [File -> PcValues] /\ ubuf \in [File -> Seq(Byte)]
          /\ mutex \in File \cup {NULL}
      BY DEF IInv, TypeOK
    <3>2. pc' \in [File -> PcValues]
      BY <2>3, <3>1 DEF PcValues, Critical
    <3>3. LockInv' /\ ModuleInv'
      BY <2>1, <2>3, <3>1 DEF LockInv, ModuleInv, IInv, Critical
    <3>4. \A g \in File : pc'[g] = "copy_in" <=> pc[g] = "copy_in"
      BY <2>1, <2>3, <3>1
    <3> QED
      BY <2>1, <2>3, <3>1, <3>2, <3>3, <3>4, QuietStep
  <2> QED
    BY <1>3, <2>2, <2>3 DEF ReadFind
<1>4. CASE ReadCopy(f)
  <2>1. pc[f] = "copy_out" /\ UNCHANGED <<loaded, dev>>
    BY <1>4, ZenonT(60) DEF ReadCopy
  <2>2. PICK arg, ret, data : UnlockAndReturn(f, "read", arg, ret, data)
    BY <1>4 DEF ReadCopy
  <2> QED
    BY <2>1, <2>2, QuietReturn, SMTT(30) DEF UnlockAndReturn, Critical
<1>5. CASE aesd_seek(f)
  <2>1. pc[f] = "seeking" /\ UNCHANGED <<loaded, dev>>
    BY <1>5 DEF aesd_seek
  <2>2. PICK arg, ret : UnlockAndReturn(f, "llseek", arg, ret, << >>)
    BY <1>5 DEF aesd_seek
  <2> QED
    BY <2>1, <2>2, QuietReturn DEF UnlockAndReturn, Critical
<1>6. CASE aesd_adjust_file_offset(f)
  <2>1. pc[f] = "adjusting" /\ UNCHANGED <<loaded, dev>>
    BY <1>6 DEF aesd_adjust_file_offset
  <2>2. PICK arg, ret : UnlockAndReturn(f, "ioctl", arg, ret, << >>)
    BY <1>6 DEF aesd_adjust_file_offset
  <2> QED
    BY <2>1, <2>2, QuietReturn DEF UnlockAndReturn, Critical
<1> QED
  BY <1>1, <1>2, <1>3, <1>4, <1>5, <1>6

-----------------------------------------------------------------------------
(* Kernel memory: what TypeOK says of it, and what kfree and krealloc do.  *)

Heap(m) ==
  /\ DOMAIN m \subseteq Ptr
  /\ m \in [DOMAIN m -> Seq(Byte \cup {Junk})]
  /\ \A p \in DOMAIN m : Len(m[p]) \in 1 .. KMALLOC_MAX_SIZE

LEMMA KfreeHeap ==
  ASSUME Heap(memory), NEW P
  PROVE  /\ Heap(kfree(P)) /\ DOMAIN kfree(P) = Live \ P
         /\ \A q \in Live \ P : kfree(P)[q] = memory[q]
BY DEF Heap, kfree, Live

(* The bytes krealloc returns: the old ones and as many new as were asked. *)
LEMMA GrownBytes ==
  ASSUME NEW old \in Seq(Byte \cup {Junk}), NEW n \in Nat, Len(old) <= n
  PROVE  /\ old \o Repeat(Junk, n - Len(old)) \in Seq(Byte \cup {Junk})
         /\ Len(old \o Repeat(Junk, n - Len(old))) = n
         /\ \A i \in 1 .. Len(old) : (old \o Repeat(Junk, n - Len(old)))[i] = old[i]
<1>1. Len(old) \in Nat /\ n - Len(old) \in Nat
  OBVIOUS
<1>2. Repeat(Junk, n - Len(old)) \in [1 .. n - Len(old) -> Byte \cup {Junk}]
  BY DEF Repeat
<1>3. /\ Repeat(Junk, n - Len(old)) \in Seq(Byte \cup {Junk})
      /\ Len(Repeat(Junk, n - Len(old))) = n - Len(old)
  BY <1>1, <1>2
<1> QED
  BY <1>1, <1>3

(* What a call krealloc(p, n) may have done.                               *)
Krealloced(p, n, block) ==
  \/ n # 0 /\ block.ptr = NULL /\ block.mem = memory
  \/ n = 0 /\ block.ptr = ZERO_SIZE_PTR /\ block.mem = kfree({p})
  \/ /\ n \in 1 .. KMALLOC_MAX_SIZE
     /\ block.ptr \in Ptr /\ (block.ptr \in Live => block.ptr = p)
     /\ Heap(block.mem)
     /\ DOMAIN block.mem = (Live \ {p}) \cup {block.ptr}
     /\ Len(block.mem[block.ptr]) = n
     /\ \A i \in 1 .. Len(BytesAt(p)) : block.mem[block.ptr][i] = BytesAt(p)[i]
     /\ \A r \in Live \ {p} : block.mem[r] = memory[r]

LEMMA KreallocOutcome ==
  ASSUME Heap(memory), NEW p, NEW n \in Nat, Len(BytesAt(p)) <= n,
         NEW block \in krealloc(p, n)
  PROVE  Krealloced(p, n, block)
<1>1. CASE n = 0
  BY <1>1 DEF krealloc, Krealloced
<1>2. CASE n # 0 /\ block = [ptr |-> NULL, mem |-> memory]
  BY <1>2 DEF Krealloced
<1>3. CASE n # 0 /\ block # [ptr |-> NULL, mem |-> memory]
  <2> DEFINE bytes == BytesAt(p) \o Repeat(Junk, n - Len(BytesAt(p)))
  <2>1. PICK q \in (Ptr \ Live) \cup ({p} \cap Live) :
          /\ n <= KMALLOC_MAX_SIZE
          /\ block = [ptr |-> q,
                      mem |-> [r \in (Live \ {p}) \cup {q} |->
                                 IF r = q THEN bytes ELSE memory[r]]]
    BY <1>3 DEF krealloc
  <2>2. BytesAt(p) \in Seq(Byte \cup {Junk})
    BY DEF BytesAt, Heap, Live
  <2>3. /\ bytes \in Seq(Byte \cup {Junk}) /\ Len(bytes) = n
        /\ \A i \in 1 .. Len(BytesAt(p)) : bytes[i] = BytesAt(p)[i]
    BY <2>2, GrownBytes
  <2> HIDE DEF bytes
  <2>4. n \in 1 .. KMALLOC_MAX_SIZE
    BY <1>3, <2>1, SizeAssumption
  <2>5. q \in Ptr /\ (q \in Live => q = p)
    BY <2>1 DEF Heap, Live
  <2>6. /\ DOMAIN block.mem = (Live \ {p}) \cup {q} /\ block.ptr = q
        /\ block.mem[q] = bytes
        /\ \A r \in Live \ {p} : block.mem[r] = memory[r]
    BY <2>1
  <2>7. Heap(block.mem)
    BY <2>1, <2>3, <2>4, <2>5 DEF Heap, Live
  <2> QED
    BY <2>3, <2>4, <2>5, <2>6, <2>7 DEF Krealloced
<1> QED
  BY <1>1, <1>2, <1>3

(* The module is loaded: the device is cleared, nobody has it open.        *)
LEMMA InitModuleInv ==
  ASSUME IInv, aesd_init_module
  PROVE  IInv'
<1>1. /\ ~loaded /\ buffer' = aesd_circular_buffer_init /\ entry' = ZeroEntry
      /\ mutex' = NULL /\ loaded' \in BOOLEAN /\ UNCHANGED <<memory, pc, ubuf>>
  BY DEF aesd_init_module
<1>2. WellFormed(buffer', Command)
  BY <1>1, InitWellFormed
<1>3. entry' \in [buffptr : Pointer, size : 0 .. KMALLOC_MAX_SIZE]
  BY <1>1, PtrAssumption, SizeAssumption DEF Pointer
<1>4. TypeOK'
  BY <1>1, <1>2, <1>3 DEF IInv, TypeOK, WellFormed, Live
<1>5. RingShape(buffer, Command)'
  BY <1>2 DEF WellFormed, RingShape
<1>6. \A f \in File : pc'[f] = "closed"
  BY <1>1 DEF IInv, ModuleInv
<1>7. LockInv' /\ ModuleInv'
  BY <1>6, PcFacts DEF LockInv, ModuleInv
<1>8. Ownership'
  <2>1. Held' = {}
    BY <1>1 DEF Held, aesd_circular_buffer_init, Slots
  <2>2. Copying' = {}
    BY <1>6 DEF Copying
  <2>3. entry'.buffptr \notin Ptr /\ entry'.size = 0
    BY <1>1, PtrAssumption
  <2> QED
    BY <2>1, <2>2, <2>3 DEF Ownership
<1> QED
  BY <1>4, <1>5, <1>7, <1>8 DEF IInv

(* The module is removed: everything it refers to is freed.                *)
LEMMA CleanupModuleInv ==
  ASSUME IInv, aesd_cleanup_module
  PROVE  IInv'
<1>1. /\ memory' = kfree(FreedAtCleanup) /\ ~loaded'
      /\ \A f \in File : pc[f] = "closed"
      /\ UNCHANGED <<buffer, entry, mutex, pc, ubuf>> /\ loaded' \in BOOLEAN
  BY DEF aesd_cleanup_module
<1>2. Heap(memory')
  BY <1>1, KfreeHeap DEF IInv, TypeOK, Heap, Live
<1>3. TypeOK'
  BY <1>1, <1>2 DEF IInv, TypeOK, Heap, Live
<1>4. RingShape(buffer, Command)'
  BY <1>1 DEF IInv, RingShape
<1>5. LockInv' /\ ModuleInv' /\ Ownership'
  BY <1>1, PcFacts DEF LockInv, ModuleInv, Ownership
<1> QED
  BY <1>3, <1>4, <1>5 DEF IInv

(***************************************************************************)
(* The only thread under the mutex is f; what Ownership says then.         *)
(***************************************************************************)
LEMMA AloneInside ==
  ASSUME IInv, NEW f \in File, pc[f] \in Critical
  PROVE  /\ loaded /\ mutex = f
         /\ \A g \in File : pc[g] \in Critical => g = f
         /\ Copying = IF pc[f] = "copy_in" THEN {f} ELSE {}
<1>1. loaded /\ mutex = f /\ \A g \in File : pc[g] \in Critical => g = f
  BY PcFacts DEF IInv, LockInv, ModuleInv
<1> QED
  BY <1>1, PcFacts DEF Copying

LEMMA WriteAllocInv ==
  ASSUME IInv, NEW f \in File, WriteAlloc(f)
  PROVE  IInv'
<1>1. pc[f] = "writing" /\ UNCHANGED <<loaded, buffer, f_pos>>
  BY DEF WriteAlloc
<1>2. PICK data \in UserData :
      \E block \in krealloc(entry.buffptr, entry.size + Len(data)) :
        /\ memory' = block.mem
        /\ \/ /\ block.ptr = NULL
              /\ UnlockAndReturn(f, "write", << >>, -ENOMEM, << >>)
              /\ UNCHANGED entry
           \/ /\ block.ptr # NULL
              /\ entry' = [buffptr |-> block.ptr, size |-> entry.size]
              /\ ubuf' = [ubuf EXCEPT ![f] = data]
              /\ pc' = [pc EXCEPT ![f] = "copy_in"]
              /\ UNCHANGED mutex
  BY DEF WriteAlloc
<1> DEFINE n == entry.size + Len(data)
           old == entry.buffptr
<1>3. PICK block \in krealloc(old, n) :
        /\ memory' = block.mem
        /\ \/ /\ block.ptr = NULL
              /\ UnlockAndReturn(f, "write", << >>, -ENOMEM, << >>)
              /\ UNCHANGED entry
           \/ /\ block.ptr # NULL
              /\ entry' = [buffptr |-> block.ptr, size |-> entry.size]
              /\ ubuf' = [ubuf EXCEPT ![f] = data]
              /\ pc' = [pc EXCEPT ![f] = "copy_in"]
              /\ UNCHANGED mutex
  BY <1>2
<1>4. /\ loaded /\ mutex = f /\ Copying = {}
      /\ \A g \in File : pc[g] \in Critical => g = f
  BY <1>1, AloneInside DEF Critical
<1>5. /\ Heap(memory) /\ pc \in [File -> PcValues] /\ ubuf \in [File -> Seq(Byte)]
      /\ entry \in [buffptr : Pointer, size : 0 .. KMALLOC_MAX_SIZE]
      /\ buffer \in BufferType(Command)
  BY DEF IInv, TypeOK, Heap, Live
<1>6. data \in Seq(Byte) /\ Len(data) \in Nat /\ entry.size \in Nat /\ n \in Nat
  BY <1>5, ByteAssumption, SizeAssumption
<1>7. IF old \in Ptr THEN old \in Live /\ Len(memory[old]) = entry.size
                     ELSE entry.size = 0 /\ old \notin Live
  BY <1>4, <1>5 DEF IInv, Ownership, Heap, Live
<1>8. Len(BytesAt(old)) <= n
  BY <1>6, <1>7 DEF BytesAt
<1> HIDE DEF n, old
<1>9. Krealloced(old, n, block)
  BY <1>5, <1>6, <1>8, KreallocOutcome
<1>10. CASE block.ptr = NULL
  <2>1. block.mem = memory
    BY <1>10, <1>9, PtrAssumption DEF Krealloced
  <2>2. UNCHANGED <<loaded, dev>>
    BY <1>1, <1>3, <1>10, <2>1 DEF dev
  <2> QED
    BY <1>1, <1>3, <1>10, <2>2, QuietReturn DEF UnlockAndReturn, Critical
<1>11. CASE block.ptr # NULL
  <2>1. /\ memory' = block.mem /\ entry' = [buffptr |-> block.ptr, size |-> entry.size]
        /\ ubuf' = [ubuf EXCEPT ![f] = data] /\ pc' = [pc EXCEPT ![f] = "copy_in"]
        /\ UNCHANGED <<mutex, loaded, buffer>>
    BY <1>1, <1>3, <1>11
  <2>2. /\ Heap(memory')
        /\ \A r \in Live \ {old} : r \in DOMAIN memory' /\ memory'[r] = memory[r]
        /\ block.ptr \in Live => block.ptr = old
        /\ \/ n = 0 /\ block.ptr = ZERO_SIZE_PTR
           \/ /\ block.ptr \in Ptr /\ block.ptr \in DOMAIN memory'
              /\ Len(memory'[block.ptr]) = n
    <3>1. CASE n = 0 /\ block.ptr = ZERO_SIZE_PTR /\ block.mem = kfree({old})
      <4>1. /\ Heap(kfree({old})) /\ DOMAIN kfree({old}) = Live \ {old}
            /\ \A q \in Live \ {old} : kfree({old})[q] = memory[q]
        BY <1>5, KfreeHeap
      <4>2. block.ptr \notin Live
        BY <1>5, <3>1, PtrAssumption DEF Heap, Live
      <4> QED
        BY <2>1, <3>1, <4>1, <4>2
    <3>2. CASE /\ block.ptr \in Ptr /\ (block.ptr \in Live => block.ptr = old)
               /\ Heap(block.mem)
               /\ DOMAIN block.mem = (Live \ {old}) \cup {block.ptr}
               /\ Len(block.mem[block.ptr]) = n
               /\ \A r \in Live \ {old} : block.mem[r] = memory[r]
      BY <2>1, <3>2
    <3>3. Krealloced(old, n, block)
      BY <1>9
    <3> QED
      BY <1>11, <3>1, <3>2, <3>3 DEF Krealloced
  <2>3. entry' \in [buffptr : Pointer, size : 0 .. KMALLOC_MAX_SIZE]
        /\ entry'.buffptr = block.ptr /\ entry'.size = entry.size
    BY <1>5, <2>1, <2>2 DEF Pointer
  <2>4. TypeOK'
    <3>1. pc' \in [File -> PcValues] /\ ubuf' \in [File -> Seq(Byte)]
      BY <1>5, <1>6, <2>1 DEF PcValues, Critical
    <3> QED
      BY <2>1, <2>2, <2>3, <3>1 DEF IInv, TypeOK, Heap, Live
  <2>5. RingShape(buffer, Command)'
    BY <2>1 DEF IInv, RingShape
  <2>6. LockInv' /\ ModuleInv'
    BY <1>4, <1>5, <2>1 DEF LockInv, ModuleInv, IInv
  <2>7. Copying' = {f} /\ ubuf'[f] = data
    <3>1. \A g \in File : pc[g] # "copy_in"
      BY <1>4 DEF Copying
    <3> QED
      BY <1>5, <2>1, <3>1 DEF Copying
  <2>8. Ownership'
    <3>1. Held' = Held /\ Held \subseteq Slots
      BY <2>1 DEF Held
    <3>2. ASSUME NEW s \in Held
          PROVE  /\ buffer'.entry[s].buffptr \in DOMAIN memory'
                 /\ buffer'.entry[s].buffptr # entry'.buffptr
                 /\ Len(memory'[buffer'.entry[s].buffptr]) = buffer'.entry[s].size
      <4> DEFINE q == buffer.entry[s].buffptr
      <4>1. q \in Live /\ q # old /\ Len(memory[q]) = buffer.entry[s].size
        BY <1>4 DEF IInv, Ownership, old
      <4>2. q \in Ptr
        BY <1>5, <4>1 DEF Heap, Live
      <4>3. memory'[q] = memory[q] /\ q \in DOMAIN memory' /\ q # block.ptr
        BY <2>2, <4>1, <4>2, PtrAssumption
      <4> QED
        BY <2>1, <2>3, <4>1, <4>3
    <3>3. \A s, t \in Held : buffer'.entry[s].buffptr = buffer'.entry[t].buffptr => s = t
      BY <1>4, <2>1 DEF IInv, Ownership
    <3>4. IF entry'.buffptr \in Ptr
          THEN entry'.buffptr \in DOMAIN memory' /\ Len(memory'[entry'.buffptr]) = entry'.size + Len(data)
          ELSE entry'.size = 0 /\ data = << >>
      <4>1. CASE n = 0 /\ block.ptr = ZERO_SIZE_PTR
        <5>1. entry.size = 0 /\ Len(data) = 0
          BY <1>6, <4>1 DEF n
        <5> QED
          BY <1>6, <2>3, <4>1, <5>1, PtrAssumption
      <4>2. CASE block.ptr \in Ptr /\ block.ptr \in DOMAIN memory' /\ Len(memory'[block.ptr]) = n
        BY <2>3, <4>2 DEF n
      <4> QED
        BY <2>2, <4>1, <4>2
    <3> QED
      BY <2>7, <3>1, <3>2, <3>3, <3>4 DEF Ownership, Live
  <2> QED
    BY <2>4, <2>5, <2>6, <2>8 DEF IInv
<1> QED
  BY <1>10, <1>11

(* What the copy stores: as many bytes as the block of the entry has.      *)
LEMMA StoredText ==
  ASSUME IInv, NEW f \in File, pc[f] = "copy_in"
  PROVE  /\ Stored(ubuf[f]) \in Seq(Byte \cup {Junk})
         /\ Len(Stored(ubuf[f])) = entry.size + Len(ubuf[f])
         /\ IF entry.buffptr \in Ptr
            THEN /\ entry.buffptr \in Live
                 /\ Len(Stored(ubuf[f])) = Len(memory[entry.buffptr])
            ELSE Stored(ubuf[f]) = << >> /\ entry.buffptr \notin Live
<1> DEFINE b == entry.buffptr
           data == ubuf[f]
<1>1. /\ Heap(memory) /\ data \in Seq(Byte)
      /\ entry \in [buffptr : Pointer, size : 0 .. KMALLOC_MAX_SIZE]
  BY DEF IInv, TypeOK, Heap, Live
<1>2. loaded /\ f \in Copying
  BY AloneInside, PcFacts DEF Copying
<1>3. IF b \in Ptr THEN b \in Live /\ Len(memory[b]) = entry.size + Len(data)
      ELSE entry.size = 0 /\ data = << >>
  BY <1>2 DEF IInv, Ownership
<1>4. entry.size \in Nat /\ Len(data) \in Nat /\ data \in Seq(Byte \cup {Junk})
  <2>1. data \in Seq(Byte \cup {Junk})
    BY <1>1
  <2> QED
    BY <1>1, <2>1, SizeAssumption
<1> DEFINE first == Fetch(b, 0, entry.size)
<1>5. first \in Seq(Byte \cup {Junk}) /\ Len(first) = entry.size
  <2>1. \A i \in DOMAIN BytesAt(b) : BytesAt(b)[i] \in Byte \cup {Junk}
    BY <1>1 DEF BytesAt, Heap, Live
  <2>2. \A i \in 1 .. entry.size : first[i] \in Byte \cup {Junk}
    BY <2>1 DEF Fetch
  <2> QED
    BY <1>4, <2>2, SMTT(30) DEF Fetch
<1>6. Stored(data) = first \o data
  BY DEF Stored
<1> HIDE DEF first
<1>7. /\ Stored(data) \in Seq(Byte \cup {Junk})
      /\ Len(Stored(data)) = entry.size + Len(data)
  BY <1>4, <1>5, <1>6
<1>8. b \notin Ptr => Stored(data) = << >> /\ b \notin Live
  BY <1>1, <1>3, <1>7 DEF Heap, Live
<1> QED
  BY <1>3, <1>7, <1>8

LEMMA WriteCopyInv ==
  ASSUME IInv, NEW f \in File, WriteCopy(f)
  PROVE  IInv'
<1> DEFINE b == entry.buffptr
           data == ubuf[f]
           text == Stored(data)
           grown == [buffptr |-> b, size |-> entry.size + Len(data)]
<1>1. /\ pc[f] = "copy_in" /\ loaded' = loaded /\ mutex' = NULL
      /\ pc' = [pc EXCEPT ![f] = "open"] /\ ubuf' = [ubuf EXCEPT ![f] = << >>]
  BY DEF WriteCopy, UnlockAndReturn, Return
<1>2. /\ loaded /\ mutex = f /\ Copying = {f}
      /\ \A g \in File : pc[g] \in Critical => g = f
  BY <1>1, AloneInside, PcFacts
<1>3. /\ Heap(memory) /\ pc \in [File -> PcValues] /\ ubuf \in [File -> Seq(Byte)]
      /\ entry \in [buffptr : Pointer, size : 0 .. KMALLOC_MAX_SIZE]
      /\ WellFormed(buffer, Command)
  BY DEF IInv, TypeOK, Heap, Live, WellFormed
<1>4. /\ text \in Seq(Byte \cup {Junk}) /\ Len(text) = entry.size + Len(data)
      /\ IF b \in Ptr THEN b \in Live /\ Len(text) = Len(memory[b])
         ELSE text = << >> /\ b \notin Live
  BY <1>1, StoredText
<1>5. /\ \A s \in Held : /\ buffer.entry[s].buffptr \in Live
                         /\ buffer.entry[s].buffptr # b
                         /\ Len(memory[buffer.entry[s].buffptr]) = buffer.entry[s].size
      /\ \A s, t \in Held : buffer.entry[s].buffptr = buffer.entry[t].buffptr => s = t
  BY <1>2 DEF IInv, Ownership
<1>6. pc' \in [File -> PcValues] /\ ubuf' \in [File -> Seq(Byte)]
  BY <1>1, <1>3 DEF PcValues
<1>7. LockInv' /\ ModuleInv' /\ Copying' = {}
  <2>1. \A g \in File : pc'[g] \notin Critical
    BY <1>1, <1>2, <1>3, PcFacts
  <2> QED
    BY <1>1, <1>2, <2>1, PcFacts DEF LockInv, ModuleInv, Copying
<1>8. ZeroEntry \in [buffptr : Pointer, size : 0 .. KMALLOC_MAX_SIZE]
      /\ ZeroEntry.buffptr \notin Ptr /\ ZeroEntry.buffptr = NULL /\ ZeroEntry.size = 0
  BY PtrAssumption, SizeAssumption DEF Pointer
<1> HIDE DEF text
<1>9. CASE memory' = kfree({b}) /\ entry' = ZeroEntry /\ buffer' = buffer
  <2>1. /\ Heap(memory') /\ DOMAIN memory' = Live \ {b}
        /\ \A q \in Live \ {b} : memory'[q] = memory[q]
    BY <1>3, <1>9, KfreeHeap
  <2>2. TypeOK'
    BY <1>1, <1>2, <1>6, <1>8, <1>9, <2>1 DEF IInv, TypeOK, Heap, Live
  <2>3. RingShape(buffer, Command)'
    BY <1>9 DEF IInv, RingShape
  <2>4. Held' = Held
    BY <1>9 DEF Held
  <2>5. \A s \in Held : buffer.entry[s].buffptr \in Ptr
    BY <1>3, <1>5 DEF Heap, Live
  <2>6. Ownership'
    BY <1>5, <1>7, <1>8, <1>9, <2>1, <2>4, <2>5, ZenonT(60) DEF Ownership, Live
  <2> QED
    BY <1>7, <2>2, <2>3, <2>6 DEF IInv
<1>10. CASE /\ memory' = [p \in Live |-> IF p = b THEN text ELSE memory[p]]
            /\ \/ /\ memchr(text) /\ entry' = ZeroEntry
                  /\ buffer' = aesd_circular_buffer_add_entry(buffer, grown)
               \/ entry' = grown /\ buffer' = buffer
  <2>1. /\ DOMAIN memory' = Live
        /\ b \in Ptr => memory'[b] = text
        /\ \A q \in Live : q # b => memory'[q] = memory[q]
    BY <1>4, <1>10
  <2>2. Heap(memory')
    BY <1>3, <1>4, <1>10 DEF Heap, Live
  <2>3. b \in Ptr => Len(text) \in 1 .. KMALLOC_MAX_SIZE
    BY <1>3, <1>4 DEF Heap, Live
  <2>4. CASE memchr(text) /\ buffer' = aesd_circular_buffer_add_entry(buffer, grown)
             /\ entry' = ZeroEntry
    <3>1. b \in Ptr
      BY <1>4, <2>4 DEF memchr
    <3>2. grown \in Command
      BY <1>4, <2>3, <3>1 DEF Command
    <3>3. /\ buffer' \in BufferType(Command)
          /\ buffer'.entry = [buffer.entry EXCEPT ![buffer.in_offs] = grown]
          /\ buffer'.in_offs = IF buffer.in_offs + 1 = MaxOps THEN 0 ELSE buffer.in_offs + 1
          /\ buffer'.full = (buffer.full \/ buffer.in_offs + 1 = MaxOps)
      BY <1>3, <2>4, <3>2, AddEntryFields
    <3>4. WellFormed(buffer', Command)
      BY <1>3, <2>4, <3>2, AddEntryWellFormed
    <3>5. TypeOK'
      BY <1>1, <1>2, <1>6, <1>8, <2>2, <2>4, <3>3 DEF IInv, TypeOK, Heap, Live
    <3>6. RingShape(buffer, Command)'
      BY <3>4 DEF WellFormed, RingShape
    <3>7. /\ buffer.in_offs \in Slots /\ buffer.full \in BOOLEAN
          /\ buffer.entry \in [Slots -> Command \cup {ZeroEntry}]
      BY <1>3 DEF WellFormed, BufferType
    <3>8. \A s \in Held' : s \in Slots /\ (s # buffer.in_offs => s \in Held)
      BY <3>3, <3>7, MaxOpsAssumption DEF Held, Slots
    <3>9. \A s \in Slots : buffer'.entry[s] = IF s = buffer.in_offs THEN grown
                                               ELSE buffer.entry[s]
      BY <3>3, <3>7
    <3>10. grown.buffptr = b /\ grown.size = Len(text)
      BY <1>4
    <3>11. ASSUME NEW s \in Held'
           PROVE  /\ buffer'.entry[s].buffptr \in DOMAIN memory'
                  /\ buffer'.entry[s].buffptr # entry'.buffptr
                  /\ Len(memory'[buffer'.entry[s].buffptr]) = buffer'.entry[s].size
      <4>1. CASE s = buffer.in_offs
        BY <1>4, <1>8, <2>1, <2>4, <3>1, <3>8, <3>9, <3>10, <4>1
      <4>2. CASE s # buffer.in_offs
        <5>1. s \in Held /\ buffer'.entry[s] = buffer.entry[s]
          BY <3>8, <3>9, <4>2
        <5>2. buffer.entry[s].buffptr \in Ptr
          BY <1>3, <1>5, <5>1 DEF Heap, Live
        <5> QED
          BY <1>5, <1>8, <2>1, <2>4, <5>1, <5>2
      <4> QED
        BY <4>1, <4>2
    <3>12. ASSUME NEW s \in Held', NEW t \in Held',
                  buffer'.entry[s].buffptr = buffer'.entry[t].buffptr
           PROVE  s = t
      <4>1. /\ s # buffer.in_offs => s \in Held /\ buffer'.entry[s] = buffer.entry[s]
            /\ t # buffer.in_offs => t \in Held /\ buffer'.entry[t] = buffer.entry[t]
            /\ s = buffer.in_offs => buffer'.entry[s].buffptr = b
            /\ t = buffer.in_offs => buffer'.entry[t].buffptr = b
        BY <3>8, <3>9, <3>10
      <4> QED
        BY <1>5, <3>12, <4>1
    <3>13. Ownership'
      BY <1>7, <1>8, <2>4, <3>11, <3>12 DEF Ownership, Live
    <3> QED
      BY <1>7, <3>5, <3>6, <3>13 DEF IInv
  <2>5. CASE entry' = grown /\ buffer' = buffer
    <3>1. entry' \in [buffptr : Pointer, size : 0 .. KMALLOC_MAX_SIZE]
      <4>1. entry.size + Len(data) \in 0 .. KMALLOC_MAX_SIZE
        BY <1>4, <2>3, SizeAssumption
      <4> QED
        BY <1>3, <2>5, <4>1
    <3>2. TypeOK'
      BY <1>1, <1>2, <1>6, <2>2, <2>5, <3>1 DEF IInv, TypeOK, Heap, Live
    <3>3. RingShape(buffer, Command)'
      BY <2>5 DEF IInv, RingShape
    <3>4. Held' = Held
      BY <2>5 DEF Held
    <3>5. entry'.buffptr = b /\ entry'.size = Len(text)
      BY <1>4, <2>5
    <3>6. IF entry'.buffptr \in Ptr
          THEN entry'.buffptr \in DOMAIN memory' /\ Len(memory'[entry'.buffptr]) = entry'.size
          ELSE entry'.size = 0
      BY <1>4, <2>1, <3>5
    <3>7. \A s \in Held : /\ buffer'.entry[s].buffptr \in DOMAIN memory'
                          /\ buffer'.entry[s].buffptr # entry'.buffptr
                          /\ Len(memory'[buffer'.entry[s].buffptr]) = buffer'.entry[s].size
      BY <1>5, <2>1, <2>5, <3>5
    <3>8. Ownership'
      BY <1>5, <1>7, <2>5, <3>4, <3>6, <3>7 DEF Ownership, Live
    <3> QED
      BY <1>7, <3>2, <3>3, <3>8 DEF IInv
  <2> QED
    BY <1>10, <2>4, <2>5
<1> QED
  BY <1>9, <1>10 DEF WriteCopy, ResetEntry, text
-----------------------------------------------------------------------------
LEMMA NextIInv == IInv /\ [Next]_vars => IInv'
<1> SUFFICES ASSUME IInv, [Next]_vars PROVE IInv'
  OBVIOUS
<1>1. CASE aesd_init_module
  BY <1>1, InitModuleInv
<1>2. CASE aesd_cleanup_module
  BY <1>2, CleanupModuleInv
<1>3. ASSUME NEW f \in File, aesd_open(f) \/ aesd_release(f)
      PROVE  IInv'
  BY <1>3, OpenReleaseInv
<1>4. ASSUME NEW f \in File, NEW op \in Waiting, Call(f, op)
      PROVE  IInv'
  BY <1>4, CallInv
<1>5. ASSUME NEW f \in File, Lock(f)
      PROVE  IInv'
  BY <1>5, LockStep
<1>6. ASSUME NEW f \in File, Interrupted(f) \/ aesd_ioctl(f)
      PROVE  IInv'
  BY <1>6, ReadOnlyInv
<1>7. ASSUME NEW f \in File, Body(f)
      PROVE  IInv'
  BY <1>7, ReadOnlyInv, WriteAllocInv, WriteCopyInv DEF Body
<1>8. CASE UNCHANGED vars
  <2>1. /\ UNCHANGED <<loaded, dev>> /\ mutex' = mutex /\ pc' = pc /\ ubuf' = ubuf
    BY <1>8 DEF vars, dev
  <2>2. LockInv' /\ ModuleInv'
    BY <2>1 DEF IInv, LockInv, ModuleInv
  <2> QED
    BY <2>1, <2>2, QuietStep DEF IInv, TypeOK
<1> QED
  BY <1>1, <1>2, <1>3, <1>4, <1>5, <1>6, <1>7, <1>8 DEF Next

LEMMA IInvHolds == Spec => []IInv
BY InitIInv, NextIInv, PTL DEF Spec

(***************************************************************************)
(* The device, kernel memory and the threads keep the types of the code    *)
(* through every interleaving of calls, failures, loads and unloads.       *)
(***************************************************************************)
THEOREM TypeCorrect == Spec => []TypeOK
<1>1. IInv => TypeOK
  BY DEF IInv
<1> QED
  BY <1>1, IInvHolds, PTL

(***************************************************************************)
(* No call of the driver ever meets a block that is freed, has two owners  *)
(* or is shorter than its entry says: there is no use after free, double   *)
(* free or overrun in aesd_read, aesd_write and aesd_cleanup_module.       *)
(***************************************************************************)
THEOREM OwnershipCorrect == Spec => []Ownership
<1>1. IInv => Ownership
  BY DEF IInv
<1> QED
  BY <1>1, IInvHolds, PTL

(***************************************************************************)
(* At most one call is between mutex_lock_interruptible and mutex_unlock,  *)
(* and no call is under way on a module that is not loaded.                *)
(***************************************************************************)
THEOREM MutualExclusion == Spec => [](LockInv /\ ModuleInv)
<1>1. IInv => LockInv /\ ModuleInv
  BY DEF IInv
<1> QED
  BY <1>1, IInvHolds, PTL
-----------------------------------------------------------------------------
(* The steps that touch the device: loading, unloading and the two halves  *)
(* of a write.                                                             *)
LEMMA DeviceSteps ==
  ASSUME [Next]_vars
  PROVE  \/ UNCHANGED <<loaded, dev>>
         \/ aesd_init_module
         \/ aesd_cleanup_module
         \/ \E f \in File : WriteAlloc(f) \/ WriteCopy(f)
<1>1. CASE UNCHANGED vars
  BY <1>1, SMTT(30) DEF vars, dev
<1>2. ASSUME NEW f \in File,
             \/ aesd_open(f) \/ aesd_release(f) \/ Lock(f) \/ Interrupted(f)
             \/ aesd_ioctl(f) \/ ReadFind(f) \/ ReadCopy(f)
             \/ aesd_seek(f) \/ aesd_adjust_file_offset(f)
      PROVE  UNCHANGED <<loaded, dev>>
  BY <1>2 DEF aesd_open, aesd_release, Lock, Interrupted, aesd_ioctl, ReadFind,
              ReadCopy, aesd_seek, aesd_adjust_file_offset
<1>3. ASSUME NEW f \in File, NEW op \in Waiting, Call(f, op)
      PROVE  UNCHANGED <<loaded, dev>>
  BY <1>3 DEF Call
<1> QED
  BY <1>1, <1>2, <1>3 DEF Next, Body

(***************************************************************************)
(* What the first half of a write leaves: the device as it was, or the     *)
(* working entry in a block that starts with the bytes it had, with room   *)
(* for the data, and every other block untouched.                          *)
(***************************************************************************)
LEMMA AllocOutcome ==
  ASSUME IInv, NEW f \in File, WriteAlloc(f)
  PROVE  /\ loaded /\ UNCHANGED <<loaded, buffer, f_pos>> /\ pc[f] = "writing"
         /\ \/ UNCHANGED dev /\ UnlockAndReturn(f, "write", << >>, -ENOMEM, << >>)
            \/ /\ entry'.size = entry.size
               /\ DOMAIN memory' \ {entry'.buffptr} = Live \ {entry.buffptr}
               /\ \A r \in Live \ {entry.buffptr} : memory'[r] = memory[r]
               /\ \A i \in 1 .. entry.size : /\ entry'.buffptr \in DOMAIN memory'
                                             /\ entry.buffptr \in Live
                                             /\ memory'[entry'.buffptr][i] = memory[entry.buffptr][i]
               /\ \A r \in Live \ {entry.buffptr} : r # entry'.buffptr
               /\ pc' = [pc EXCEPT ![f] = "copy_in"] /\ done' = NULL
               /\ UNCHANGED <<mutex, found>>
               /\ \E data \in UserData : /\ ubuf' = [ubuf EXCEPT ![f] = data]
                                         /\ f_pos[f] + Len(data) <= LoffMax
<1>1. pc[f] = "writing" /\ UNCHANGED <<loaded, buffer, f_pos>>
  BY DEF WriteAlloc
<1> DEFINE old == entry.buffptr
<1>2. PICK data \in UserData : \E block \in krealloc(old, entry.size + Len(data)) :
        /\ f_pos[f] + Len(data) <= LoffMax
        /\ memory' = block.mem
        /\ \/ /\ block.ptr = NULL
              /\ UnlockAndReturn(f, "write", << >>, -ENOMEM, << >>)
              /\ UNCHANGED entry
           \/ /\ block.ptr # NULL
              /\ entry' = [buffptr |-> block.ptr, size |-> entry.size]
              /\ ubuf' = [ubuf EXCEPT ![f] = data]
              /\ pc' = [pc EXCEPT ![f] = "copy_in"]
              /\ done' = NULL
              /\ UNCHANGED <<mutex, found>>
  BY DEF WriteAlloc
<1> DEFINE n == entry.size + Len(data)
<1>3. PICK block \in krealloc(old, n) :
        /\ f_pos[f] + Len(data) <= LoffMax
        /\ memory' = block.mem
        /\ \/ /\ block.ptr = NULL
              /\ UnlockAndReturn(f, "write", << >>, -ENOMEM, << >>)
              /\ UNCHANGED entry
           \/ /\ block.ptr # NULL
              /\ entry' = [buffptr |-> block.ptr, size |-> entry.size]
              /\ ubuf' = [ubuf EXCEPT ![f] = data]
              /\ pc' = [pc EXCEPT ![f] = "copy_in"]
              /\ done' = NULL
              /\ UNCHANGED <<mutex, found>>
  BY <1>2
<1>4. loaded /\ Copying = {}
  BY <1>1, AloneInside DEF Critical
<1>5. /\ Heap(memory)
      /\ entry \in [buffptr : Pointer, size : 0 .. KMALLOC_MAX_SIZE]
  BY DEF IInv, TypeOK, Heap, Live
<1>6. Len(data) \in Nat /\ entry.size \in Nat /\ n \in Nat
  BY <1>5, ByteAssumption, SizeAssumption
<1>7. IF old \in Ptr THEN old \in Live /\ Len(memory[old]) = entry.size
                     ELSE entry.size = 0 /\ old \notin Live
  BY <1>4, <1>5 DEF IInv, Ownership, Heap, Live
<1>8. Len(BytesAt(old)) = entry.size
  BY <1>6, <1>7 DEF BytesAt
<1> HIDE DEF n, old
<1>9. Krealloced(old, n, block)
  BY <1>5, <1>6, <1>8, KreallocOutcome DEF n
<1>10. CASE block.ptr = NULL
  <2>1. block.mem = memory
    BY <1>10, <1>9, PtrAssumption DEF Krealloced
  <2> QED
    BY <1>1, <1>3, <1>4, <1>10, <2>1 DEF dev
<1>11. CASE block.ptr # NULL
  <2>1. /\ entry' = [buffptr |-> block.ptr, size |-> entry.size]
        /\ pc' = [pc EXCEPT ![f] = "copy_in"] /\ done' = NULL
        /\ UNCHANGED <<mutex, found>> /\ ubuf' = [ubuf EXCEPT ![f] = data]
    BY <1>3, <1>11
  <2>2. entry'.buffptr = block.ptr /\ entry'.size = entry.size /\ memory' = block.mem
    BY <1>3, <2>1
  <2>3. CASE n = 0 /\ block.ptr = ZERO_SIZE_PTR /\ block.mem = kfree({old})
    <3>1. /\ DOMAIN memory' = Live \ {old}
          /\ \A q \in Live \ {old} : memory'[q] = memory[q]
      BY <1>5, <2>2, <2>3, KfreeHeap
    <3>2. entry.size = 0 /\ block.ptr \notin Live
      BY <1>5, <1>6, <2>3, PtrAssumption DEF n, Heap, Live
    <3>3. \A i : i \notin 1 .. entry.size
      BY <3>2
    <3>4. /\ DOMAIN memory' \ {block.ptr} = Live \ {old}
          /\ \A r \in Live \ {old} : r # block.ptr
      BY <3>1, <3>2
    <3> QED
      BY <1>1, <1>2, <1>4, <2>1, <2>2, <3>1, <3>3, <3>4 DEF old
  <2>4. CASE /\ block.ptr \in Ptr /\ (block.ptr \in Live => block.ptr = old)
             /\ DOMAIN block.mem = (Live \ {old}) \cup {block.ptr}
             /\ \A i \in 1 .. Len(BytesAt(old)) : block.mem[block.ptr][i] = BytesAt(old)[i]
             /\ \A r \in Live \ {old} : block.mem[r] = memory[r]
    <3>1. \A i \in 1 .. entry.size : old \in Live
      BY <1>6, <1>7
    <3>2. \A i \in 1 .. entry.size : memory'[block.ptr][i] = memory[old][i]
      BY <1>8, <2>2, <2>4, <3>1 DEF BytesAt
    <3>3. block.ptr \in DOMAIN memory' /\ DOMAIN memory' \ {block.ptr} = Live \ {old}
      BY <2>2, <2>4
    <3> QED
      BY <1>1, <1>2, <1>4, <2>1, <2>2, <2>4, <3>1, <3>2, <3>3 DEF old
  <2> QED
    BY <1>9, <1>11, <2>3, <2>4 DEF Krealloced
<1> QED
  BY <1>10, <1>11
-----------------------------------------------------------------------------
(* The bytes of an entry e in a memory m: Text, with m a parameter.        *)
TextIn(m, e) ==
  [i \in 1 .. e.size |->
     IF e.buffptr \in DOMAIN m /\ i \in DOMAIN m[e.buffptr] THEN m[e.buffptr][i] ELSE Junk]

(* Text of AesdChar, its definitions expanded, is TextIn.                  *)
LEMMA TextIsTextIn ==
  ASSUME NEW m, NEW e, e.size \in Nat
  PROVE  LET bytes == IF e.buffptr \in DOMAIN m THEN m[e.buffptr] ELSE << >>
         IN  [i \in 1 .. e.size |-> IF 0 + i \in DOMAIN bytes THEN bytes[0 + i] ELSE Junk]
             = TextIn(m, e)
<1> DEFINE bytes == IF e.buffptr \in DOMAIN m THEN m[e.buffptr] ELSE << >>
<1>1. \A i \in 1 .. e.size : 0 + i = i
  OBVIOUS
<1>2. \A i : i \notin DOMAIN << >>
  OBVIOUS
<1>3. \A i \in 1 .. e.size :
        (IF 0 + i \in DOMAIN bytes THEN bytes[0 + i] ELSE Junk)
        = IF e.buffptr \in DOMAIN m /\ i \in DOMAIN m[e.buffptr]
          THEN m[e.buffptr][i] ELSE Junk
  BY <1>1, <1>2
<1> QED
  BY <1>3 DEF TextIn

(* Text, now and after a step.                                             *)
LEMMA DeviceTexts ==
  ASSUME IInv, IInv'
  PROVE  /\ Text(entry) = TextIn(memory, entry)
         /\ Text(entry)' = TextIn(memory', entry')
         /\ \A s \in Held : Text(buffer.entry[s]) = TextIn(memory, buffer.entry[s])
         /\ \A s \in Held' : Text(buffer.entry[s])' = TextIn(memory', buffer'.entry[s])
         /\ \A e \in Command : e.size \in Nat /\ Text(e) = TextIn(memory, e) /\ Text(e)' = TextIn(memory', e)
<1>1. entry.size \in Nat /\ entry'.size \in Nat
  BY SizeAssumption DEF IInv, TypeOK
<1>2. \A s \in Held : buffer.entry[s] \in Command
  BY DEF IInv, RingShape, Held
<1>3. \A s \in Held' : buffer'.entry[s] \in Command
  BY DEF IInv, RingShape, Held
<1>4. \A e \in Command : e.size \in Nat
  BY SizeAssumption DEF Command
<1>5. \A e \in Command : Text(e) = TextIn(memory, e) /\ Text(e)' = TextIn(memory', e)
  BY <1>4, TextIsTextIn DEF Text, Fetch, BytesAt, Live
<1>6. Text(entry) = TextIn(memory, entry) /\ Text(entry)' = TextIn(memory', entry')
  BY <1>1, TextIsTextIn DEF Text, Fetch, BytesAt, Live
<1>7. ASSUME NEW s \in Held PROVE Text(buffer.entry[s]) = TextIn(memory, buffer.entry[s])
  BY <1>2, <1>5
<1>8. ASSUME NEW s \in Held' PROVE Text(buffer.entry[s])' = TextIn(memory', buffer'.entry[s])
  BY <1>3, <1>4, TextIsTextIn DEF Text, Fetch, BytesAt, Live
<1> QED
  BY <1>4, <1>5, <1>6, <1>7, <1>8

(* An entry whose block is as long as it says, or longer.                  *)
LEMMA TextBytes ==
  ASSUME NEW m, Heap(m), NEW e, e.size \in Nat, e.buffptr \in DOMAIN m, e.size <= Len(m[e.buffptr])
  PROVE  /\ TextIn(m, e) \in Seq(Byte \cup {Junk}) /\ Len(TextIn(m, e)) = e.size
         /\ DOMAIN TextIn(m, e) = 1 .. e.size
         /\ \A i \in 1 .. e.size : TextIn(m, e)[i] = m[e.buffptr][i]
<1>1. m[e.buffptr] \in Seq(Byte \cup {Junk}) /\ \A i \in 1 .. e.size : i \in DOMAIN m[e.buffptr]
  BY DEF Heap
<1>2. \A i \in 1 .. e.size : TextIn(m, e)[i] = m[e.buffptr][i] /\ m[e.buffptr][i] \in Byte \cup {Junk}
  BY <1>1 DEF TextIn
<1>3. DOMAIN TextIn(m, e) = 1 .. e.size
  BY DEF TextIn
<1>4. TextIn(m, e) \in [1 .. e.size -> Byte \cup {Junk}]
  BY <1>2 DEF TextIn
<1> QED
  BY <1>2, <1>3, <1>4

(* An entry of no bytes has no text.                                       *)
LEMMA TextEmpty ==
  ASSUME NEW m, NEW e, e.size = 0
  PROVE  TextIn(m, e) = << >>
BY DEF TextIn

(* Entries of the same size whose blocks have the same bytes.              *)
LEMMA SameText ==
  ASSUME NEW m, Heap(m), NEW d, NEW n, Heap(n), NEW e,
         d.size \in Nat, e.size = d.size,
         d.size # 0 => /\ d.buffptr \in DOMAIN m /\ d.size <= Len(m[d.buffptr])
                       /\ e.buffptr \in DOMAIN n /\ e.size <= Len(n[e.buffptr]),
         \A i \in 1 .. d.size : m[d.buffptr][i] = n[e.buffptr][i]
  PROVE  TextIn(m, d) = TextIn(n, e)
<1>1. CASE d.size = 0
  BY <1>1, TextEmpty
<1>2. CASE d.size # 0
  <2>1. \A i \in 1 .. d.size : i \in DOMAIN m[d.buffptr] /\ i \in DOMAIN n[e.buffptr]
    BY <1>2 DEF Heap
  <2> QED
    BY <1>2, <2>1 DEF TextIn
<1> QED
  BY <1>1, <1>2
-----------------------------------------------------------------------------
(* What a held slot has, and what the working entry has: Ownership again.  *)
LEMMA OwnedBlocks ==
  ASSUME IInv, loaded
  PROVE  /\ Heap(memory) /\ Held \subseteq Slots
         /\ \A s \in Held : /\ buffer.entry[s] \in Command /\ buffer.entry[s].size \in Nat
                            /\ buffer.entry[s].buffptr \in Live
                            /\ buffer.entry[s].buffptr # entry.buffptr
                            /\ Len(memory[buffer.entry[s].buffptr]) = buffer.entry[s].size
         /\ entry.size \in Nat
         /\ entry.size # 0 => entry.buffptr \in Live /\ entry.size <= Len(memory[entry.buffptr])
<1>1. Heap(memory) /\ Held \subseteq Slots
  BY DEF IInv, TypeOK, Heap, Live, Held
<1>2. \A s \in Held : buffer.entry[s] \in Command /\ buffer.entry[s].size \in Nat
  BY SizeAssumption DEF IInv, RingShape, Held, Command
<1>3. entry.size \in Nat
  BY SizeAssumption DEF IInv, TypeOK
<1>4. \A g \in Copying : Len(ubuf[g]) \in Nat
  BY DEF IInv, TypeOK, Copying
<1>5. IF entry.buffptr \in Ptr
      THEN entry.buffptr \in Live /\ entry.size <= Len(memory[entry.buffptr])
      ELSE entry.size = 0
  BY <1>3, <1>4 DEF IInv, Ownership
<1> QED
  BY <1>1, <1>2, <1>3, <1>5 DEF IInv, Ownership

(* The first half of a write changes no text.                              *)
LEMMA AllocTexts ==
  ASSUME IInv, IInv', NEW f \in File, WriteAlloc(f)
  PROVE  /\ Held' = Held /\ buffer' = buffer /\ loaded /\ loaded'
         /\ Text(entry)' = Text(entry)
         /\ \A s \in Held : Text(buffer.entry[s])' = Text(buffer.entry[s])
<1>1. loaded /\ loaded' /\ buffer' = buffer /\ Held' = Held
  BY AllocOutcome DEF Held
<1>2. /\ Heap(memory) /\ entry.size \in Nat
      /\ entry.size # 0 => entry.buffptr \in Live /\ entry.size <= Len(memory[entry.buffptr])
      /\ \A s \in Held : /\ buffer.entry[s].size \in Nat
                         /\ buffer.entry[s].buffptr \in Live
                         /\ buffer.entry[s].buffptr # entry.buffptr
                         /\ Len(memory[buffer.entry[s].buffptr]) = buffer.entry[s].size
  BY <1>1, OwnedBlocks
<1>3. Heap(memory')
  BY DEF IInv, TypeOK, Heap, Live
<1>4. entry'.size # 0 => entry'.buffptr \in DOMAIN memory' /\ entry'.size <= Len(memory'[entry'.buffptr])
  <2>1. entry'.size \in Nat /\ \A g \in Copying' : Len(ubuf'[g]) \in Nat
    BY SizeAssumption DEF IInv, TypeOK, Copying
  <2> QED
    BY <1>1, <2>1 DEF IInv, Ownership, Live
<1>5. CASE UNCHANGED dev
  BY <1>1, <1>5 DEF dev, Text, Fetch, BytesAt, Live
<1>6. CASE /\ entry'.size = entry.size
           /\ DOMAIN memory' \ {entry'.buffptr} = Live \ {entry.buffptr}
           /\ \A r \in Live \ {entry.buffptr} : memory'[r] = memory[r]
           /\ \A i \in 1 .. entry.size : memory'[entry'.buffptr][i] = memory[entry.buffptr][i]
  <2>1. TextIn(memory, entry) = TextIn(memory', entry')
    BY <1>2, <1>3, <1>4, <1>6, SameText DEF Live
  <2>2. ASSUME NEW s \in Held
        PROVE  TextIn(memory, buffer.entry[s]) = TextIn(memory', buffer.entry[s])
    <3> DEFINE e == buffer.entry[s]
    <3>1. /\ e.size \in Nat /\ e.buffptr \in DOMAIN memory /\ e.size <= Len(memory[e.buffptr])
          /\ e.buffptr \in Live \ {entry.buffptr}
      BY <1>2 DEF Live
    <3>2. e.buffptr \in DOMAIN memory' /\ memory'[e.buffptr] = memory[e.buffptr]
      BY <1>6, <3>1
    <3> HIDE DEF e
    <3>3. TextIn(memory, e) = TextIn(memory', e)
      BY <1>2, <1>3, <3>1, <3>2, SameText
    <3> QED
      BY <3>3 DEF e
  <2> QED
    BY <1>1, <2>1, <2>2, DeviceTexts
<1> QED
  BY <1>1, <1>5, <1>6, AllocOutcome

(* The two ends of a write: the user's data faults, or all of it is taken. *)
CopyFaults(f) ==
  /\ ubuf[f] # << >> /\ UNCHANGED <<buffer, f_pos>> /\ entry' = ZeroEntry
  /\ Live' = Live \ {entry.buffptr} /\ Text(entry)' = << >>
  /\ UnlockAndReturn(f, "write", << >>, -EFAULT, << >>)

CopyTakes(f, command, grown) ==
  /\ f_pos' = [f_pos EXCEPT ![f] = @ + Len(ubuf[f])]
  /\ UnlockAndReturn(f, "write", << >>, Len(ubuf[f]), ubuf[f])
  /\ Live' = Live
  /\ \/ /\ memchr(command) /\ grown \in Command /\ entry' = ZeroEntry
        /\ buffer' = aesd_circular_buffer_add_entry(buffer, grown)
        /\ TextIn(memory', grown) = command /\ Text(entry)' = << >>
     \/ /\ ~memchr(command) /\ buffer' = buffer /\ entry' = grown
        /\ Text(entry)' = command

(***************************************************************************)
(* What the second half of a write leaves.                                 *)
(***************************************************************************)
LEMMA CopyOutcome ==
  ASSUME IInv, IInv', NEW f \in File, WriteCopy(f), NEW command, command = Text(entry) \o ubuf[f],
         NEW grown, grown = [buffptr |-> entry.buffptr, size |-> entry.size + Len(ubuf[f])]
  PROVE  /\ loaded /\ loaded' /\ pc[f] = "copy_in" /\ ubuf[f] \in Seq(Byte)
         /\ \A q \in Live \ {entry.buffptr} : q \in Live' /\ memory'[q] = memory[q]
         /\ \A s \in Held : TextIn(memory', buffer.entry[s]) = TextIn(memory, buffer.entry[s])
         /\ CopyFaults(f) \/ CopyTakes(f, command, grown)
<1> DEFINE b == entry.buffptr
           data == ubuf[f]
<1>1. /\ pc[f] = "copy_in" /\ loaded' = loaded
      /\ \/ /\ data # << >> /\ memory' = kfree({b}) /\ entry' = ZeroEntry
            /\ UnlockAndReturn(f, "write", << >>, -EFAULT, << >>)
            /\ UNCHANGED <<buffer, f_pos>>
         \/ /\ memory' = [p \in Live |-> IF p = b THEN command ELSE memory[p]]
            /\ \/ /\ memchr(command) /\ entry' = ZeroEntry
                  /\ buffer' = aesd_circular_buffer_add_entry(buffer, grown)
               \/ ~memchr(command) /\ entry' = grown /\ buffer' = buffer
            /\ f_pos' = [f_pos EXCEPT ![f] = @ + Len(data)]
            /\ UnlockAndReturn(f, "write", << >>, Len(data), data)
  BY DEF WriteCopy, ResetEntry, Stored, Text
<1>2. loaded /\ loaded' /\ data \in Seq(Byte)
  BY <1>1, AloneInside, PcFacts DEF IInv, TypeOK
<1>3. /\ Heap(memory) /\ entry.size \in Nat
      /\ \A s \in Held : /\ buffer.entry[s].size \in Nat
                         /\ buffer.entry[s].buffptr \in Live
                         /\ buffer.entry[s].buffptr # entry.buffptr
                         /\ Len(memory[buffer.entry[s].buffptr]) = buffer.entry[s].size
  BY <1>2, OwnedBlocks
<1>4. Heap(memory')
  BY DEF IInv, TypeOK, Heap, Live
<1>5. /\ command = Stored(data)
      /\ command \in Seq(Byte \cup {Junk}) /\ Len(command) = entry.size + Len(data)
      /\ IF b \in Ptr THEN b \in Live /\ Len(command) = Len(memory[b])
         ELSE command = << >> /\ b \notin Live
  BY <1>1, StoredText DEF Stored, Text
<1>6. \A q \in Live \ {b} : q \in Live' /\ memory'[q] = memory[q]
  <2>1. CASE memory' = kfree({b})
    BY <1>3, <2>1, KfreeHeap DEF Live
  <2>2. CASE memory' = [p \in Live |-> IF p = b THEN command ELSE memory[p]]
    BY <2>2 DEF Live
  <2> QED
    BY <1>1, <2>1, <2>2
<1>7. ASSUME NEW s \in Held
      PROVE  TextIn(memory', buffer.entry[s]) = TextIn(memory, buffer.entry[s])
  <2> DEFINE e == buffer.entry[s]
  <2>1. /\ e.size \in Nat /\ e.buffptr \in DOMAIN memory /\ e.size <= Len(memory[e.buffptr])
        /\ e.buffptr \in Live \ {b}
    BY <1>3 DEF Live
  <2>2. e.buffptr \in DOMAIN memory' /\ memory'[e.buffptr] = memory[e.buffptr]
    BY <1>6, <2>1 DEF Live
  <2> HIDE DEF e
  <2>3. TextIn(memory', e) = TextIn(memory, e)
    BY <1>3, <1>4, <2>1, <2>2, SameText
  <2> QED
    BY <2>3 DEF e
<1>8. entry' = ZeroEntry => Text(entry)' = << >>
  BY DeviceTexts, TextEmpty, PtrAssumption
<1>9. CASE /\ data # << >> /\ memory' = kfree({b}) /\ entry' = ZeroEntry
           /\ UnlockAndReturn(f, "write", << >>, -EFAULT, << >>)
           /\ UNCHANGED <<buffer, f_pos>>
  <2>1. Live' = Live \ {b}
    BY <1>3, <1>9, KfreeHeap DEF Live
  <2> QED
    BY <1>1, <1>2, <1>6, <1>7, <1>8, <1>9, <2>1 DEF CopyFaults
<1>10. CASE /\ memory' = [p \in Live |-> IF p = b THEN command ELSE memory[p]]
            /\ \/ /\ memchr(command) /\ entry' = ZeroEntry
                  /\ buffer' = aesd_circular_buffer_add_entry(buffer, grown)
               \/ ~memchr(command) /\ entry' = grown /\ buffer' = buffer
            /\ f_pos' = [f_pos EXCEPT ![f] = @ + Len(data)]
            /\ UnlockAndReturn(f, "write", << >>, Len(data), data)
  <2>1. Live' = Live /\ (b \in Live => memory'[b] = command)
    BY <1>10 DEF Live
  <2>2. grown.buffptr = b /\ grown.size = Len(command) /\ Len(command) \in Nat
    BY <1>5
  <2>3. TextIn(memory', grown) = command
    <3>1. CASE b \in Ptr
      <4>1. /\ DOMAIN TextIn(memory', grown) = 1 .. Len(command)
            /\ \A i \in 1 .. Len(command) : TextIn(memory', grown)[i] = command[i]
            /\ TextIn(memory', grown) \in Seq(Byte \cup {Junk})
        BY <1>4, <1>5, <2>1, <2>2, <3>1, TextBytes DEF Live
      <4> QED
        BY <1>5, <4>1
    <3>2. CASE b \notin Ptr
      <4>1. grown.size = 0
        BY <1>5, <2>2, <3>2
      <4> QED
        BY <1>5, <3>2, <4>1, TextEmpty
    <3> QED
      BY <3>1, <3>2
  <2>4. memchr(command) => grown \in Command
    <3> SUFFICES ASSUME memchr(command) PROVE grown \in Command
      OBVIOUS
    <3>1. b \in Ptr
      BY <1>5 DEF memchr
    <3>2. Len(command) \in 1 .. KMALLOC_MAX_SIZE
      BY <1>3, <1>5, <3>1 DEF Heap, Live
    <3> QED
      BY <1>5, <3>1, <3>2 DEF Command
  <2>5. entry' = grown => Text(entry)' = command
    BY <2>3, DeviceTexts
  <2> HIDE DEF b, data
  <2>6. \/ /\ memchr(command) /\ grown \in Command /\ entry' = ZeroEntry
           /\ buffer' = aesd_circular_buffer_add_entry(buffer, grown)
           /\ TextIn(memory', grown) = command /\ Text(entry)' = << >>
        \/ /\ ~memchr(command) /\ buffer' = buffer /\ entry' = grown
           /\ Text(entry)' = command
    BY <1>8, <1>10, <2>3, <2>4, <2>5
  <2> QED
    BY <1>1, <1>2, <1>6, <1>7, <1>10, <2>1, <2>6 DEF CopyTakes, b, data
<1> QED
  BY <1>1, <1>9, <1>10
-----------------------------------------------------------------------------
Whole(t) == t \in Seq(Byte) /\ \E i \in DOMAIN t : t[i] = NL
Unfinished(t) == t \in Seq(Byte) /\ \A i \in DOMAIN t : t[i] # NL

(* CommandsComplete, over the texts of the device.                         *)
LEMMA CompleteIs ==
  CommandsComplete <=>
    (loaded => (\A s \in Held : Whole(Text(buffer.entry[s]))) /\ Unfinished(Text(entry)))
BY DEF CommandsComplete, Whole, Unfinished

(* The same after a step.                                                  *)
LEMMA CompleteIsNext ==
  CommandsComplete' <=>
    (loaded' => (\A s \in Held' : Whole(Text(buffer.entry[s])')) /\ Unfinished(Text(entry)'))
BY DEF CommandsComplete, Whole, Unfinished

(* The slots that hold a command after aesd_circular_buffer_add_entry.     *)
LEMMA HeldAfterAdd ==
  ASSUME IInv, NEW e \in Command, buffer' = aesd_circular_buffer_add_entry(buffer, e)
  PROVE  /\ buffer.in_offs \in Slots /\ Held' \subseteq Slots
         /\ \A s \in Slots : buffer'.entry[s] = IF s = buffer.in_offs THEN e ELSE buffer.entry[s]
         /\ \A s \in Held' : s # buffer.in_offs => s \in Held
<1>1. WellFormed(buffer, Command)
  BY DEF IInv, TypeOK, WellFormed
<1>2. /\ buffer.in_offs \in Slots /\ buffer.full \in BOOLEAN
      /\ buffer.entry \in [Slots -> Command \cup {ZeroEntry}]
  BY <1>1 DEF WellFormed, BufferType
<1>3. /\ buffer'.entry = [buffer.entry EXCEPT ![buffer.in_offs] = e]
      /\ buffer'.in_offs = IF buffer.in_offs + 1 = MaxOps THEN 0 ELSE buffer.in_offs + 1
      /\ buffer'.full = (buffer.full \/ buffer.in_offs + 1 = MaxOps)
  BY <1>1, AddEntryFields
<1>4. \A s \in Held' : s # buffer.in_offs => s \in Held
  BY <1>2, <1>3, MaxOpsAssumption DEF Held, Slots
<1> QED
  BY <1>2, <1>3, <1>4 DEF Held

(***************************************************************************)
(* Only a write changes texts.  krealloc keeps the bytes of the working    *)
(* entry; the copy either ends it, frees it or extends it by data that,    *)
(* with what was there, has no newline.                                    *)
(***************************************************************************)
LEMMA NextComplete == IInv /\ CommandsComplete /\ IInv' /\ [Next]_vars => CommandsComplete'
<1> SUFFICES ASSUME IInv, CommandsComplete, IInv', [Next]_vars PROVE CommandsComplete'
  OBVIOUS
<1>1. CASE UNCHANGED <<loaded, dev>>
  <2>1. /\ loaded' = loaded /\ Held' = Held /\ buffer' = buffer /\ memory' = memory
        /\ entry' = entry
    BY <1>1 DEF dev, Held
  <2>2. /\ Text(entry)' = Text(entry)
        /\ \A s \in Held : Text(buffer.entry[s])' = Text(buffer.entry[s])
    BY <2>1, DeviceTexts
  <2> QED
    BY <2>1, <2>2, CompleteIs, CompleteIsNext
<1>2. CASE aesd_init_module
  <2>1. entry' = ZeroEntry /\ Held' = {}
    BY <1>2 DEF aesd_init_module, aesd_circular_buffer_init, Held, Slots
  <2>2. Text(entry)' = << >>
    BY <2>1, DeviceTexts, TextEmpty, PtrAssumption
  <2>3. Unfinished(<< >>)
    BY DEF Unfinished
  <2> QED
    BY <2>1, <2>2, <2>3, CompleteIsNext
<1>3. CASE aesd_cleanup_module
  BY <1>3 DEF aesd_cleanup_module, CommandsComplete
<1>4. ASSUME NEW f \in File, WriteAlloc(f)
      PROVE  CommandsComplete'
  BY <1>4, AllocTexts, CompleteIs, CompleteIsNext
<1>5. ASSUME NEW f \in File, WriteCopy(f)
      PROVE  CommandsComplete'
  <2> DEFINE command == Text(entry) \o ubuf[f]
             grown == [buffptr |-> entry.buffptr, size |-> entry.size + Len(ubuf[f])]
  <2>1. command = Text(entry) \o ubuf[f] /\ grown = [buffptr |-> entry.buffptr, size |-> entry.size + Len(ubuf[f])]
    OBVIOUS
  <2> HIDE DEF command, grown
  <2>2. /\ loaded /\ loaded' /\ ubuf[f] \in Seq(Byte)
        /\ \A s \in Held : TextIn(memory', buffer.entry[s]) = TextIn(memory, buffer.entry[s])
        /\ \/ buffer' = buffer /\ Text(entry)' = << >>
           \/ /\ memchr(command) /\ grown \in Command /\ Text(entry)' = << >>
              /\ buffer' = aesd_circular_buffer_add_entry(buffer, grown)
              /\ TextIn(memory', grown) = command
           \/ ~memchr(command) /\ buffer' = buffer /\ Text(entry)' = command
    BY <1>5, <2>1, CopyOutcome, ZenonT(60) DEF CopyFaults, CopyTakes
  <2>3. Unfinished(Text(entry)) /\ \A s \in Held : Whole(TextIn(memory', buffer.entry[s]))
    BY <2>2, DeviceTexts, CompleteIs
  <2>4. command \in Seq(Byte) /\ DOMAIN command = 1 .. Len(command)
    BY <2>1, <2>2, <2>3 DEF Unfinished
  <2>5. Unfinished(<< >>) /\ (memchr(command) => Whole(command)) /\ (~memchr(command) => Unfinished(command))
    BY <2>4 DEF Unfinished, Whole, memchr
  <2>6. Unfinished(Text(entry)')
    BY <2>2, <2>5
  <2>7. ASSUME NEW s \in Held' PROVE Whole(Text(buffer.entry[s])')
    <3>1. Text(buffer.entry[s])' = TextIn(memory', buffer'.entry[s])
      BY DeviceTexts
    <3>2. CASE buffer' = buffer
      <4>1. s \in Held
        BY <3>2 DEF Held
      <4> QED
        BY <2>3, <3>1, <3>2, <4>1
    <3>3. CASE /\ memchr(command) /\ grown \in Command /\ TextIn(memory', grown) = command
               /\ buffer' = aesd_circular_buffer_add_entry(buffer, grown)
      <4>1. \/ buffer'.entry[s] = grown
            \/ s \in Held /\ buffer'.entry[s] = buffer.entry[s]
        BY <3>3, HeldAfterAdd
      <4> QED
        BY <2>3, <2>5, <3>1, <3>3, <4>1
    <3> QED
      BY <2>2, <3>2, <3>3
  <2> QED
    BY <2>6, <2>7, CompleteIsNext
<1> QED
  BY <1>1, <1>2, <1>3, <1>4, <1>5, DeviceSteps

(***************************************************************************)
(* Through every interleaving and failure, the commands of the buffer have *)
(* a newline, the working entry has none, and neither has a byte that the  *)
(* users did not write.                                                    *)
(***************************************************************************)
THEOREM CommandsAreComplete == Spec => []CommandsComplete
<1>1. Init => CommandsComplete
  BY DEF Init, CommandsComplete
<1>2. IInv /\ CommandsComplete /\ [Next]_vars => CommandsComplete'
  BY NextIInv, NextComplete
<1> QED
  BY <1>1, <1>2, IInvHolds, PTL DEF Spec

-----------------------------------------------------------------------------
(* What OnlyEvictionLoses says of one step.                                *)
EvictionStep ==
  \A p \in Lost' \ Lost :
    loaded /\ buffer.full /\ p = buffer.entry[buffer.out_offs].buffptr

(***************************************************************************)
(* A slot that is overwritten on a ring that is not full holds the zero    *)
(* entry (RingShape), so it refers to no block that could be lost.         *)
(***************************************************************************)
LEMMA NextLoses == IInv /\ IInv' /\ [Next]_vars => EvictionStep
<1> SUFFICES ASSUME IInv, IInv', [Next]_vars, NEW p \in Lost', p \notin Lost
             PROVE  loaded /\ buffer.full /\ p = buffer.entry[buffer.out_offs].buffptr
  BY DEF EvictionStep
<1>0. p \in Live' /\ (loaded' => p \notin Referenced')
  BY DEF Lost
<1>1. CASE UNCHANGED <<loaded, dev>>
  BY <1>1 DEF dev, Lost, Live, Referenced
<1>2. CASE aesd_init_module
  BY <1>0, <1>2 DEF aesd_init_module, Lost, Live
<1>3. CASE aesd_cleanup_module
  <2>1. DOMAIN memory' = Live \ FreedAtCleanup
    BY <1>3, KfreeHeap DEF aesd_cleanup_module, IInv, TypeOK, Heap, Live
  <2> QED
    BY <1>0, <1>3, <2>1 DEF FreedAtCleanup, Lost, Live, Referenced
<1>4. ASSUME NEW f \in File, WriteAlloc(f)
      PROVE  loaded /\ buffer.full /\ p = buffer.entry[buffer.out_offs].buffptr
  <2>1. /\ loaded' = loaded /\ loaded /\ buffer' = buffer
        /\ UNCHANGED dev \/ DOMAIN memory' \ {entry'.buffptr} = Live \ {entry.buffptr}
    BY <1>4, AllocOutcome
  <2>2. CASE UNCHANGED dev
    BY <1>1, <2>1, <2>2
  <2>3. CASE DOMAIN memory' \ {entry'.buffptr} = Live \ {entry.buffptr}
    <3>1. p # entry'.buffptr /\ p \in Live /\ p # entry.buffptr
      BY <1>0, <2>1, <2>3 DEF Referenced, Live
    <3>2. p \notin Referenced
      BY <1>0, <2>1, <3>1 DEF Referenced
    <3> QED
      BY <2>1, <3>1, <3>2 DEF Lost
  <2> QED
    BY <2>1, <2>2, <2>3
<1>5. ASSUME NEW f \in File, WriteCopy(f)
      PROVE  loaded /\ buffer.full /\ p = buffer.entry[buffer.out_offs].buffptr
  <2> DEFINE command == Text(entry) \o ubuf[f]
             grown == [buffptr |-> entry.buffptr, size |-> entry.size + Len(ubuf[f])]
  <2>1. /\ command = Text(entry) \o ubuf[f]
        /\ grown = [buffptr |-> entry.buffptr, size |-> entry.size + Len(ubuf[f])]
        /\ grown.buffptr = entry.buffptr
    OBVIOUS
  <2> HIDE DEF command, grown
  <2>2. /\ loaded /\ loaded'
        /\ \/ buffer' = buffer /\ Live' = Live \ {entry.buffptr}
           \/ /\ Live' = Live /\ grown \in Command
              /\ buffer' = aesd_circular_buffer_add_entry(buffer, grown)
           \/ Live' = Live /\ buffer' = buffer /\ entry' = grown
    BY <1>5, <2>1, CopyOutcome DEF CopyFaults, CopyTakes
  <2>3. p \notin Referenced' /\ p \in Live /\ p \in Referenced
    BY <1>0, <2>2 DEF Lost
  <2>4. CASE buffer' = buffer /\ Live' = Live \ {entry.buffptr}
    BY <1>0, <2>3, <2>4 DEF Referenced
  <2>5. CASE Live' = Live /\ buffer' = buffer /\ entry' = grown
    BY <2>1, <2>3, <2>5 DEF Referenced
  <2>6. CASE /\ Live' = Live /\ grown \in Command
             /\ buffer' = aesd_circular_buffer_add_entry(buffer, grown)
    <3>1. /\ buffer.in_offs \in Slots
          /\ \A s \in Slots : buffer'.entry[s] = IF s = buffer.in_offs THEN grown ELSE buffer.entry[s]
      BY <2>6, HeldAfterAdd
    <3>2. p # entry.buffptr
      BY <2>1, <2>3, <3>1 DEF Referenced
    <3>3. PICK s \in Slots : p = buffer.entry[s].buffptr
      BY <2>3, <3>2 DEF Referenced
    <3>4. s = buffer.in_offs
      BY <2>3, <3>1, <3>3 DEF Referenced
    <3>5. p \in Ptr /\ p # NULL
      BY <2>3, PtrAssumption DEF IInv, TypeOK
    <3>6. buffer.entry[s] # ZeroEntry
      BY <3>3, <3>5, PtrAssumption
    <3>7. buffer.full /\ buffer.in_offs = buffer.out_offs
      <4>1. ~(buffer.in_offs < buffer.in_offs)
        BY <3>1 DEF Slots
      <4> QED
        BY <3>1, <3>4, <3>6, <4>1 DEF IInv, RingShape
    <3> QED
      BY <2>2, <3>3, <3>4, <3>7
  <2> QED
    BY <2>2, <2>4, <2>5, <2>6
<1> QED
  BY <1>1, <1>2, <1>3, <1>4, <1>5, DeviceSteps

(***************************************************************************)
(* aesd_write is the one handler that loses memory, and what it loses is   *)
(* the block of the command that the full buffer evicts: the failed        *)
(* krealloc, the faulting copy, unload and every other step lose none.     *)
(***************************************************************************)
THEOREM EvictionAloneLoses == Spec => OnlyEvictionLoses
<1>1. IInv /\ IInv' /\ [Next]_vars => [EvictionStep]_vars
  BY NextLoses
<1>2. [][EvictionStep]_vars => OnlyEvictionLoses
  BY DEF OnlyEvictionLoses, EvictionStep
<1> QED
  BY <1>1, <1>2, IInvHolds, PTL DEF Spec
-----------------------------------------------------------------------------
(* Wrapping yields a loff_t,                                               *)
LEMMA LoffRange == \A n \in Int : Loff(n) \in -LoffMax - 1 .. LoffMax
<1>1. ASSUME NEW x \in Int, NEW m \in Nat, m > 0 PROVE x % m \in 0 .. m - 1
  BY <1>1
<1>2. 2 * (LoffMax + 1) \in Nat /\ 2 * (LoffMax + 1) > 0
  BY SizeAssumption
<1> SUFFICES ASSUME NEW n \in Int PROVE Loff(n) \in -LoffMax - 1 .. LoffMax
  OBVIOUS
<1>3. (n + LoffMax + 1) % (2 * (LoffMax + 1)) \in 0 .. 2 * (LoffMax + 1) - 1
  BY <1>1, <1>2, SizeAssumption
<1> QED
  BY <1>3, SizeAssumption DEF Loff

(* leaves a loff_t alone,                                                  *)
LEMMA LoffInside == \A n \in -LoffMax - 1 .. LoffMax : Loff(n) = n
<1>1. ASSUME NEW m \in Nat, m > 0, NEW x \in 0 .. m - 1 PROVE x % m = x
  BY <1>1
<1> SUFFICES ASSUME NEW n \in -LoffMax - 1 .. LoffMax PROVE Loff(n) = n
  OBVIOUS
<1>2. /\ 2 * (LoffMax + 1) \in Nat /\ 2 * (LoffMax + 1) > 0
      /\ n + LoffMax + 1 \in 0 .. 2 * (LoffMax + 1) - 1
  BY SizeAssumption
<1>3. (n + LoffMax + 1) % (2 * (LoffMax + 1)) = n + LoffMax + 1
  BY <1>1, <1>2
<1> QED
  BY <1>3, SizeAssumption DEF Loff

(* and makes the sum of two of them that is too large negative.            *)
LEMMA LoffPast == \A n \in LoffMax + 1 .. 2 * LoffMax + 1 : Loff(n) < 0
<1>1. ASSUME NEW m \in Nat, m > 0, NEW x \in m .. 2 * m - 1 PROVE x % m = x - m
  BY <1>1
<1> SUFFICES ASSUME NEW n \in LoffMax + 1 .. 2 * LoffMax + 1 PROVE Loff(n) < 0
  OBVIOUS
<1> DEFINE m == 2 * (LoffMax + 1)
           x == n + LoffMax + 1
<1>2. m \in Nat /\ m > 0 /\ x \in m .. 2 * m - 1
  BY SizeAssumption
<1> HIDE DEF m, x
<1>3. x % m = x - m
  BY <1>1, <1>2
<1> QED
  BY <1>3, SizeAssumption DEF Loff, m, x
-----------------------------------------------------------------------------
(* Commands have at most KMALLOC_MAX_SIZE bytes.                           *)
LEMMA CommandsSized ==
  /\ Sized(Command) /\ \A e \in Command : e.size \in 0 .. KMALLOC_MAX_SIZE
  /\ IInv => WellFormed(buffer, Command)
BY SizeAssumption DEF Sized, Command, IInv, TypeOK, WellFormed

(* The total size of the buffer is a loff_t, and positions in it are.      *)
LEMMA StreamFits ==
  ASSUME IInv
  PROVE  /\ aesd_circular_buffer_calculate_size(buffer) \in 0 .. LoffMax
         /\ Count(buffer) \in 0 .. MaxOps
         /\ \A k \in 0 .. Count(buffer) : BytesBefore(buffer, k) \in 0 .. LoffMax
<1>1. WellFormed(buffer, Command) /\ Sized(Command)
  BY CommandsSized
<1>2. Count(buffer) \in 0 .. MaxOps /\ \A k \in 0 .. Count(buffer) : BytesBefore(buffer, k) \in Nat
  BY <1>1, EntrySizes, BytesBeforeNat
<1>3. ASSUME NEW k \in 0 .. Count(buffer) PROVE BytesBefore(buffer, k) <= LoffMax
  <2>1. BytesBefore(buffer, k) <= k * KMALLOC_MAX_SIZE
    BY <1>1, CommandsSized, SizeAssumption, BytesBeforeBound
  <2>2. k \in 0 .. MaxOps /\ MaxOps \in Nat
    BY <1>2, MaxOpsAssumption
  <2>3. \A a, c, d \in Nat : a <= c => a * d <= c * d
    OBVIOUS
  <2>4. k * KMALLOC_MAX_SIZE <= MaxOps * KMALLOC_MAX_SIZE
    BY <2>2, <2>3, SizeAssumption
  <2>5. BytesBefore(buffer, k) \in Nat /\ k * KMALLOC_MAX_SIZE \in Nat /\ MaxOps * KMALLOC_MAX_SIZE \in Nat
    BY <1>2, <2>2, SizeAssumption
  <2> QED
    BY <2>1, <2>4, <2>5, StreamAssumption, SizeAssumption
<1> QED
  BY <1>2, <1>3, MaxOpsAssumption DEF aesd_circular_buffer_calculate_size

(* The entries are in held slots.                                          *)
LEMMA EntryHeld ==
  ASSUME IInv, NEW j \in 0 .. Count(buffer) - 1
  PROVE  EntryPos(buffer, j) \in Held
<1>1. /\ buffer.in_offs \in Slots /\ buffer.out_offs \in Slots /\ buffer.full \in BOOLEAN
      /\ ~buffer.full => buffer.out_offs = 0
  BY DEF IInv, TypeOK, BufferType, RingShape
<1>2. j \in 0 .. MaxOps
  BY <1>1, MaxOpsAssumption DEF Count, Slots
<1>3. /\ EntryPos(buffer, j) \in Slots
      /\ EntryPos(buffer, j) = IF buffer.out_offs + j < MaxOps THEN buffer.out_offs + j
                               ELSE buffer.out_offs + j - MaxOps
  BY <1>1, <1>2, EntrySlot DEF EntryPos
<1>4. ASSUME ~buffer.full PROVE EntryPos(buffer, j) < buffer.in_offs
  <2>1. buffer.out_offs = 0 /\ j \in 0 .. buffer.in_offs - 1 /\ buffer.in_offs \in 0 .. MaxOps - 1
    BY <1>1, <1>4 DEF Count, Slots
  <2>2. EntryPos(buffer, j) = j
    BY <1>3, <2>1, MaxOpsAssumption
  <2> QED
    BY <2>1, <2>2, MaxOpsAssumption
<1> QED
  BY <1>3, <1>4 DEF Held

(* What the search of aesd_read returns for a position c.                  *)
LEMMA PlaceFound ==
  ASSUME IInv, NEW c \in Nat, NEW place,
         place = aesd_circular_buffer_find_entry_offset_for_fpos(buffer, c)
  PROVE  \/ place = NULL /\ c >= aesd_circular_buffer_calculate_size(buffer)
         \/ /\ place \in [slot : Slots, offset : Nat] /\ place # NULL
            /\ \E j \in 0 .. Count(buffer) - 1 :
                 /\ BytesBefore(buffer, j) <= c
                 /\ c < BytesBefore(buffer, j + 1)
                 /\ BytesBefore(buffer, j + 1) = BytesBefore(buffer, j) + SizeAt(buffer, j)
                 /\ BytesBefore(buffer, j) \in Nat /\ SizeAt(buffer, j) \in Nat
                 /\ place.slot = EntryPos(buffer, j) /\ place.offset = c - BytesBefore(buffer, j)
<1>1. WellFormed(buffer, Command) /\ Sized(Command)
  BY CommandsSized
<1>2. aesd_circular_buffer_calculate_size(buffer) \in Int
  BY StreamFits, SizeAssumption
<1>3. CASE c >= aesd_circular_buffer_calculate_size(buffer)
  BY <1>1, <1>3, FindResult
<1>4. CASE c < aesd_circular_buffer_calculate_size(buffer)
  <2>1. PICK j \in 0 .. Count(buffer) - 1 : BytesBefore(buffer, j) <= c /\ c < BytesBefore(buffer, j + 1)
    BY <1>1, <1>4, EntryOfByte
  <2>2. place = [slot |-> EntryPos(buffer, j), offset |-> c - BytesBefore(buffer, j)]
    BY <1>1, <2>1, FindResult
  <2>3. Count(buffer) \in Nat /\ SizeAt(buffer, j) \in Nat /\ EntryPos(buffer, j) \in Slots
    BY <1>1, EntrySizes
  <2>4. j \in Nat /\ j \in 0 .. Count(buffer)
    BY <2>3
  <2>5. /\ BytesBefore(buffer, j + 1) = BytesBefore(buffer, j) + SizeAt(buffer, j)
        /\ BytesBefore(buffer, j) \in Nat
    BY <1>1, <2>4, BytesBeforeStep, BytesBeforeNat
  <2>6. c - BytesBefore(buffer, j) \in Nat
    BY <2>1, <2>5
  <2>7. place \in [slot : Slots, offset : Nat] /\ place # NULL
    BY <2>2, <2>3, <2>6, NullAssumption
  <2> QED
    BY <2>1, <2>2, <2>3, <2>5, <2>7
<1> QED
  BY <1>2, <1>3, <1>4

(***************************************************************************)
(* What PositionsValid needs to be inductive: the place a read has found   *)
(* is that of its position, and the room a write will need is there.       *)
(***************************************************************************)
Place == [slot : Slots, offset : Nat]
PosInv ==
  /\ f_pos \in [File -> 0 .. LoffMax]
  /\ found \in [File -> Place \cup {NULL}]
  /\ \A f \in File : pc[f] = "copy_out" =>
       /\ found[f] # NULL
       /\ found[f] = aesd_circular_buffer_find_entry_offset_for_fpos(buffer, f_pos[f])
  /\ \A f \in File : pc[f] = "copy_in" => /\ f_pos[f] + Len(ubuf[f]) <= LoffMax
                                           /\ ubuf[f] \in UserData

(* A step of f alone, after which f has neither a place nor data to copy.  *)
LEMMA PosStep ==
  ASSUME IInv, PosInv, NEW f \in File, NEW pos \in 0 .. LoffMax, NEW q,
         f_pos' = [f_pos EXCEPT ![f] = pos],
         pc' = [pc EXCEPT ![f] = q], q \notin {"copy_out", "copy_in"},
         found' = found \/ found' = [found EXCEPT ![f] = NULL],
         ubuf' = ubuf \/ ubuf' = [ubuf EXCEPT ![f] = << >>],
         buffer' = buffer \/ pc[f] \in Critical
  PROVE  PosInv'
<1>1. /\ f_pos \in [File -> 0 .. LoffMax] /\ found \in [File -> Place \cup {NULL}]
      /\ pc \in [File -> PcValues] /\ ubuf \in [File -> Seq(Byte)]
  BY DEF IInv, TypeOK, PosInv
<1>2. f_pos' \in [File -> 0 .. LoffMax] /\ found' \in [File -> Place \cup {NULL}]
  BY <1>1
<1>3. ASSUME NEW g \in File, g # f
      PROVE  /\ f_pos'[g] = f_pos[g] /\ pc'[g] = pc[g] /\ found'[g] = found[g] /\ ubuf'[g] = ubuf[g]
             /\ pc[g] = "copy_out" => buffer' = buffer
  <2>1. f_pos'[g] = f_pos[g] /\ pc'[g] = pc[g] /\ found'[g] = found[g] /\ ubuf'[g] = ubuf[g]
    BY <1>1, <1>3
  <2>2. pc[f] \in Critical => pc[g] \notin Critical
    BY <1>3, AloneInside
  <2> QED
    BY <2>1, <2>2 DEF Critical
<1>4. pc'[f] \notin {"copy_out", "copy_in"}
  BY <1>1
<1>5. ASSUME NEW g \in File, pc'[g] = "copy_out"
      PROVE  /\ found'[g] # NULL
             /\ found'[g] = aesd_circular_buffer_find_entry_offset_for_fpos(buffer', f_pos'[g])
  BY <1>3, <1>4, <1>5 DEF PosInv
<1>6. ASSUME NEW g \in File, pc'[g] = "copy_in"
      PROVE  f_pos'[g] + Len(ubuf'[g]) <= LoffMax /\ ubuf'[g] \in UserData
  BY <1>3, <1>4, <1>6 DEF PosInv
<1>7. \A g \in File : aesd_circular_buffer_find_entry_offset_for_fpos(buffer, f_pos[g])'
                      = aesd_circular_buffer_find_entry_offset_for_fpos(buffer', f_pos'[g])
  OBVIOUS
<1> QED
  BY <1>2, <1>5, <1>6, <1>7 DEF PosInv, Place, Slots

(* The same for a step of f that returns from a call.                      *)
LEMMA ReturnPos ==
  ASSUME IInv, PosInv, NEW f \in File, NEW pos \in 0 .. LoffMax,
         NEW op, NEW arg, NEW ret, NEW data,
         f_pos' = f_pos \/ f_pos' = [f_pos EXCEPT ![f] = pos],
         Return(f, op, arg, ret, data),
         buffer' = buffer \/ pc[f] \in Critical
  PROVE  PosInv'
<1>1. f_pos \in [File -> 0 .. LoffMax] /\ f_pos[f] \in 0 .. LoffMax
  BY DEF PosInv
<1>2. \E p \in 0 .. LoffMax : f_pos' = [f_pos EXCEPT ![f] = p]
  <2>1. CASE f_pos' = f_pos
    <3>1. f_pos' = [f_pos EXCEPT ![f] = f_pos[f]]
      BY <1>1, <2>1
    <3> QED
      BY <1>1, <3>1
  <2> QED
    BY <2>1
<1>3. /\ pc' = [pc EXCEPT ![f] = "open"]
      /\ found' = [found EXCEPT ![f] = NULL] /\ ubuf' = [ubuf EXCEPT ![f] = << >>]
  BY DEF Return
<1>4. "open" \notin {"copy_out", "copy_in"}
  OBVIOUS
<1>5. PICK p \in 0 .. LoffMax : f_pos' = [f_pos EXCEPT ![f] = p]
  BY <1>2
<1> QED
  BY <1>3, <1>4, <1>5, PosStep

(***************************************************************************)
(* A read finds its place and copies it with the mutex held, so no write   *)
(* of another file comes between (AloneInside); a seek wraps into the      *)
(* loff_t's and refuses what is negative; the ioctl stays in the stream.   *)
(***************************************************************************)
LEMMA NextPosInv == IInv /\ PosInv /\ IInv' /\ [Next]_vars => PosInv'
<1> SUFFICES ASSUME IInv, PosInv, IInv', [Next]_vars PROVE PosInv'
  OBVIOUS
<1>0. /\ f_pos \in [File -> 0 .. LoffMax] /\ found \in [File -> Place \cup {NULL}]
      /\ pc \in [File -> PcValues] /\ ubuf \in [File -> Seq(Byte)]
      /\ \A f \in File : f_pos[f] \in Nat /\ f_pos[f] \in 0 .. LoffMax
      /\ 0 \in 0 .. LoffMax
  BY SizeAssumption DEF IInv, TypeOK, PosInv
<1>1. CASE \/ UNCHANGED vars
           \/ aesd_init_module \/ aesd_cleanup_module
  <2>1. UNCHANGED <<f_pos, pc, found, ubuf>> /\ (buffer' = buffer \/ \A f \in File : pc[f] = "closed")
    BY <1>1 DEF vars, aesd_init_module, aesd_cleanup_module, IInv, ModuleInv
  <2>2. \A f \in File : pc[f] = "copy_out" => buffer' = buffer
    BY <2>1
  <2> QED
    BY <2>1, <2>2 DEF PosInv
<1>2. ASSUME NEW f \in File, aesd_open(f) \/ aesd_release(f)
      PROVE  PosInv'
  <2>1. \E q \in {"open", "closed"} : pc' = [pc EXCEPT ![f] = q]
    BY <1>2 DEF aesd_open, aesd_release
  <2>2. f_pos' = [f_pos EXCEPT ![f] = 0] /\ found' = found /\ ubuf' = ubuf /\ buffer' = buffer
    BY <1>2 DEF aesd_open, aesd_release, dev
  <2> QED
    BY <1>0, <2>1, <2>2, PosStep
<1>3. ASSUME NEW f \in File, Lock(f) \/ \E op \in Waiting : Call(f, op)
      PROVE  PosInv'
  <2>1. /\ f_pos' = [f_pos EXCEPT ![f] = f_pos[f]] /\ found' = found /\ ubuf' = ubuf /\ buffer' = buffer
    BY <1>0, <1>3 DEF Lock, Call, dev
  <2>2. \E q : pc' = [pc EXCEPT ![f] = q] /\ q \notin {"copy_out", "copy_in"}
    BY <1>3 DEF Lock, Call, Waiting, Locked
  <2> QED
    BY <1>0, <2>1, <2>2, PosStep
<1>4. ASSUME NEW f \in File, Interrupted(f) \/ aesd_ioctl(f)
      PROVE  PosInv'
  <2>1. f_pos' = f_pos /\ buffer' = buffer /\ \E op, arg, ret, data : Return(f, op, arg, ret, data)
    BY <1>4 DEF Interrupted, aesd_ioctl, dev
  <2> QED
    BY <1>0, <2>1, ReturnPos
<1>5. ASSUME NEW f \in File, ReadFind(f)
      PROVE  PosInv'
  <2> DEFINE place == aesd_circular_buffer_find_entry_offset_for_fpos(buffer, f_pos[f])
  <2>1. f_pos' = f_pos /\ buffer' = buffer /\ pc[f] = "reading"
    BY <1>5 DEF ReadFind, dev
  <2>2. CASE Return(f, "read", << >>, 0, << >>)
    BY <1>0, <2>1, <2>2, ReturnPos
  <2>3. CASE /\ place # NULL /\ pc' = [pc EXCEPT ![f] = "copy_out"]
             /\ found' = [found EXCEPT ![f] = place] /\ UNCHANGED <<mutex, ubuf>>
    <3>1. place \in Place
      BY <1>0, <2>3, PlaceFound DEF Place
    <3> HIDE DEF place
    <3>2. found' \in [File -> Place \cup {NULL}] /\ found'[f] = place
      BY <1>0, <2>3, <3>1
    <3>3. \A g \in File : g # f => pc'[g] = pc[g] /\ found'[g] = found[g]
      BY <1>0, <2>3
    <3>4. \A g \in File : pc'[g] = "copy_out" =>
             /\ found'[g] # NULL
             /\ found'[g] = aesd_circular_buffer_find_entry_offset_for_fpos(buffer, f_pos[g])
      BY <2>3, <3>2, <3>3 DEF PosInv, place
    <3>5. \A g \in File : pc'[g] = "copy_in" => /\ f_pos[g] + Len(ubuf[g]) <= LoffMax
                                                 /\ ubuf[g] \in UserData
      BY <1>0, <2>3, <3>3 DEF PosInv
    <3> QED
      BY <1>0, <2>1, <2>3, <3>2, <3>4, <3>5 DEF PosInv, Place, Slots
  <2> QED
    BY <1>5, <2>2, <2>3 DEF ReadFind, UnlockAndReturn
<1>6. ASSUME NEW f \in File, ReadCopy(f)
      PROVE  PosInv'
  <2>1. pc[f] = "copy_out" /\ buffer' = buffer
    BY <1>6 DEF ReadCopy, dev
  <2> DEFINE left == buffer.entry[found[f].slot].size - found[f].offset
  <2>2. PICK count \in 0 .. MaxRead :
          LET n == IF left >= count THEN count ELSE left
          IN  /\ f_pos[f] + count <= LoffMax
              /\ f_pos' = f_pos \/ f_pos' = [f_pos EXCEPT ![f] = @ + n]
              /\ \E ret, data : Return(f, "read", <<count>>, ret, data)
    BY <1>6 DEF ReadCopy, UnlockAndReturn
  <2>3. left \in Nat
    <3>1. PICK j \in 0 .. Count(buffer) - 1 :
                 /\ BytesBefore(buffer, j) <= f_pos[f]
                 /\ f_pos[f] < BytesBefore(buffer, j + 1)
                 /\ BytesBefore(buffer, j + 1) = BytesBefore(buffer, j) + SizeAt(buffer, j)
                 /\ BytesBefore(buffer, j) \in Nat /\ SizeAt(buffer, j) \in Nat
                 /\ found[f].slot = EntryPos(buffer, j) /\ found[f].offset = f_pos[f] - BytesBefore(buffer, j)
      BY <1>0, <2>1, PlaceFound DEF PosInv
    <3> QED
      BY <1>0, <3>1 DEF SizeAt
  <2> HIDE DEF left
  <2> DEFINE n == IF left >= count THEN count ELSE left
  <2>4. f_pos[f] + n \in 0 .. LoffMax
    BY <1>0, <2>2, <2>3, SizeAssumption
  <2> HIDE DEF n
  <2>5. f_pos' = f_pos \/ f_pos' = [f_pos EXCEPT ![f] = f_pos[f] + n]
    BY <2>2 DEF n
  <2> QED
    BY <2>1, <2>2, <2>4, <2>5, ReturnPos
<1>7. ASSUME NEW f \in File, WriteAlloc(f)
      PROVE  PosInv'
  <2>1. f_pos' = f_pos /\ buffer' = buffer /\ pc[f] = "writing"
    BY <1>7, AllocOutcome
  <2>2. CASE UnlockAndReturn(f, "write", << >>, -ENOMEM, << >>)
    BY <1>0, <2>1, <2>2, ReturnPos DEF UnlockAndReturn
  <2>3. CASE /\ pc' = [pc EXCEPT ![f] = "copy_in"] /\ UNCHANGED found
             /\ \E data \in UserData : /\ ubuf' = [ubuf EXCEPT ![f] = data]
                                       /\ f_pos[f] + Len(data) <= LoffMax
    <3>1. \A g \in File : pc'[g] = "copy_out" => pc[g] = "copy_out"
      BY <1>0, <2>3
    <3>2. \A g \in File : pc'[g] = "copy_in" => /\ f_pos[g] + Len(ubuf'[g]) <= LoffMax
                                                 /\ ubuf'[g] \in UserData
      BY <1>0, <2>3 DEF PosInv
    <3>3. \A g \in File : pc'[g] = "copy_out" =>
             /\ found'[g] # NULL
             /\ found'[g] = aesd_circular_buffer_find_entry_offset_for_fpos(buffer', f_pos'[g])
      BY <2>1, <2>3, <3>1 DEF PosInv
    <3> QED
      BY <1>0, <2>1, <2>3, <3>2, <3>3 DEF PosInv, Place, Slots
  <2> QED
    BY <1>7, <2>2, <2>3, AllocOutcome
<1>8. ASSUME NEW f \in File, WriteCopy(f)
      PROVE  PosInv'
  <2>1. pc[f] \in Critical /\ pc[f] = "copy_in" /\ Len(ubuf[f]) \in Nat
    BY <1>0, <1>8, PcFacts DEF WriteCopy
  <2>2. f_pos[f] + Len(ubuf[f]) \in 0 .. LoffMax
    BY <1>0, <2>1, SizeAssumption DEF PosInv
  <2>3. f_pos' = f_pos \/ f_pos' = [f_pos EXCEPT ![f] = f_pos[f] + Len(ubuf[f])]
    BY <1>8 DEF WriteCopy
  <2>4. \E ret, data : Return(f, "write", << >>, ret, data)
    BY <1>8 DEF WriteCopy, UnlockAndReturn
  <2> QED
    BY <2>1, <2>2, <2>3, <2>4, ReturnPos
<1>9. ASSUME NEW f \in File, aesd_seek(f)
      PROVE  PosInv'
  <2>1. PICK whence \in 0 .. 3, off \in Offset :
          /\ \/ f_pos' = f_pos
             \/ newpos(f, whence, off) >= 0 /\ f_pos' = [f_pos EXCEPT ![f] = newpos(f, whence, off)]
          /\ \E ret : Return(f, "llseek", <<whence, off>>, ret, << >>)
    BY <1>9 DEF aesd_seek, UnlockAndReturn
  <2>2. buffer' = buffer
    BY <1>9 DEF aesd_seek, dev
  <2>3. newpos(f, whence, off) \in -LoffMax - 1 .. LoffMax
    <3>1. aesd_circular_buffer_calculate_size(buffer) \in Int /\ off \in Int /\ f_pos[f] \in Int
      BY <1>0, StreamFits, OffsetAssumption, SizeAssumption
    <3>2. /\ Loff(f_pos[f] + off) \in -LoffMax - 1 .. LoffMax
          /\ Loff(aesd_circular_buffer_calculate_size(buffer) + off) \in -LoffMax - 1 .. LoffMax
          /\ off \in -LoffMax - 1 .. LoffMax /\ -1 \in -LoffMax - 1 .. LoffMax
      BY <3>1, LoffRange, OffsetAssumption, SizeAssumption
    <3> QED
      BY <3>2 DEF newpos
  <2>4. newpos(f, whence, off) >= 0 => newpos(f, whence, off) \in 0 .. LoffMax
    BY <2>3, SizeAssumption
  <2> QED
    BY <1>0, <2>1, <2>2, <2>4, ReturnPos
<1>10. ASSUME NEW f \in File, aesd_adjust_file_offset(f)
       PROVE  PosInv'
  <2>1. PICK cmd \in 0 .. MaxOps, off \in 0 .. KMALLOC_MAX_SIZE :
          /\ \/ f_pos' = f_pos
             \/ /\ cmd < Count(buffer) /\ off < SizeAt(buffer, cmd)
                /\ f_pos' = [f_pos EXCEPT ![f] = BytesBefore(buffer, cmd) + off]
          /\ \E ret : Return(f, "ioctl", <<cmd, off>>, ret, << >>)
    BY <1>10 DEF aesd_adjust_file_offset, UnlockAndReturn, aesd_seekto
  <2>2. buffer' = buffer
    BY <1>10 DEF aesd_adjust_file_offset, dev
  <2>3. cmd < Count(buffer) /\ off < SizeAt(buffer, cmd) => BytesBefore(buffer, cmd) + off \in 0 .. LoffMax
    <3> SUFFICES ASSUME cmd < Count(buffer), off < SizeAt(buffer, cmd)
                 PROVE  BytesBefore(buffer, cmd) + off \in 0 .. LoffMax
      OBVIOUS
    <3>1. /\ cmd \in Nat /\ cmd \in 0 .. Count(buffer) /\ cmd + 1 \in 0 .. Count(buffer)
          /\ cmd \in 0 .. Count(buffer) - 1
      BY StreamFits, MaxOpsAssumption
    <3>2. BytesBefore(buffer, cmd) \in 0 .. LoffMax /\ BytesBefore(buffer, cmd + 1) \in 0 .. LoffMax
      BY <3>1, StreamFits
    <3>3. BytesBefore(buffer, cmd + 1) = BytesBefore(buffer, cmd) + SizeAt(buffer, cmd)
      BY <3>1, BytesBeforeStep
    <3>4. SizeAt(buffer, cmd) \in Nat
      BY <3>1, EntrySizes, CommandsSized
    <3> QED
      BY <3>2, <3>3, <3>4, SizeAssumption
  <2> QED
    BY <1>0, <2>1, <2>2, <2>3, ReturnPos
<1> QED
  BY <1>1, <1>2, <1>3, <1>4, <1>5, <1>6, <1>7, <1>8, <1>9, <1>10 DEF Next, Body

(***************************************************************************)
(* Every file position is a loff_t and not negative after any sequence of  *)
(* reads, writes, seeks and ioctls, and the place that aesd_read has found *)
(* is still a byte of a command of the buffer when it copies from there.   *)
(***************************************************************************)
THEOREM PositionsAreValid == Spec => []PositionsValid
<1>1. Init => PosInv
  BY SizeAssumption DEF Init, PosInv
<1>2. IInv /\ PosInv /\ [Next]_vars => PosInv'
  BY NextIInv, NextPosInv
<1>3. IInv /\ PosInv => PositionsValid
  <2> SUFFICES ASSUME IInv, PosInv PROVE PositionsValid
    OBVIOUS
  <2>1. \A f \in File : f_pos[f] \in 0 .. LoffMax /\ f_pos[f] \in Nat
    BY SizeAssumption DEF PosInv
  <2>2. ASSUME NEW f \in File, pc[f] = "copy_out"
        PROVE  /\ found[f].slot \in Held
               /\ found[f].offset \in 0 .. buffer.entry[found[f].slot].size - 1
    <3>1. PICK j \in 0 .. Count(buffer) - 1 :
                 /\ BytesBefore(buffer, j) <= f_pos[f]
                 /\ f_pos[f] < BytesBefore(buffer, j + 1)
                 /\ BytesBefore(buffer, j + 1) = BytesBefore(buffer, j) + SizeAt(buffer, j)
                 /\ BytesBefore(buffer, j) \in Nat /\ SizeAt(buffer, j) \in Nat
                 /\ found[f].slot = EntryPos(buffer, j) /\ found[f].offset = f_pos[f] - BytesBefore(buffer, j)
      BY <2>1, <2>2, PlaceFound DEF PosInv
    <3>2. EntryPos(buffer, j) \in Held
      BY EntryHeld
    <3>3. found[f].offset \in 0 .. SizeAt(buffer, j) - 1
      BY <2>1, <3>1
    <3> QED
      BY <3>1, <3>2, <3>3 DEF SizeAt
  <2> QED
    BY <2>1, <2>2 DEF PositionsValid
<1> QED
  BY <1>1, <1>2, <1>3, IInvHolds, PTL DEF Spec
-----------------------------------------------------------------------------
(* The abstract state of the refinement.                                   *)

(* A step that leaves the device alone leaves the abstract state alone.    *)
LEMMA SameLog ==
  ASSUME UNCHANGED <<loaded, dev>>
  PROVE  LogText' = LogText /\ PartialText' = PartialText
BY DEF dev, LogText, PartialText, Text, Fetch, BytesAt, Live, Contents, Count, EntryPos

(* What the refinement needs of a state of the driver.                     *)
AInv == IInv /\ CommandsComplete /\ PosInv

(* The abstract log, command by command.                                   *)
LEMMA LogFacts ==
  ASSUME AInv, IInv', loaded
  PROVE  /\ LogText \in Seq(Seq(Byte)) /\ Len(LogText) = Count(buffer) /\ Count(buffer) \in Nat
         /\ \A i \in 1 .. Count(buffer) :
              /\ EntryPos(buffer, i - 1) \in Held
              /\ LogText[i] = TextIn(memory, buffer.entry[EntryPos(buffer, i - 1)])
              /\ LogText[i] = Text(Contents(buffer)[i])
              /\ Len(LogText[i]) = SizeAt(buffer, i - 1)
         /\ Starts(LogText, [k \in 0 .. Count(buffer) |-> BytesBefore(buffer, k)])
         /\ PartialText = Text(entry) /\ PartialText \in Seq(Byte)
<1>1. WellFormed(buffer, Command) /\ Sized(Command) /\ IInv
  BY CommandsSized DEF AInv
<1>2. Count(buffer) \in Nat
  BY <1>1, EntrySizes
<1>3. ASSUME NEW i \in 1 .. Count(buffer)
      PROVE  /\ EntryPos(buffer, i - 1) \in Held
             /\ Text(Contents(buffer)[i]) = TextIn(memory, buffer.entry[EntryPos(buffer, i - 1)])
             /\ Text(Contents(buffer)[i]) \in Seq(Byte)
             /\ Len(Text(Contents(buffer)[i])) = SizeAt(buffer, i - 1)
  <2> DEFINE s == EntryPos(buffer, i - 1)
  <2>1. i - 1 \in 0 .. Count(buffer) - 1
    BY <1>2
  <2>2. s \in Held
    BY <1>1, <2>1, EntryHeld
  <2>3. Contents(buffer)[i] = buffer.entry[s]
    BY DEF Contents
  <2>4. Text(buffer.entry[s]) = TextIn(memory, buffer.entry[s])
    BY <1>1, <2>2, DeviceTexts
  <2>5. Text(buffer.entry[s]) \in Seq(Byte)
    BY <2>2 DEF AInv, CommandsComplete
  <2>6. Heap(memory) /\ buffer.entry[s].size \in Nat /\ buffer.entry[s].buffptr \in Live
        /\ buffer.entry[s].size <= Len(memory[buffer.entry[s].buffptr])
    BY <1>1, <2>2, OwnedBlocks
  <2>7. Len(TextIn(memory, buffer.entry[s])) = buffer.entry[s].size
    BY <2>6, TextBytes DEF Live
  <2> QED
    BY <2>2, <2>3, <2>4, <2>5, <2>7 DEF SizeAt
<1>4. LogText = [i \in 1 .. Count(buffer) |-> Text(Contents(buffer)[i])]
  BY DEF LogText
<1>5. LogText \in [1 .. Count(buffer) -> Seq(Byte)]
  BY <1>3, <1>4
<1>6. LogText \in Seq(Seq(Byte)) /\ Len(LogText) = Count(buffer)
  BY <1>2, <1>5
<1>7. \A i \in 1 .. Count(buffer) : LogText[i] = Text(Contents(buffer)[i])
  BY <1>4
<1>8. Starts(LogText, [k \in 0 .. Count(buffer) |-> BytesBefore(buffer, k)])
  <2> DEFINE B == [k \in 0 .. Count(buffer) |-> BytesBefore(buffer, k)]
  <2>1. B \in [0 .. Count(buffer) -> Nat]
    BY <1>1, BytesBeforeNat
  <2>2. B[0] = 0
    BY <1>2, BytesBeforeStep
  <2>3. ASSUME NEW i \in 1 .. Count(buffer) PROVE B[i] = B[i - 1] + Len(LogText[i])
    <3>1. i - 1 \in Nat /\ i - 1 \in 0 .. Count(buffer) /\ i \in 0 .. Count(buffer) /\ (i - 1) + 1 = i
      BY <1>2
    <3>2. BytesBefore(buffer, (i - 1) + 1) = BytesBefore(buffer, i - 1) + SizeAt(buffer, i - 1)
      BY <3>1, BytesBeforeStep
    <3>3. Len(LogText[i]) = SizeAt(buffer, i - 1)
      BY <1>3, <1>7
    <3> QED
      BY <3>1, <3>2, <3>3
  <2> QED
    BY <1>6, <2>1, <2>2, <2>3 DEF Starts
<1>9. PartialText = Text(entry) /\ Text(entry) \in Seq(Byte)
  BY DEF AInv, CommandsComplete, PartialText
<1> QED
  BY <1>2, <1>3, <1>6, <1>7, <1>8, <1>9

(* AesdLog and this module flatten sequences in the same way.              *)
LEMMA DeviceFlatten == \A ss : Device!FlattenSeq(ss) = FlattenSeq(ss)
BY DEF Device!FlattenSeq, FlattenSeq

(* A call that fails and changes nothing.                                  *)
LEMMA FailsRefines ==
  ASSUME AInv, NEW f \in File, Interrupted(f) \/ aesd_ioctl(f)
  PROVE  Device!Fails(f)
<1>1. pc[f] # "closed" /\ UNCHANGED <<loaded, dev, f_pos>> /\ pc' = [pc EXCEPT ![f] = "open"]
  BY DEF Interrupted, aesd_ioctl, Waiting, Return
<1>2. OpenFiles' = OpenFiles /\ f \in OpenFiles /\ LogText' = LogText /\ PartialText' = PartialText
  BY <1>1, SameLog DEF OpenFiles, AInv, IInv, TypeOK
<1>3. \/ \E op \in Waiting : Return(f, op, << >>, -512, << >>)
      \/ \E err \in {25, 14} : Return(f, "ioctl", << >>, -err, << >>)
  BY DEF Interrupted, aesd_ioctl, ENOTTY, EFAULT, ERESTARTSYS
<1> QED
  BY <1>1, <1>2, <1>3 DEF Device!Fails, Device!Completes, Waiting, Return

(* Steps that no user can see.                                             *)
LEMMA InternalRefines ==
  ASSUME AInv, AInv', NEW f \in File,
         \/ Lock(f) \/ \E op \in Waiting : Call(f, op)
         \/ ReadFind(f) /\ done' = NULL
         \/ WriteAlloc(f) /\ done' = NULL
  PROVE  Device!Internal
<1>0. pc \in [File -> PcValues]
  BY DEF AInv, IInv, TypeOK
<1>1. CASE Lock(f) \/ \E op \in Waiting : Call(f, op)
  <2>1. /\ UNCHANGED <<loaded, dev, f_pos>> /\ done' = NULL
        /\ \E q \in PcValues : pc' = [pc EXCEPT ![f] = q] /\ q # "closed" /\ pc[f] # "closed"
    BY <1>1, PcFacts DEF Lock, Call
  <2>2. OpenFiles' = OpenFiles
    BY <1>0, <2>1 DEF OpenFiles
  <2> QED
    BY <2>1, <2>2, SameLog DEF Device!Internal
<1>2. CASE ReadFind(f) /\ done' = NULL
  <2>1. /\ UNCHANGED <<loaded, dev, f_pos>> /\ pc[f] = "reading"
        /\ pc' = [pc EXCEPT ![f] = "open"] \/ pc' = [pc EXCEPT ![f] = "copy_out"]
    BY <1>2 DEF ReadFind, UnlockAndReturn, Return
  <2>2. OpenFiles' = OpenFiles
    BY <1>0, <2>1 DEF OpenFiles
  <2> QED
    BY <1>2, <2>1, <2>2, SameLog DEF Device!Internal
<1>3. CASE WriteAlloc(f) /\ done' = NULL
  <2>1. /\ UNCHANGED <<loaded, f_pos>> /\ pc[f] = "writing" /\ loaded /\ buffer' = buffer
        /\ pc' = [pc EXCEPT ![f] = "open"] \/ pc' = [pc EXCEPT ![f] = "copy_in"]
    BY <1>3, AllocOutcome DEF AInv, UnlockAndReturn, Return
  <2>2. OpenFiles' = OpenFiles
    BY <1>0, <2>1 DEF OpenFiles
  <2>3. /\ Text(entry)' = Text(entry)
        /\ \A s \in Held : Text(buffer.entry[s])' = Text(buffer.entry[s])
    BY <1>3, AllocTexts DEF AInv
  <2>4. PartialText' = PartialText
    BY <2>1, <2>3 DEF PartialText
  <2>5. \A i \in 1 .. Count(buffer) : Text(Contents(buffer)[i])' = Text(Contents(buffer)[i])
    <3> SUFFICES ASSUME NEW i \in 1 .. Count(buffer)
                 PROVE  Text(Contents(buffer)[i])' = Text(Contents(buffer)[i])
      OBVIOUS
    <3>1. EntryPos(buffer, i - 1) \in Held
      BY <2>1, LogFacts DEF AInv
    <3>2. Contents(buffer)[i] = buffer.entry[EntryPos(buffer, i - 1)]
      BY DEF Contents
    <3>3. Contents(buffer)[i]' = (buffer.entry[EntryPos(buffer, i - 1)])'
      BY <2>1 DEF Contents, Count, EntryPos
    <3>4. EntryPos(buffer, i - 1)' = EntryPos(buffer, i - 1)
      BY <2>1 DEF EntryPos
    <3> QED
      BY <2>1, <2>3, <3>1, <3>2, <3>3, <3>4 DEF Text, Fetch, BytesAt, Live
  <2>6. Count(buffer)' = Count(buffer)
    BY <2>1 DEF Count
  <2>7. LogText' = LogText
    BY <2>1, <2>5, <2>6 DEF LogText
  <2> QED
    BY <1>3, <2>1, <2>2, <2>4, <2>7 DEF Device!Internal
<1> QED
  BY <1>1, <1>2, <1>3

(* init_module and cleanup_module.                                         *)
LEMMA LoadRefines ==
  ASSUME AInv, AInv', aesd_init_module
  PROVE  Device!Load
<1>1. /\ ~loaded /\ loaded' \in BOOLEAN /\ done' = NULL /\ UNCHANGED <<f_pos, pc>>
      /\ buffer' = aesd_circular_buffer_init /\ entry' = ZeroEntry
  BY DEF aesd_init_module
<1>2. Count(buffer)' = 0
  BY <1>1 DEF Count, aesd_circular_buffer_init
<1>3. LogText' = << >>
  BY <1>2 DEF LogText
<1>4. Text(entry)' = << >>
  BY <1>1, DeviceTexts, TextEmpty, PtrAssumption DEF AInv
<1>5. PartialText' = << >>
  BY <1>4 DEF PartialText
<1>6. OpenFiles' = OpenFiles
  BY <1>1 DEF OpenFiles
<1> QED
  BY <1>1, <1>3, <1>5, <1>6 DEF Device!Load

(* cleanup_module empties the log.                                         *)
LEMMA UnloadRefines ==
  ASSUME AInv, aesd_cleanup_module
  PROVE  Device!Unload
<1>1. /\ loaded /\ loaded' = FALSE /\ done' = NULL /\ UNCHANGED <<f_pos, pc>>
      /\ \A f \in File : pc[f] = "closed"
  BY DEF aesd_cleanup_module
<1>2. LogText' = << >> /\ PartialText' = << >> /\ OpenFiles = {} /\ OpenFiles' = OpenFiles
  BY <1>1 DEF LogText, PartialText, OpenFiles
<1> QED
  BY <1>1, <1>2 DEF Device!Unload

(* aesd_open and aesd_release.                                             *)
LEMMA OpenRefines ==
  ASSUME AInv, NEW f \in File, aesd_open(f)
  PROVE  Device!Open(f)
<1>1. /\ loaded /\ pc[f] = "closed" /\ pc' = [pc EXCEPT ![f] = "open"]
      /\ f_pos' = [f_pos EXCEPT ![f] = 0] /\ done' = NULL /\ UNCHANGED <<loaded, dev>>
  BY DEF aesd_open
<1>2. f \notin OpenFiles /\ OpenFiles' = OpenFiles \cup {f}
  BY <1>1 DEF OpenFiles, AInv, IInv, TypeOK
<1> QED
  BY <1>1, <1>2, SameLog DEF Device!Open

(* A file that is closed has position 0 again.                             *)
LEMMA CloseRefines ==
  ASSUME AInv, NEW f \in File, aesd_release(f)
  PROVE  Device!Close(f)
<1>1. /\ pc[f] = "open" /\ pc' = [pc EXCEPT ![f] = "closed"]
      /\ f_pos' = [f_pos EXCEPT ![f] = 0] /\ done' = NULL /\ UNCHANGED <<loaded, dev>>
  BY DEF aesd_release
<1>2. f \in OpenFiles /\ OpenFiles' = OpenFiles \ {f}
  BY <1>1 DEF OpenFiles, AInv, IInv, TypeOK
<1> QED
  BY <1>1, <1>2, SameLog DEF Device!Close

(* The stream that users read: its length, and where its bytes are.        *)
LEMMA StreamFacts ==
  ASSUME AInv, IInv', loaded
  PROVE  /\ Device!Stream = FlattenSeq(LogText) /\ FlattenSeq(LogText) \in Seq(Byte)
         /\ Len(FlattenSeq(LogText)) = aesd_circular_buffer_calculate_size(buffer)
         /\ \A j \in 0 .. Count(buffer) - 1 : \A x \in 1 .. SizeAt(buffer, j) :
              FlattenSeq(LogText)[BytesBefore(buffer, j) + x] =
                TextIn(memory, buffer.entry[EntryPos(buffer, j)])[x]
         /\ \A k \in 0 .. Count(buffer) :
              Len(FlattenSeq(SubSeq(LogText, 1, k))) = BytesBefore(buffer, k)
<1> DEFINE B == [k \in 0 .. Count(buffer) |-> BytesBefore(buffer, k)]
<1>1. /\ LogText \in Seq(Seq(Byte)) /\ Len(LogText) = Count(buffer) /\ Count(buffer) \in Nat
      /\ \A i \in 1 .. Count(buffer) :
           /\ LogText[i] = TextIn(memory, buffer.entry[EntryPos(buffer, i - 1)])
           /\ Len(LogText[i]) = SizeAt(buffer, i - 1)
      /\ Starts(LogText, B)
  BY LogFacts
<1>2. \A k \in 0 .. Count(buffer) : B[k] = BytesBefore(buffer, k)
  OBVIOUS
<1> HIDE DEF B
<1>3. FlatOK(Byte, LogText, B, FlattenSeq(LogText), Count(buffer))
  <2>1. FlatOK(Byte, LogText, B, FlattenSeq(LogText), Len(LogText))
    BY <1>1, FlattenResult
  <2> QED
    BY <1>1, <2>1
<1>4. FlattenSeq(LogText) \in Seq(Byte) /\ Len(FlattenSeq(LogText)) = BytesBefore(buffer, Count(buffer))
  BY <1>1, <1>2, <1>3 DEF FlatOK
<1>5. ASSUME NEW j \in 0 .. Count(buffer) - 1, NEW x \in 1 .. SizeAt(buffer, j)
      PROVE  FlattenSeq(LogText)[BytesBefore(buffer, j) + x] =
                TextIn(memory, buffer.entry[EntryPos(buffer, j)])[x]
  <2>1. j + 1 \in 1 .. Count(buffer) /\ (j + 1) - 1 = j /\ j \in 0 .. Count(buffer)
    BY <1>1
  <2>2. LogText[j + 1] = TextIn(memory, buffer.entry[EntryPos(buffer, j)])
        /\ Len(LogText[j + 1]) = SizeAt(buffer, j)
    BY <1>1, <2>1
  <2>3. FlattenSeq(LogText)[B[(j + 1) - 1] + x] = LogText[j + 1][x]
    BY <1>3, <2>1, <2>2 DEF FlatOK
  <2> QED
    BY <1>2, <2>1, <2>2, <2>3
<1>6. ASSUME NEW k \in 0 .. Count(buffer)
      PROVE  Len(FlattenSeq(SubSeq(LogText, 1, k))) = BytesBefore(buffer, k)
  <2> DEFINE C == [i \in 0 .. k |-> B[i]]
             pre == SubSeq(LogText, 1, k)
  <2>0. k \in 0 .. Len(LogText)
    BY <1>1
  <2>1. pre \in Seq(Seq(Byte)) /\ Len(pre) = k /\ Starts(pre, C)
    BY <1>1, <2>0, StartsPrefix
  <2>2. C[k] = BytesBefore(buffer, k)
    BY <1>1, <1>2
  <2> HIDE DEF C, pre
  <2>3. FlatOK(Byte, pre, C, FlattenSeq(pre), k)
    <3>1. FlatOK(Byte, pre, C, FlattenSeq(pre), Len(pre))
      BY <2>1, FlattenResult
    <3> QED
      BY <2>1, <3>1
  <2> QED
    BY <2>2, <2>3 DEF FlatOK, pre
<1>7. Device!Stream = FlattenSeq(LogText)
  BY DeviceFlatten DEF Device!Stream
<1> QED
  BY <1>4, <1>5, <1>6, <1>7 DEF aesd_circular_buffer_calculate_size

(* A call of f that returns and leaves the device alone.                   *)
LEMMA ReturnCompletes ==
  ASSUME AInv, NEW f \in File, pc[f] # "closed", UNCHANGED <<loaded, dev>>,
         NEW op, NEW arg, NEW ret, NEW data, Return(f, op, arg, ret, data)
  PROVE  /\ Device!Completes(f, op, arg, ret, data)
         /\ LogText' = LogText /\ PartialText' = PartialText
<1>1. OpenFiles' = OpenFiles /\ f \in OpenFiles
  BY DEF Return, OpenFiles, AInv, IInv, TypeOK
<1> QED
  BY <1>1, SameLog DEF Device!Completes, Return

(* A search that finds nothing is a read at the end of the stream.         *)
LEMMA ReadFindRefines ==
  ASSUME AInv, AInv', NEW f \in File, ReadFind(f)
  PROVE  Device!Internal \/ Device!ReadAtEnd(f)
<1> DEFINE place == aesd_circular_buffer_find_entry_offset_for_fpos(buffer, f_pos[f])
<1>1. /\ pc[f] = "reading" /\ UNCHANGED <<loaded, dev, f_pos>>
      /\ \/ place = NULL /\ Return(f, "read", << >>, 0, << >>)
         \/ done' = NULL
  BY DEF ReadFind, UnlockAndReturn
<1>2. CASE done' = NULL
  BY <1>2, InternalRefines
<1>3. CASE place = NULL /\ Return(f, "read", << >>, 0, << >>)
  <2>1. loaded /\ f_pos[f] \in Nat
    BY <1>1, AloneInside, SizeAssumption DEF AInv, PosInv, Critical
  <2>2. f_pos[f] >= aesd_circular_buffer_calculate_size(buffer)
    BY <1>3, <2>1, PlaceFound DEF AInv
  <2>3. f_pos[f] >= Len(Device!Stream)
    BY <2>1, <2>2, StreamFacts DEF AInv
  <2>4. /\ Device!Completes(f, "read", << >>, 0, << >>)
        /\ LogText' = LogText /\ PartialText' = PartialText
    BY <1>1, <1>3, ReturnCompletes
  <2> QED
    BY <1>1, <2>3, <2>4 DEF Device!ReadAtEnd
<1> QED
  BY <1>1, <1>2, <1>3

(***************************************************************************)
(* The copy of a read returns the bytes of one entry from f_pos on, and    *)
(* these are the next bytes of the stream.                                 *)
(***************************************************************************)
LEMMA ReadCopyRefines ==
  ASSUME AInv, AInv', NEW f \in File, ReadCopy(f)
  PROVE  Device!Fails(f) \/ \E count \in 0 .. MaxRead : Device!Read(f, count)
<1> DEFINE e == buffer.entry[found[f].slot]
           o == found[f].offset
           left == e.size - o
<1>1. pc[f] = "copy_out" /\ UNCHANGED <<loaded, dev>>
  BY SMTT(30) DEF ReadCopy
<1>2. PICK count \in 0 .. MaxRead :
        LET n == IF left >= count THEN count ELSE left
        IN  \/ /\ n > 0 /\ UNCHANGED f_pos
               /\ Return(f, "read", <<count>>, -EFAULT, << >>)
            \/ /\ f_pos' = [f_pos EXCEPT ![f] = f_pos[f] + n]
               /\ Return(f, "read", <<count>>, n, Fetch(e.buffptr, o, n))
  BY DEF ReadCopy, UnlockAndReturn
<1> DEFINE n == IF left >= count THEN count ELSE left
<1>3. loaded /\ f_pos[f] \in Nat /\ IInv /\ IInv'
  BY <1>1, AloneInside, SizeAssumption DEF AInv, PosInv, Critical
<1>4. PICK j \in 0 .. Count(buffer) - 1 :
         /\ BytesBefore(buffer, j) <= f_pos[f]
         /\ f_pos[f] < BytesBefore(buffer, j + 1)
         /\ BytesBefore(buffer, j + 1) = BytesBefore(buffer, j) + SizeAt(buffer, j)
         /\ BytesBefore(buffer, j) \in Nat /\ SizeAt(buffer, j) \in Nat
         /\ found[f].slot = EntryPos(buffer, j) /\ found[f].offset = f_pos[f] - BytesBefore(buffer, j)
  BY <1>1, <1>3, PlaceFound DEF AInv, PosInv
<1>5. e.size = SizeAt(buffer, j) /\ o \in Nat /\ left \in Nat \ {0} /\ o + left = SizeAt(buffer, j)
  BY <1>3, <1>4 DEF SizeAt
<1>6. n \in 0 .. count /\ (n = 0 => count = 0) /\ n <= left /\ n \in Nat
  BY <1>5, SizeAssumption
<1>7. \/ /\ n > 0 /\ UNCHANGED f_pos
         /\ Return(f, "read", <<count>>, -14, << >>)
      \/ /\ f_pos' = [f_pos EXCEPT ![f] = f_pos[f] + n]
         /\ Return(f, "read", <<count>>, n, Fetch(e.buffptr, o, n))
  BY <1>2 DEF EFAULT
<1> HIDE DEF n
<1>8. CASE n > 0 /\ UNCHANGED f_pos /\ Return(f, "read", <<count>>, -14, << >>)
  <2>1. count \in 1 .. MaxRead
    BY <1>6, <1>8, SizeAssumption
  <2>2. /\ Device!Completes(f, "read", <<count>>, -14, << >>)
        /\ LogText' = LogText /\ PartialText' = PartialText
    BY <1>1, <1>8, ReturnCompletes
  <2> QED
    BY <1>8, <2>1, <2>2 DEF Device!Fails
<1>9. CASE /\ f_pos' = [f_pos EXCEPT ![f] = f_pos[f] + n]
           /\ Return(f, "read", <<count>>, n, Fetch(e.buffptr, o, n))
  <2> DEFINE S == FlattenSeq(LogText)
             pos == f_pos[f]
  <2>1. /\ S \in Seq(Byte) /\ Device!Stream = S
        /\ Len(S) = BytesBefore(buffer, Count(buffer))
        /\ \A x \in 1 .. SizeAt(buffer, j) :
              S[BytesBefore(buffer, j) + x] = TextIn(memory, buffer.entry[EntryPos(buffer, j)])[x]
    BY <1>3, StreamFacts DEF AInv, aesd_circular_buffer_calculate_size
  <2>2. BytesBefore(buffer, j + 1) <= BytesBefore(buffer, Count(buffer))
    <3>1. Count(buffer) \in Nat
      BY <1>3, StreamFits, MaxOpsAssumption
    <3>2. j + 1 \in 0 .. Count(buffer) /\ Count(buffer) \in j + 1 .. Count(buffer)
      BY <3>1
    <3> QED
      BY <1>3, <3>2, CommandsSized, BytesBeforeGrows
  <2>3. pos + n <= Len(S) /\ Len(S) \in Nat
    <3>1. pos + n <= BytesBefore(buffer, j + 1)
      BY <1>3, <1>4, <1>5, <1>6
    <3>2. Len(S) \in Nat
      BY <2>1
    <3> QED
      BY <1>3, <1>4, <1>6, <2>1, <2>2, <3>1, <3>2
  <2> HIDE DEF S
  <2>4. EntryPos(buffer, j) \in Held
    BY <1>3, EntryHeld
  <2>5. Heap(memory) /\ e.size \in Nat /\ e.buffptr \in Live /\ e.size <= Len(memory[e.buffptr])
    BY <1>3, <1>4, <2>4, OwnedBlocks
  <2>6. ASSUME NEW i \in 1 .. n
        PROVE  /\ o + i \in DOMAIN memory[e.buffptr]
               /\ memory[e.buffptr][o + i] = S[pos + i]
    <3>1. o + i \in 1 .. e.size /\ e.size = SizeAt(buffer, j)
      BY <1>5, <1>6
    <3>2. o + i \in DOMAIN memory[e.buffptr]
      BY <2>5, <3>1 DEF Heap, Live
    <3>3. TextIn(memory, e)[o + i] = memory[e.buffptr][o + i]
      BY <2>5, <3>1, TextBytes, ZenonT(60) DEF Live
    <3>4. BytesBefore(buffer, j) + (o + i) = pos + i
      BY <1>3, <1>4, <1>6
    <3>5. S[BytesBefore(buffer, j) + (o + i)] = TextIn(memory, e)[o + i]
      BY <1>4, <2>1, <3>1
    <3> QED
      BY <3>2, <3>3, <3>4, <3>5
  <2>7. Fetch(e.buffptr, o, n) = [i \in 1 .. n |-> S[pos + i]]
    BY <2>5, <2>6 DEF Fetch, BytesAt
  <2>8. SubSeq(S, pos + 1, pos + n) = [i \in 1 .. n |-> S[pos + i]]
    <3> HIDE DEF pos
    <3> DEFINE sub == SubSeq(S, pos + 1, pos + n)
               t == [i \in 1 .. n |-> S[pos + i]]
    <3>1. pos \in Nat /\ n \in Nat
      BY <1>3, <1>6 DEF pos
    <3>2. /\ pos + 1 \in Int /\ pos + n \in Int /\ (pos + n) - (pos + 1) + 1 = n
          /\ (IF pos + 1 <= pos + n THEN (pos + n) - (pos + 1) + 1 ELSE 0) = n
          /\ \A i \in 1 .. n : (pos + 1) + i - 1 = pos + i /\ pos + i \in 1 .. Len(S)
          /\ \A i \in pos + 1 .. pos + n : i \in 1 .. Len(S)
      BY <2>3, <3>1
    <3>3. \A i \in pos + 1 .. pos + n : S[i] \in Byte
      BY <2>1, <3>2
    <3>4. /\ sub \in Seq(Byte) /\ Len(sub) = (IF pos + 1 <= pos + n THEN (pos + n) - (pos + 1) + 1 ELSE 0)
          /\ \A i \in 1 .. (pos + n) - (pos + 1) + 1 : sub[i] = S[(pos + 1) + i - 1]
      BY <3>2, <3>3, SubSeqProperties, SMTT(30)
    <3>5. t \in [1 .. n -> Byte]
      BY <2>1, <3>2
    <3>6. t \in Seq(Byte) /\ Len(t) = n /\ \A i \in 1 .. n : t[i] = S[pos + i]
      BY <3>1, <3>5
    <3> HIDE DEF sub, t
    <3>7. Len(sub) = n /\ \A i \in 1 .. n : sub[i] = S[pos + i]
      BY <3>2, <3>4
    <3>8. sub = t
      BY <3>4, <3>6, <3>7, SeqEqual
    <3> QED
      BY <3>8 DEF sub, t
  <2>9. /\ Device!Completes(f, "read", <<count>>, n, SubSeq(S, pos + 1, pos + n))
        /\ LogText' = LogText /\ PartialText' = PartialText
    BY <1>1, <1>9, <2>7, <2>8, ReturnCompletes
  <2>10. Device!Moves(f, pos + n)
    BY <1>9, <2>9 DEF Device!Moves
  <2>11. Device!Read(f, count)
    BY <1>6, <2>1, <2>3, <2>9, <2>10 DEF Device!Read
  <2> QED
    BY <2>11
<1> QED
  BY <1>7, <1>8, <1>9

(* Growing the working entry shows nothing, failing changes nothing.       *)
LEMMA WriteAllocRefines ==
  ASSUME AInv, AInv', NEW f \in File, WriteAlloc(f)
  PROVE  Device!Internal \/ Device!Fails(f)
<1>1. /\ pc[f] = "writing" /\ UNCHANGED <<loaded, f_pos>>
      /\ \/ UNCHANGED dev /\ Return(f, "write", << >>, -12, << >>)
         \/ done' = NULL
  BY AllocOutcome DEF AInv, UnlockAndReturn, ENOMEM
<1>2. CASE done' = NULL
  BY <1>2, InternalRefines
<1>3. CASE UNCHANGED dev /\ Return(f, "write", << >>, -12, << >>)
  <2>1. /\ Device!Completes(f, "write", << >>, -12, << >>)
        /\ LogText' = LogText /\ PartialText' = PartialText
    BY <1>1, <1>3, ReturnCompletes
  <2> QED
    BY <1>1, <2>1 DEF Device!Fails
<1> QED
  BY <1>1, <1>2, <1>3

(* The sequence that is left to append to once there is room.              *)
Kept(s) == IF Len(s) < MaxOps THEN s ELSE Tail(s)

(* Its elements.                                                           *)
LEMMA KeptParts ==
  ASSUME NEW S, NEW s \in Seq(S)
  PROVE  /\ Kept(s) \in Seq(S) /\ Len(s) \in Nat
         /\ Len(Kept(s)) = (IF Len(s) < MaxOps THEN Len(s) ELSE Len(s) - 1)
         /\ \A i \in 1 .. Len(Kept(s)) : /\ Kept(s)[i] = s[IF Len(s) < MaxOps THEN i ELSE i + 1]
                                         /\ (IF Len(s) < MaxOps THEN i ELSE i + 1) \in 1 .. Len(s)
<1>1. Len(s) \in Nat
  OBVIOUS
<1>2. CASE Len(s) < MaxOps
  BY <1>2 DEF Kept
<1>3. CASE ~(Len(s) < MaxOps)
  <2>1. s # << >> /\ Len(s) >= 1
    BY <1>1, <1>3, MaxOpsAssumption
  <2>2. Kept(s) = Tail(s)
    BY <1>3 DEF Kept
  <2> QED
    BY <1>1, <1>3, <2>1, <2>2
<1> QED
  BY <1>2, <1>3

(***************************************************************************)
(* The copy is where a write takes effect: the grown entry has the text of *)
(* the unfinished command and the data, and add_entry is Remember.         *)
(***************************************************************************)
LEMMA WriteCopyRefines ==
  ASSUME AInv, AInv', NEW f \in File, WriteCopy(f)
  PROVE  Device!WriteFaults(f) \/ \E data \in UserData : Device!Write(f, data)
<1> DEFINE data == ubuf[f]
           command == Text(entry) \o data
           grown == [buffptr |-> entry.buffptr, size |-> entry.size + Len(data)]
<1>1. /\ command = Text(entry) \o ubuf[f]
      /\ grown = [buffptr |-> entry.buffptr, size |-> entry.size + Len(ubuf[f])]
  OBVIOUS
<1> HIDE DEF command, grown
<1>2. /\ loaded /\ loaded' /\ pc[f] = "copy_in" /\ data \in Seq(Byte)
      /\ \A s \in Held : TextIn(memory', buffer.entry[s]) = TextIn(memory, buffer.entry[s])
      /\ \/ /\ UNCHANGED <<buffer, f_pos>> /\ Text(entry)' = << >>
            /\ UnlockAndReturn(f, "write", << >>, -EFAULT, << >>)
         \/ /\ f_pos' = [f_pos EXCEPT ![f] = @ + Len(data)]
            /\ UnlockAndReturn(f, "write", << >>, Len(data), data)
            /\ \/ /\ memchr(command) /\ grown \in Command /\ Text(entry)' = << >>
                  /\ buffer' = aesd_circular_buffer_add_entry(buffer, grown)
                  /\ TextIn(memory', grown) = command
               \/ ~memchr(command) /\ buffer' = buffer /\ Text(entry)' = command
  <2>1. IInv /\ IInv'
    BY DEF AInv
  <2>2. /\ loaded /\ loaded' /\ pc[f] = "copy_in" /\ ubuf[f] \in Seq(Byte)
        /\ \A s \in Held : TextIn(memory', buffer.entry[s]) = TextIn(memory, buffer.entry[s])
    BY <1>1, <2>1, CopyOutcome
  <2>3. CopyFaults(f) \/ CopyTakes(f, command, grown)
    BY <1>1, <2>1, CopyOutcome
  <2> QED
    BY <2>2, <2>3 DEF CopyFaults, CopyTakes
<1>3. data \in UserData
  BY <1>2 DEF AInv, PosInv
<1>4. /\ PartialText = Text(entry) /\ PartialText \in Seq(Byte) /\ PartialText' = Text(entry)'
      /\ command = PartialText \o data /\ command \in Seq(Byte)
  BY <1>1, <1>2, LogFacts DEF AInv, PartialText
<1>5. \A op, arg, ret, d : UnlockAndReturn(f, op, arg, ret, d) =>
         Device!Completes(f, op, arg, ret, d)
  BY <1>2 DEF UnlockAndReturn, Return, Device!Completes, OpenFiles, AInv, IInv, TypeOK
<1>6. /\ LogText \in Seq(Seq(Byte)) /\ Len(LogText) = Count(buffer) /\ Count(buffer) \in Nat
      /\ \A i \in 1 .. Count(buffer) :
           /\ EntryPos(buffer, i - 1) \in Held
           /\ LogText[i] = TextIn(memory, buffer.entry[EntryPos(buffer, i - 1)])
  BY <1>2, LogFacts DEF AInv
<1>7. /\ LogText' = [i \in 1 .. Count(buffer') |-> TextIn(memory', Contents(buffer')[i])]
      /\ Contents(buffer') \in Seq(Command) /\ Len(Contents(buffer')) = Count(buffer')
      /\ Contents(buffer) \in Seq(Command) /\ Len(Contents(buffer)) = Count(buffer)
      /\ Count(buffer') \in Nat
  <2>1. WellFormed(buffer', Command) /\ WellFormed(buffer, Command)
    BY DEF AInv, IInv, TypeOK, WellFormed, BufferType, RingShape, Slots, Command
  <2>2. /\ Contents(buffer') \in Seq(Command) /\ Len(Contents(buffer')) = Count(buffer')
        /\ Count(buffer') \in Nat
    BY <2>1, ContentsSeq, MaxOpsAssumption
  <2>3. /\ Contents(buffer) \in Seq(Command) /\ Len(Contents(buffer)) = Count(buffer)
    BY <2>1, ContentsSeq
  <2>4. \A i \in 1 .. Count(buffer') : Contents(buffer')[i] \in Command
    BY <2>2, ElementOfSeq
  <2>5. \A i \in 1 .. Count(buffer') : Contents(buffer')[i].size \in Nat
    BY <2>4, CommandsSized DEF Sized
  <2>6. Count(buffer)' = Count(buffer') /\ Contents(buffer)' = Contents(buffer')
    BY DEF Count, Contents, EntryPos
  <2>7. \A i \in 1 .. Count(buffer') : Text(Contents(buffer)[i])' = TextIn(memory', Contents(buffer')[i])
    BY <2>5, <2>6, TextIsTextIn DEF Text, Fetch, BytesAt, Live
  <2>8. LogText' = [i \in 1 .. Count(buffer)' |-> Text(Contents(buffer)[i])']
    BY <1>2 DEF LogText
  <2> QED
    BY <2>2, <2>3, <2>6, <2>7, <2>8
<1>8. \A i \in 1 .. Count(buffer) : TextIn(memory', Contents(buffer)[i]) = LogText[i]
  BY <1>2, <1>6 DEF Contents
<1>9. ASSUME buffer' = buffer PROVE LogText' = LogText
  BY <1>6, <1>7, <1>8, <1>9
<1>10. ASSUME grown \in Command, buffer' = aesd_circular_buffer_add_entry(buffer, grown),
              TextIn(memory', grown) = command
       PROVE  LogText' = Append(Kept(LogText), command)
  <2> DEFINE C == Contents(buffer)
             D == Contents(buffer')
  <2>1. D = Append(Kept(C), grown)
    BY <1>10, AddEntryContents, CommandsSized DEF AInv, Kept
  <2>2. C \in Seq(Command) /\ Len(C) = Len(LogText) /\ Len(D) = Count(buffer')
    BY <1>6, <1>7
  <2>3. \A i \in 1 .. Len(LogText) : TextIn(memory', C[i]) = LogText[i]
    BY <1>6, <1>8
  <2>4. LogText' = [i \in 1 .. Len(D) |-> TextIn(memory', D[i])]
    BY <1>7
  <2> HIDE DEF C, D
  <2> DEFINE K == Kept(C)
             L == Kept(LogText)
             n == Len(L)
  <2>5. /\ K \in Seq(Command) /\ L \in Seq(Seq(Byte)) /\ Len(K) = n /\ n \in Nat
        /\ \A i \in 1 .. n : TextIn(memory', K[i]) = L[i]
    <3>1. K \in Seq(Command) /\ L \in Seq(Seq(Byte))
      BY <1>6, <2>2, KeptParts
    <3>2. Len(K) = n /\ n \in Nat
      BY <1>6, <2>2, <3>1, KeptParts
    <3>3. ASSUME NEW i \in 1 .. n PROVE TextIn(memory', K[i]) = L[i]
      <4> DEFINE x == IF Len(LogText) < MaxOps THEN i ELSE i + 1
      <4>1. L[i] = LogText[x] /\ x \in 1 .. Len(LogText)
        BY <1>6, KeptParts
      <4>2. K[i] = C[x]
        BY <2>2, <3>2, KeptParts
      <4> HIDE DEF x
      <4> QED
        BY <2>3, <4>1, <4>2
    <3> QED
      BY <3>1, <3>2, <3>3
  <2> HIDE DEF K, L, n
  <2>6. D = Append(K, grown)
    BY <2>1 DEF K
  <2>7. Len(D) = n + 1 /\ \A i \in 1 .. n + 1 : D[i] = IF i = n + 1 THEN grown ELSE K[i]
    BY <1>10, <2>5, <2>6
  <2>8. \A i \in 1 .. n + 1 : i = n + 1 \/ i \in 1 .. n
    BY <2>5
  <2>9. \A i \in 1 .. n + 1 : TextIn(memory', D[i]) = IF i = n + 1 THEN command ELSE L[i]
    BY <1>10, <2>5, <2>7, <2>8
  <2>10. LogText' = [i \in 1 .. n + 1 |-> IF i = n + 1 THEN command ELSE L[i]]
    BY <2>4, <2>7, <2>9
  <2>11. Append(L, command) = [i \in 1 .. n + 1 |-> IF i = n + 1 THEN command ELSE L[i]]
    BY <1>4, <2>5 DEF n
  <2> QED
    BY <2>10, <2>11 DEF L
<1>11. memchr(command) <=> NL \in Device!Range(command)
  BY <1>4 DEF memchr, Device!Range
<1>12. CASE /\ UNCHANGED <<buffer, f_pos>> /\ Text(entry)' = << >>
            /\ UnlockAndReturn(f, "write", << >>, -EFAULT, << >>)
  <2>1. Device!Completes(f, "write", << >>, -14, << >>)
    BY <1>5, <1>12 DEF EFAULT
  <2> QED
    BY <1>4, <1>9, <1>12, <2>1 DEF Device!WriteFaults
<1>13. CASE /\ f_pos' = [f_pos EXCEPT ![f] = @ + Len(data)]
            /\ UnlockAndReturn(f, "write", << >>, Len(data), data)
            /\ \/ /\ memchr(command) /\ grown \in Command /\ Text(entry)' = << >>
                  /\ buffer' = aesd_circular_buffer_add_entry(buffer, grown)
                  /\ TextIn(memory', grown) = command
               \/ ~memchr(command) /\ buffer' = buffer /\ Text(entry)' = command
  <2>1. Device!Completes(f, "write", << >>, Len(data), data)
    BY <1>5, <1>13
  <2>2. CASE /\ memchr(command) /\ grown \in Command /\ Text(entry)' = << >>
             /\ buffer' = aesd_circular_buffer_add_entry(buffer, grown)
             /\ TextIn(memory', grown) = command
    <3>1. Device!Commands!Remember(PartialText \o data)
      BY <1>4, <1>10, <2>2 DEF Device!Commands!Remember, Kept
    <3>2. Device!Takes(f, data)
      BY <1>4, <1>11, <1>13, <2>2, <3>1 DEF Device!Takes
    <3> QED
      BY <1>3, <2>1, <3>2 DEF Device!Write
  <2>3. CASE ~memchr(command) /\ buffer' = buffer /\ Text(entry)' = command
    <3>1. Device!Takes(f, data)
      BY <1>4, <1>9, <1>11, <1>13, <2>3 DEF Device!Takes
    <3> QED
      BY <1>3, <2>1, <3>1 DEF Device!Write
  <2> QED
    BY <1>13, <2>2, <2>3
<1> QED
  BY <1>2, <1>12, <1>13

(* A call of f that returns and moves f, the device being left alone.      *)
LEMMA MoveRefines ==
  ASSUME AInv, NEW f \in File, pc[f] # "closed", UNCHANGED <<loaded, dev>>,
         NEW op, NEW arg, NEW ret, NEW pos,
         UnlockAndReturn(f, op, arg, ret, << >>),
         f_pos' = [f_pos EXCEPT ![f] = pos] \/ (f_pos' = f_pos /\ pos = f_pos[f])
  PROVE  Device!Completes(f, op, arg, ret, << >>) /\ Device!Moves(f, pos)
<1>1. /\ Device!Completes(f, op, arg, ret, << >>)
      /\ LogText' = LogText /\ PartialText' = PartialText
  BY ReturnCompletes DEF UnlockAndReturn
<1>2. f_pos' = [f_pos EXCEPT ![f] = pos]
  BY DEF AInv, PosInv
<1> QED
  BY <1>1, <1>2 DEF Device!Moves

(* Wrapping turns a sum past the largest loff_t into a negative position.  *)
LEMMA LoffSum ==
  ASSUME NEW a \in 0 .. LoffMax, NEW off \in -LoffMax - 1 .. LoffMax
  PROVE  IF a + off \in 0 .. LoffMax THEN Loff(a + off) = a + off ELSE Loff(a + off) < 0
<1>1. CASE a + off \in -LoffMax - 1 .. LoffMax
  BY <1>1, LoffInside, SizeAssumption
<1>2. CASE a + off \in LoffMax + 1 .. 2 * LoffMax + 1
  BY <1>2, LoffPast, SizeAssumption
<1> QED
  BY <1>1, <1>2, SizeAssumption

(* llseek: the wrapped sum is the sum, or the call is refused.             *)
LEMMA SeekRefines ==
  ASSUME AInv, AInv', NEW f \in File, aesd_seek(f)
  PROVE  \E whence \in 0 .. 3, off \in Offset : Device!Seek(f, whence, off)
<1>1. pc[f] = "seeking" /\ UNCHANGED <<loaded, dev>>
  BY DEF aesd_seek
<1>2. PICK whence \in 0 .. 3, off \in Offset :
       \/ /\ newpos(f, whence, off) < 0
          /\ UnlockAndReturn(f, "llseek", <<whence, off>>, -22, << >>)
          /\ UNCHANGED f_pos
       \/ /\ newpos(f, whence, off) >= 0
          /\ f_pos' = [f_pos EXCEPT ![f] = newpos(f, whence, off)]
          /\ UnlockAndReturn(f, "llseek", <<whence, off>>, newpos(f, whence, off), << >>)
  BY DEF aesd_seek, EINVAL
<1> DEFINE new == newpos(f, whence, off)
           pos == <<off, f_pos[f] + off, Len(Device!Stream) + off>>[whence + 1]
           size == aesd_circular_buffer_calculate_size(buffer)
<1>3. loaded /\ f_pos[f] \in 0 .. LoffMax /\ off \in -LoffMax - 1 .. LoffMax
  BY <1>1, AloneInside, OffsetAssumption DEF AInv, PosInv, Critical
<1>4. Len(Device!Stream) = size /\ size \in 0 .. LoffMax
  BY <1>3, StreamFacts, StreamFits DEF AInv
<1> HIDE DEF size
<1>5. IF whence \in 0 .. 2 /\ pos \in 0 .. LoffMax THEN new = pos ELSE new < 0
  <2>1. CASE whence = 0
    BY <1>3, <2>1, SizeAssumption DEF newpos
  <2>2. CASE whence = 1
    <3>1. pos = f_pos[f] + off /\ new = Loff(f_pos[f] + off)
      BY <2>2 DEF newpos
    <3> QED
      BY <1>3, <2>2, <3>1, LoffSum
  <2>3. CASE whence = 2
    <3>1. pos = size + off /\ new = Loff(size + off)
      BY <1>4, <2>3 DEF newpos, size
    <3> QED
      BY <1>3, <1>4, <2>3, <3>1, LoffSum
  <2>4. CASE whence = 3
    BY <2>4 DEF newpos
  <2> QED
    BY <2>1, <2>2, <2>3, <2>4
<1> HIDE DEF new, pos
<1>6. CASE whence \in 0 .. 2 /\ pos \in 0 .. LoffMax
  <2>1. new = pos /\ new >= 0 /\ ~(new < 0)
    BY <1>5, <1>6, SizeAssumption
  <2>2. /\ f_pos' = [f_pos EXCEPT ![f] = pos]
        /\ UnlockAndReturn(f, "llseek", <<whence, off>>, pos, << >>)
    BY <1>2, <2>1 DEF new
  <2>3. Device!Completes(f, "llseek", <<whence, off>>, pos, << >>) /\ Device!Moves(f, pos)
    BY <1>1, <2>2, MoveRefines
  <2> QED
    BY <1>6, <2>3 DEF Device!Seek, pos
<1>7. CASE ~(whence \in 0 .. 2 /\ pos \in 0 .. LoffMax)
  <2>1. new < 0
    BY <1>5, <1>7
  <2>2. \/ f_pos' = f_pos /\ UnlockAndReturn(f, "llseek", <<whence, off>>, -22, << >>)
        \/ new >= 0
    BY <1>2 DEF new
  <2>3. new \in Int
    BY <1>3, <1>4, LoffRange, SizeAssumption DEF newpos, new, size
  <2>4. f_pos' = f_pos /\ UnlockAndReturn(f, "llseek", <<whence, off>>, -22, << >>)
    BY <2>1, <2>2, <2>3
  <2>5. Device!Completes(f, "llseek", <<whence, off>>, -22, << >>) /\ Device!Moves(f, f_pos[f])
    BY <1>1, <2>4, MoveRefines
  <2> QED
    BY <1>7, <2>5 DEF Device!Seek, pos
<1> QED
  BY <1>6, <1>7

(* The ioctl: write_cmd commands lie before the byte it seeks to.          *)
LEMMA SeekToRefines ==
  ASSUME AInv, AInv', NEW f \in File, aesd_adjust_file_offset(f)
  PROVE  \E cmd \in 0 .. MaxOps, offset \in 0 .. LoffMax : Device!SeekToCommand(f, cmd, offset)
<1>1. pc[f] = "adjusting" /\ UNCHANGED <<loaded, dev>>
  BY DEF aesd_adjust_file_offset
<1>2. PICK seekto \in aesd_seekto :
       LET cmd == seekto.write_cmd
           off == seekto.write_cmd_offset
           ok  == cmd < Count(buffer) /\ off < SizeAt(buffer, cmd)
       IN  \/ /\ ~ok
              /\ UnlockAndReturn(f, "ioctl", <<cmd, off>>, -22, << >>)
              /\ UNCHANGED f_pos
           \/ /\ ok
              /\ f_pos' = [f_pos EXCEPT ![f] = BytesBefore(buffer, cmd) + off]
              /\ UnlockAndReturn(f, "ioctl", <<cmd, off>>, 0, << >>)
  BY DEF aesd_adjust_file_offset, EINVAL
<1> DEFINE cmd == seekto.write_cmd
           off == seekto.write_cmd_offset
           ok == cmd < Count(buffer) /\ off < SizeAt(buffer, cmd)
<1>3. loaded /\ Count(buffer) \in 0 .. MaxOps
  BY <1>1, AloneInside, StreamFits DEF AInv, Critical
<1>4. cmd \in 0 .. MaxOps /\ off \in 0 .. KMALLOC_MAX_SIZE
  BY DEF aesd_seekto
<1>5. KMALLOC_MAX_SIZE <= LoffMax
  <2>1. \A m \in Nat \ {0} : \A k \in Nat : k <= m * k
    OBVIOUS
  <2>2. KMALLOC_MAX_SIZE <= MaxOps * KMALLOC_MAX_SIZE
    BY <2>1, MaxOpsAssumption, SizeAssumption
  <2>3. \A a, b, c \in Nat : a <= b /\ b <= c => a <= c
    OBVIOUS
  <2>4. \A m, k \in Nat : m * k \in Nat
    OBVIOUS
  <2>5. MaxOps * KMALLOC_MAX_SIZE \in Nat
    BY <2>4, MaxOpsAssumption, SizeAssumption
  <2> QED
    BY <2>2, <2>3, <2>5, SizeAssumption, StreamAssumption
<1>6. off \in 0 .. LoffMax
  BY <1>4, <1>5, SizeAssumption
<1>7. /\ LogText \in Seq(Seq(Byte)) /\ Len(LogText) = Count(buffer)
      /\ \A i \in 1 .. Count(buffer) : Len(LogText[i]) = SizeAt(buffer, i - 1)
  BY <1>3, LogFacts DEF AInv
<1>8. ok <=> Device!HasByte(cmd, off)
  <2>1. ASSUME cmd < Count(buffer) PROVE Len(LogText[cmd + 1]) = SizeAt(buffer, cmd)
    <3>1. cmd + 1 \in 1 .. Count(buffer) /\ (cmd + 1) - 1 = cmd
      BY <1>3, <1>4, <2>1, MaxOpsAssumption
    <3> QED
      BY <1>7, <3>1
  <2> QED
    BY <1>7, <2>1 DEF Device!HasByte
<1>9. CASE ok
  <2>1. cmd \in 0 .. Count(buffer)
    BY <1>3, <1>4, <1>9, MaxOpsAssumption
  <2>2. Device!PositionOf(cmd, off) = BytesBefore(buffer, cmd) + off
    BY <1>3, <2>1, StreamFacts, DeviceFlatten DEF AInv, Device!PositionOf
  <2>3. /\ f_pos' = [f_pos EXCEPT ![f] = Device!PositionOf(cmd, off)]
        /\ UnlockAndReturn(f, "ioctl", <<cmd, off>>, 0, << >>)
    BY <1>2, <1>9, <2>2
  <2>4. /\ Device!Completes(f, "ioctl", <<cmd, off>>, 0, << >>)
        /\ Device!Moves(f, Device!PositionOf(cmd, off))
    BY <1>1, <2>3, MoveRefines
  <2>5. Device!SeekToCommand(f, cmd, off)
    BY <1>8, <1>9, <2>4 DEF Device!SeekToCommand
  <2> QED
    BY <1>4, <1>6, <2>5
<1>10. CASE ~ok
  <2>1. f_pos' = f_pos /\ UnlockAndReturn(f, "ioctl", <<cmd, off>>, -22, << >>)
    BY <1>2, <1>10
  <2>2. Device!Completes(f, "ioctl", <<cmd, off>>, -22, << >>) /\ Device!Moves(f, f_pos[f])
    BY <1>1, <2>1, MoveRefines
  <2>3. Device!SeekToCommand(f, cmd, off)
    BY <1>8, <1>10, <2>2 DEF Device!SeekToCommand
  <2> QED
    BY <1>4, <1>6, <2>3
<1> QED
  BY <1>9, <1>10

(* The three parts of AInv are inductive together.                         *)
LEMMA AInvHolds == Spec => []AInv
<1>1. Init => CommandsComplete /\ PosInv
  BY SizeAssumption DEF Init, CommandsComplete, PosInv
<1>2. IInv /\ IInv' /\ CommandsComplete /\ PosInv /\ [Next]_vars => CommandsComplete' /\ PosInv'
  BY NextComplete, NextPosInv
<1> QED
  BY <1>1, <1>2, IInvHolds, PTL DEF Spec, AInv

(* Every step of the driver is a step of the abstract device, or none.     *)
LEMMA NextRefines ==
  ASSUME AInv, AInv', [Next]_vars
  PROVE  Device!Next \/ UNCHANGED <<loaded, LogText, PartialText, OpenFiles, f_pos, done>>
<1>1. CASE UNCHANGED vars
  <2>1. UNCHANGED <<loaded, dev, f_pos, done, pc>>
    BY <1>1 DEF vars, dev
  <2>2. OpenFiles' = OpenFiles
    BY <2>1 DEF OpenFiles
  <2> QED
    BY <2>1, <2>2, SameLog
<1>2. CASE aesd_init_module
  BY <1>2, LoadRefines DEF Device!Next
<1>3. CASE aesd_cleanup_module
  BY <1>3, UnloadRefines DEF Device!Next
<1>4. ASSUME NEW f \in File, aesd_open(f) \/ aesd_release(f) PROVE Device!Next
  BY <1>4, OpenRefines, CloseRefines DEF Device!Next
<1>5. ASSUME NEW f \in File, Lock(f) \/ \E op \in Waiting : Call(f, op) PROVE Device!Next
  BY <1>5, InternalRefines DEF Device!Next
<1>6. ASSUME NEW f \in File, Interrupted(f) \/ aesd_ioctl(f) PROVE Device!Next
  BY <1>6, FailsRefines DEF Device!Next
<1>7. ASSUME NEW f \in File, ReadFind(f) PROVE Device!Next
  BY <1>7, ReadFindRefines DEF Device!Next
<1>8. ASSUME NEW f \in File, ReadCopy(f) PROVE Device!Next
  BY <1>8, ReadCopyRefines DEF Device!Next
<1>9. ASSUME NEW f \in File, WriteAlloc(f) PROVE Device!Next
  BY <1>9, WriteAllocRefines DEF Device!Next
<1>10. ASSUME NEW f \in File, WriteCopy(f) PROVE Device!Next
  BY <1>10, WriteCopyRefines DEF Device!Next
<1>11. ASSUME NEW f \in File, aesd_seek(f) PROVE Device!Next
  BY <1>11, SeekRefines DEF Device!Next
<1>12. ASSUME NEW f \in File, aesd_adjust_file_offset(f) PROVE Device!Next
  BY <1>12, SeekToRefines DEF Device!Next
<1> QED
  BY <1>1, <1>2, <1>3, <1>4, <1>5, <1>6, <1>7, <1>8, <1>9, <1>10, <1>11, <1>12 DEF Next, Body

(***************************************************************************)
(* The driver implements the atomic log: through every interleaving of     *)
(* calls on any number of files, failures, the ring wrapping around and    *)
(* loss of the oldest command, users see only what AesdLog allows.         *)
(***************************************************************************)
THEOREM ImplementsDevice == Spec => DeviceSpec
<1>1. Init => Device!Init
  BY DEF Init, Device!Init, LogText, PartialText, OpenFiles
<1>2. AInv /\ AInv' /\ [Next]_vars =>
        [Device!Next]_<<loaded, LogText, PartialText, OpenFiles, f_pos, done>>
  BY NextRefines
<1> QED
  BY <1>1, <1>2, AInvHolds, PTL DEF Spec, DeviceSpec, Device!Spec
=============================================================================
