------------------------------ MODULE AesdChar ------------------------------
(***************************************************************************)
(* The character device driver of aesd-char-driver/main.c: one device with *)
(* its circular buffer, its working entry and its mutex, and any number of *)
(* open files, each used by one thread.                                    *)
(*                                                                         *)
(* A file operation is a call that starts, waits for dev->mutex (or is     *)
(* interrupted while it waits), works under the mutex and returns.  Read   *)
(* and write are cut in two where they touch the device twice: the search  *)
(* and the copy of a read, the krealloc and the copy of a write.  The      *)
(* arguments of a call are chosen where the code first uses them.          *)
(*                                                                         *)
(* Kernel memory is explicit: `memory' maps each allocated block to its    *)
(* bytes.  A pointer is a block of Ptr, NULL or ZERO_SIZE_PTR.             *)
(***************************************************************************)
EXTENDS AesdCircularBuffer

CONSTANTS
  File,             \* the files that may be open on the device
  Ptr,              \* the blocks of kernel memory the driver can get
  ZERO_SIZE_PTR,    \* what krealloc returns for size 0
  KMALLOC_MAX_SIZE, \* the largest block
  Byte, NL,         \* the characters a user can write; newline is one of them
  Junk,             \* a byte of a block that nobody has written yet
  LoffMax,          \* the largest value of a loff_t
  UserData,         \* the data a user passes to one write
  MaxRead,          \* the largest count a user passes to one read
  Offset            \* the offsets a user passes to llseek

ASSUME PtrAssumption ==
  /\ NULL \notin Ptr /\ ZERO_SIZE_PTR \notin Ptr /\ NULL # ZERO_SIZE_PTR
  /\ ZeroEntry = [buffptr |-> NULL, size |-> 0]
ASSUME FileAssumption == NULL \notin File
ASSUME ByteAssumption ==
  NL \in Byte /\ UserData \subseteq Seq(Byte) /\ << >> \in UserData
ASSUME SizeAssumption == KMALLOC_MAX_SIZE \in Nat /\ LoffMax \in Nat /\ MaxRead \in Nat
ASSUME OffsetAssumption == Offset \subseteq -LoffMax - 1 .. LoffMax

(* Ten blocks of at most a few megabytes never fill a 64-bit loff_t.       *)
ASSUME StreamAssumption == MaxOps * KMALLOC_MAX_SIZE <= LoffMax

ENOMEM == 12
EFAULT == 14
EINVAL == 22
ENOTTY == 25
ERESTARTSYS == 512

VARIABLES
  loaded,   \* the module is inserted and its cdev is live
  buffer,   \* aesd_device.buffer
  entry,    \* aesd_device.entry, the command that has no newline yet
  mutex,    \* aesd_device.mutex: the file whose call holds it, or NULL
  memory,   \* the allocated blocks and their bytes
  f_pos,    \* filp->f_pos
  pc,       \* where the thread of each file is
  found,    \* aesd_read: the slot and offset its search returned
  ubuf,     \* aesd_write: the user's data, while they are being stored
  done      \* the call that the last step completed, NULL if none: its
            \* arguments, its return value and the bytes it moved

dev  == <<buffer, entry, memory>>
vars == <<loaded, buffer, entry, mutex, memory, f_pos, pc, found, ubuf, done>>

(* A call waits in "read", and holds the mutex in "reading".               *)
Waiting  == {"read", "write", "llseek", "ioctl"}
Locked   == [read |-> "reading", write |-> "writing",
             llseek |-> "seeking", ioctl |-> "adjusting"]
Critical == {"reading", "copy_out", "writing", "copy_in", "seeking", "adjusting"}
PcValues == {"closed", "open"} \cup Waiting \cup Critical
-----------------------------------------------------------------------------
(* Kernel memory.                                                          *)

Live == DOMAIN memory
BytesAt(p) == IF p \in Live THEN memory[p] ELSE << >>

(* n bytes from offset o of block p; there is no telling what is past it.  *)
Fetch(p, o, n) ==
  [i \in 1 .. n |-> IF o + i \in DOMAIN BytesAt(p) THEN BytesAt(p)[o + i] ELSE Junk]

Repeat(b, n) == [i \in 1 .. n |-> b]

(* kfree of a set of pointers; NULL and ZERO_SIZE_PTR are no blocks.       *)
kfree(P) == [q \in Live \ P |-> memory[q]]

(***************************************************************************)
(* krealloc(p, n): a block of n bytes that starts with the bytes of p, in  *)
(* the place of p or in a free one, p being freed; or NULL, p being kept.  *)
(* For n = 0 it frees p and returns ZERO_SIZE_PTR.                         *)
(***************************************************************************)
krealloc(p, n) ==
  IF n = 0 THEN {[ptr |-> ZERO_SIZE_PTR, mem |-> kfree({p})]}
  ELSE {[ptr |-> NULL, mem |-> memory]} \cup
       {[ptr |-> q,
         mem |-> [r \in (Live \ {p}) \cup {q} |->
                    IF r = q THEN BytesAt(p) \o Repeat(Junk, n - Len(BytesAt(p)))
                    ELSE memory[r]]]
        : q \in IF n <= KMALLOC_MAX_SIZE THEN (Ptr \ Live) \cup ({p} \cap Live)
                ELSE {}}

(* Signed arithmetic of loff_t: it wraps around.                           *)
Loff(n) == ((n + LoffMax + 1) % (2 * (LoffMax + 1))) - (LoffMax + 1)
-----------------------------------------------------------------------------
(* What every operation does at its ends.                                  *)

Return(f, op, arg, ret, data) ==
  /\ pc' = [pc EXCEPT ![f] = "open"]
  /\ found' = [found EXCEPT ![f] = NULL]
  /\ ubuf' = [ubuf EXCEPT ![f] = << >>]
  /\ done' = [file |-> f, op |-> op, arg |-> arg, ret |-> ret, data |-> data]

(* Mistake: the return with -EINVAL forgets to unlock.                     *)
UnlockAndReturn_NotOnEINVAL(f, op, arg, ret, data) ==
  /\ mutex' = IF ret = -EINVAL THEN mutex ELSE NULL
  /\ Return(f, op, arg, ret, data)

UnlockAndReturn(f, op, arg, ret, data) == mutex' = NULL /\ Return(f, op, arg, ret, data)

Call(f, op) ==
  /\ pc[f] = "open"
  /\ pc' = [pc EXCEPT ![f] = op]
  /\ done' = NULL
  /\ UNCHANGED <<loaded, dev, mutex, f_pos, found, ubuf>>

(* Mistake: aesd_read works without the lock.                              *)
Lock_NotForRead(f) ==
  /\ pc[f] \in Waiting
  /\ mutex = NULL \/ pc[f] = "read"
  /\ mutex' = IF pc[f] = "read" THEN mutex ELSE f
  /\ pc' = [pc EXCEPT ![f] = Locked[pc[f]]]
  /\ done' = NULL
  /\ UNCHANGED <<loaded, dev, f_pos, found, ubuf>>

(* Mistake: aesd_write works without the lock.                             *)
Lock_NotForWrite(f) ==
  /\ pc[f] \in Waiting
  /\ mutex = NULL \/ pc[f] = "write"
  /\ mutex' = IF pc[f] = "write" THEN mutex ELSE f
  /\ pc' = [pc EXCEPT ![f] = Locked[pc[f]]]
  /\ done' = NULL
  /\ UNCHANGED <<loaded, dev, f_pos, found, ubuf>>

(* mutex_lock_interruptible returns 0.                                     *)
Lock(f) ==
  /\ pc[f] \in Waiting
  /\ mutex = NULL
  /\ mutex' = f
  /\ pc' = [pc EXCEPT ![f] = Locked[pc[f]]]
  /\ done' = NULL
  /\ UNCHANGED <<loaded, dev, f_pos, found, ubuf>>

(* A signal ends the wait: the operation returns before it did anything.   *)
Interrupted(f) ==
  /\ pc[f] \in Waiting
  /\ Return(f, pc[f], << >>, -ERESTARTSYS, << >>)
  /\ UNCHANGED <<loaded, dev, mutex, f_pos>>
-----------------------------------------------------------------------------
(* init_module and cleanup_module; no file is open on a module that is not *)
(* loaded or is being removed (cdev.owner holds a reference per file).     *)

(***************************************************************************)
(* aesd_init_module: without a device number nothing is touched; otherwise *)
(* the device is cleared, and it goes live unless cdev_add fails.          *)
(***************************************************************************)
aesd_init_module ==
  /\ ~loaded
  /\ buffer' = aesd_circular_buffer_init
  /\ entry' = ZeroEntry
  /\ mutex' = NULL
  /\ loaded' \in BOOLEAN
  /\ done' = NULL
  /\ UNCHANGED <<memory, f_pos, pc, found, ubuf>>

(* Mistake: the working entry is forgotten.                                *)
FreedAtCleanup_SlotsOnly == {buffer.entry[s].buffptr : s \in Slots}

(* The working entry and every slot of the buffer.                         *)
FreedAtCleanup == {entry.buffptr} \cup {buffer.entry[s].buffptr : s \in Slots}

aesd_cleanup_module ==
  /\ loaded
  /\ \A f \in File : pc[f] = "closed"
  /\ memory' = kfree(FreedAtCleanup)
  /\ loaded' = FALSE
  /\ done' = NULL
  /\ UNCHANGED <<buffer, entry, mutex, f_pos, pc, found, ubuf>>

aesd_open(f) ==
  /\ loaded
  /\ pc[f] = "closed"
  /\ pc' = [pc EXCEPT ![f] = "open"]
  /\ f_pos' = [f_pos EXCEPT ![f] = 0]
  /\ done' = NULL
  /\ UNCHANGED <<loaded, dev, mutex, found, ubuf>>

aesd_release(f) ==
  /\ pc[f] = "open"
  /\ pc' = [pc EXCEPT ![f] = "closed"]
  /\ f_pos' = [f_pos EXCEPT ![f] = 0]
  /\ done' = NULL
  /\ UNCHANGED <<loaded, dev, mutex, found, ubuf>>
-----------------------------------------------------------------------------
(* aesd_read.                                                              *)

(* The search; there being nothing at f_pos, the read returns 0.           *)
ReadFind(f) ==
  LET place == aesd_circular_buffer_find_entry_offset_for_fpos(buffer, f_pos[f])
  IN  /\ pc[f] = "reading"
      /\ \/ /\ place = NULL
            /\ UnlockAndReturn(f, "read", << >>, 0, << >>)
         \/ /\ place # NULL
            /\ pc' = [pc EXCEPT ![f] = "copy_out"]
            /\ found' = [found EXCEPT ![f] = place]
            /\ done' = NULL
            /\ UNCHANGED <<mutex, ubuf>>
      /\ UNCHANGED <<loaded, dev, f_pos>>

(***************************************************************************)
(* copy_to_user of at most count bytes of the entry found.  (The kernel    *)
(* refuses a read whose f_pos + count is no loff_t before it reaches the   *)
(* driver.)  A copy that faults leaves f_pos alone.                        *)
(***************************************************************************)
ReadCopy(f) ==
  /\ pc[f] = "copy_out"
  /\ \E count \in 0 .. MaxRead :
       LET e == buffer.entry[found[f].slot]
           left == e.size - found[f].offset
           n == IF left >= count THEN count ELSE left
       IN  /\ f_pos[f] + count <= LoffMax
           /\ \/ /\ n > 0
                 /\ UnlockAndReturn(f, "read", <<count>>, -EFAULT, << >>)
                 /\ UNCHANGED f_pos
              \/ /\ f_pos' = [f_pos EXCEPT ![f] = @ + n]
                 /\ UnlockAndReturn(f, "read", <<count>>, n,
                      Fetch(e.buffptr, found[f].offset, n))
  /\ UNCHANGED <<loaded, dev>>
-----------------------------------------------------------------------------
(* aesd_write.                                                             *)

(* krealloc of the working entry; without memory it stays as it was.       *)
WriteAlloc(f) ==
  /\ pc[f] = "writing"
  /\ \E data \in UserData : \E block \in krealloc(entry.buffptr, entry.size + Len(data)) :
       /\ f_pos[f] + Len(data) <= LoffMax
       /\ memory' = block.mem
       /\ \/ /\ block.ptr = NULL
             /\ UnlockAndReturn(f, "write", << >>, -ENOMEM, << >>)
             /\ UNCHANGED entry
          \/ /\ block.ptr # NULL
             /\ entry' = [buffptr |-> block.ptr, size |-> entry.size]
             /\ ubuf' = [ubuf EXCEPT ![f] = data]
             /\ pc' = [pc EXCEPT ![f] = "copy_in"]
             /\ done' = NULL
             /\ UNCHANGED <<mutex, found>>
  /\ UNCHANGED <<loaded, buffer, f_pos>>

(* The bytes of the working entry once the user's data are copied there.   *)
Stored(data) == Fetch(entry.buffptr, 0, entry.size) \o data

(* Mistake: the last byte is not looked at.                                *)
memchr_OffByOne(text) == \E i \in 1 .. Len(text) - 1 : text[i] = NL

(* memchr(dev->entry.buffptr, '\n', new_size)                              *)
memchr(text) == \E i \in 1 .. Len(text) : text[i] = NL

(* Mistake: the size is reset, the pointer is not.                         *)
ResetEntry_KeepsPointer == [buffptr |-> entry.buffptr, size |-> 0]

(* The working entry after it was freed or handed to the buffer.           *)
ResetEntry == ZeroEntry

(***************************************************************************)
(* copy_from_user.  If it faults the whole working entry is freed, what    *)
(* earlier writes stored there included.  Otherwise, a newline anywhere in *)
(* the entry completes the command: the buffer takes the entry over.       *)
(***************************************************************************)
WriteCopy(f) ==
  LET data == ubuf[f]
      text == Stored(data)
      grown == [buffptr |-> entry.buffptr, size |-> entry.size + Len(data)]
  IN
  /\ pc[f] = "copy_in"
  /\ \/ /\ data # << >>
        /\ memory' = kfree({entry.buffptr})
        /\ entry' = ResetEntry
        /\ UnlockAndReturn(f, "write", << >>, -EFAULT, << >>)
        /\ UNCHANGED <<buffer, f_pos>>
     \/ /\ memory' = [p \in Live |-> IF p = entry.buffptr THEN text ELSE memory[p]]
        /\ \/ /\ memchr(text)
              /\ buffer' = aesd_circular_buffer_add_entry(buffer, grown)
              /\ entry' = ResetEntry
           \/ /\ ~memchr(text)
              /\ entry' = grown
              /\ UNCHANGED buffer
        /\ f_pos' = [f_pos EXCEPT ![f] = @ + Len(data)]
        /\ UnlockAndReturn(f, "write", << >>, Len(data), data)
  /\ UNCHANGED loaded
-----------------------------------------------------------------------------
(* Mistake: SEEK_END takes the offset off the size.                        *)
newpos_FromEndBackwards(f, whence, off) ==
  CASE whence = 0 -> off
    [] whence = 1 -> Loff(f_pos[f] + off)
    [] whence = 2 -> Loff(aesd_circular_buffer_calculate_size(buffer) - off)
    [] OTHER      -> -1

(***************************************************************************)
(* aesd_seek: from 0, from f_pos or from the end of the data.  Another     *)
(* whence has no new position and is refused as a negative one is.         *)
(***************************************************************************)
newpos(f, whence, off) ==
  CASE whence = 0 -> off
    [] whence = 1 -> Loff(f_pos[f] + off)
    [] whence = 2 -> Loff(aesd_circular_buffer_calculate_size(buffer) + off)
    [] OTHER      -> -1

aesd_seek(f) ==
  /\ pc[f] = "seeking"
  /\ \E whence \in 0 .. 3, off \in Offset :
       \/ /\ newpos(f, whence, off) < 0
          /\ UnlockAndReturn(f, "llseek", <<whence, off>>, -EINVAL, << >>)
          /\ UNCHANGED f_pos
       \/ /\ newpos(f, whence, off) >= 0
          /\ f_pos' = [f_pos EXCEPT ![f] = newpos(f, whence, off)]
          /\ UnlockAndReturn(f, "llseek", <<whence, off>>, newpos(f, whence, off), << >>)
  /\ UNCHANGED <<loaded, dev>>
-----------------------------------------------------------------------------
(* aesd_ioctl refuses other commands and a faulting argument unlocked.     *)
aesd_ioctl(f) ==
  /\ pc[f] = "ioctl"
  /\ \E err \in {ENOTTY, EFAULT} : Return(f, "ioctl", << >>, -err, << >>)
  /\ UNCHANGED <<loaded, dev, mutex, f_pos>>

(* The argument of AESDCHAR_IOCSEEKTO; the values tried go one past the    *)
(* largest valid ones.                                                     *)
aesd_seekto == [write_cmd : 0 .. MaxOps, write_cmd_offset : 0 .. KMALLOC_MAX_SIZE]

(* To byte write_cmd_offset of the write_cmd-th oldest command.            *)
aesd_adjust_file_offset(f) ==
  /\ pc[f] = "adjusting"
  /\ \E seekto \in aesd_seekto :
       LET cmd == seekto.write_cmd
           off == seekto.write_cmd_offset
           ok  == cmd < Count(buffer) /\ off < SizeAt(buffer, cmd)
       IN  \/ /\ ~ok
              /\ UnlockAndReturn(f, "ioctl", <<cmd, off>>, -EINVAL, << >>)
              /\ UNCHANGED f_pos
           \/ /\ ok
              /\ f_pos' = [f_pos EXCEPT ![f] = BytesBefore(buffer, cmd) + off]
              /\ UnlockAndReturn(f, "ioctl", <<cmd, off>>, 0, << >>)
  /\ UNCHANGED <<loaded, dev>>
-----------------------------------------------------------------------------
Init ==
  /\ loaded = FALSE
  /\ buffer = aesd_circular_buffer_init
  /\ entry = ZeroEntry
  /\ mutex = NULL
  /\ memory = [p \in {} |-> << >>]
  /\ f_pos = [f \in File |-> 0]
  /\ pc = [f \in File |-> "closed"]
  /\ found = [f \in File |-> NULL]
  /\ ubuf = [f \in File |-> << >>]
  /\ done = NULL

(* The steps of a call that is under way.                                  *)
Body(f) ==
  \/ ReadFind(f)
  \/ ReadCopy(f)
  \/ WriteAlloc(f)
  \/ WriteCopy(f)
  \/ aesd_seek(f)
  \/ aesd_adjust_file_offset(f)

Next ==
  \/ aesd_init_module
  \/ aesd_cleanup_module
  \/ \E f \in File :
       \/ aesd_open(f)
       \/ aesd_release(f)
       \/ \E op \in Waiting : Call(f, op)
       \/ Lock(f)
       \/ Interrupted(f)
       \/ aesd_ioctl(f)
       \/ Body(f)

Spec == Init /\ [][Next]_vars

(***************************************************************************)
(* A call under way always has a next step.  The kernel's mutex hands the  *)
(* lock over to a waiter that has been passed by, hence SF on Lock; users  *)
(* need not call, and signals need not come.                               *)
(***************************************************************************)
FairSpec == Spec /\ \A f \in File : SF_vars(Lock(f)) /\ WF_vars(Body(f))
-----------------------------------------------------------------------------
Pointer == Ptr \cup {NULL, ZERO_SIZE_PTR}
Command == [buffptr : Ptr, size : 1 .. KMALLOC_MAX_SIZE]

(* The device, kernel memory and the threads have the types of the code.   *)
TypeOK ==
  /\ loaded \in BOOLEAN
  /\ buffer \in BufferType(Command)
  /\ entry \in [buffptr : Pointer, size : 0 .. KMALLOC_MAX_SIZE]
  /\ mutex \in File \cup {NULL}
  /\ Live \subseteq Ptr
  /\ memory \in [Live -> Seq(Byte \cup {Junk})]
  /\ \A p \in Live : Len(memory[p]) \in 1 .. KMALLOC_MAX_SIZE
  /\ pc \in [File -> PcValues]
  /\ ubuf \in [File -> Seq(Byte)]

(* The slots that hold a command, and the bytes a write is still to copy.  *)
Held == {s \in Slots : buffer.full \/ s < buffer.in_offs}
Text(e) == Fetch(e.buffptr, 0, e.size)
Copying == {f \in File : pc[f] = "copy_in"}

(***************************************************************************)
(* Every block the device refers to is allocated, has exactly one owner (a *)
(* slot of the buffer or the working entry) and is as long as its owner    *)
(* says, plus, between krealloc and copy_from_user, the bytes to come: no  *)
(* kfree, krealloc or copy of main.c touches a block that is freed, shared *)
(* or too short, whatever calls fail and however they interleave.          *)
(***************************************************************************)
Ownership ==
  loaded =>
    /\ \A s \in Held : /\ buffer.entry[s].buffptr \in Live
                       /\ buffer.entry[s].buffptr # entry.buffptr
                       /\ Len(memory[buffer.entry[s].buffptr]) = buffer.entry[s].size
    /\ \A s, t \in Held : buffer.entry[s].buffptr = buffer.entry[t].buffptr => s = t
    /\ IF entry.buffptr \in Ptr
       THEN /\ entry.buffptr \in Live
            /\ Copying = {} => Len(memory[entry.buffptr]) = entry.size
            /\ \A f \in Copying : Len(memory[entry.buffptr]) = entry.size + Len(ubuf[f])
       ELSE entry.size = 0 /\ \A f \in Copying : ubuf[f] = << >>

(***************************************************************************)
(* aesd_write moves a command to the buffer exactly when it has a newline, *)
(* so every command of the buffer has one and the working entry has none,  *)
(* also after a write that failed half way; and no byte that nobody wrote  *)
(* (what krealloc left in the block) is part of either.                    *)
(***************************************************************************)
CommandsComplete ==
  loaded =>
    /\ \A s \in Held : LET t == Text(buffer.entry[s])
                       IN  t \in Seq(Byte) /\ \E i \in DOMAIN t : t[i] = NL
    /\ Text(entry) \in Seq(Byte)
    /\ \A i \in DOMAIN Text(entry) : Text(entry)[i] # NL

(***************************************************************************)
(* No handler leaves a file at a position that is no loff_t or is negative *)
(* (aesd_seek adds whatever offset it is given), and the place a read has  *)
(* found is still a byte of a command when the read copies it.             *)
(***************************************************************************)
PositionsValid ==
  /\ \A f \in File : f_pos[f] \in 0 .. LoffMax
  /\ \A f \in File : pc[f] = "copy_out" =>
       /\ found[f].slot \in Held
       /\ found[f].offset \in 0 .. buffer.entry[found[f].slot].size - 1

(* The blocks that are allocated but that nothing refers to any more.      *)
Referenced == {entry.buffptr} \cup {buffer.entry[s].buffptr : s \in Slots}
Lost == Live \ (IF loaded THEN Referenced ELSE {})

(***************************************************************************)
(* A block is lost only when a write completes a command on a full buffer, *)
(* and it is the block of the oldest command: no failed call, no unload    *)
(* and no other step loses memory.                                         *)
(***************************************************************************)
OnlyEvictionLoses ==
  [][\A p \in Lost' \ Lost :
       loaded /\ buffer.full /\ p = buffer.entry[buffer.out_offs].buffptr]_vars

(* Every call that waits for dev->mutex returns: each path unlocks it.     *)
CallsReturn == \A f \in File : pc[f] \in Waiting ~> pc[f] = "open"

(* The abstract state: the bytes of the commands, oldest first, the bytes  *)
(* of the working entry and the files that are open.                       *)
LogText == IF loaded THEN [i \in 1 .. Count(buffer) |-> Text(Contents(buffer)[i])] ELSE << >>
PartialText == IF loaded THEN Text(entry) ELSE << >>
OpenFiles == {f \in File : pc[f] # "closed"}

(***************************************************************************)
(* The driver implements the atomic log: with all its steps, locks, blocks *)
(* and failures, users see nothing that AesdLog does not allow.            *)
(***************************************************************************)
Device == INSTANCE AesdLog WITH log <- LogText, partial <- PartialText, opened <- OpenFiles

DeviceSpec == Device!Spec
=============================================================================
