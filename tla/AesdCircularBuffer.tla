------------------------- MODULE AesdCircularBuffer -------------------------
(***************************************************************************)
(* The operations of aesd-char-driver/aesd-circular-buffer.c as operators  *)
(* on the value of a struct aesd_circular_buffer.  The struct is a record  *)
(*                                                                         *)
(*   entry     an array of struct aesd_buffer_entry, indexed from 0;       *)
(*   in_offs   the slot the next write goes to (uint8_t);                  *)
(*   out_offs  the first slot to read from (uint8_t);                      *)
(*   full      set once every slot has been written.                       *)
(*                                                                         *)
(* An entry is a record with at least the fields buffptr and size; the     *)
(* buffer looks at nothing but size.                                       *)
(***************************************************************************)
EXTENDS Integers, Sequences

CONSTANTS
  MaxOps,     \* AESDCHAR_MAX_WRITE_OPERATIONS_SUPPORTED (10 in the header)
  ZeroEntry,  \* a struct aesd_buffer_entry cleared by memset
  NULL        \* the null pointer

(***************************************************************************)
(* The offsets and the index of AESD_CIRCULAR_BUFFER_FOREACH are uint8_t:  *)
(* a loop "index < MaxOps" ends only if MaxOps is at most 255.             *)
(***************************************************************************)
ASSUME MaxOpsAssumption == MaxOps \in 1..255

Slots == 0 .. MaxOps - 1

(* What the search returns is no null pointer unless it is NULL.           *)
ASSUME NullAssumption == NULL \notin [slot : Slots, offset : Nat]

aesd_circular_buffer_init ==
  [entry |-> [i \in Slots |-> ZeroEntry],
   in_offs |-> 0, out_offs |-> 0, full |-> FALSE]

(* Mistake: the entries before the wrap are forgotten.                     *)
Count_NotWhenFull(buffer) == buffer.in_offs

(* The number of entries, as every loop of the C file computes it.         *)
Count(buffer) == IF buffer.full THEN MaxOps ELSE buffer.in_offs

(* The slot of the i-th oldest entry, i counted from 0.                    *)
EntryPos(buffer, i) == (buffer.out_offs + i) % MaxOps

SizeAt(buffer, i) == buffer.entry[EntryPos(buffer, i)].size

(* Mistake: in_offs runs off the end of the array.                         *)
aesd_circular_buffer_add_entry_NoWrap(buffer, add_entry) ==
  LET index == buffer.in_offs
      first == IF buffer.full THEN (index + 1) % MaxOps ELSE buffer.out_offs
  IN  [entry    |-> [buffer.entry EXCEPT ![index] = add_entry],
       in_offs  |-> index + 1,
       out_offs |-> first,
       full     |-> buffer.full \/ index + 1 = first]

(* Mistake: out_offs stays although the oldest entry is gone.              *)
aesd_circular_buffer_add_entry_KeepsOut(buffer, add_entry) ==
  LET next == (buffer.in_offs + 1) % MaxOps
  IN  [entry    |-> [buffer.entry EXCEPT ![buffer.in_offs] = add_entry],
       in_offs  |-> next,
       out_offs |-> buffer.out_offs,
       full     |-> buffer.full \/ next = buffer.out_offs]

(***************************************************************************)
(* Writes add_entry to slot in_offs, over the oldest entry when the buffer *)
(* is full, in which case out_offs moves on to the next oldest.            *)
(***************************************************************************)
aesd_circular_buffer_add_entry(buffer, add_entry) ==
  LET index == buffer.in_offs
      next  == (index + 1) % MaxOps
      first == IF buffer.full THEN next ELSE buffer.out_offs
  IN  [entry    |-> [buffer.entry EXCEPT ![index] = add_entry],
       in_offs  |-> next,
       out_offs |-> first,
       full     |-> buffer.full \/ next = first]

(* The total size of the k oldest entries: the accumulating loops.         *)
BytesBefore(buffer, k) ==
  LET total[i \in 0 .. k] ==
        IF i = 0 THEN 0 ELSE total[i - 1] + SizeAt(buffer, i - 1)
  IN  total[k]

aesd_circular_buffer_calculate_size(buffer) == BytesBefore(buffer, Count(buffer))

(* Mistake: a position at the end of an entry counts as inside it.         *)
aesd_circular_buffer_find_entry_offset_for_fpos_OffByOne(buffer, char_offset) ==
  LET walk[i \in 0 .. Count(buffer)] ==
        [remaining \in Nat |->
           IF i = Count(buffer) THEN NULL
           ELSE IF remaining <= SizeAt(buffer, i)
                THEN [slot |-> EntryPos(buffer, i), offset |-> remaining]
                ELSE walk[i + 1][remaining - SizeAt(buffer, i)]]
  IN  walk[0][char_offset]

(***************************************************************************)
(* Walks the entries from the oldest, taking the size of each one from     *)
(* `remaining' until it falls inside an entry.  The result is the slot and *)
(* the offset inside it, or NULL when there is not enough data.            *)
(***************************************************************************)
aesd_circular_buffer_find_entry_offset_for_fpos(buffer, char_offset) ==
  LET walk[i \in 0 .. Count(buffer)] ==
        [remaining \in Nat |->
           IF i = Count(buffer) THEN NULL
           ELSE IF remaining < SizeAt(buffer, i)
                THEN [slot |-> EntryPos(buffer, i), offset |-> remaining]
                ELSE walk[i + 1][remaining - SizeAt(buffer, i)]]
  IN  walk[0][char_offset]

(* The entries from the oldest to the newest: what the buffer stands for.  *)
Contents(buffer) ==
  [i \in 1 .. Count(buffer) |-> buffer.entry[EntryPos(buffer, i - 1)]]
-----------------------------------------------------------------------------
(* The values of a struct aesd_circular_buffer that holds entries of E.    *)
BufferType(E) ==
  [entry : [Slots -> E \cup {ZeroEntry}],
   in_offs : Slots, out_offs : Slots, full : BOOLEAN]

(***************************************************************************)
(* Why Count may be read off in_offs: entries are never removed, so until  *)
(* the buffer is full the oldest entry is in slot 0, the slots below       *)
(* in_offs are the ones written and the others are still cleared; and once *)
(* it is full the next slot to write is that of the oldest entry.          *)
(***************************************************************************)
RingShape(buffer, E) ==
  /\ buffer.full => buffer.in_offs = buffer.out_offs
  /\ ~buffer.full => buffer.out_offs = 0
  /\ \A s \in Slots :
       IF buffer.full \/ s < buffer.in_offs
       THEN buffer.entry[s] \in E
       ELSE buffer.entry[s] = ZeroEntry
=============================================================================
