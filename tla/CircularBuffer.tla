--------------------------- MODULE CircularBuffer ---------------------------
(***************************************************************************)
(* The circular buffer on its own: initialised once, then written any      *)
(* number of times.  (Locking is the caller's; see AesdChar.)              *)
(***************************************************************************)
EXTENDS AesdCircularBuffer, SequencesExt

CONSTANTS
  Entry,     \* the entries a caller may add
  Position   \* the positions a caller may look for

(* Sizes and positions are of type size_t; a cleared entry has no bytes.   *)
ASSUME EntryAssumption == ZeroEntry.size = 0 /\ \A e \in Entry : e.size \in Nat
ASSUME PositionAssumption == Position \subseteq Nat

VARIABLE buffer

Init == buffer = aesd_circular_buffer_init

AddEntry(e) == buffer' = aesd_circular_buffer_add_entry(buffer, e)

Next == \E e \in Entry : AddEntry(e)

Spec == Init /\ [][Next]_buffer
-----------------------------------------------------------------------------
(* The state of a struct aesd_circular_buffer; both offsets fit a uint8_t. *)
TypeOK == buffer \in BufferType(Entry)

(***************************************************************************)
(* in_offs, out_offs and full agree on which slots hold entries, so the    *)
(* shortcut `count = full ? MAX : in_offs' of aesd-circular-buffer.c is    *)
(* sound after any number of calls.                                        *)
(***************************************************************************)
RingInv == RingShape(buffer, Entry)

(***************************************************************************)
(* Every byte of the buffer strings "concatenated end to end", as the pair *)
(* of its slot and its offset in the slot.                                 *)
(***************************************************************************)
BytesOf(i) ==
  [j \in 1 .. Contents(buffer)[i].size |-> [slot |-> EntryPos(buffer, i - 1), offset |-> j - 1]]
AllBytes == FlattenSeq([i \in 1 .. Count(buffer) |-> BytesOf(i)])

(***************************************************************************)
(* aesd_circular_buffer_find_entry_offset_for_fpos returns the place of    *)
(* the byte at char_offset of the concatenation, and NULL exactly when     *)
(* char_offset is past its end.                                            *)
(***************************************************************************)
FindsTheByte ==
  \A char_offset \in Position :
    aesd_circular_buffer_find_entry_offset_for_fpos(buffer, char_offset) =
      IF char_offset < Len(AllBytes) THEN AllBytes[char_offset + 1] ELSE NULL

(***************************************************************************)
(* aesd_circular_buffer_calculate_size, which counts entries from out_offs *)
(* on, returns the sum of the sizes of all slots: it leaves none out and   *)
(* takes none twice, before and after the buffer wraps around.             *)
(***************************************************************************)
SizeIsTotal ==
  aesd_circular_buffer_calculate_size(buffer) =
    MapThenSumSet(LAMBDA s : buffer.entry[s].size, Slots)

(* The buffer implements the log of the last MaxOps commands.              *)
Log == INSTANCE CommandLog WITH log <- Contents(buffer)

LogSpec == Log!Spec
=============================================================================
