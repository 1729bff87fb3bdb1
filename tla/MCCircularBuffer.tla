-------------------------- MODULE MCCircularBuffer --------------------------
(* The circular buffer with a few entries of different sizes, searched at  *)
(* every position up to one entry past the end of a full buffer.           *)
EXTENDS CircularBuffer

CONSTANT MaxSize   \* the largest size of an entry

MCZeroEntry == [buffptr |-> NULL, size |-> 0]
MCEntry == {[buffptr |-> "p", size |-> n] : n \in 0 .. MaxSize}
MCPosition == 0 .. (MaxOps + 1) * MaxSize
=============================================================================
