----------------------------- MODULE CommandLog -----------------------------
(***************************************************************************)
(* What the circular buffer promises: it remembers the last MaxOps         *)
(* commands, in the order in which they were added, and forgets the oldest *)
(* one to make room for a new one.  No slots, no offsets, no full flag.    *)
(***************************************************************************)
EXTENDS Naturals, Sequences

CONSTANTS MaxOps, Entry

VARIABLE log

Remember(e) ==
  log' = Append(IF Len(log) < MaxOps THEN log ELSE Tail(log), e)

Init == log = << >>

Next == \E e \in Entry : Remember(e)

Spec == Init /\ [][Next]_log
=============================================================================
