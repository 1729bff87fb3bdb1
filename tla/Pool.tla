-------------------------------- MODULE Pool --------------------------------
(***************************************************************************)
(* What main expects of the thread pool list: a sequence that grows at the *)
(* front and loses finished threads.  AesdSocket takes the list for this.  *)
(***************************************************************************)
EXTENDS SequencesExt

CONSTANT Addr

VARIABLES list, finished

Insert(a) == a \notin Range(list) /\ list' = <<a>> \o list /\ UNCHANGED finished
Finish(a) == finished' = finished \cup {a} /\ UNCHANGED list
Reuse(a) == a \notin Range(list) /\ finished' = finished \ {a} /\ UNCHANGED list
Delete(a) ==
  /\ a \in finished /\ UNCHANGED finished
  /\ \E i \in DOMAIN list : list[i] = a /\ list' = RemoveAt(list, i)

Init == list = << >> /\ finished = {}
Next == \E a \in Addr : Insert(a) \/ Finish(a) \/ Reuse(a) \/ Delete(a)

Spec == Init /\ [][Next]_<<list, finished>>
=============================================================================
