----------------------------- MODULE ThreadPool -----------------------------
(***************************************************************************)
(* The list of struct thread_data at the level of its pointers: the SLIST  *)
(* macros of server/queue.h as main of server/aesdsocket.c uses them, with *)
(* blocks that are freed and allocated again.  The threads only set        *)
(* thread_complete, when main does not hold list_mutex.                    *)
(***************************************************************************)
EXTENDS Naturals, FiniteSets

CONSTANTS Addr, NULL

ASSUME AddrAssumption == IsFiniteSet(Addr) /\ NULL \notin Addr

VARIABLES
  slh_first, sle_next,   \* the head, and the link of each block
  alloc,                 \* the allocated blocks
  complete,              \* the blocks whose thread_complete is 1
  place,                 \* where main is
  new_client, current_client, temp_client,
  fault                  \* main has used a block that was not allocated

list == <<slh_first, sle_next>>
locals == <<new_client, current_client, temp_client>>
vars == <<list, alloc, complete, place, locals, fault>>

(* The list, as far as it can be followed.                                 *)
Node[i \in 1 .. Cardinality(Addr) + 1] ==
  IF i = 1 THEN slh_first
  ELSE IF Node[i - 1] = NULL THEN NULL ELSE sle_next[Node[i - 1]]
Length == Cardinality({i \in DOMAIN Node : Node[i] # NULL})
Chain == [i \in 1 .. Length |-> Node[i]]

Use(S) == fault' = (fault \/ ~ S \subseteq alloc)
-----------------------------------------------------------------------------
(* malloc, any free block, and pthread_create.                             *)
Spawn(a) ==
  /\ place = "accept" /\ a \notin alloc
  /\ alloc' = alloc \cup {a} /\ complete' = complete \ {a}
  /\ new_client' = a /\ place' = "insert"
  /\ UNCHANGED <<list, current_client, temp_client, fault>>

SLIST_INSERT_HEAD ==
  /\ place = "insert"
  /\ sle_next' = [sle_next EXCEPT ![new_client] = slh_first]
  /\ slh_first' = new_client
  /\ place' = "lock" /\ Use({new_client})
  /\ UNCHANGED <<alloc, complete, locals>>

(* current_client = SLIST_FIRST(&head), with list_mutex held from here on. *)
SweepStarts ==
  /\ place = "lock"
  /\ current_client' = slh_first /\ place' = "test"
  /\ UNCHANGED <<list, alloc, complete, new_client, temp_client, fault>>

(* The test of SLIST_FOREACH_SAFE, which also takes the successor.         *)
SweepTest ==
  /\ place = "test"
  /\ IF current_client = NULL
     THEN place' = "accept" /\ UNCHANGED <<temp_client, fault>>
     ELSE place' = "body" /\ temp_client' = sle_next[current_client] /\ Use({current_client})
  /\ UNCHANGED <<list, alloc, complete, new_client, current_client>>

(* Mistake: the blocks behind the removed one are lost.                    *)
SLIST_REMOVE_AFTER_CutsTail(elm) == sle_next' = [sle_next EXCEPT ![elm] = NULL]

SLIST_REMOVE_AFTER(elm) == sle_next' = [sle_next EXCEPT ![elm] = sle_next[sle_next[elm]]]

(* Mistake: the block stays in the list.                                   *)
SLIST_REMOVE_Nothing(elm) == UNCHANGED list /\ Use({elm})

(* SLIST_REMOVE: the block before elm is looked for from the head.         *)
SLIST_REMOVE(elm) ==
  \/ slh_first = elm /\ slh_first' = sle_next[slh_first] /\ Use({elm}) /\ UNCHANGED sle_next
  \/ /\ slh_first # elm
     /\ \E i \in 2 .. Length :
          /\ Chain[i] = elm /\ \A j \in 1 .. i - 1 : Chain[j] # elm
          /\ SLIST_REMOVE_AFTER(Chain[i - 1])
          /\ Use({Chain[j] : j \in 1 .. i})
     /\ UNCHANGED slh_first

(* The body of the loop: the thread, if finished, is joined and freed.     *)
SweepBody ==
  /\ place = "body" /\ place' = "next"
  /\ IF current_client \in complete
     THEN SLIST_REMOVE(current_client) /\ alloc' = alloc \ {current_client}
     ELSE UNCHANGED <<list, alloc>> /\ Use({current_client})
  /\ UNCHANGED <<complete, locals>>

(* Mistake: SLIST_FOREACH, which follows the link after the body.          *)
Successor_Foreach == current_client' = sle_next[current_client] /\ Use({current_client})

Successor == current_client' = temp_client /\ UNCHANGED fault

SweepNext ==
  /\ place = "next" /\ place' = "test"
  /\ Successor
  /\ UNCHANGED <<list, alloc, complete, new_client, temp_client>>

(* The loop ends and main keeps list_mutex.                                *)
Shutdown ==
  /\ place = "accept" /\ place' = "drain"
  /\ UNCHANGED <<list, alloc, complete, locals, fault>>

(* Join of the first thread, SLIST_REMOVE_HEAD and free.                   *)
Drain ==
  /\ place = "drain" /\ slh_first # NULL
  /\ slh_first \in complete \* else the join never ends
  /\ slh_first' = sle_next[slh_first] /\ Use({slh_first})
  /\ alloc' = alloc \ {slh_first}
  /\ UNCHANGED <<sle_next, complete, place, locals>>

(* A client thread sets thread_complete under list_mutex.                  *)
Complete(a) ==
  /\ place \in {"accept", "insert", "lock"}
  /\ a \in alloc \ complete
  /\ complete' = complete \cup {a}
  /\ UNCHANGED <<list, alloc, place, locals, fault>>

Init ==
  /\ slh_first = NULL /\ sle_next = [a \in Addr |-> NULL]
  /\ alloc = {} /\ complete = {} /\ place = "accept"
  /\ new_client = NULL /\ current_client = NULL /\ temp_client = NULL
  /\ fault = FALSE

Next ==
  \/ \E a \in Addr : Spawn(a) \/ Complete(a)
  \/ SLIST_INSERT_HEAD \/ SweepStarts \/ SweepTest \/ SweepBody \/ SweepNext
  \/ Shutdown \/ Drain

Spec == Init /\ [][Next]_vars
-----------------------------------------------------------------------------
(* main never follows a pointer to a block it has freed.                   *)
NoUseAfterFree == ~fault

(***************************************************************************)
(* The blocks that can be reached from the head are the allocated ones,    *)
(* but for one that main is about to insert: none is lost, none is freed   *)
(* while it is in the list.                                                *)
(***************************************************************************)
ListIsAllocated ==
  {Chain[i] : i \in 1 .. Length} = alloc \ (IF place = "insert" THEN {new_client} ELSE {})

(* The linked list is the sequence that AesdSocket takes it for.           *)
Abstract == INSTANCE Pool WITH list <- Chain, finished <- complete
PoolSpec == Abstract!Spec
=============================================================================
