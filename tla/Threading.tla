------------------------------ MODULE Threading ------------------------------
(***************************************************************************)
(* examples/threading: start_thread_obtaining_mutex and threadfunc, used   *)
(* by a program (external) that starts threads on one mutex, which it may  *)
(* hold itself, joins them and frees what they return.                     *)
(*                                                                         *)
(* A thread is named by the call that starts it.  It can run as soon as    *)
(* pthread_create has made it, before the call has returned.               *)
(***************************************************************************)
CONSTANTS Thread, Struct, Program, None

ASSUME ActorAssumption == Program \notin Thread /\ None \notin Thread /\ Program # None

VARIABLES
  call,      \* where start_thread_obtaining_mutex is, then what it returned
  at,        \* where the thread is
  arg,       \* the struct thread_data of the call and of the thread
  heap,      \* the structs that are allocated
  success,   \* the thread_complete_success of a struct
  released,  \* who has held the mutex and released it
  mutex      \* the holder

threadsVars == <<call, at, arg, heap, success, released, mutex>>

(* A crash ends the program and its threads.                               *)
Alive == \A t \in Thread : call[t] # "crashed"

CallGoto(t, l) == call' = [call EXCEPT ![t] = l]
Goto(t, l) == at' = [at EXCEPT ![t] = l]
Free(p) == heap' = heap \ {p}

(* malloc takes any block that is free.  Its result is not checked: if it  *)
(* fails the first assignment faults.                                      *)
Malloc(t) ==
  /\ Alive /\ call[t] = "no"
  /\ \/ \E p \in Struct \ heap :
          /\ heap' = heap \cup {p} /\ arg' = [arg EXCEPT ![t] = p]
          /\ success' = [success EXCEPT ![p] = FALSE]
          /\ CallGoto(t, "create")
     \/ CallGoto(t, "crashed") /\ UNCHANGED <<arg, heap, success>>
  /\ UNCHANGED <<at, released, mutex>>

(* pthread_create makes the thread, or none.                               *)
Create(t) ==
  /\ Alive /\ call[t] = "create"
  /\ \/ Goto(t, "obtain") /\ CallGoto(t, "created")
     \/ CallGoto(t, "failed") /\ UNCHANGED at
  /\ UNCHANGED <<arg, heap, success, released, mutex>>

CreateFailed(t) ==
  /\ Alive /\ call[t] = "failed"
  /\ Free(arg[t]) /\ CallGoto(t, "false")
  /\ UNCHANGED <<at, arg, success, released, mutex>>

(* Mistake: the struct is freed by the one who allocated it.               *)
Created_Frees(t) ==
  /\ Alive /\ call[t] = "created"
  /\ Free(arg[t]) /\ CallGoto(t, "true")
  /\ UNCHANGED <<at, arg, success, released, mutex>>

(* Mistake: thread_complete_success is initialised too late.               *)
Created_Initialises(t) ==
  /\ Alive /\ call[t] = "created"
  /\ success' = [success EXCEPT ![arg[t]] = FALSE] /\ CallGoto(t, "true")
  /\ UNCHANGED <<at, arg, heap, released, mutex>>

(* The call returns and leaves the struct to the thread.                   *)
Created(t) ==
  /\ Alive /\ call[t] = "created"
  /\ CallGoto(t, "true")
  /\ UNCHANGED <<at, arg, heap, success, released, mutex>>
-----------------------------------------------------------------------------
(* threadfunc.                                                             *)

(* The first sleep and the lock.                                           *)
Obtain(t) ==
  /\ Alive /\ at[t] = "obtain"
  /\ mutex = None /\ mutex' = t
  /\ Goto(t, "release")
  /\ UNCHANGED <<call, arg, heap, success, released>>

(* The lock fails.                                                         *)
ObtainFails(t) ==
  /\ Alive /\ at[t] = "obtain"
  /\ Goto(t, "returned") /\ success' = [success EXCEPT ![arg[t]] = FALSE]
  /\ UNCHANGED <<call, arg, heap, released, mutex>>

(* Mistake: the thread returns with the mutex.                             *)
Unlocked_Forgotten(rc) == mutex

Unlocked(rc) == IF rc = 0 THEN None ELSE mutex

(* The second sleep and the unlock, which may fail.                        *)
Release(t) ==
  /\ Alive /\ at[t] = "release"
  /\ \E rc \in {0, 1} :
       /\ mutex' = Unlocked(rc)
       /\ released' = [released EXCEPT ![t] = rc = 0]
       /\ success' = [success EXCEPT ![arg[t]] = rc = 0]
  /\ Goto(t, "returned")
  /\ UNCHANGED <<call, arg, heap>>
-----------------------------------------------------------------------------
(* The program, which holds the mutex at most once.                        *)

Lock ==
  /\ Alive /\ mutex = None /\ ~released[Program]
  /\ mutex' = Program
  /\ UNCHANGED <<call, at, arg, heap, success, released>>

Unlock ==
  /\ Alive /\ mutex = Program
  /\ mutex' = None /\ released' = [released EXCEPT ![Program] = TRUE]
  /\ UNCHANGED <<call, at, arg, heap, success>>

(* pthread_join, and free of the struct that the thread returned.  The     *)
(* program has the thread's id when the call has returned true.            *)
Join(t) ==
  /\ Alive /\ call[t] = "true" /\ at[t] = "returned"
  /\ Goto(t, "joined") /\ Free(arg[t])
  /\ UNCHANGED <<call, arg, success, released, mutex>>

ThreadsInit ==
  /\ call = [t \in Thread |-> "no"] /\ at = [t \in Thread |-> "none"]
  /\ arg = [t \in Thread |-> None] /\ heap = {} /\ success = [p \in Struct |-> FALSE]
  /\ released = [a \in Thread \cup {Program} |-> FALSE] /\ mutex = None

Start(t) == Malloc(t) \/ Create(t) \/ CreateFailed(t) \/ Created(t)

ThreadsNext ==
  \/ \E t \in Thread : Start(t) \/ Obtain(t) \/ ObtainFails(t) \/ Release(t) \/ Join(t)
  \/ Lock \/ Unlock

ThreadsSpec == ThreadsInit /\ [][ThreadsNext]_threadsVars

(* Sleeps end, a free mutex is got, and the program gives it back.         *)
ThreadsFairness ==
  /\ WF_threadsVars(Unlock)
  /\ \A t \in Thread : WF_threadsVars(Obtain(t)) /\ WF_threadsVars(Release(t))

ThreadsFairSpec == ThreadsSpec /\ ThreadsFairness
-----------------------------------------------------------------------------
(* A struct belongs to the call until pthread_create has made the thread,  *)
(* to the thread from then on, and to the joiner when it has returned.     *)
Owns(t) == call[t] \in {"create", "failed"} \/ at[t] \in {"obtain", "release", "returned"}

(***************************************************************************)
(* The allocated structs are those of the calls and threads that still use *)
(* one, each its own: none is used after it was freed, whether the thread  *)
(* returns before or after pthread_create does and however blocks are used *)
(* again, and no call or thread leaves one behind that nobody will free.   *)
(***************************************************************************)
StructsOwned ==
  /\ heap = {arg[t] : t \in {u \in Thread : Owns(u)}}
  /\ \A t, u \in Thread : Owns(t) /\ Owns(u) /\ arg[t] = arg[u] => t = u

(***************************************************************************)
(* The thread_complete_success that the joiner finds in the struct tells   *)
(* whether that thread has held the mutex and given it back: nobody else   *)
(* has written to it, before or after the thread did.                      *)
(***************************************************************************)
SuccessTellsTruth ==
  \A t \in Thread : at[t] = "returned" =>
    (success[arg[t]] <=> released[t]) /\ (success[arg[t]] => mutex # t)

(***************************************************************************)
(* Unless an unlock fails or the program crashes, every thread that was    *)
(* started returns, however many of them and the program want the mutex.   *)
(***************************************************************************)
Undisturbed ==
  Alive /\ \A t \in Thread : at[t] \in {"returned", "joined"} => mutex # t \/ released[t]
ThreadsReturn ==
  []Undisturbed => \A t \in Thread : at[t] = "obtain" ~> at[t] = "returned"
=============================================================================
