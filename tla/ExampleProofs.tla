--------------------------- MODULE ExampleProofs ---------------------------
(***************************************************************************)
(* The two exercises of examples/.  systemcalls, for every number of calls *)
(* and every arguments, in every interleaving of the caller with the       *)
(* children it has left behind: what true means, and where the output of a *)
(* redirected command goes.  threading, for any number of threads: whose a *)
(* struct is at any time, and what the success in it means.                *)
(***************************************************************************)
EXTENDS SystemCalls, Threading, TLAPS

TypeOK ==
  /\ n \in 0 .. MaxCalls
  /\ place \in {"idle", "system", "args", "open", "fork", "close", "waitpid"}
  /\ kind \in [Call -> {"none", "system", "exec", "redirect"}]
  /\ child \in [Call -> {"none", "dup2", "execv", "command", "zombie", "reaped"}]
  /\ status \in [Call -> {"none", "zero", "nonzero", "signal"}]
  /\ stdout \in [Call -> {"same", "file"}]
  /\ open \subseteq Call
  /\ result \in [Call -> {"none", "true", "false"}]

(* Calls that have not been made have no child, no fd and no result.       *)
Unmade(c) == child[c] = "none" /\ c \notin open /\ result[c] = "none"

(* How far a child has come tells what its standard output is.             *)
ChildOK(c) ==
  /\ child[c] \in {"none", "dup2"} => stdout[c] = "same"
  /\ child[c] = "dup2" => kind[c] = "redirect"
  /\ child[c] \in {"execv", "command"} => (kind[c] = "redirect" <=> stdout[c] = "file")
  /\ child[c] = "zombie" => status[c] # "none"

(* Where the call is tells whether it has a child and an open fd.          *)
PlaceOK ==
  place # "idle" =>
    /\ n \in Call /\ result[n] = "none"
    /\ place = "system" <=> kind[n] = "system"
    /\ place \in {"system", "args", "open", "fork"} => child[n] = "none"
    /\ place \in {"open", "close"} => kind[n] = "redirect"
    /\ n \in open => place \in {"fork", "close"} /\ kind[n] = "redirect"

(***************************************************************************)
(* The inductive invariant.  TrueMeansWaited needs to know that a call whose *)
(* fd is open does not get to waitpid without close, that a child which    *)
(* can be waited for has a status, and that no step of a child left behind *)
(* undoes what an earlier call has reported; OutputRedirected needs the    *)
(* output of a child from fork on.                                         *)
(***************************************************************************)
IInv ==
  /\ TypeOK /\ PlaceOK /\ TrueMeansWaited
  /\ \A c \in Call : ChildOK(c) /\ (c > n => Unmade(c))

LEMMA InitIInv == Init => IInv
BY CallsAssumption DEF Init, IInv, TypeOK, PlaceOK, TrueMeansWaited, ChildOK, Unmade, Call

(* The invariant is kept when a step concerns one call only: what it says  *)
(* of the other calls is unchanged.                                        *)
Others(c) ==
  \A d \in Call \ {c} : /\ kind'[d] = kind[d] /\ child'[d] = child[d] /\ status'[d] = status[d]
                        /\ stdout'[d] = stdout[d] /\ result'[d] = result[d]
                        /\ d \in open' <=> d \in open

(* What the invariant says of one call.                                    *)
DoneOK(c) ==
  result[c] = "true" =>
    /\ child[c] = "reaped" /\ status[c] # "none" /\ c \notin open
    /\ kind[c] # "system" => status[c] # "signal"
CallOK(c) == ChildOK(c) /\ DoneOK(c) /\ (c > n => Unmade(c))

LEMMA IInvIs == IInv <=> TypeOK /\ PlaceOK /\ \A c \in Call : CallOK(c)
BY DEF IInv, TrueMeansWaited, CallOK, DoneOK

LEMMA OneCall ==
  ASSUME IInv, NEW c \in Call, Others(c), n' = n, TypeOK', PlaceOK', CallOK(c)'
  PROVE  IInv'
<1>1. ASSUME NEW d \in Call \ {c} PROVE CallOK(d)'
  <2>1. CallOK(d)
    BY IInvIs
  <2>2. /\ kind'[d] = kind[d] /\ child'[d] = child[d] /\ status'[d] = status[d]
        /\ stdout'[d] = stdout[d] /\ result'[d] = result[d] /\ (d \in open' <=> d \in open)
    BY DEF Others
  <2> QED
    BY <2>1, <2>2 DEF CallOK, ChildOK, DoneOK, Unmade
<1>2. \A d \in Call : CallOK(d)'
  BY <1>1
<1>3. \A d \in Call' : CallOK(d)'
  BY <1>2 DEF Call
<1> QED
  BY <1>3 DEF IInv, TrueMeansWaited, CallOK, DoneOK

(* The steps of the caller.                                                *)
LEMMA BeginKeeps ==
  ASSUME IInv, NEW k \in {"system", "exec", "redirect"}, Begin(k)
  PROVE  IInv'
<1>1. n + 1 \in Call /\ n' = n + 1 /\ n \in Nat
  BY CallsAssumption DEF IInv, TypeOK, Begin, Call
<1>2. TypeOK'
  <2>1. kind' \in [Call -> {"none", "system", "exec", "redirect"}] /\ n' \in 0 .. MaxCalls
    BY <1>1 DEF IInv, TypeOK, Begin, Call
  <2> QED
    BY <2>1 DEF IInv, TypeOK, Begin, procs
<1>3. Unmade(n + 1)
  BY <1>1 DEF IInv
<1>4. /\ kind' = [kind EXCEPT ![n + 1] = k] /\ kind \in [Call -> {"none", "system", "exec", "redirect"}]
      /\ UNCHANGED <<child, status, stdout, open, result>>
  BY <1>1 DEF Begin, procs, IInv, TypeOK
<1>5. PlaceOK'
  BY <1>1, <1>3, <1>4 DEF PlaceOK, Begin, Unmade
<1>6. ASSUME NEW c \in Call PROVE CallOK(c)'
  <2>1. CallOK(c)
    BY IInvIs
  <2>2. CASE c = n + 1
    BY <1>1, <1>3, <1>4, <2>1, <2>2 DEF CallOK, ChildOK, DoneOK, Unmade
  <2>3. CASE c # n + 1
    <3>1. kind'[c] = kind[c] /\ (c > n' => c > n)
      BY <1>1, <1>4, <2>3 DEF Call
    <3> QED
      BY <1>4, <2>1, <3>1 DEF CallOK, ChildOK, DoneOK, Unmade
  <2> QED
    BY <2>2, <2>3
<1>7. \A c \in Call' : CallOK(c)'
  BY <1>6 DEF Call
<1> QED
  BY <1>2, <1>5, <1>7 DEF IInv, TrueMeansWaited, CallOK, DoneOK

(* What the steps of the caller start from.                                *)
LEMMA Running ==
  ASSUME IInv, place # "idle"
  PROVE  n \in Call /\ CallOK(n) /\ TypeOK /\ PlaceOK /\ ~(n > n)
<1>1. n \in Call /\ n \in Nat
  BY CallsAssumption DEF IInv, PlaceOK, TypeOK
<1> QED
  BY <1>1, IInvIs DEF IInv

LEMMA CallerKeeps ==
  ASSUME IInv, Caller \/ WaitFails
  PROVE  IInv'
<1>1. CASE do_system
  <2> USE <1>1 DEF do_system
  <2>1. n \in Call /\ CallOK(n) /\ TypeOK /\ PlaceOK /\ ~(n > n)
    BY Running
  <2>2. TypeOK' /\ Others(n)
    BY <2>1 DEF TypeOK, Return, Others
  <2>3. PlaceOK'
    BY DEF PlaceOK, Return
  <2>4. CallOK(n)'
    BY <2>1 DEF CallOK, ChildOK, DoneOK, PlaceOK, Return, TypeOK
  <2> QED
    BY <2>1, <2>2, <2>3, <2>4, OneCall
<1>2. ASSUME NEW a \in Arguments, CheckArguments(a) PROVE IInv'
  <2> USE <1>2 DEF CheckArguments, procs
  <2>1. n \in Call /\ CallOK(n) /\ TypeOK /\ PlaceOK /\ ~(n > n)
    BY Running
  <2>2. TypeOK' /\ Others(n)
    BY <2>1 DEF TypeOK, Return, Others
  <2>3. PlaceOK'
    BY <2>1 DEF PlaceOK, Return, TypeOK
  <2>4. CallOK(n)'
    BY <2>1 DEF CallOK, ChildOK, DoneOK, PlaceOK, Return, TypeOK
  <2> QED
    BY <2>1, <2>2, <2>3, <2>4, OneCall
<1>3. CASE Open
  <2> USE <1>3 DEF Open, procs
  <2>1. n \in Call /\ CallOK(n) /\ TypeOK /\ PlaceOK /\ ~(n > n)
    BY Running
  <2>2. TypeOK' /\ Others(n)
    BY <2>1 DEF TypeOK, Return, Others
  <2>3. PlaceOK'
    BY <2>1 DEF PlaceOK, Return, TypeOK
  <2>4. CallOK(n)'
    BY <2>1 DEF CallOK, ChildOK, DoneOK, PlaceOK, Return, TypeOK
  <2> QED
    BY <2>1, <2>2, <2>3, <2>4, OneCall
<1>4. CASE Fork
  <2> USE <1>4 DEF Fork
  <2>1. n \in Call /\ CallOK(n) /\ TypeOK /\ PlaceOK /\ ~(n > n)
    BY Running
  <2>2. TypeOK' /\ Others(n)
    BY <2>1 DEF TypeOK, Return, Others
  <2>3. PlaceOK'
    BY <2>1 DEF PlaceOK, Return, TypeOK
  <2>4. CallOK(n)'
    BY <2>1 DEF CallOK, ChildOK, DoneOK, PlaceOK, Return, TypeOK
  <2> QED
    BY <2>1, <2>2, <2>3, <2>4, OneCall
<1>5. CASE Close
  <2> USE <1>5 DEF Close, procs
  <2>1. n \in Call /\ CallOK(n) /\ TypeOK /\ PlaceOK /\ ~(n > n)
    BY Running
  <2>2. TypeOK' /\ Others(n)
    BY <2>1 DEF TypeOK, Return, Others
  <2>3. PlaceOK'
    BY <2>1 DEF PlaceOK, Return, TypeOK
  <2>4. CallOK(n)'
    BY <2>1 DEF CallOK, ChildOK, DoneOK, PlaceOK, Return, TypeOK
  <2> QED
    BY <2>1, <2>2, <2>3, <2>4, OneCall
<1>6. CASE Wait
  <2> USE <1>6 DEF Wait, Waited
  <2>1. n \in Call /\ CallOK(n) /\ TypeOK /\ PlaceOK /\ ~(n > n)
    BY Running
  <2>2. TypeOK' /\ Others(n)
    BY <2>1 DEF TypeOK, Return, Others
  <2>3. PlaceOK'
    BY DEF PlaceOK, Return
  <2>4. CallOK(n)'
    BY <2>1 DEF CallOK, ChildOK, DoneOK, PlaceOK, Return, TypeOK
  <2> QED
    BY <2>1, <2>2, <2>3, <2>4, OneCall
<1>7. CASE WaitFails
  <2> USE <1>7 DEF WaitFails, procs
  <2>1. n \in Call /\ CallOK(n) /\ TypeOK /\ PlaceOK /\ ~(n > n)
    BY Running
  <2>2. TypeOK' /\ Others(n)
    BY <2>1 DEF TypeOK, Return, Others
  <2>3. PlaceOK'
    BY DEF PlaceOK, Return
  <2>4. CallOK(n)'
    BY <2>1 DEF CallOK, ChildOK, DoneOK, PlaceOK, Return, TypeOK
  <2> QED
    BY <2>1, <2>2, <2>3, <2>4, OneCall
<1> QED
  BY <1>1, <1>2, <1>3, <1>4, <1>5, <1>6, <1>7 DEF Caller

(* The steps of a child, of the running call or of an earlier one.         *)
LEMMA ChildKeeps ==
  ASSUME IInv, NEW c \in Call, Child(c)
  PROVE  IInv'
<1>1. CallOK(c) /\ TypeOK /\ PlaceOK
  BY IInvIs
<1>2. /\ child[c] \in {"dup2", "execv", "command"} /\ UNCHANGED <<n, place, kind, open, result>>
      /\ child' \in [Call -> {"none", "dup2", "execv", "command", "zombie", "reaped"}]
      /\ status' \in [Call -> {"none", "zero", "nonzero", "signal"}]
      /\ stdout' \in [Call -> {"same", "file"}]
  BY <1>1 DEF Child, Dup2, Execv, Command, Dup2Fails, ExecvFails, Ends, Parent, TypeOK
<1>3. TypeOK'
  BY <1>1, <1>2 DEF TypeOK
<1>4. Others(c)
  BY <1>1, <1>2 DEF Child, Dup2, Execv, Command, Dup2Fails, ExecvFails, Ends, Others, TypeOK
<1>5. PlaceOK'
  <2>1. place # "idle" /\ c # n => child'[n] = child[n]
    BY <1>1, <1>4 DEF Others, PlaceOK
  <2> QED
    BY <1>1, <1>2, <2>1 DEF PlaceOK
<1>6. CallOK(c)'
  BY <1>1, <1>2 DEF Child, Dup2, Execv, Command, Dup2Fails, ExecvFails, Ends,
                    CallOK, ChildOK, DoneOK, Unmade, TypeOK
<1> QED
  BY <1>2, <1>3, <1>4, <1>5, <1>6, OneCall

(* The invariant holds in every state of every behaviour.                  *)
LEMMA IInvHolds == Spec => []IInv
<1>1. IInv /\ [Next]_vars => IInv'
  <2> SUFFICES ASSUME IInv, [Next]_vars PROVE IInv'
    OBVIOUS
  <2>1. CASE UNCHANGED vars
    BY <2>1 DEF vars, procs, IInv, TypeOK, PlaceOK, TrueMeansWaited, ChildOK, Unmade, Call
  <2> QED
    BY <2>1, BeginKeeps, CallerKeeps, ChildKeeps DEF Next
<1> QED
  BY <1>1, InitIInv, PTL DEF Spec

(***************************************************************************)
(* A function returns true only if its own child has been reaped (for      *)
(* do_exec and do_exec_redirect, one that no signal ended) and the fd of   *)
(* the output file is closed, whatever the children that failed waits left *)
(* behind do.                                                              *)
(***************************************************************************)
THEOREM TrueIsWaited == Spec => []TrueMeansWaited
<1>1. IInv => TrueMeansWaited
  BY DEF IInv
<1> QED
  BY <1>1, IInvHolds, PTL

(***************************************************************************)
(* A command started by do_exec_redirect has the file as standard output,  *)
(* and no other command has: if dup2 fails, execv is not reached.          *)
(***************************************************************************)
THEOREM OutputIsRedirected == Spec => []OutputRedirected
<1>1. IInv => OutputRedirected
  BY DEF IInv, ChildOK, OutputRedirected
<1> QED
  BY <1>1, IInvHolds, PTL
-----------------------------------------------------------------------------
(* examples/threading.                                                     *)

ThreadTypes ==
  /\ call \in [Thread -> {"no", "create", "created", "failed", "true", "false", "crashed"}]
  /\ at \in [Thread -> {"none", "obtain", "release", "returned", "joined"}]
  /\ arg \in [Thread -> Struct \cup {None}] /\ heap \subseteq Struct
  /\ success \in [Struct -> BOOLEAN] /\ released \in [Thread \cup {Program} -> BOOLEAN]
  /\ mutex \in Thread \cup {Program, None}

(***************************************************************************)
(* What is known of one thread: it is there from pthread_create on, it is  *)
(* between lock and unlock only with the mutex, it has given the mutex     *)
(* back only if it has returned, and then its struct says so.              *)
(***************************************************************************)
ThreadOK(t) ==
  /\ at[t] # "none" <=> call[t] \in {"created", "true"}
  /\ Owns(t) => arg[t] \in heap
  /\ at[t] = "release" => mutex = t
  /\ mutex = t => at[t] \in {"release", "returned", "joined"}
  /\ released[t] => at[t] \in {"returned", "joined"} /\ mutex # t
  /\ at[t] = "returned" => (success[arg[t]] <=> released[t])

(* No two of them have the same struct, and none is left behind.           *)
Apart(t, u) == Owns(t) /\ Owns(u) /\ arg[t] = arg[u] => t = u
Used(p) == \E t \in Thread : Owns(t) /\ arg[t] = p

(***************************************************************************)
(* The inductive invariant.  That a struct is not used after free, and     *)
(* that a flag is what its own thread wrote, both need that no two owners  *)
(* share a struct: then a free, a malloc or a write by one of them is      *)
(* about none of the others.                                               *)
(***************************************************************************)
ThreadInv ==
  /\ ThreadTypes
  /\ \A t \in Thread : ThreadOK(t)
  /\ \A t, u \in Thread : Apart(t, u)
  /\ \A p \in heap : Used(p)

LEMMA InitThreads ==
  ASSUME ThreadsInit
  PROVE  ThreadInv
<1> USE DEF ThreadsInit
<1>1. ThreadTypes
  BY ActorAssumption DEF ThreadTypes
<1>2. \A t \in Thread : ThreadOK(t) /\ ~Owns(t)
  BY ActorAssumption DEF ThreadOK, Owns
<1> QED
  BY <1>1, <1>2 DEF ThreadInv, Apart

(* Steps that concern one call or thread: what the others own is theirs.   *)
Aside(t) ==
  \A u \in Thread \ {t} : call'[u] = call[u] /\ at'[u] = at[u] /\ arg'[u] = arg[u]

LEMMA OthersOwn ==
  ASSUME NEW t \in Thread, NEW u \in Thread, u # t, Aside(t)
  PROVE  Owns(u)' <=> Owns(u)
BY DEF Aside, Owns

(* malloc: the new struct is nobody's.                                     *)
LEMMA MallocStep ==
  ASSUME ThreadInv, NEW t \in Thread, Malloc(t)
  PROVE  ThreadInv'
<1>0. ThreadTypes /\ ThreadOK(t) /\ call[t] = "no" /\ at[t] = "none"
  BY DEF ThreadInv, Malloc, ThreadOK
<1>1. CASE CallGoto(t, "crashed") /\ UNCHANGED <<at, arg, heap, success, released, mutex>>
  <2>1. ThreadTypes' /\ Aside(t) /\ call'[t] = "crashed"
    BY <1>0, <1>1 DEF ThreadTypes, CallGoto, Aside
  <2>2. \A u \in Thread : Owns(u)' <=> Owns(u)
    BY <1>0, <1>1, <2>1, OthersOwn DEF Owns
  <2>3. ASSUME NEW u \in Thread PROVE ThreadOK(u)'
    BY <1>0, <1>1, <2>1, <2>2 DEF ThreadOK, ThreadInv, Aside
  <2> QED
    BY <1>1, <2>1, <2>2, <2>3 DEF ThreadInv, Apart, Used
<1>2. ASSUME NEW p \in Struct \ heap, heap' = heap \cup {p}, arg' = [arg EXCEPT ![t] = p],
             success' = [success EXCEPT ![p] = FALSE], CallGoto(t, "create"),
             UNCHANGED <<at, released, mutex>>
      PROVE  ThreadInv'
  <2>1. ThreadTypes' /\ Aside(t) /\ call'[t] = "create" /\ arg'[t] = p
    BY <1>0, <1>2 DEF ThreadTypes, CallGoto, Aside
  <2>2. ~Owns(t) /\ Owns(t)' /\ \A u \in Thread \ {t} : Owns(u)' <=> Owns(u)
    BY <1>0, <1>2, <2>1, OthersOwn DEF Owns
  <2>3. ThreadOK(t)'
    BY <1>0, <1>2, <2>1 DEF ThreadOK
  <2>4. ASSUME NEW u \in Thread \ {t}
        PROVE  ThreadOK(u)' /\ (Owns(u)' => arg'[u] \in heap /\ arg'[u] # p)
    <3>1. ThreadOK(u) /\ (Owns(u) => arg[u] \in heap /\ arg[u] # p)
      BY <1>2 DEF ThreadInv, ThreadOK
    <3>2. at[u] = "returned" => success'[arg[u]] = success[arg[u]]
      BY <1>0, <1>2, <3>1 DEF Owns, ThreadTypes
    <3>3. Owns(u)' => arg'[u] \in heap' /\ arg'[u] \in heap /\ arg'[u] # p
      BY <1>2, <2>1, <2>2, <3>1 DEF Aside
    <3>4. call'[u] = call[u] /\ at'[u] = at[u] /\ arg'[u] = arg[u]
      BY <2>1 DEF Aside
    <3> QED
      BY <1>2, <3>1, <3>2, <3>3, <3>4 DEF ThreadOK
  <2>5. \A u, v \in Thread : Apart(u, v)'
    BY <2>1, <2>2, <2>4 DEF ThreadInv, Apart, Aside
  <2>6. ASSUME NEW q \in heap' PROVE Used(q)'
    <3>1. CASE q = p
      BY <2>1, <2>2, <3>1 DEF Used
    <3>2. CASE q # p
      <4>1. PICK u \in Thread : Owns(u) /\ arg[u] = q
        BY <1>2, <3>2 DEF ThreadInv, Used
      <4> QED
        BY <2>1, <2>2, <4>1 DEF Aside, Used
    <3> QED
      BY <3>1, <3>2
  <2> QED
    BY <2>1, <2>3, <2>4, <2>5, <2>6 DEF ThreadInv
<1> QED
  BY <1>1, <1>2 DEF Malloc

(* free, after a failed create and after a join: the others' structs stay. *)
LEMMA FreeStep ==
  ASSUME ThreadInv, NEW t \in Thread, CreateFailed(t) \/ Join(t)
  PROVE  ThreadInv'
<1>0. ThreadTypes /\ ThreadOK(t) /\ Owns(t)
  BY DEF ThreadInv, CreateFailed, Join, Owns
<1>1. /\ heap' = heap \ {arg[t]} /\ UNCHANGED <<arg, success, released, mutex>>
      /\ ThreadTypes' /\ Aside(t)
  BY <1>0 DEF CreateFailed, Join, Free, CallGoto, Goto, ThreadTypes, Aside
<1>2. ~Owns(t)' /\ \A u \in Thread \ {t} : Owns(u)' <=> Owns(u)
  <2>1. ~Owns(t)'
    BY <1>0 DEF CreateFailed, Join, CallGoto, Goto, Owns, ThreadTypes, ThreadOK
  <2> QED
    BY <1>1, <2>1, OthersOwn
<1>3. ThreadOK(t)'
  BY <1>0, <1>1, <1>2 DEF CreateFailed, Join, CallGoto, Goto, ThreadTypes, ThreadOK
<1>4. ASSUME NEW u \in Thread \ {t} PROVE ThreadOK(u)'
  <2>1. ThreadOK(u) /\ Apart(u, t)
    BY DEF ThreadInv
  <2> QED
    BY <1>0, <1>1, <1>2, <2>1 DEF ThreadOK, Apart, Aside
<1>5. \A u, v \in Thread : Apart(u, v)'
  BY <1>1, <1>2 DEF ThreadInv, Apart
<1>6. ASSUME NEW q \in heap' PROVE Used(q)'
  <2>1. q \in heap /\ q # arg[t]
    BY <1>1
  <2>2. PICK u \in Thread : Owns(u) /\ arg[u] = q
    BY <2>1 DEF ThreadInv, Used
  <2> QED
    BY <1>1, <1>2, <2>1, <2>2 DEF Used
<1> QED
  BY <1>1, <1>3, <1>4, <1>5, <1>6 DEF ThreadInv

(* pthread_create, the return of the call, and threadfunc: the struct      *)
(* passes from the call to the thread, which alone writes to it.           *)
LEMMA RunStep ==
  ASSUME ThreadInv, NEW t \in Thread,
         Create(t) \/ Created(t) \/ Obtain(t) \/ ObtainFails(t) \/ Release(t)
  PROVE  ThreadInv'
<1>0. ThreadTypes /\ ThreadOK(t)
  BY DEF ThreadInv
<1>1. Aside(t) /\ UNCHANGED <<arg, heap>>
  BY <1>0 DEF Create, Created, Obtain, ObtainFails, Release, CallGoto, Goto, ThreadTypes, Aside
<1>2. ThreadTypes'
  <2>1. CASE Create(t) \/ Created(t) \/ Obtain(t)
    BY <1>0, <2>1 DEF Create, Created, Obtain, CallGoto, Goto, ThreadTypes
  <2>2. CASE ObtainFails(t)
    BY <1>0, <2>2 DEF ObtainFails, Goto, ThreadTypes
  <2>3. CASE Release(t)
    BY <1>0, <2>3 DEF Release, Unlocked, Goto, ThreadTypes
  <2> QED
    BY <2>1, <2>2, <2>3
<1>3. Owns(t) \/ Created(t)
  BY DEF Create, Obtain, ObtainFails, Release, Owns
<1>4. Owns(t)' <=> Owns(t)
  BY <1>0, <1>1 DEF Create, Created, Obtain, ObtainFails, Release, CallGoto, Goto,
                    ThreadTypes, ThreadOK, Owns
<1>5. \A u \in Thread : Owns(u)' <=> Owns(u)
  BY <1>1, <1>4, OthersOwn
<1>6. ThreadOK(t)'
  <2>1. CASE Create(t) \/ Created(t)
    BY <1>0, <1>1, <1>4, <2>1 DEF Create, Created, CallGoto, Goto, ThreadTypes, ThreadOK
  <2>2. CASE Obtain(t)
    BY <1>0, <1>1, <1>4, <2>2, ActorAssumption DEF Obtain, Goto, ThreadTypes, ThreadOK
  <2>3. CASE ObtainFails(t)
    <3>1. arg[t] \in Struct
      BY <1>0, <2>3 DEF ObtainFails, ThreadOK, ThreadTypes, Owns
    <3> QED
      BY <1>0, <1>1, <1>4, <2>3, <3>1 DEF ObtainFails, Goto, ThreadTypes, ThreadOK
  <2>4. CASE Release(t)
    <3>1. arg[t] \in Struct
      BY <1>0, <2>4 DEF Release, ThreadOK, ThreadTypes, Owns
    <3> QED
      BY <1>0, <1>1, <1>4, <2>4, <3>1, ActorAssumption DEF Release, Unlocked, Goto, ThreadTypes, ThreadOK
  <2> QED
    BY <2>1, <2>2, <2>3, <2>4
<1>7. ASSUME NEW u \in Thread \ {t} PROVE ThreadOK(u)'
  <2>1. ThreadOK(u) /\ Apart(u, t)
    BY DEF ThreadInv
  <2>2. at[u] = "returned" => success'[arg[u]] = success[arg[u]]
    <3>1. at[u] = "returned" => arg[u] \in Struct /\ (Owns(t) => arg[u] # arg[t])
      BY <1>0, <2>1 DEF ThreadOK, ThreadTypes, Apart, Owns
    <3> QED
      BY <1>0, <1>3, <3>1 DEF Create, Created, Obtain, ObtainFails, Release, ThreadTypes
  <2>3. released'[u] = released[u] /\ (mutex' = u <=> mutex = u)
    BY <1>0, <2>1, ActorAssumption
       DEF Create, Created, Obtain, ObtainFails, Release, Unlocked, ThreadTypes, ThreadOK
  <2> QED
    BY <1>1, <1>5, <2>1, <2>2, <2>3 DEF ThreadOK, Aside
<1> QED
  BY <1>1, <1>2, <1>5, <1>6, <1>7 DEF ThreadInv, Apart, Used

(* The program's own use of the mutex.                                     *)
LEMMA ProgramStep ==
  ASSUME ThreadInv, Lock \/ Unlock
  PROVE  ThreadInv'
<1>1. /\ UNCHANGED <<call, at, arg, heap, success>> /\ mutex' \in {Program, None}
      /\ mutex \notin Thread
  BY ActorAssumption DEF Lock, Unlock
<1>2. ThreadTypes'
  BY <1>1 DEF Lock, Unlock, ThreadInv, ThreadTypes
<1>3. ASSUME NEW t \in Thread PROVE ThreadOK(t)'
  <2>1. released'[t] = released[t]
    BY ActorAssumption DEF Lock, Unlock, ThreadInv, ThreadTypes
  <2>2. ThreadOK(t)
    BY DEF ThreadInv
  <2> QED
    BY <1>1, <2>1, <2>2, ActorAssumption DEF ThreadOK, Owns
<1> QED
  BY <1>1, <1>2, <1>3 DEF ThreadInv, Apart, Used, Owns

LEMMA ThreadInvHolds == ThreadsSpec => []ThreadInv
<1>1. ThreadsInit => ThreadInv
  BY InitThreads
<1>2. ThreadInv /\ [ThreadsNext]_threadsVars => ThreadInv'
  <2> SUFFICES ASSUME ThreadInv, [ThreadsNext]_threadsVars PROVE ThreadInv'
    OBVIOUS
  <2>1. CASE UNCHANGED threadsVars
    BY <2>1 DEF threadsVars, ThreadInv, ThreadTypes, ThreadOK, Apart, Used, Owns
  <2> QED
    BY <2>1, MallocStep, FreeStep, RunStep, ProgramStep DEF ThreadsNext, Start
<1> QED
  BY <1>1, <1>2, PTL DEF ThreadsSpec

(***************************************************************************)
(* For any number of threads and structs: a struct is allocated exactly as *)
(* long as one call or thread uses it, wherever the thread is when         *)
(* pthread_create returns to the call.                                     *)
(***************************************************************************)
THEOREM StructsAreOwned == ThreadsSpec => []StructsOwned
<1>1. ASSUME ThreadInv PROVE StructsOwned
  <2>1. \A t \in Thread : Owns(t) => arg[t] \in heap
    BY <1>1 DEF ThreadInv, ThreadOK
  <2>2. \A p \in heap : \E t \in Thread : Owns(t) /\ arg[t] = p
    BY <1>1 DEF ThreadInv, Used
  <2>3. heap = {arg[t] : t \in {u \in Thread : Owns(u)}}
    BY <2>1, <2>2
  <2> QED
    BY <1>1, <2>3 DEF StructsOwned, ThreadInv, Apart
<1> QED
  BY <1>1, ThreadInvHolds, PTL

(***************************************************************************)
(* What the joiner reads in the struct is what the thread that it joins    *)
(* wrote last: true exactly if that thread has given the mutex back.       *)
(***************************************************************************)
THEOREM SuccessIsTrue == ThreadsSpec => []SuccessTellsTruth
<1>1. ThreadInv => SuccessTellsTruth
  BY DEF ThreadInv, ThreadOK, SuccessTellsTruth
<1> QED
  BY <1>1, ThreadInvHolds, PTL
=============================================================================
