----------------------------- MODULE SystemCalls -----------------------------
(***************************************************************************)
(* examples/systemcalls/systemcalls.c: a process calls do_system, do_exec  *)
(* and do_exec_redirect, one after the other.  Each call has at most one   *)
(* child, named by the number of the call: it lives on as a process of its *)
(* own when waitpid fails, while later calls are made.                     *)
(*                                                                         *)
(* An argument is the first character of the string: "/", "-" or "word".   *)
(***************************************************************************)
EXTENDS Naturals, Sequences

CONSTANTS MaxCalls, Arguments

ASSUME CallsAssumption == MaxCalls \in Nat
ASSUME ArgumentsAssumption ==
  Arguments \subseteq Seq({"/", "-", "word"}) /\ \A a \in Arguments : a # << >>

Call == 1 .. MaxCalls

VARIABLES
  n,        \* the number of calls made
  place,    \* where the last call is, "idle" when it has returned
  kind,     \* the function that was called
  child,    \* the child of a call
  status,   \* how it ended
  stdout,   \* its standard output: "same" as the caller's, or the "file"
  open,     \* the calls whose fd is open in the caller
  result    \* the value returned by a call

procs == <<child, status, stdout>>
vars == <<n, place, kind, procs, open, result>>

Return(r) == place' = "idle" /\ result' = [result EXCEPT ![n] = r]

(* Is the command refused?  Only do_exec looks at the arguments.           *)
Refused(k, a) ==
  \/ a[1] # "/"
  \/ k = "exec" /\ \E i \in 2 .. Len(a) : a[i] = "word"

Begin(k) ==
  /\ place = "idle" /\ n < MaxCalls
  /\ n' = n + 1 /\ kind' = [kind EXCEPT ![n'] = k]
  /\ place' = IF k = "system" THEN "system" ELSE "args"
  /\ UNCHANGED <<procs, open, result>>

(* system() runs a shell and waits for it; -1 is the only failure.         *)
do_system ==
  /\ place = "system"
  /\ \/ Return("false") /\ UNCHANGED <<child, status>>
     \/ /\ status' \in {[status EXCEPT ![n] = s] : s \in {"zero", "nonzero", "signal"}}
        /\ child' = [child EXCEPT ![n] = "reaped"]
        /\ Return("true")
  /\ UNCHANGED <<n, kind, stdout, open>>

CheckArguments(a) ==
  /\ place = "args"
  /\ IF Refused(kind[n], a)
     THEN Return("false")
     ELSE place' = (IF kind[n] = "redirect" THEN "open" ELSE "fork") /\ UNCHANGED result
  /\ UNCHANGED <<n, kind, procs, open>>

Open ==
  /\ place = "open"
  /\ \/ Return("false") /\ UNCHANGED open
     \/ place' = "fork" /\ open' = open \cup {n} /\ UNCHANGED result
  /\ UNCHANGED <<n, kind, procs>>

Fork ==
  /\ place = "fork"
  /\ \/ Return("false") /\ UNCHANGED child
     \/ /\ child' = [child EXCEPT ![n] = IF kind[n] = "redirect" THEN "dup2" ELSE "execv"]
        /\ place' = (IF kind[n] = "redirect" THEN "close" ELSE "waitpid") /\ UNCHANGED result
  /\ UNCHANGED <<n, kind, status, stdout, open>>

Close ==
  /\ place = "close"
  /\ open' = open \ {n} /\ place' = "waitpid"
  /\ UNCHANGED <<n, kind, procs, result>>

(* Mistake: wait() for whichever child ends first.                         *)
Waited_Any(c) == child[c] = "zombie"

Waited(c) == c = n /\ child[c] = "zombie"

(* The child has ended.                                                    *)
Wait ==
  /\ place = "waitpid"
  /\ \E c \in Call :
       /\ Waited(c)
       /\ child' = [child EXCEPT ![c] = "reaped"]
       /\ Return(IF status[c] = "signal" THEN "false" ELSE "true")
  /\ UNCHANGED <<n, kind, status, stdout, open>>

(* waitpid fails, with EINTR for instance, and the child is left alone.    *)
WaitFails ==
  /\ place = "waitpid"
  /\ Return("false")
  /\ UNCHANGED <<n, kind, procs, open>>
-----------------------------------------------------------------------------
(* The child.                                                              *)

Parent == UNCHANGED <<n, place, kind, open, result>>

Ends(c, s) ==
  /\ child' = [child EXCEPT ![c] = "zombie"]
  /\ status' = [status EXCEPT ![c] = s]

(* Mistake: a failed dup2 is not noticed.                                  *)
Dup2Fails_Ignored(c) == child' = [child EXCEPT ![c] = "execv"] /\ UNCHANGED status

Dup2Fails(c) == Ends(c, "nonzero")

Dup2(c) ==
  /\ child[c] = "dup2"
  /\ \/ /\ child' = [child EXCEPT ![c] = "execv"]
        /\ stdout' = [stdout EXCEPT ![c] = "file"] /\ UNCHANGED status
     \/ Dup2Fails(c) /\ UNCHANGED stdout
  /\ Parent

(* Mistake: no exit behind execv, the child returns into the caller.       *)
ExecvFails_Returns(c) == child' = [child EXCEPT ![c] = "returned"] /\ UNCHANGED status

ExecvFails(c) == Ends(c, "nonzero")

Execv(c) ==
  /\ child[c] = "execv"
  /\ \/ child' = [child EXCEPT ![c] = "command"] /\ UNCHANGED status
     \/ ExecvFails(c)
  /\ UNCHANGED stdout /\ Parent

(* The command ends, by itself or by a signal.                             *)
Command(c) ==
  /\ child[c] = "command"
  /\ \E s \in {"zero", "nonzero", "signal"} : Ends(c, s)
  /\ UNCHANGED stdout /\ Parent

Init ==
  /\ n = 0 /\ place = "idle" /\ open = {}
  /\ kind = [c \in Call |-> "none"] /\ child = [c \in Call |-> "none"]
  /\ status = [c \in Call |-> "none"] /\ stdout = [c \in Call |-> "same"]
  /\ result = [c \in Call |-> "none"]

Caller == do_system \/ Open \/ Fork \/ Close \/ Wait \/ \E a \in Arguments : CheckArguments(a)
Child(c) == Dup2(c) \/ Execv(c) \/ Command(c)

Next ==
  \/ \E k \in {"system", "exec", "redirect"} : Begin(k)
  \/ Caller \/ WaitFails
  \/ \E c \in Call : Child(c)

Spec == Init /\ [][Next]_vars

(* Processes are scheduled, and the commands end.                          *)
Fairness == WF_vars(Caller) /\ \A c \in Call : WF_vars(Child(c))

FairSpec == Spec /\ Fairness
-----------------------------------------------------------------------------
(***************************************************************************)
(* What true does mean: the call has waited for its own child, which has   *)
(* ended, for do_exec and do_exec_redirect not by a signal, and it has     *)
(* left neither a process nor a file behind, whatever earlier calls have   *)
(* left.  (The comments promise more: see SystemTold and ExecTold.)        *)
(***************************************************************************)
TrueMeansWaited ==
  \A c \in Call : result[c] = "true" =>
    /\ child[c] = "reaped" /\ status[c] # "none" /\ c \notin open
    /\ kind[c] # "system" => status[c] # "signal"

(* A redirected command never writes to the caller's standard output.      *)
OutputRedirected ==
  \A c \in Call : child[c] = "command" => (kind[c] = "redirect" <=> stdout[c] = "file")

(* Each call returns: in every way that fork, dup2, execv and the command  *)
(* can fail there is a child that ends, or none to wait for.               *)
CallsReturn == place # "idle" ~> place = "idle"

(* do_system returns "false if an error occurred, either in invocation of  *)
(* the system() call, or if a non-zero return value was returned by the    *)
(* command".                                                               *)
SystemTold == \A c \in Call : kind[c] = "system" /\ result[c] = "true" => status[c] = "zero"

(* do_exec and do_exec_redirect return "false if an error occurred, either *)
(* in invocation of the fork, waitpid, or execv() command, or if a         *)
(* non-zero return value was returned by the command".                     *)
ExecTold == \A c \in Call : kind[c] # "system" /\ result[c] = "true" => status[c] = "zero"

(* "This file will be closed at completion of the function call."          *)
FileClosed == \A c \in Call : result[c] # "none" => c \notin open

(***************************************************************************)
(* What the comments say of the functions, which the code contradicts: a   *)
(* behaviour that violates this shows all three comments to be wrong.      *)
(***************************************************************************)
SomeCommentHolds == SystemTold \/ ExecTold \/ FileClosed
=============================================================================
