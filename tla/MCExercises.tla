---------------------------- MODULE MCExercises ----------------------------
(* The two exercises, which have nothing to do with each other: a          *)
(* behaviour is one of the system calls or one of the threads.             *)
EXTENDS SystemCalls, Threading

(* A command that is no path, one that takes a word, and one that is fine. *)
MCArguments == {<<"word">>, <<"/", "word">>, <<"/", "-", "/">>}

OneExercise ==
  \/ mutex = None /\ (\A t \in Thread : call[t] = "no") /\ Next /\ UNCHANGED threadsVars
  \/ n = 0 /\ ThreadsNext /\ UNCHANGED vars

ExercisesInit == Init /\ ThreadsInit

Exercises == ExercisesInit /\ [][OneExercise]_<<vars, threadsVars>>

FairExercises == Exercises /\ Fairness /\ ThreadsFairness
=============================================================================
