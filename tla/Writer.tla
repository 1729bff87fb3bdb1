------------------------------- MODULE Writer -------------------------------
(***************************************************************************)
(* finder-app/writer.c: write a string to a file, with short writes,       *)
(* interrupted writes and failures.  The program is run again and again on *)
(* one file, with any string, and may be killed at any time.               *)
(***************************************************************************)
EXTENDS Integers, Sequences

CONSTANTS Char, String

ASSUME StringAssumption == String \subseteq Seq(Char)

VARIABLES
  place,     \* "idle" between two runs
  writestr,  \* argv[2]
  buf,       \* how far the pointer of that name has moved
  len,       \* what is still to be written
  ret,       \* the result of write: a count, or -1
  err,       \* errno after it: EINTR or not
  fd,        \* this run has opened the file
  pos,       \* the position of fd
  file,      \* the content of the file
  code       \* the exit code of the last run: -1 when it was killed

local == <<writestr, buf, len, ret, err>>
vars == <<place, local, fd, pos, file, code>>

Exit(c) == place' = "idle" /\ code' = c

(* The check of argc and what is computed from the arguments.              *)
Start ==
  /\ place = "idle"
  /\ \/ Exit(1) /\ UNCHANGED local
     \/ /\ writestr' \in String
        /\ place' = "open" /\ code' = -1
        /\ buf' = 0 /\ len' = Len(writestr')
        /\ UNCHANGED <<ret, err>>
  /\ fd' = FALSE /\ UNCHANGED <<pos, file>>

(* Mistake: without O_TRUNC.                                               *)
Opened_Keeps(f) == f

(* O_CREAT and O_TRUNC.                                                    *)
Opened(f) == << >>

Open ==
  /\ place = "open"
  /\ \/ Exit(1) /\ UNCHANGED <<fd, pos, file>>
     \/ /\ place' = "loop" /\ UNCHANGED code
        /\ fd' = TRUE /\ pos' = 0 /\ file' = Opened(file)
  /\ UNCHANGED local

(* The file after a write of the data d at the position.                   *)
Stored(d) == SubSeq(file, 1, pos) \o d \o SubSeq(file, pos + Len(d) + 1, Len(file))

(* write takes some of what it is given, or fails.                         *)
Write ==
  /\ place = "loop" /\ len > 0
  /\ place' = "check"
  /\ \/ \E n \in 1 .. len :
          /\ ret' = n /\ err' = "none"
          /\ file' = Stored(SubSeq(writestr, buf + 1, buf + n))
          /\ pos' = pos + n
     \/ /\ ret' = -1 /\ err' \in {"EINTR", "other"}
        /\ UNCHANGED <<file, pos>>
  /\ UNCHANGED <<writestr, buf, len, fd, code>>

(* Mistake: any failure is retried.                                        *)
Retriable_Any(e) == TRUE

(* continue                                                                *)
Retriable(e) == e = "EINTR"

(* Mistake: the pointer stays behind.                                      *)
Advance_LenOnly == len' = len - ret /\ UNCHANGED buf

Advance == len' = len - ret /\ buf' = buf + ret

Check ==
  /\ place = "check"
  /\ \/ ret # -1 /\ Advance /\ place' = "loop" /\ UNCHANGED code
     \/ ret = -1 /\ Retriable(err) /\ place' = "loop" /\ UNCHANGED <<len, buf, code>>
     \/ ret = -1 /\ ~Retriable(err) /\ Exit(1) /\ UNCHANGED <<len, buf>>
  /\ UNCHANGED <<writestr, ret, err, fd, pos, file>>

Finish ==
  /\ place = "loop" /\ len = 0
  /\ Exit(0)
  /\ UNCHANGED <<local, fd, pos, file>>

(* The process is killed; the file stays as it is.                         *)
Kill ==
  /\ place # "idle"
  /\ Exit(-1)
  /\ UNCHANGED <<local, fd, pos, file>>

Init ==
  /\ place = "idle" /\ writestr = << >> /\ buf = 0 /\ len = 0 /\ ret = 0
  /\ err = "none" /\ fd = FALSE /\ pos = 0 /\ code = -1
  /\ file \in String

Step == Open \/ Write \/ Check \/ Finish
Next == Start \/ Step \/ Kill

Spec == Init /\ [][Next]_vars

(* A process that is started is scheduled.                                 *)
FairSpec == Spec /\ WF_vars(Step)
-----------------------------------------------------------------------------
(***************************************************************************)
(* From the moment a run has opened the file, also when it fails or is     *)
(* killed, the file holds a beginning of the string and nothing of what it *)
(* held before.                                                            *)
(***************************************************************************)
FileIsPrefix ==
  fd => Len(file) <= Len(writestr) /\ file = SubSeq(writestr, 1, Len(file))

(* Exit code 0 means that the file holds the string, all of it.            *)
ExitTellsTruth == place = "idle" /\ code = 0 => file = writestr

(***************************************************************************)
(* "Loop to enforce complete write function": a run ends unless its writes *)
(* are interrupted again and again.                                        *)
(***************************************************************************)
Interrupted == Write /\ err' = "EINTR"
RunsEnd == <>[][~Interrupted]_vars => (place # "idle" ~> place = "idle")
=============================================================================
