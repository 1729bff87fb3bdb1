------------------------------- MODULE AesdLog -------------------------------
(***************************************************************************)
(* What the character device promises to its users: a log of the last      *)
(* MaxOps commands that every file reads as one stream of bytes, each file *)
(* at a position of its own, and one unfinished command that all files     *)
(* write to.  Every call takes effect at one instant, or not at all: there *)
(* are no locks, no memory blocks and no slots here.                       *)
(***************************************************************************)
EXTENDS Integers, SequencesExt

CONSTANTS File, Byte, NL, MaxOps, LoffMax, UserData, MaxRead, Offset, NULL

VARIABLES
  loaded,   \* the device exists
  log,      \* the complete commands, oldest first
  partial,  \* the bytes of the unfinished command
  opened,   \* the open files
  f_pos,    \* the position of each file in the stream
  done      \* the call that the last step completed, NULL if none

Commands == INSTANCE CommandLog WITH Entry <- Seq(Byte)

Stream == FlattenSeq(log)

Completes(f, op, arg, ret, data) ==
  /\ f \in opened
  /\ done' = [file |-> f, op |-> op, arg |-> arg, ret |-> ret, data |-> data]
  /\ UNCHANGED <<loaded, opened>>

(* Nothing that a user can see happens.                                    *)
Internal == done' = NULL /\ UNCHANGED <<loaded, log, partial, opened, f_pos>>

Load ==
  /\ ~loaded /\ loaded' \in BOOLEAN
  /\ log' = << >> /\ partial' = << >> /\ done' = NULL
  /\ UNCHANGED <<opened, f_pos>>

Unload ==
  /\ loaded /\ opened = {} /\ loaded' = FALSE
  /\ log' = << >> /\ partial' = << >> /\ done' = NULL
  /\ UNCHANGED <<opened, f_pos>>

Open(f) ==
  /\ loaded /\ f \notin opened
  /\ opened' = opened \cup {f}
  /\ f_pos' = [f_pos EXCEPT ![f] = 0] /\ done' = NULL
  /\ UNCHANGED <<loaded, log, partial>>

Close(f) ==
  /\ f \in opened
  /\ opened' = opened \ {f}
  /\ f_pos' = [f_pos EXCEPT ![f] = 0] /\ done' = NULL
  /\ UNCHANGED <<loaded, log, partial>>

(* All the data are taken; a newline among them ends the command.          *)
Takes(f, data) ==
  LET command == partial \o data
  IN  /\ \/ /\ NL \in Range(command)
            /\ Commands!Remember(command)
            /\ partial' = << >>
         \/ /\ NL \notin Range(command)
            /\ partial' = command
            /\ UNCHANGED log
      /\ f_pos' = [f_pos EXCEPT ![f] = @ + Len(data)]

Write(f, data) == Completes(f, "write", << >>, Len(data), data) /\ Takes(f, data)

Moves(f, pos) == f_pos' = [f_pos EXCEPT ![f] = pos] /\ UNCHANGED <<log, partial>>

(* A fault in the user's buffer costs the whole unfinished command.        *)
WriteFaults(f) ==
  /\ partial' = << >>
  /\ Completes(f, "write", << >>, -14, << >>)
  /\ UNCHANGED <<log, f_pos>>

(***************************************************************************)
(* The next bytes of the stream: at least one and at most count, if there  *)
(* are any and any are asked for.                                          *)
(***************************************************************************)
Read(f, count) ==
  \E n \in 0 .. count :
    /\ n = 0 => count = 0
    /\ f_pos[f] + n <= Len(Stream)
    /\ Completes(f, "read", <<count>>, n, SubSeq(Stream, f_pos[f] + 1, f_pos[f] + n))
    /\ Moves(f, f_pos[f] + n)

(* 0 at the end of the stream, and only there.                             *)
ReadAtEnd(f) ==
  /\ f_pos[f] >= Len(Stream)
  /\ Completes(f, "read", << >>, 0, << >>)
  /\ UNCHANGED <<log, partial, f_pos>>

(* The new position is relative to 0, to the old one or to the end.        *)
Seek(f, whence, off) ==
  LET pos == <<off, f_pos[f] + off, Len(Stream) + off>>[whence + 1]
  IN  IF whence \in 0 .. 2 /\ pos \in 0 .. LoffMax
      THEN Completes(f, "llseek", <<whence, off>>, pos, << >>) /\ Moves(f, pos)
      ELSE Completes(f, "llseek", <<whence, off>>, -22, << >>) /\ Moves(f, f_pos[f])

(* Byte `offset' of command `cmd', both counted from 0.                    *)
HasByte(cmd, offset) == cmd < Len(log) /\ offset < Len(log[cmd + 1])
PositionOf(cmd, offset) == Len(FlattenSeq(SubSeq(log, 1, cmd))) + offset

SeekToCommand(f, cmd, offset) ==
  IF HasByte(cmd, offset)
  THEN Completes(f, "ioctl", <<cmd, offset>>, 0, << >>) /\ Moves(f, PositionOf(cmd, offset))
  ELSE Completes(f, "ioctl", <<cmd, offset>>, -22, << >>) /\ Moves(f, f_pos[f])

(* Errors that change nothing: interrupted, out of memory, bad argument.   *)
Fails(f) ==
  /\ \/ \E op \in {"read", "write", "llseek", "ioctl"} :
          Completes(f, op, << >>, -512, << >>)
     \/ Completes(f, "write", << >>, -12, << >>)
     \/ \E count \in 1 .. MaxRead : Completes(f, "read", <<count>>, -14, << >>)
     \/ \E err \in {25, 14} : Completes(f, "ioctl", << >>, -err, << >>)
  /\ UNCHANGED <<log, partial, f_pos>>

Init ==
  /\ loaded = FALSE /\ log = << >> /\ partial = << >> /\ opened = {}
  /\ f_pos = [f \in File |-> 0] /\ done = NULL

Next ==
  \/ Internal \/ Load \/ Unload
  \/ \E f \in File :
       \/ Open(f) \/ Close(f) \/ WriteFaults(f) \/ ReadAtEnd(f) \/ Fails(f)
       \/ \E data \in UserData : Write(f, data)
       \/ \E count \in 0 .. MaxRead : Read(f, count)
       \/ \E whence \in 0 .. 3, off \in Offset : Seek(f, whence, off)
       \/ \E cmd \in 0 .. MaxOps, offset \in 0 .. LoffMax : SeekToCommand(f, cmd, offset)

Spec == Init /\ [][Next]_<<loaded, log, partial, opened, f_pos, done>>
=============================================================================
