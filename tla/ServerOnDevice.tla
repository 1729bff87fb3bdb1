--------------------------- MODULE ServerOnDevice ---------------------------
(***************************************************************************)
(* The device build of the server on top of the character device: what     *)
(* AesdSocket takes OUTPUT_FILE to be is compared with what AesdLog, which *)
(* AesdChar implements, promises to the users of the device.               *)
(***************************************************************************)
EXTENDS AesdSocket

(* A packet is a command of two bytes: its author's byte and the newline.  *)
ByteOf(u) == IF u[2] = 1 THEN u[1] ELSE "newline"

DeviceLog ==
  [i \in 1 .. Len(Visible) \div 2 |-> <<ByteOf(Visible[2 * i - 1]), ByteOf(Visible[2 * i])>>]

DeviceFiles == {c \in Client : file[c] = "open"}

Dev == INSTANCE AesdLog
         WITH File <- Client, NL <- "newline", Byte <- {}, UserData <- {}, Offset <- {},
              LoffMax <- 0, MaxRead <- 0,
              loaded <- TRUE, partial <- << >>, done <- NULL,
              log <- DeviceLog, opened <- DeviceFiles

(* read of the next byte, which is then sent.                              *)
DevRead(c) ==
  /\ f_pos[c] < Len(Dev!Stream)
  /\ Len(reply'[c]) = Len(reply[c]) + 1
  /\ ByteOf(Last(reply'[c])) = Dev!Stream[f_pos[c] + 1]
  /\ Dev!Moves(c, f_pos[c] + 1)

(* lseek to 0.                                                             *)
DevRewind(c) == Dev!Moves(c, 0) /\ reply' = reply

(* AESDCHAR_IOCSEEKTO, which selects what the client asked for.            *)
DevSeek(c) ==
  LET r == request[c]
  IN  /\ r.kind = "seek" /\ Dev!HasByte(r.cmd, r.off)
      /\ seekto'[c] # NULL /\ ByteOf(seekto'[c]) = DeviceLog[r.cmd + 1][r.off + 1]
      /\ Dev!Moves(c, Dev!PositionOf(r.cmd, r.off))

(* A call of aesdchar on the file of a client, with the promised effect.   *)
DeviceCall(c) ==
  \/ Dev!Open(c) \/ Dev!Close(c)
  \/ /\ c \in DeviceFiles /\ UNCHANGED DeviceFiles
     /\ \/ Dev!Takes(c, <<c, "newline">>)
        \/ DevRead(c) \/ DevRewind(c) \/ DevSeek(c)

(***************************************************************************)
(* Every step of the server that changes the device or the position of a   *)
(* file is a call of aesdchar on an open file, with the effect that the    *)
(* device promises: open and release, a write that takes a whole packet as *)
(* one command, a read of the next byte of the stream, a rewind, a seek to *)
(* a byte of a command.  No two clients' calls make up one command.        *)
(***************************************************************************)
UsesDevice == [][\E c \in Client : DeviceCall(c)]_<<DeviceLog, DeviceFiles, f_pos>>
=============================================================================
