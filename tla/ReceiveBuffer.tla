---------------------------- MODULE ReceiveBuffer ----------------------------
(***************************************************************************)
(* receive_data of server/aesdsocket.c, byte by byte, for one client: the  *)
(* buffer that grows until it holds a line, the search for the newline,    *)
(* the seek command and the write loop.  (The other threads and the locks  *)
(* are in AesdSocket, which takes a whole request for one value.)          *)
(*                                                                         *)
(* The client sends `stream' and then closes the connection or stays       *)
(* silent; recv cuts the stream anywhere.  A symbol of the stream stands   *)
(* for a byte; Cmd stands for "AESDCHAR_IOCSEEKTO:" and Args for the two   *)
(* numbers behind it.                                                      *)
(***************************************************************************)
EXTENDS Integers, Sequences

CONSTANTS
  Byte,              \* the symbols of a stream
  NL, NUL, Cmd, Args,
  Stream,            \* the streams a client may send
  BufSize,           \* the first size of the buffer (1024)
  INT_MAX,           \* the largest int
  Block, NULL        \* the addresses malloc can return

ASSUME BlockAssumption == NULL \notin Block
ASSUME StreamAssumption == Stream \subseteq Seq(Byte)
ASSUME SizeAssumption == BufSize \in Nat /\ BufSize >= 2 /\ INT_MAX \in Nat /\ INT_MAX >= BufSize

VARIABLES
  stream, closes,  \* what the client sends, and whether it closes then
  active,          \* the global flag that a signal clears
  place,           \* where receive_data is
  memory,          \* the blocks that are allocated, with their sizes
  ptr,             \* the pointer buf
  buf,             \* the packet_size bytes received so far
  buf_size,        \* the variable of that name
  received,        \* the last value of bytes_received: "unset", "some", "none"
                   \* (0) or "error" (-1)
  seekto,          \* ioctl_seekto_received
  file,            \* the bytes written to file_fd
  ret              \* the value returned

client == <<stream, closes>>
vars == <<client, active, place, memory, ptr, buf, buf_size, received, seekto, file, ret>>

(* Twice an int; it wraps around on the machines the server is built for.  *)
Double(n) == IF n > INT_MAX \div 2 THEN 2 * n - 2 * (INT_MAX + 1) ELSE 2 * n
-----------------------------------------------------------------------------
(* The string in buf ends at the first NUL, sent by the client or not.     *)
FirstAt(s, x, i) == s[i] = x /\ \A j \in 1 .. i - 1 : s[j] # x

(* strchr(buf, '\n') finds the newline at i.                               *)
Newline(i) == FirstAt(buf, NL, i) /\ \A j \in 1 .. i : buf[j] # NUL

(***************************************************************************)
(* sscanf finds all three fields: the command, then numbers.  The format   *)
(* lets it skip white space, newlines too, before the first number, and it *)
(* looks at the whole buffer.                                              *)
(***************************************************************************)
IsSeek(s) ==
  \E i \in 2 .. Len(s) :
    s[1] = Cmd /\ s[i] = Args /\ \A j \in 2 .. i - 1 : s[j] = NL

(* Mistake: no room is kept for the terminator.                            *)
Room_NoTerminator == buf_size - Len(buf)

(* The space passed to recv.                                               *)
Room == buf_size - Len(buf) - 1

(* Mistake: the buffer grows only when the terminator has no room either.  *)
Full_OffByOne == Len(buf) >= buf_size

Full == Len(buf) >= buf_size - 1

(* Mistake: everything received is written.                                *)
PacketLength_All(i) == Len(buf)

PacketLength(i) == i
-----------------------------------------------------------------------------
(* Memory: realloc keeps the block or moves it to one that is free.        *)

malloc(q, size) ==
  memory' = [b \in DOMAIN memory \cup {q} |-> IF b = q THEN size ELSE memory[b]]

free(p) == memory' = [b \in DOMAIN memory \ {p} |-> memory[b]]

realloc(p, q, size) ==
  memory' = [b \in (DOMAIN memory \ {p}) \cup {q} |-> IF b = q THEN size ELSE memory[b]]

Goto(l) == place' = l /\ UNCHANGED <<memory, ptr, ret>>
Return(r) == place' = "returned" /\ ret' = r /\ UNCHANGED ptr
-----------------------------------------------------------------------------
Malloc ==
  /\ place = "malloc"
  /\ \/ \E q \in Block \ DOMAIN memory :
          malloc(q, BufSize) /\ ptr' = q /\ place' = "check" /\ UNCHANGED ret
     \/ Return(-1) /\ UNCHANGED memory
  /\ UNCHANGED <<client, active, buf, buf_size, received, seekto, file>>

CheckActive ==
  /\ place = "check"
  /\ Goto(IF active THEN "recv" ELSE "end")
  /\ UNCHANGED <<client, active, buf, buf_size, received, seekto, file>>

(***************************************************************************)
(* recv appends what has arrived, up to Room bytes (a negative one is huge *)
(* as a size_t); it returns 0 when the client has closed, but also when it *)
(* is asked for nothing, and -1 on an error or a signal.                   *)
(***************************************************************************)
Recv ==
  LET rest == Len(stream) - Len(buf)
  IN  /\ place = "recv"
      /\ \/ \E n \in 1 .. rest :
              /\ n <= Room \/ Room < 0
              /\ buf' = SubSeq(stream, 1, Len(buf) + n)
              /\ received' = "some"
              /\ Goto("scan")
         \/ /\ Room = 0 \/ (rest = 0 /\ closes)
            /\ received' = "none"
            /\ Goto("end") /\ UNCHANGED buf
         \/ received' = "error" /\ Goto("end") /\ UNCHANGED buf
      /\ UNCHANGED <<client, active, buf_size, seekto, file>>

(* A newline: the packet is a seek command or it is to be written.         *)
Found ==
  /\ place = "scan"
  /\ \E i \in 1 .. Len(buf) : Newline(i)
  /\ Goto(IF IsSeek(buf) THEN "ioctl" ELSE "write")
  /\ UNCHANGED <<client, active, buf, buf_size, received, seekto, file>>

(* No newline: the buffer is doubled if it is full.                        *)
NotFound ==
  /\ place = "scan"
  /\ \A i \in 1 .. Len(buf) : ~Newline(i)
  /\ ~Full
  /\ Goto("check")
  /\ UNCHANGED <<client, active, buf, buf_size, received, seekto, file>>

(* Mistake: realloc is taken to have freed the block that it cannot grow.  *)
ReallocFails_KeepsBlock == Return(-1) /\ UNCHANGED memory

ReallocFails == free(ptr) /\ Return(-1)

(* A size that has wrapped around is too much for realloc.                 *)
Grow ==
  LET double == Double(buf_size)
  IN  /\ place = "scan"
      /\ \A i \in 1 .. Len(buf) : ~Newline(i)
      /\ Full /\ buf_size' = double
      /\ \/ \E q \in {ptr} \cup (Block \ DOMAIN memory) :
              /\ double > 0 /\ realloc(ptr, q, double) /\ ptr' = q
              /\ place' = "check" /\ UNCHANGED ret
         \/ ReallocFails
      /\ UNCHANGED <<client, active, buf, received, seekto, file>>

Ioctl ==
  /\ place = "ioctl"
  /\ seekto' = TRUE /\ Goto("end")
  /\ UNCHANGED <<client, active, buf, buf_size, received, file>>

IoctlFails ==
  /\ place = "ioctl"
  /\ free(ptr) /\ Return(-1)
  /\ UNCHANGED <<client, active, buf, buf_size, received, seekto, file>>

(* One turn of the write loop: a short write or the rest.                  *)
Write ==
  /\ place = "write"
  /\ \E i \in 1 .. Len(buf) :
       LET length == PacketLength(i)
       IN  /\ Newline(i)
           /\ \E n \in Len(file) + 1 .. length :
                /\ file' = SubSeq(buf, 1, n)
                /\ Goto(IF n = length THEN "end" ELSE "write")
  /\ UNCHANGED <<client, active, buf, buf_size, received, seekto>>

WriteFails ==
  /\ place = "write"
  /\ free(ptr) /\ Return(-1)
  /\ UNCHANGED <<client, active, buf, buf_size, received, seekto, file>>

(* After the loop: bytes_received is compared with -1, although it may     *)
(* never have been assigned.                                               *)
RecvFails ==
  /\ place = "end" /\ received \in {"error", "unset"}
  /\ free(ptr) /\ Return(-1)
  /\ UNCHANGED <<client, active, buf, buf_size, received, seekto, file>>

(* lseek, which there is unless there was a seek command.                  *)
LseekFails ==
  /\ place = "end" /\ received # "error" /\ ~seekto
  /\ free(ptr) /\ Return(-1)
  /\ UNCHANGED <<client, active, buf, buf_size, received, seekto, file>>

Succeeds ==
  /\ place = "end" /\ received # "error"
  /\ free(ptr) /\ Return(0)
  /\ UNCHANGED <<client, active, buf, buf_size, received, seekto, file>>

(* signal_handler, at any time.                                            *)
Signal ==
  /\ active /\ place # "returned"
  /\ active' = FALSE
  /\ UNCHANGED <<client, place, memory, ptr, buf, buf_size, received, seekto, file, ret>>

Init ==
  /\ stream \in Stream /\ closes \in BOOLEAN
  /\ active = TRUE /\ place = "malloc"
  /\ memory = << >> /\ ptr = NULL /\ buf = << >> /\ buf_size = BufSize
  /\ received = "unset" /\ seekto = FALSE /\ file = << >> /\ ret = 0

Next ==
  \/ Malloc \/ CheckActive \/ Recv \/ Found \/ NotFound \/ Grow
  \/ Ioctl \/ IoctlFails \/ Write \/ WriteFails \/ RecvFails \/ LseekFails \/ Succeeds
  \/ Signal

Spec == Init /\ [][Next]_vars
-----------------------------------------------------------------------------
(***************************************************************************)
(* Whenever receive_data runs, buf points to an allocated block of the     *)
(* size it goes by, also after a realloc that moved it, what it received   *)
(* and the terminator fit the block, and recv is never asked for nothing,  *)
(* which would look as if the client had closed; also when the doubled     *)
(* size overflows an int.                                                  *)
(***************************************************************************)
InBounds ==
  /\ place \notin {"malloc", "returned"} =>
       ptr \in DOMAIN memory /\ memory[ptr] = buf_size /\ Len(buf) < buf_size
  /\ place \in {"check", "recv"} => Room > 0

(***************************************************************************)
(* Nothing is left allocated when receive_data has returned, by whichever  *)
(* of its seven returns and however often the buffer was moved before.     *)
(***************************************************************************)
NothingLeft == place = "returned" => DOMAIN memory = {}

(***************************************************************************)
(* However recv cuts the stream and write cuts the packet, the file gets   *)
(* the first line the client sent, newline included: all of it when        *)
(* receive_data succeeds, a beginning of it otherwise.                     *)
(***************************************************************************)
WritesFirstLine ==
  file # << >> =>
    \E i \in 1 .. Len(stream) :
      /\ FirstAt(stream, NL, i)
      /\ \E n \in 1 .. i : file = SubSeq(stream, 1, n)
      /\ place = "returned" /\ ret = 0 => Len(file) = i

(***************************************************************************)
(* receive_data succeeds without having done anything only if the server   *)
(* is stopping or the client has sent everything and closed: a client that *)
(* is still sending is never mistaken for one that is gone, however long   *)
(* its packet is.                                                          *)
(***************************************************************************)
IdleOnlyAtEnd ==
  place = "returned" /\ ret = 0 /\ file = << >> /\ ~seekto =>
    ~active \/ (closes /\ buf = stream)
=============================================================================
