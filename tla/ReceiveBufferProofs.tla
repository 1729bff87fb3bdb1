------------------------- MODULE ReceiveBufferProofs -------------------------
(***************************************************************************)
(* receive_data stays inside its buffer, frees it, writes the first line   *)
(* and is never fooled into seeing a closed connection, for every first    *)
(* size of the buffer, every width of int and every stream.                *)
(***************************************************************************)
EXTENDS ReceiveBuffer, SequenceTheorems, TLAPS

Place == {"malloc", "check", "recv", "scan", "ioctl", "write", "end", "returned"}
Running == place \notin {"malloc", "returned"}

Types ==
  /\ stream \in Seq(Byte) /\ closes \in BOOLEAN /\ active \in BOOLEAN
  /\ place \in Place /\ buf_size \in Int
  /\ received \in {"unset", "some", "none", "error"}
  /\ seekto \in BOOLEAN /\ ret \in {0, -1}
  /\ buf \in Seq(Byte) /\ file \in Seq(Byte)

(* What has been received is a beginning of the stream.                    *)
Prefix == Len(buf) <= Len(stream) /\ buf = SubSeq(stream, 1, Len(buf))

(* buf_size is an int and leaves room.                                     *)
Sizes ==
  /\ place = "malloc" => buf = << >> /\ buf_size = BufSize
  /\ Running => buf_size \in 2 .. INT_MAX /\ Len(buf) < buf_size
  /\ place \in {"check", "recv"} => Len(buf) < buf_size - 1

(* There is one block while receive_data runs, the one buf points to, and  *)
(* none before and after.                                                  *)
Owned ==
  /\ Running => DOMAIN memory = {ptr} /\ memory[ptr] = buf_size
  /\ ~Running => DOMAIN memory = {}

(* The file grows only in the write loop, by what comes before a newline.  *)
Written ==
  file # << >> =>
    /\ place \in {"write", "end", "returned"}
    /\ \E i \in 1 .. Len(buf) :
         /\ Newline(i) /\ Len(file) <= i /\ file = SubSeq(buf, 1, Len(file))
         /\ place # "write" /\ ret = 0 => Len(file) = i

(* The loop is left without having done anything only for a reason.        *)
Reason ==
  /\ place \in {"end", "returned"} /\ ret = 0 /\ file = << >> /\ ~seekto =>
       \/ ~active
       \/ closes /\ buf = stream
       \/ place = "end" /\ received = "error"
  /\ place # "returned" => ret = 0

IInv == Types /\ Prefix /\ Sizes /\ Owned /\ Written /\ Reason

(* Two facts about the beginnings of a sequence.                           *)
LEMMA PrefixElements ==
  ASSUME NEW S, NEW s \in Seq(S), NEW k \in Nat, k <= Len(s),
         NEW t, t = SubSeq(s, 1, k)
  PROVE  \A j \in 1 .. k : t[j] = s[j]
<1>1. \A j \in 1 .. k : s[j] \in S
  OBVIOUS
<1>2. \A j \in 1 .. k - 1 + 1 : SubSeq(s, 1, k)[j] = s[1 + j - 1]
  BY <1>1, SubSeqProperties
<1> QED
  BY <1>2

LEMMA PrefixOfPrefix ==
  ASSUME NEW S, NEW s \in Seq(S), NEW k \in Nat, k <= Len(s),
         NEW t, t = SubSeq(s, 1, k), NEW n \in 1 .. k
  PROVE  SubSeq(t, 1, n) = SubSeq(s, 1, n)
<1>1. 1 \in 1 .. Len(s) /\ k \in 1 .. Len(s) /\ 1 \in 1 .. k - 1 + 1 /\ n \in 1 .. k - 1 + 1
  OBVIOUS
<1>2. SubSeq(SubSeq(s, 1, k), 1, n) = SubSeq(s, 1 + 1 - 1, 1 + n - 1)
  BY <1>1, SubSeqOfSubSeq
<1>3. 1 + 1 - 1 = 1 /\ 1 + n - 1 = n
  OBVIOUS
<1> QED
  BY <1>2, <1>3

(* What malloc, realloc and free do to the one block.                      *)
LEMMA MallocOne ==
  ASSUME NEW q, NEW n, DOMAIN memory = {}, malloc(q, n)
  PROVE  DOMAIN memory' = {q} /\ memory'[q] = n
BY DEF malloc

LEMMA ReallocOne ==
  ASSUME NEW p, NEW q, NEW n, DOMAIN memory = {p}, realloc(p, q, n)
  PROVE  DOMAIN memory' = {q} /\ memory'[q] = n
BY DEF realloc

LEMMA FreeOne ==
  ASSUME NEW p, DOMAIN memory = {p}, free(p)
  PROVE  DOMAIN memory' = {}
BY DEF free

(* The first state.                                                        *)
LEMMA InitIInv == Init => IInv
<1> SUFFICES ASSUME Init PROVE IInv
  OBVIOUS
<1>1. buf = << >> /\ file = << >> /\ Len(buf) = 0 /\ Len(file) = 0 /\ buf \in Seq(Byte) /\ file \in Seq(Byte)
  BY DEF Init
<1>2. Types
  <2>1. closes \in BOOLEAN /\ active \in BOOLEAN /\ seekto \in BOOLEAN
    BY DEF Init
  <2> QED
    BY <1>1, <2>1, StreamAssumption, SizeAssumption DEF Init, Types, Place
<1>3. Prefix
  BY <1>1, <1>2, SubSeqEmpty DEF Types, Prefix
<1> QED
  BY <1>1, <1>2, <1>3 DEF Init, IInv, Sizes, Owned, Written, Reason, Running

(* Steps that leave the bytes alone and go on running, or return.          *)
LEMMA KeepsBytes ==
  ASSUME IInv, UNCHANGED <<stream, buf, file>>
  PROVE  Prefix'
BY DEF IInv, Prefix

LEMMA MallocStep == IInv /\ Malloc => IInv'
<1> SUFFICES ASSUME IInv, Malloc PROVE IInv'
  OBVIOUS
<1> USE DEF IInv, Malloc, Return, client
<1>1. Prefix'
  BY KeepsBytes
<1>2. Types' /\ Sizes'
  BY SizeAssumption DEF Types, Sizes, Running, Place
<1>3. Owned'
  <2>1. DOMAIN memory = {}
    BY DEF Owned, Running
  <2>2. ASSUME NEW q, malloc(q, BufSize), ptr' = q, place' = "check" PROVE Owned'
    BY <2>1, <2>2, MallocOne DEF Sizes, Owned, Running
  <2> QED
    BY <2>1, <2>2 DEF Owned, Running
<1>4. Written' /\ Reason'
  BY DEF Written, Reason
<1> QED
  BY <1>1, <1>2, <1>3, <1>4

(* A return with an error frees the one block there is, from everywhere.   *)
LEMMA FailStep ==
  ASSUME IInv, Running, free(ptr), Return(-1), buf_size' \in Int,
         UNCHANGED <<stream, closes, active, buf, received, seekto, file>>,
         file = << >> \/ place \in {"write", "end"}
  PROVE  IInv'
<1> USE DEF IInv, Return
<1>1. Prefix'
  BY KeepsBytes
<1>2. Types' /\ Sizes'
  BY DEF Types, Sizes, Running, Place
<1>3. Owned'
  BY FreeOne DEF Owned, Running
<1>4. Written' /\ Reason'
  BY DEF Written, Reason, Newline
<1> QED
  BY <1>1, <1>2, <1>3, <1>4

LEMMA CheckActiveStep == IInv /\ CheckActive => IInv'
<1> SUFFICES ASSUME IInv, CheckActive PROVE IInv'
  OBVIOUS
<1> USE DEF IInv, CheckActive, Goto, client
<1>1. Prefix'
  BY KeepsBytes
<1>2. Types' /\ Sizes' /\ Owned'
  BY DEF Types, Sizes, Owned, Running, Place
<1>3. Written' /\ Reason'
  BY DEF Written, Reason, Types
<1> QED
  BY <1>1, <1>2, <1>3

(***************************************************************************)
(* recv: what arrives is at most Room bytes, so it fits, and a return of 0 *)
(* means that nothing is left of the stream, as Room is never 0.           *)
(***************************************************************************)
LEMMA RecvStep == IInv /\ Recv => IInv'
<1> SUFFICES ASSUME IInv, Recv PROVE IInv'
  OBVIOUS
<1> USE DEF IInv, Recv, client
<1>0. file = << >> /\ Len(buf) < buf_size - 1 /\ Len(buf) \in Nat /\ Len(stream) \in Nat /\ buf_size \in Int
  BY DEF Written, Sizes, Types
<1>1. CASE \E n \in 1 .. Len(stream) - Len(buf) :
             /\ n <= Room \/ Room < 0
             /\ buf' = SubSeq(stream, 1, Len(buf) + n)
             /\ received' = "some"
             /\ Goto("scan")
  <2>1. PICK n \in 1 .. Len(stream) - Len(buf) :
             /\ n <= Room
             /\ buf' = SubSeq(stream, 1, Len(buf) + n)
             /\ received' = "some"
             /\ Goto("scan")
    BY <1>0, <1>1, SMTT(30) DEF Room
  <2>2. Len(buf) + n \in 1 .. Len(stream)
    BY <1>0
  <2>3. \A i \in 1 .. Len(buf) + n : stream[i] \in Byte
    BY <2>2 DEF Types
  <2>4. buf' \in Seq(Byte) /\ Len(buf') = Len(buf) + n
    BY <2>1, <2>2, <2>3, SubSeqProperties
  <2>5. Prefix'
    BY <2>1, <2>2, <2>4, <1>0 DEF Prefix
  <2>6. Types'
    BY <2>1, <2>4 DEF Types, Place, Goto
  <2>7. Sizes' /\ Owned'
    BY <2>1, <2>4, <1>0 DEF Sizes, Running, Owned, Goto, Room
  <2>8. Written' /\ Reason'
    BY <1>0, <2>1 DEF Written, Reason, Goto
  <2> QED
    BY <2>5, <2>6, <2>7, <2>8
<1>2. CASE /\ Room = 0 \/ (Len(stream) - Len(buf) = 0 /\ closes)
           /\ received' = "none"
           /\ Goto("end") /\ UNCHANGED buf
  <2>1. Len(stream) = Len(buf) /\ closes
    BY <1>0, <1>2 DEF Room
  <2>2. buf = stream
    BY <2>1, SubSeqFull DEF Prefix, Types
  <2>3. Prefix'
    BY <1>2, KeepsBytes
  <2>4. Types' /\ Sizes' /\ Owned'
    BY <1>2 DEF Types, Sizes, Owned, Running, Place, Goto
  <2>5. Written' /\ Reason'
    BY <1>0, <1>2, <2>1, <2>2 DEF Written, Reason, Goto
  <2> QED
    BY <2>3, <2>4, <2>5
<1>3. CASE received' = "error" /\ Goto("end") /\ UNCHANGED buf
  <2>3. Prefix'
    BY <1>3, KeepsBytes
  <2>4. Types' /\ Sizes' /\ Owned'
    BY <1>3 DEF Types, Sizes, Owned, Running, Place, Goto
  <2>5. Written' /\ Reason'
    BY <1>0, <1>3 DEF Written, Reason, Goto
  <2> QED
    BY <2>3, <2>4, <2>5
<1> QED
  BY <1>1, <1>2, <1>3

LEMMA FoundStep == IInv /\ Found => IInv'
<1> SUFFICES ASSUME IInv, Found PROVE IInv'
  OBVIOUS
<1> USE DEF IInv, Found, Goto, client
<1>1. Prefix'
  BY KeepsBytes
<1>2. Types' /\ Sizes' /\ Owned'
  BY DEF Types, Sizes, Owned, Running, Place
<1>3. Written' /\ Reason'
  BY DEF Written, Reason
<1> QED
  BY <1>1, <1>2, <1>3

(* A double that is positive has not wrapped.                              *)
LEMMA DoubleFits ==
  ASSUME NEW n \in 2 .. INT_MAX, Double(n) > 0
  PROVE  Double(n) = 2 * n /\ Double(n) \in 2 .. INT_MAX
<1>1. INT_MAX \in Nat /\ INT_MAX \div 2 \in Nat /\ 2 * (INT_MAX \div 2) <= INT_MAX
  BY SizeAssumption
<1>2. CASE n > INT_MAX \div 2
  <2>1. 2 * n - 2 * (INT_MAX + 1) < 0
    BY <1>1
  <2> QED
    BY <1>1, <1>2, <2>1 DEF Double
<1>3. CASE ~(n > INT_MAX \div 2)
  <2>1. n <= INT_MAX \div 2 /\ 2 * n <= INT_MAX
    BY <1>1, <1>3
  <2> QED
    BY <1>1, <1>3, <2>1 DEF Double
<1> QED
  BY <1>2, <1>3

LEMMA NotFoundStep == IInv /\ NotFound => IInv'
<1> SUFFICES ASSUME IInv, NotFound PROVE IInv'
  OBVIOUS
<1> USE DEF IInv, NotFound, Goto, client
<1>0. file = << >> /\ Len(buf) \in Nat /\ buf_size \in Int /\ Len(buf) < buf_size - 1
  BY DEF Written, Types, Full
<1>1. Prefix'
  BY KeepsBytes
<1>2. Types' /\ Sizes' /\ Owned'
  BY <1>0 DEF Types, Sizes, Owned, Running, Place
<1>3. Written' /\ Reason'
  BY <1>0 DEF Written, Reason
<1> QED
  BY <1>1, <1>2, <1>3

(* The full buffer is doubled, and perhaps moved; a size that has wrapped  *)
(* fails realloc, which leaves the block to be freed.                      *)
LEMMA GrowStep == IInv /\ Grow => IInv'
<1> SUFFICES ASSUME IInv, Grow PROVE IInv'
  OBVIOUS
<1> USE DEF IInv, Grow, client
<1>0. /\ file = << >> /\ Len(buf) \in Nat /\ buf_size \in 2 .. INT_MAX /\ Len(buf) < buf_size
      /\ place = "scan" /\ Running /\ DOMAIN memory = {ptr} /\ buf_size' = Double(buf_size)
  BY DEF Written, Sizes, Types, Owned, Running
<1>1. ASSUME NEW q, Double(buf_size) > 0, realloc(ptr, q, Double(buf_size)), ptr' = q,
             place' = "check", UNCHANGED ret
      PROVE  IInv'
  <2>1. buf_size' = 2 * buf_size /\ buf_size' \in 2 .. INT_MAX
    BY <1>0, <1>1, DoubleFits
  <2>2. Len(buf) < buf_size' - 1
    BY <1>0, <2>1
  <2>3. Types' /\ Sizes'
    BY <1>0, <1>1, <2>1, <2>2 DEF Types, Sizes, Running, Place
  <2>4. Owned'
    BY <1>0, <1>1, ReallocOne DEF Owned, Running
  <2>5. Written' /\ Reason'
    BY <1>0, <1>1 DEF Written, Reason
  <2>6. Prefix'
    BY KeepsBytes
  <2> QED
    BY <2>3, <2>4, <2>5, <2>6
<1>2. CASE ReallocFails
  <2>1. buf_size' \in Int
    BY <1>0, SizeAssumption DEF Double
  <2> QED
    BY <1>0, <1>2, <2>1, FailStep DEF ReallocFails
<1> QED
  BY <1>1, <1>2

LEMMA IoctlStep == IInv /\ Ioctl => IInv'
<1> SUFFICES ASSUME IInv, Ioctl PROVE IInv'
  OBVIOUS
<1> USE DEF IInv, Ioctl, Goto, client
<1>1. Prefix'
  BY KeepsBytes
<1>2. Types' /\ Sizes' /\ Owned'
  BY DEF Types, Sizes, Owned, Running, Place
<1>3. Written' /\ Reason'
  BY DEF Written, Reason
<1> QED
  BY <1>1, <1>2, <1>3

(* The write loop takes more of the packet, or fails.                      *)
LEMMA WriteStep == IInv /\ Write => IInv'
<1> SUFFICES ASSUME IInv, Write PROVE IInv'
  OBVIOUS
<1> USE DEF IInv, Write, client
<1>1. Prefix'
  <2> QED BY DEF Prefix
<1>2. PICK i \in 1 .. Len(buf) :
        /\ Newline(i)
        /\ \E n \in Len(file) + 1 .. i :
             /\ file' = SubSeq(buf, 1, n)
             /\ Goto(IF n = i THEN "end" ELSE "write")
  BY DEF PacketLength
<1>3. Types' /\ Sizes' /\ Owned' /\ Written' /\ Reason'
  <2>1. PICK n \in Len(file) + 1 .. i :
                /\ file' = SubSeq(buf, 1, n)
                /\ Goto(IF n = i THEN "end" ELSE "write")
    BY <1>2
  <2>2. Len(file) \in Nat /\ Len(buf) \in Nat /\ n \in 1 .. Len(buf) /\ n <= i
    BY DEF Types
  <2>3. \A j \in 1 .. n : buf[j] \in Byte
    BY <2>2 DEF Types
  <2>4. file' \in Seq(Byte) /\ Len(file') = n
    BY <2>1, <2>2, <2>3, SubSeqProperties
  <2>5. file' # << >>
    BY <2>2, <2>4
  <2>6. Types' /\ Sizes' /\ Owned'
    BY <2>1, <2>4 DEF Types, Sizes, Owned, Running, Place, Goto
  <2>7. Written'
    <3>1. place' \in {"write", "end"} /\ (place' # "write" => n = i)
      BY <2>1 DEF Goto
    <3>2. Newline(i)'
      BY <1>2 DEF Newline
    <3>3. file' = SubSeq(buf', 1, Len(file'))
      BY <2>1, <2>4
    <3> QED
      BY <2>2, <2>4, <3>1, <3>2, <3>3 DEF Written
  <2>8. Reason'
    BY <2>1, <2>5 DEF Reason, Goto
  <2> QED
    BY <2>6, <2>7, <2>8
<1> QED
  BY <1>1, <1>3

(* The returns with an error, each of which frees the block.               *)
LEMMA FailuresStep == IInv /\ (IoctlFails \/ WriteFails \/ RecvFails \/ LseekFails) => IInv'
<1> SUFFICES ASSUME IInv, IoctlFails \/ WriteFails \/ RecvFails \/ LseekFails PROVE IInv'
  OBVIOUS
<1>1. /\ Running /\ free(ptr) /\ Return(-1) /\ place \in {"ioctl", "write", "end"}
      /\ UNCHANGED <<stream, closes, active, buf, buf_size, received, seekto, file>>
  BY DEF IoctlFails, WriteFails, RecvFails, LseekFails, Running, client
<1>2. buf_size' \in Int /\ (file = << >> \/ place \in {"write", "end"})
  BY <1>1 DEF IInv, Types, Written
<1> QED
  BY <1>1, <1>2, FailStep

LEMMA SucceedsStep == IInv /\ Succeeds => IInv'
<1> SUFFICES ASSUME IInv, Succeeds PROVE IInv'
  OBVIOUS
<1> USE DEF IInv, Succeeds, Return, client
<1>1. Prefix'
  BY KeepsBytes
<1>2. Types' /\ Sizes'
  BY DEF Types, Sizes, Running, Place
<1>3. Owned'
  BY FreeOne DEF Owned, Running
<1>4. Written'
  BY DEF Written, Newline, Reason
<1>5. Reason'
  BY DEF Reason
<1> QED
  BY <1>1, <1>2, <1>3, <1>4, <1>5

LEMMA SignalStep == IInv /\ Signal => IInv'
<1> SUFFICES ASSUME IInv, Signal PROVE IInv'
  OBVIOUS
<1> USE DEF IInv, Signal, client
<1>1. Prefix'
  BY KeepsBytes
<1>2. Types' /\ Sizes' /\ Owned'
  BY DEF Types, Sizes, Owned, Running, Place
<1>3. Written'
  BY DEF Written, Newline
<1>4. Reason'
  BY DEF Reason
<1> QED
  BY <1>1, <1>2, <1>3, <1>4

LEMMA StutterStep == IInv /\ UNCHANGED vars => IInv'
<1> SUFFICES ASSUME IInv, UNCHANGED vars PROVE IInv'
  OBVIOUS
<1> USE DEF IInv, vars, client
<1>1. Prefix' /\ Types' /\ Sizes' /\ Owned' /\ Reason'
  BY DEF Prefix, Types, Sizes, Owned, Running, Reason
<1>2. Written'
  BY DEF Written, Newline
<1> QED
  BY <1>1, <1>2

(* The conjunction above holds in every state of receive_data.             *)
THEOREM Invariance == Spec => []IInv
<1>1. IInv /\ [Next]_vars => IInv'
  BY MallocStep, CheckActiveStep, RecvStep, FoundStep, NotFoundStep, GrowStep, IoctlStep,
     WriteStep, FailuresStep, SucceedsStep, SignalStep, StutterStep DEF Next
<1> QED
  BY InitIInv, <1>1, PTL DEF Spec

(***************************************************************************)
(* Data and terminator fit the block and recv is never asked for nothing,  *)
(* for every BufSize >= 2 and every INT_MAX, an overflow included.         *)
(***************************************************************************)
THEOREM StaysInBounds == Spec => []InBounds
<1>1. IInv => InBounds
  BY DEF IInv, Types, Sizes, Owned, Running, InBounds, Room
<1> QED
  BY Invariance, <1>1, PTL

(***************************************************************************)
(* Whichever return receive_data takes and wherever realloc has moved the  *)
(* buffer, it leaves nothing allocated.                                    *)
(***************************************************************************)
THEOREM LeavesNothing == Spec => []NothingLeft
<1>1. IInv => NothingLeft
  BY DEF IInv, Owned, Running, NothingLeft
<1> QED
  BY Invariance, <1>1, PTL

(***************************************************************************)
(* What is in the file is a beginning of the first line of the stream, and *)
(* all of it after a success, however recv and write cut the data.         *)
(***************************************************************************)
THEOREM WritesTheLine == Spec => []WritesFirstLine
<1>1. ASSUME IInv PROVE WritesFirstLine
  <2> SUFFICES ASSUME file # << >> 
               PROVE  \E i \in 1 .. Len(stream) :
                        /\ FirstAt(stream, NL, i)
                        /\ \E n \in 1 .. i : file = SubSeq(stream, 1, n)
                        /\ place = "returned" /\ ret = 0 => Len(file) = i
    BY DEF WritesFirstLine
  <2>1. PICK i \in 1 .. Len(buf) :
         /\ Newline(i) /\ Len(file) <= i /\ file = SubSeq(buf, 1, Len(file))
         /\ place # "write" /\ ret = 0 => Len(file) = i
    BY <1>1, SMTT(30) DEF IInv, Written
  <2>2. Newline(i) /\ Len(file) <= i
    BY <2>1
  <2>3. place = "returned" /\ ret = 0 => Len(file) = i
    BY <2>1
  <2>4. stream \in Seq(Byte) /\ Len(buf) \in Nat /\ Len(stream) \in Nat
    BY <1>1 DEF IInv, Types
  <2>5. Len(file) \in Nat /\ Len(file) > 0
    <3>1. file \in Seq(Byte)
      BY <1>1 DEF IInv, Types
    <3> QED
      BY <3>1, EmptySeq
  <2>6. Len(buf) <= Len(stream)
    BY <1>1 DEF IInv, Prefix
  <2>7. buf = SubSeq(stream, 1, Len(buf))
    BY <1>1 DEF IInv, Prefix
  <2>8. Len(file) \in 1 .. i /\ Len(file) \in 1 .. Len(buf) /\ i \in 1 .. Len(stream)
    BY <2>2, <2>4, <2>5, <2>6
  <2>9. \A j \in 1 .. Len(buf) : buf[j] = stream[j]
    BY <2>4, <2>6, <2>7, PrefixElements
  <2>10. FirstAt(stream, NL, i)
    BY <2>2, <2>9, SMTT(30) DEF Newline, FirstAt
  <2>11. SubSeq(buf, 1, Len(file)) = SubSeq(stream, 1, Len(file))
    BY <2>4, <2>6, <2>7, <2>8, PrefixOfPrefix
  <2>12. file = SubSeq(stream, 1, Len(file))
    BY <2>1, <2>11
  <2> QED
    BY <2>3, <2>8, <2>10, <2>12
<1> QED
  BY Invariance, <1>1, PTL

(* A success that did nothing means that the server stops or the client    *)
(* has closed.                                                             *)
THEOREM NeverIdle == Spec => []IdleOnlyAtEnd
<1>1. IInv => IdleOnlyAtEnd
  BY DEF IInv, Reason, IdleOnlyAtEnd
<1> QED
  BY Invariance, <1>1, PTL
=============================================================================
