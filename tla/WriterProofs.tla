---------------------------- MODULE WriterProofs ----------------------------
(***************************************************************************)
(* The writer's file is always a beginning of the string, and exit code 0  *)
(* means that it is the string, for strings of any length.                 *)
(***************************************************************************)
EXTENDS Writer, SequenceTheorems, TLAPS

Types ==
  /\ place \in {"idle", "open", "loop", "check"}
  /\ writestr \in Seq(Char) /\ file \in Seq(Char)
  /\ buf \in Nat /\ len \in Nat /\ pos \in Nat /\ ret \in Int
  /\ err \in {"none", "EINTR", "other"} /\ fd \in BOOLEAN /\ code \in {-1, 0, 1}

(* Pointer, length, position and file agree.                               *)
Counts ==
  /\ place = "open" => buf = 0 /\ len = Len(writestr)
  /\ place \in {"loop", "check"} => fd /\ buf + len = Len(writestr) /\ pos = Len(file)
  /\ place = "loop" => pos = buf
  /\ place = "check" => \/ ret = -1 /\ pos = buf
                        \/ ret \in 1 .. len /\ pos = buf + ret
  /\ place # "idle" => code = -1

IInv == Types /\ Counts /\ FileIsPrefix /\ ExitTellsTruth

(* The first run finds some file.                                          *)
LEMMA InitIInv == Init => IInv
<1> SUFFICES ASSUME Init PROVE IInv
  OBVIOUS
<1>1. fd \in BOOLEAN /\ ~fd
  BY DEF Init
<1>2. Types
  BY <1>1, StringAssumption DEF Init, Types
<1> QED
  BY <1>1, <1>2 DEF Init, IInv, Counts, FileIsPrefix, ExitTellsTruth

LEMMA StartStep == IInv /\ Start => IInv'
<1> SUFFICES ASSUME IInv, Start PROVE IInv'
  OBVIOUS
<1>1. fd' \in BOOLEAN /\ ~fd'
  BY DEF Start
<1>2. Types' /\ Counts'
  <2>1. CASE Exit(1) /\ UNCHANGED local
    BY <1>1, <2>1 DEF IInv, Start, Exit, local, Types, Counts
  <2>2. CASE writestr' \in String /\ place' = "open"
    <3>1. writestr' \in Seq(Char) /\ Len(writestr') \in Nat
      BY <2>2, StringAssumption
    <3> QED
      BY <1>1, <2>2, <3>1 DEF IInv, Start, Exit, Types, Counts
  <2> QED
    BY <2>1, <2>2 DEF Start
<1>3. FileIsPrefix' /\ ExitTellsTruth'
  BY <1>1 DEF Start, Exit, FileIsPrefix, ExitTellsTruth
<1> QED
  BY <1>2, <1>3 DEF IInv

LEMMA OpenStep == IInv /\ Open => IInv'
<1> SUFFICES ASSUME IInv, Open PROVE IInv'
  OBVIOUS
<1>1. CASE Exit(1) /\ UNCHANGED <<fd, pos, file>>
  BY <1>1 DEF IInv, Open, Exit, local, Types, Counts, FileIsPrefix, ExitTellsTruth
<1>2. CASE /\ place' = "loop" /\ UNCHANGED code
           /\ fd' = TRUE /\ pos' = 0 /\ file' = Opened(file)
  <2>1. file' = << >> /\ file' \in Seq(Char) /\ Len(file') = 0
    BY <1>2 DEF Opened
  <2>2. fd' \in BOOLEAN /\ fd'
    BY <1>2
  <2>3. UNCHANGED <<writestr, buf, len, ret, err>>
    BY DEF Open, local
  <2>4. Types'
    BY <1>2, <2>1, <2>2, <2>3 DEF IInv, Types
  <2>5. Counts'
    BY <1>2, <2>1, <2>2, <2>3 DEF IInv, Types, Counts, Open
  <2>6. FileIsPrefix'
    <3>1. SubSeq(writestr', 1, 0) = << >>
      BY SubSeqEmpty
    <3>2. 0 <= Len(writestr')
      BY <2>4 DEF Types
    <3> QED
      BY <2>1, <3>1, <3>2 DEF FileIsPrefix
  <2>7. ExitTellsTruth'
    BY <1>2 DEF ExitTellsTruth
  <2> QED
    BY <2>4, <2>5, <2>6, <2>7 DEF IInv
<1> QED
  BY <1>1, <1>2 DEF Open

LEMMA PieceOf ==
  ASSUME NEW S, NEW s \in Seq(S), NEW i \in 1 .. Len(s), NEW j \in i .. Len(s)
  PROVE  SubSeq(s, i, j) \in Seq(S) /\ Len(SubSeq(s, i, j)) = j - i + 1
<1>1. \A k \in i .. j : s[k] \in S
  OBVIOUS
<1> QED
  BY <1>1, SubSeqProperties

(* A write at the end of a beginning of the string makes it longer.        *)
LEMMA StoredAtEnd ==
  ASSUME NEW n \in 1 .. len, IInv, place = "loop"
  PROVE  Stored(SubSeq(writestr, buf + 1, buf + n)) = SubSeq(writestr, 1, buf + n)
<1> DEFINE d == SubSeq(writestr, buf + 1, buf + n)
<1>1. /\ writestr \in Seq(Char) /\ file \in Seq(Char) /\ buf \in Nat /\ len \in Nat /\ pos \in Nat
      /\ Len(writestr) \in Nat /\ buf + len = Len(writestr) /\ pos = Len(file) /\ pos = buf
  BY DEF IInv, Types, Counts
<1>2. file = SubSeq(writestr, 1, buf)
  BY <1>1 DEF IInv, Counts, FileIsPrefix
<1>3. d \in Seq(Char) /\ Len(d) = n
  <2>1. buf + 1 \in 1 .. Len(writestr) /\ buf + n \in buf + 1 .. Len(writestr)
    BY <1>1
  <2>2. d \in Seq(Char) /\ Len(d) = buf + n - (buf + 1) + 1
    BY <1>1, <2>1, PieceOf
  <2> QED
    BY <1>1, <2>2
<1>4. SubSeq(file, 1, pos) = file
  BY <1>1, SubSeqFull
<1>5. SubSeq(file, pos + Len(d) + 1, Len(file)) = << >>
  <2>1. pos + Len(d) + 1 \in Int /\ Len(file) \in Int /\ Len(file) < pos + Len(d) + 1
    BY <1>1, <1>3
  <2> QED
    BY <2>1, SubSeqEmpty
<1>6. Stored(d) = file \o d
  <2>1. file \o d \in Seq(Char)
    BY <1>1, <1>3, ConcatProperties
  <2>2. (file \o d) \o << >> = file \o d
    BY <2>1, ConcatEmptySeq
  <2>3. Stored(d) = SubSeq(file, 1, pos) \o d \o SubSeq(file, pos + Len(d) + 1, Len(file))
    BY DEF Stored
  <2> QED
    BY <1>4, <1>5, <2>2, <2>3
<1>7. SubSeq(writestr, 1, buf) \o SubSeq(writestr, buf + 1, buf + n) = SubSeq(writestr, 1, buf + n)
  <2>1. 1 \in 1 .. Len(writestr) + 1 /\ buf \in 1 - 1 .. Len(writestr) /\ buf + n \in buf .. Len(writestr)
    BY <1>1
  <2> QED
    BY <1>1, <2>1, ConcatAdjacentSubSeq
<1> QED
  BY <1>2, <1>6, <1>7

LEMMA WriteStep == IInv /\ Write => IInv'
<1> SUFFICES ASSUME IInv, Write PROVE IInv'
  OBVIOUS
<1>0. /\ writestr \in Seq(Char) /\ file \in Seq(Char) /\ buf \in Nat /\ len \in Nat /\ pos \in Nat
      /\ fd \in BOOLEAN /\ fd /\ place = "loop" /\ place' = "check"
      /\ Len(writestr) \in Nat /\ buf + len = Len(writestr) /\ pos = Len(file) /\ pos = buf
      /\ UNCHANGED <<writestr, buf, len, fd, code>> /\ code = -1
  BY DEF IInv, Types, Counts, Write
<1>1. ExitTellsTruth'
  BY <1>0 DEF ExitTellsTruth
<1>2. CASE ret' = -1 /\ err' \in {"EINTR", "other"} /\ UNCHANGED <<file, pos>>
  BY <1>0, <1>1, <1>2 DEF IInv, Types, Counts, FileIsPrefix
<1>3. ASSUME NEW n \in 1 .. len, ret' = n, err' = "none", pos' = pos + n,
             file' = Stored(SubSeq(writestr, buf + 1, buf + n))
      PROVE  IInv'
  <2>1. file' = SubSeq(writestr, 1, buf + n)
    BY <1>0, <1>3, StoredAtEnd
  <2>2. \A i \in 1 .. buf + n : i \in 1 .. Len(writestr)
    BY <1>0
  <2>3. \A i \in 1 .. buf + n : writestr[i] \in Char
    BY <1>0, <2>2
  <2>4. buf + n \in Int /\ 1 <= buf + n /\ buf + n - 1 + 1 = buf + n /\ buf + n <= Len(writestr)
    BY <1>0
  <2>5. file' \in Seq(Char) /\ Len(file') = buf + n
    BY <2>1, <2>3, <2>4, SubSeqProperties
  <2>6. FileIsPrefix'
    BY <1>0, <2>1, <2>4, <2>5 DEF FileIsPrefix
  <2>7. Types'
    BY <1>0, <1>3, <2>5 DEF IInv, Types
  <2>8. Counts'
    BY <1>0, <1>3, <2>5 DEF Counts
  <2> QED
    BY <1>1, <2>6, <2>7, <2>8 DEF IInv
<1> QED
  BY <1>2, <1>3 DEF Write

LEMMA CheckStep == IInv /\ Check => IInv'
<1> SUFFICES ASSUME IInv, Check PROVE IInv'
  OBVIOUS
<1>0. UNCHANGED <<writestr, ret, err, fd, pos, file>> /\ place = "check"
  BY DEF Check
<1>1. FileIsPrefix'
  BY <1>0 DEF IInv, FileIsPrefix
<1>2. CASE ret # -1 /\ Advance /\ place' = "loop" /\ UNCHANGED code
  <2>1. ret \in 1 .. len /\ pos = buf + ret
    BY <1>0, <1>2 DEF IInv, Counts
  <2>2. len' \in Nat /\ buf' \in Nat /\ buf' + len' = buf + len /\ buf' = pos
    BY <1>2, <2>1 DEF IInv, Types, Advance
  <2> QED
    BY <1>0, <1>1, <1>2, <2>2 DEF IInv, Types, Counts, ExitTellsTruth
<1>3. CASE ret = -1 /\ Retriable(err) /\ place' = "loop" /\ UNCHANGED <<len, buf, code>>
  BY <1>0, <1>1, <1>3 DEF IInv, Types, Counts, ExitTellsTruth
<1>4. CASE ret = -1 /\ ~Retriable(err) /\ Exit(1) /\ UNCHANGED <<len, buf>>
  BY <1>0, <1>1, <1>4 DEF IInv, Types, Counts, ExitTellsTruth, Exit
<1> QED
  BY <1>2, <1>3, <1>4 DEF Check

LEMMA FinishStep == IInv /\ Finish => IInv'
<1> SUFFICES ASSUME IInv, Finish PROVE IInv'
  OBVIOUS
<1>0. /\ UNCHANGED <<writestr, buf, len, ret, err, fd, pos, file>>
      /\ place = "loop" /\ len = 0 /\ place' = "idle" /\ code' = 0
  BY DEF Finish, Exit, local
<1>1. FileIsPrefix'
  BY <1>0 DEF IInv, FileIsPrefix
<1>2. Types' /\ Counts'
  BY <1>0 DEF IInv, Types, Counts
<1>3. file = writestr
  <2>1. writestr \in Seq(Char) /\ Len(file) = Len(writestr) /\ fd
    BY <1>0 DEF IInv, Types, Counts
  <2> QED
    BY <2>1, SubSeqFull DEF IInv, FileIsPrefix
<1> QED
  BY <1>0, <1>1, <1>2, <1>3 DEF IInv, ExitTellsTruth

LEMMA KillStep == IInv /\ Kill => IInv'
BY DEF IInv, Kill, Exit, local, Types, Counts, FileIsPrefix, ExitTellsTruth

LEMMA StutterStep == IInv /\ UNCHANGED vars => IInv'
BY DEF IInv, vars, local, Types, Counts, FileIsPrefix, ExitTellsTruth

(* The conjunction above holds in every state.                             *)
THEOREM Invariance == Spec => []IInv
<1>1. IInv /\ [Next]_vars => IInv'
  BY StartStep, OpenStep, WriteStep, CheckStep, FinishStep, KillStep, StutterStep
     DEF Next, Step
<1> QED
  BY InitIInv, <1>1, PTL DEF Spec

(***************************************************************************)
(* Through short, interrupted and failing writes and a kill at any time,   *)
(* the file holds a beginning of the string and nothing else.              *)
(***************************************************************************)
THEOREM PrefixWritten == Spec => []FileIsPrefix
BY Invariance, PTL DEF IInv

(* A run that exits with 0 has written the whole string.                   *)
THEOREM ZeroMeansWritten == Spec => []ExitTellsTruth
BY Invariance, PTL DEF IInv
=============================================================================
