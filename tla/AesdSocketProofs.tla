-------------------------- MODULE AesdSocketProofs --------------------------
(***************************************************************************)
(* The server keeps its threads, its output file and its replies in order, *)
(* for any number of clients, any requests, both builds and any sizes.     *)
(***************************************************************************)
EXTENDS ServerOnDevice, SequenceTheorems, WellFoundedInduction, TLAPS

(* Where a client's thread holds file_mutex, where it has not yet written  *)
(* all of its packet, where it has a file_fd, and where it has ended.      *)
Inside == {"seek", "write", "write_rest", "send"}
Before == {"none", "open", "recv_check", "recv", "seek_lock", "seek", "write_lock",
           "write", "write_rest"}
Idle   == {"none", "open", "finish", "ending", "exited"}
Ended  == {"none", "exited"}

(* Until the server listens there are no clients; the address list lives   *)
(* until bind is done, the socket until main returns.                      *)
SetupInv ==
  /\ main \in Starting => head = << >> /\ \A c \in Client : sock[c] = "none"
  /\ main = "getaddrinfo" => server_fd = "none" /\ server_addr = "none"
  /\ main = "socket" => server_fd = "none" /\ server_addr = "live"
  /\ main \in {"setsockopt", "bind"} => server_fd = "open" /\ server_addr = "live"
  /\ main \notin {"getaddrinfo", "socket", "setsockopt", "bind", "exited"} =>
       server_fd = "open" /\ server_addr = "freed"

(* The stamper runs in the file build only, and within the bound.          *)
StamperInv ==
  /\ Device \/ main \in Starting \ {"listen"} => stamper = "none"
  /\ stamper = "none" => stamps = 0
  /\ stamper = "check" => stamps < MaxStamps \/ ~active
  /\ stamper = "lock" => stamps < MaxStamps

(* How far a client's connection, thread and file have come.               *)
ClientInv ==
  \A c \in Client :
    /\ sock[c] \in {"none", "pending"} => thread[c] = "none"
    /\ sock[c] # "none" => request[c] \in Request
    /\ Alive /\ sock[c] = "open" /\ thread[c] = "none" => main = "spawn" /\ cur = c
    /\ thread[c] \in {"finish", "ending", "exited"} => sock[c] = "closed"
    /\ file[c] = "open" => thread[c] \notin Idle
    /\ thread[c] = "none" => block[c] = "none"
    /\ thread[c] \in {"seek_lock", "seek"} => request[c].kind = "seek"

(* What main's own variables say about the list and the threads.           *)
MainInv ==
  Alive =>
    /\ main = "spawn" => cur \in Client /\ sock[cur] = "open" /\ thread[cur] = "none"
    /\ main = "insert" => cur \in Client /\ cur \notin Range(head)
    /\ main = "sweep" => IsInjective(todo) /\ Range(todo) \subseteq Range(head)
    /\ main = "join" => head = << >>

(* A thread is in its critical section exactly if the mutex is its own.    *)
MutexInv == \A c \in Client : thread[c] \in Inside <=> file_mutex = c

(* Who has written what: a second half is missing only while its writer    *)
(* holds the mutex, and the device takes nothing but whole packets.        *)
OutputInv ==
  /\ PacketsWhole
  /\ \A c \in Client :
       /\ thread[c] = "write_rest" => /\ ~Device /\ written # << >>
                                      /\ written[Len(written)] = <<c, 1>>
       /\ thread[c] \in Before => \A k \in 1 .. Len(written) : written[k] # <<c, 2>>
  /\ Device => /\ Len(written) % 2 = 0
               /\ \A k \in 1 .. Len(written) : written[k][2] = 2 => k % 2 = 0

Wrote(c) == \E k \in 1 .. Len(written) : written[k] = <<c, 2>>

(* What a reply has come to: it ends at the position, and the reply of a   *)
(* client that wrote a packet starts at the beginning.                     *)
ReplyOK(c) ==
  /\ thread[c] \notin {"send", "close", "finish", "ending"} => reply[c] = << >>
  /\ thread[c] \notin {"close", "finish", "ending"} => ~served[c]
  /\ thread[c] = "send" =>
       /\ Len(reply[c]) <= f_pos[c]
       /\ reply[c] # << >> => f_pos[c] <= Len(Visible)
       /\ \A i \in 1 .. Len(reply[c]) : reply[c][i] = Visible[f_pos[c] - Len(reply[c]) + i]
  /\ Wrote(c) => /\ thread[c] = "send_lock" => f_pos[c] = 0
                 /\ thread[c] = "send" => f_pos[c] = Len(reply[c])
ReplyInv == \A c \in Client : ReplyOK(c)

(***************************************************************************)
(* The inductive invariant.  That packets are whole needs the mutex, that  *)
(* a thread's data live needs how far its connection and main have come,   *)
(* and that a client gets its packet back needs all of them: nobody writes *)
(* between two reads of one reply.                                         *)
(***************************************************************************)
IInv ==
  /\ TypeOK /\ SetupInv /\ StamperInv /\ ClientInv
  /\ ThreadDataLives /\ MainInv /\ CleanExit
  /\ MutexInv /\ OutputInv
  /\ ReplyInv /\ OwnPacketInReply
-----------------------------------------------------------------------------
(* Sequences: the list without one of its elements.                        *)

LEMMA RemoveAtProperties ==
  ASSUME NEW S, NEW s \in Seq(S), NEW i \in 1 .. Len(s)
  PROVE  /\ RemoveAt(s, i) \in Seq(S) /\ Len(RemoveAt(s, i)) = Len(s) - 1
         /\ \A j \in 1 .. Len(s) - 1 :
              RemoveAt(s, i)[j] = IF j < i THEN s[j] ELSE s[j + 1]
<1> DEFINE a == SubSeq(s, 1, i - 1)
           b == SubSeq(s, i + 1, Len(s))
<1>1. /\ a \in Seq(S) /\ Len(a) = i - 1 /\ \A j \in 1 .. i - 1 : a[j] = s[j]
  BY SubSeqProperties, ElementOfSeq
<1>2. /\ b \in Seq(S) /\ Len(b) = Len(s) - i
      /\ \A j \in 1 .. Len(s) - i : b[j] = s[i + j]
  BY SubSeqProperties, ElementOfSeq
<1>3. RemoveAt(s, i) = a \o b
  BY DEF RemoveAt
<1> HIDE DEF a, b
<1> Len(s) \in Nat
  BY LenProperties
<1>4. /\ a \o b \in Seq(S) /\ Len(a \o b) = Len(s) - 1
      /\ \A j \in 1 .. Len(s) - 1 :
           (a \o b)[j] = IF j <= i - 1 THEN a[j] ELSE b[j - (i - 1)]
  <2>1. Len(a) + Len(b) = Len(s) - 1
    BY <1>1, <1>2
  <2>2. /\ a \o b \in Seq(S) /\ Len(a \o b) = Len(a) + Len(b)
        /\ \A j \in 1 .. Len(a) + Len(b) :
             (a \o b)[j] = IF j <= Len(a) THEN a[j] ELSE b[j - Len(a)]
    BY <1>1, <1>2, ConcatProperties, Zenon
  <2> QED
    BY <1>1, <2>1, <2>2
<1> QED
  BY <1>1, <1>2, <1>3, <1>4

(* The list stays without repetitions and loses just that element.         *)
LEMMA RemoveAtRange ==
  ASSUME NEW S, NEW s \in Seq(S), NEW i \in 1 .. Len(s), IsInjective(s)
  PROVE  IsInjective(RemoveAt(s, i)) /\ Range(RemoveAt(s, i)) = Range(s) \ {s[i]}
<1> DEFINE r == RemoveAt(s, i)
<1>1. /\ r \in Seq(S) /\ Len(r) = Len(s) - 1 /\ DOMAIN r = 1 .. Len(s) - 1
      /\ \A j \in 1 .. Len(s) - 1 : r[j] = IF j < i THEN s[j] ELSE s[j + 1]
  BY RemoveAtProperties, LenProperties
<1>2. DOMAIN s = 1 .. Len(s) /\ Len(s) \in Nat
  BY LenProperties
<1> HIDE DEF r
<1> DEFINE at(j) == IF j < i THEN j ELSE j + 1
<1>3. \A j \in 1 .. Len(s) - 1 : at(j) \in 1 .. Len(s) /\ at(j) # i /\ r[j] = s[at(j)]
  BY <1>1, <1>2
<1>4. \A j, k \in 1 .. Len(s) - 1 : at(j) = at(k) => j = k
  OBVIOUS
<1> HIDE DEF at
<1>7. IsInjective(r)
  <2> SUFFICES ASSUME NEW j \in 1 .. Len(s) - 1, NEW k \in 1 .. Len(s) - 1, r[j] = r[k]
               PROVE  j = k
    BY <1>1 DEF IsInjective
  <2>1. s[at(j)] = s[at(k)] /\ at(j) \in DOMAIN s /\ at(k) \in DOMAIN s
    BY <1>2, <1>3
  <2>2. at(j) = at(k)
    BY <2>1, Zenon DEF IsInjective
  <2> QED
    BY <1>4, <2>2
<1>8. Range(r) \subseteq Range(s) \ {s[i]}
  BY <1>1, <1>2, <1>3, SMTT(30) DEF Range, IsInjective
<1>5. ASSUME NEW j \in 1 .. Len(s), s[j] # s[i] PROVE s[j] \in Range(r)
  <2>1. CASE j < i
    BY <1>1, <1>2, <2>1 DEF Range
  <2>2. CASE j > i
    <3>1. j - 1 \in DOMAIN r /\ r[j - 1] = s[j]
      BY <1>1, <1>2, <2>2
    <3> QED
      BY <3>1 DEF Range
  <2> QED
    BY <1>2, <1>5, <2>1, <2>2
<1>6. Range(s) \ {s[i]} \subseteq Range(r)
  BY <1>2, <1>5 DEF Range
<1> QED
  BY <1>6, <1>7, <1>8 DEF r

(* The front of the list.                                                  *)
LEMMA TailRange ==
  ASSUME NEW S, NEW s \in Seq(S), s # << >>, IsInjective(s)
  PROVE  /\ Head(s) \in S /\ Head(s) \in Range(s) /\ Tail(s) \in Seq(S)
         /\ IsInjective(Tail(s)) /\ Range(Tail(s)) = Range(s) \ {Head(s)}
<1>1. /\ Head(s) \in S /\ Tail(s) \in Seq(S) /\ Len(Tail(s)) = Len(s) - 1
      /\ \A j \in 1 .. Len(Tail(s)) : Tail(s)[j] = s[j + 1]
  BY HeadTailProperties
<1>2. /\ Len(s) \in Nat /\ Len(s) > 0 /\ DOMAIN s = 1 .. Len(s) /\ Head(s) = s[1]
      /\ DOMAIN Tail(s) = 1 .. Len(s) - 1
  BY <1>1, LenProperties, EmptySeq
<1>3. IsInjective(Tail(s))
  BY <1>1, <1>2 DEF IsInjective
<1>4. Range(Tail(s)) \subseteq Range(s) \ {Head(s)}
  BY <1>1, <1>2 DEF Range, IsInjective
<1>5. ASSUME NEW j \in 1 .. Len(s), s[j] # s[1] PROVE s[j] \in Range(Tail(s))
  <2>1. j - 1 \in DOMAIN Tail(s) /\ Tail(s)[j - 1] = s[j]
    BY <1>1, <1>2, <1>5
  <2> QED
    BY <2>1 DEF Range
<1> QED
  BY <1>1, <1>2, <1>3, <1>4, <1>5 DEF Range

LEMMA ConsRange ==
  ASSUME NEW S, NEW s \in Seq(S), IsInjective(s), NEW e \in S, e \notin Range(s)
  PROVE  /\ <<e>> \o s \in Seq(S) /\ IsInjective(<<e>> \o s)
         /\ Range(<<e>> \o s) = Range(s) \cup {e}
<1> DEFINE r == <<e>> \o s
<1>1. /\ r \in Seq(S) /\ Len(r) = Len(s) + 1 /\ DOMAIN r = 1 .. Len(s) + 1
      /\ \A j \in 1 .. Len(s) + 1 : r[j] = IF j = 1 THEN e ELSE s[j - 1]
  BY ConcatProperties, LenProperties
<1>2. Len(s) \in Nat /\ DOMAIN s = 1 .. Len(s) /\ \A j \in 1 .. Len(s) : s[j] # e
  BY LenProperties DEF Range
<1> HIDE DEF r
<1>3. IsInjective(r)
  <2> SUFFICES ASSUME NEW i \in 1 .. Len(s) + 1, NEW j \in 1 .. Len(s) + 1, r[i] = r[j]
               PROVE  i = j
    BY <1>1 DEF IsInjective
  <2>1. CASE i = 1 \/ j = 1
    BY <1>1, <1>2, <2>1
  <2>2. CASE i # 1 /\ j # 1
    <3>1. i - 1 \in 1 .. Len(s) /\ j - 1 \in 1 .. Len(s) /\ s[i - 1] = s[j - 1]
      BY <1>1, <1>2, <2>2
    <3>2. i - 1 = j - 1
      BY <1>2, <3>1 DEF IsInjective
    <3> QED
      BY <3>2
  <2> QED
    BY <2>1, <2>2
<1>4. ASSUME NEW j \in 1 .. Len(s) PROVE s[j] \in Range(r)
  <2>1. j + 1 \in DOMAIN r /\ r[j + 1] = s[j]
    BY <1>1, <1>2
  <2> QED
    BY <2>1 DEF Range
<1>5. e \in Range(r)
  <2>1. 1 \in DOMAIN r /\ r[1] = e
    BY <1>1, <1>2
  <2> QED
    BY <2>1 DEF Range
<1>6. Range(r) \subseteq Range(s) \cup {e}
  BY <1>1, <1>2 DEF Range
<1>7. Range(s) \subseteq Range(r)
  BY <1>2, <1>4 DEF Range
<1>8. Range(r) = Range(s) \cup {e}
  BY <1>5, <1>6, <1>7
<1> QED
  BY <1>1, <1>3, <1>8 DEF r
-----------------------------------------------------------------------------
(* Types.                                                                  *)

(* What the device shows of w.                                             *)
Shown(w) == IF Len(w) > 2 * MaxOps THEN SubSeq(w, Len(w) - 2 * MaxOps + 1, Len(w)) ELSE w

LEMMA ShownIs ==
  ASSUME NEW w \in Seq(Units)
  PROVE  /\ Shown(w) \in Seq(Units) /\ Len(w) \in Nat
         /\ Len(Shown(w)) = IF Len(w) > 2 * MaxOps THEN 2 * MaxOps ELSE Len(w)
         /\ \A i \in 1 .. Len(Shown(w)) : Shown(w)[i] = w[Len(w) - Len(Shown(w)) + i]
<1>1. Len(w) \in Nat /\ MaxOps \in Nat
  BY LenProperties, OutputAssumption
<1>2. CASE Len(w) > 2 * MaxOps
  <2> DEFINE m == Len(w) - 2 * MaxOps + 1
  <2>1. m \in Int /\ \A i \in m .. Len(w) : w[i] \in Units
    BY <1>1, <1>2, ElementOfSeq
  <2>2. Shown(w) = SubSeq(w, m, Len(w))
    BY <1>2 DEF Shown
  <2>3. /\ Shown(w) \in Seq(Units) /\ Len(Shown(w)) = Len(w) - m + 1
        /\ \A i \in 1 .. Len(w) - m + 1 : Shown(w)[i] = w[m + i - 1]
    BY <1>1, <1>2, <2>1, <2>2, SubSeqProperties
  <2> QED
    BY <1>1, <1>2, <2>3
<1>3. CASE ~(Len(w) > 2 * MaxOps)
  BY <1>1, <1>3 DEF Shown
<1> QED
  BY <1>2, <1>3

LEMMA VisibleType ==
  ASSUME TypeOK
  PROVE  /\ Len(written) \in Nat /\ Visible \in Seq(Units)
         /\ Len(Visible) = IF Device /\ Len(written) > 2 * MaxOps
                           THEN 2 * MaxOps ELSE Len(written)
         /\ \A i \in 1 .. Len(Visible) :
              Visible[i] = written[Len(written) - Len(Visible) + i]
<1>1. written \in Seq(Units) /\ Len(written) \in Nat
  BY LenProperties DEF TypeOK
<1>2. CASE Device
  <2>1. Visible = Shown(written)
    BY <1>2 DEF Visible, Shown
  <2> QED
    BY <1>1, <1>2, <2>1, ShownIs
<1>3. CASE ~Device
  BY <1>1, <1>3 DEF Visible
<1> QED
  BY <1>2, <1>3

(* The device shows whole packets.                                         *)
LEMMA EvenVisible ==
  ASSUME TypeOK, OutputInv, Device
  PROVE  Len(Visible) \in Nat /\ Len(Visible) % 2 = 0
<1>1. Len(written) \in Nat /\ Len(written) % 2 = 0
  BY VisibleType DEF OutputInv
<1>2. Len(Visible) = 2 * MaxOps \/ Len(Visible) = Len(written)
  BY VisibleType
<1> QED
  BY <1>1, <1>2, OutputAssumption

LEMMA EvenIndex ==
  \A a, b, n \in Nat : n % 2 = 0 /\ 2 * a < n /\ b < 2 =>
    2 * a + b \in Nat /\ 2 * a + b + 1 \in 1 .. n
OBVIOUS

LEMMA UnitsOfClients ==
  /\ \A c \in Client : <<c, 1>> \in Units /\ <<c, 2>> \in Units
  /\ <<Stamper, 1>> \in Units /\ <<Stamper, 2>> \in Units
BY DEF Units

(* Half a stamp, appended.                                                 *)
LEMMA HalfStamp ==
  ASSUME TypeOK
  PROVE  Append(written, <<Stamper, 1>>) = written \o <<<<Stamper, 1>>>>
<1>1. written \in Seq(Units)
  BY Zenon DEF TypeOK
<1>2. <<Stamper, 1>> \in Units
  BY UnitsOfClients, Zenon
<1> QED
  BY <1>1, <1>2, AppendIsConcat, Zenon

(* The steps before the loop leave everything but the set-up alone.        *)
LEMMA SetupFrame ==
  ASSUME TypeOK, SetUp
  PROVE  /\ main \in Starting /\ main' \in Starting \cup {"loop", "exited"}
         /\ server_fd' \in {"none", "open", "closed", "fault"}
         /\ server_addr' \in {"none", "live", "freed", "fault"}
         /\ stamper' \in {"none", "check", stamper}
         /\ UNCHANGED <<active, cur, todo, head, block, list_mutex, file_mutex, stamps, written>>
         /\ UNCHANGED <<complete, thread, file, f_pos, received, seekto, served, reply>>
         /\ UNCHANGED <<sock, request>>
<1> USE DEF TypeOK, SetupOnly, Starting, setupVars, threadVars, clientVars, close, freeaddrinfo
<1>1. CASE getaddrinfo \/ socket
  BY <1>1 DEF getaddrinfo, socket
<1>2. CASE setsockopt \/ bind
  BY <1>2 DEF setsockopt, SetsockoptFails, bind
<1>3. CASE fork \/ setsid \/ chdir
  BY <1>3 DEF fork, setsid, chdir
<1>4. CASE StartStamper \/ listen
  BY <1>4 DEF StartStamper, listen
<1> QED
  BY <1>1, <1>2, <1>3, <1>4 DEF SetUp

LEMMA TypeSetup ==
  ASSUME TypeOK, SetUp
  PROVE  TypeOK'
BY SetupFrame DEF TypeOK, Starting

LEMMA TypeMain ==
  ASSUME IInv, MainStep
  PROVE  TypeOK'
<1> USE DEF MainOnly, setupVars, threadVars, clientVars, stampVars
<1>0. TypeOK
  BY DEF IInv
<1>1. CASE SetUp
  BY <1>0, <1>1, TypeSetup
<1>2. CASE CheckActive
  BY <1>0, <1>2 DEF TypeOK, CheckActive, AfterTest
<1>3. CASE Accept
  BY <1>0, <1>3 DEF TypeOK, Accept, AfterAccept
<1>4. CASE Spawn
  <2>1. thread' \in [Client -> Places]
    BY <1>0, <1>4 DEF TypeOK, Spawn, Places
  <2>2. block' \in [Client -> {"none", "live"}] /\ cur' \in Client \cup {NULL}
    BY <1>0, <1>4 DEF TypeOK, Spawn
  <2>3. sock' \in [Client -> {"none", "pending", "open", "closed"}]
    BY <1>0, <1>4 DEF TypeOK, Spawn
  <2> QED
    BY <1>0, <1>4, <2>1, <2>2, <2>3 DEF TypeOK, Spawn
<1>5. CASE Insert
  <2>1. cur \in Client
    BY <1>5 DEF IInv, MainInv, Insert, Alive
  <2>2. <<cur>> \o head \in Seq(Client)
    BY <1>0, <2>1 DEF TypeOK
  <2> QED
    BY <1>0, <1>5, <2>2 DEF TypeOK, Insert
<1>6. CASE LockList \/ SweepEnds \/ LockCleanup \/ DrainEnds
  BY <1>0, <1>6 DEF TypeOK, LockList, SweepEnds, LockCleanup, DrainEnds
<1>7. CASE Sweep
  <2>1. Tail(todo) \in Seq(Client) /\ head' \in Seq(Client)
    BY <1>0, <1>7, RemoveAtProperties, HeadTailProperties, LenProperties DEF TypeOK, Sweep
  <2> QED
    BY <1>0, <1>7, <2>1, ZenonT(30) DEF TypeOK, Sweep
<1>8. CASE Drain
  <2>1. Tail(head) \in Seq(Client)
    BY <1>0, <1>8, HeadTailProperties DEF TypeOK, Drain
  <2> QED
    BY <1>0, <1>8, <2>1, SMTT(30) DEF TypeOK, Drain
<1>9. CASE Exit
  <2>1. << >> \in Seq(Units)
    OBVIOUS
  <2> QED
    BY <1>0, <1>9, <2>1, SMTT(30) DEF TypeOK, Exit, close
<1> QED
  BY <1>1, <1>2, <1>3, <1>4, <1>5, <1>6, <1>7, <1>8, <1>9 DEF MainStep

(* A thread that takes a step gets to a place of its code.                 *)
LEMMA PlacesOK ==
  ASSUME TypeOK, NEW c \in Client, ThreadStep(c)
  PROVE  thread' \in [Client -> Places]
<1>1. thread \in [Client -> Places]
  BY DEF TypeOK
<1>2. thread' = thread \/ \E l \in Places : thread' = [thread EXCEPT ![c] = l]
  BY DEF Places, ThreadStep, Goto, FailUnlocked, threadVars, OpenFile, AllocFails, RecvCheck, Recv,
         LockFile, Ioctl, AfterIoctl, Write, Lseek, Send, SigPipe, Close, Finish, ThreadExit
<1> QED
  BY <1>1, <1>2

(* What the steps of a client's thread leave alone, and its types.         *)
Aside ==
  <<active, main, server_fd, server_addr, cur, todo, head, block, list_mutex, complete,
    received, sock, request, stamper, stamps>>
TypeAside ==
  /\ active \in BOOLEAN
  /\ server_fd \in {"none", "open", "closed", "fault"}
  /\ server_addr \in {"none", "live", "freed", "fault"}
  /\ main \in Starting \cup {"loop", "accept", "spawn", "insert", "lock", "sweep",
               "cleanup", "drain", "join", "exited", "killed"}
  /\ cur \in Client \cup {NULL}
  /\ todo \in Seq(Client) /\ head \in Seq(Client)
  /\ list_mutex \in {NULL, Main}
  /\ block \in [Client -> {"none", "live"}]
  /\ complete \in [Client -> BOOLEAN] /\ received \in [Client -> BOOLEAN]
  /\ sock \in [Client -> {"none", "pending", "open", "closed"}]
  /\ request \in [Client -> Request \cup {NULL}]
  /\ stamper \in {"none", "check", "lock", "sleep", "exited"} /\ stamps \in 0 .. MaxStamps

LEMMA AsideTyped ==
  ASSUME TypeOK, UNCHANGED Aside, file' \in [Client -> {"none", "open"}],
         file_mutex' \in Client \cup {NULL}, served' \in [Client -> BOOLEAN],
         thread' \in [Client -> Places], f_pos' \in [Client -> Nat],
         reply' \in [Client -> Seq(Units)], seekto' \in [Client -> Units \cup {NULL}],
         written' \in Seq(Units)
  PROVE  TypeOK'
<1>1. TypeAside
  BY Zenon DEF TypeOK, TypeAside
<1>2. TypeAside'
  BY <1>1 DEF Aside, TypeAside
<1> QED
  BY <1>2, Zenon DEF TypeOK, TypeAside

LEMMA TypeThread ==
  ASSUME IInv, NEW c \in Client, ThreadStep(c)
  PROVE  TypeOK'
<1> USE DEF ThreadOnly, mainVars, setupVars, threadVars, clientVars, stampVars
<1>0. TypeOK /\ thread' \in [Client -> Places]
  BY PlacesOK DEF IInv
<1>1. CASE OpenFile(c) \/ AllocFails(c) \/ RecvCheck(c)
  <2>1. CASE OpenFile(c)
    <3>1. file' \in [Client -> {"none", "open"}]
      BY <1>0, <2>1 DEF TypeOK, OpenFile
    <3>2. UNCHANGED Aside /\ UNCHANGED <<file_mutex, f_pos, seekto, served, reply, written>>
      BY <1>0, <2>1 DEF Aside, OpenFile
    <3>3. /\ file_mutex' \in Client \cup {NULL} /\ served' \in [Client -> BOOLEAN]
          /\ f_pos' \in [Client -> Nat] /\ reply' \in [Client -> Seq(Units)]
          /\ seekto' \in [Client -> Units \cup {NULL}] /\ written' \in Seq(Units)
      BY <1>0, <3>2, Zenon DEF TypeOK
    <3> QED
      BY <1>0, <3>1, <3>2, <3>3, AsideTyped
  <2>2. CASE AllocFails(c)
    BY <1>0, <2>2, SMTT(30) DEF TypeOK, AllocFails
  <2>3. CASE RecvCheck(c)
    BY <1>0, <2>3 DEF TypeOK, RecvCheck
  <2> QED
    BY <1>1, <2>1, <2>2, <2>3
<1>2. CASE Recv(c)
  BY <1>0, <1>2 DEF TypeOK, Recv
<1>3. CASE LockFile(c)
  BY <1>0, <1>3 DEF TypeOK, LockFile
<1>4. CASE Ioctl(c)
  <2> DEFINE r == request[c]
             pos == 2 * r.cmd + r.off
  <2>1. r.cmd \in Nat /\ r.off \in Nat
    BY <1>0, <1>4, RequestAssumption DEF IInv, ClientInv, Ioctl, AfterIoctl, TypeOK
  <2>2. ASSUME Device, 2 * r.cmd < Len(Visible), r.off < 2,
               f_pos' = [f_pos EXCEPT ![c] = pos],
               seekto' = [seekto EXCEPT ![c] = Visible[pos + 1]]
        PROVE  f_pos' \in [Client -> Nat] /\ seekto' \in [Client -> Units \cup {NULL}]
    <3>1. Len(Visible) \in Nat /\ Len(Visible) % 2 = 0
      BY <2>2, EvenVisible DEF IInv
    <3>2. pos \in Nat /\ pos + 1 \in 1 .. Len(Visible)
      BY <2>1, <2>2, <3>1, EvenIndex
    <3>3. Visible[pos + 1] \in Units
      BY <1>0, <3>2, VisibleType, ElementOfSeq
    <3> QED
      BY <1>0, <2>2, <3>2, <3>3 DEF TypeOK
  <2>3. ASSUME UNCHANGED <<f_pos, seekto>>
        PROVE  f_pos' \in [Client -> Nat] /\ seekto' \in [Client -> Units \cup {NULL}]
    BY <1>0, <2>3 DEF TypeOK
  <2>4. file_mutex' = NULL
    BY <1>4 DEF Ioctl, AfterIoctl, FailUnlocked
  <2>5. f_pos' \in [Client -> Nat] /\ seekto' \in [Client -> Units \cup {NULL}]
    BY <1>4, <2>2, <2>3 DEF Ioctl, AfterIoctl
  <2> QED
    BY <1>0, <1>4, <2>4, <2>5 DEF TypeOK, Ioctl, AfterIoctl
<1>5. CASE Write(c)
  <2>1. ASSUME NEW u \in Seq(Units), Store(c, u)
        PROVE  written' \in Seq(Units) /\ f_pos' \in [Client -> Nat]
    <3>1. written \o u \in Seq(Units) /\ Len(written \o u) \in Nat /\ Len(u) \in Nat
      BY <1>0 DEF TypeOK
    <3> QED
      BY <1>0, <2>1, <3>1 DEF TypeOK, Store
  <2>2. /\ Packet(c) \in Seq(Units) /\ <<<<c, 1>>>> \in Seq(Units)
        /\ <<<<c, 2>>>> \in Seq(Units)
    BY UnitsOfClients DEF Packet
  <2>3. \/ Store(c, Packet(c)) \/ Store(c, <<<<c, 2>>>>) \/ Store(c, <<<<c, 1>>>>)
        \/ UNCHANGED <<written, f_pos>>
    BY <1>5 DEF Write
  <2>4. written' \in Seq(Units) /\ f_pos' \in [Client -> Nat]
    BY <1>0, <2>1, <2>2, <2>3 DEF TypeOK
  <2>5. file_mutex' \in Client \cup {NULL}
    BY <1>0, <1>5 DEF TypeOK, Write, FailUnlocked
  <2>6. UNCHANGED <<active, main, server_fd, server_addr, cur, todo, head, block, list_mutex, complete,
                    file, received, seekto, served, reply, sock, request, stamper, stamps>>
    BY <1>5 DEF Write
  <2>7. /\ served' \in [Client -> BOOLEAN] /\ reply' \in [Client -> Seq(Units)]
        /\ file' \in [Client -> {"none", "open"}] /\ seekto' \in [Client -> Units \cup {NULL}]
    BY <1>0, <2>6, Zenon DEF TypeOK
  <2>8. UNCHANGED Aside
    BY <2>6 DEF Aside
  <2> QED
    BY <1>0, <2>4, <2>5, <2>7, <2>8, AsideTyped
<1>6. CASE Lseek(c)
  BY <1>0, <1>6 DEF TypeOK, Lseek, Rewound
<1>7. CASE Send(c)
  <2>1. reply' \in [Client -> Seq(Units)] /\ f_pos' \in [Client -> Nat]
    <3>1. CASE /\ f_pos[c] < Len(Visible)
               /\ reply' = [reply EXCEPT ![c] = Append(@, Visible[f_pos[c] + 1])]
               /\ f_pos' = [f_pos EXCEPT ![c] = @ + 1]
      <4>0. f_pos[c] \in Nat /\ Visible \in Seq(Units)
        BY <1>0, VisibleType DEF TypeOK
      <4>1. f_pos[c] + 1 \in 1 .. Len(Visible) /\ Visible \in Seq(Units)
        BY <3>1, <4>0, LenProperties
      <4>2. Append(reply[c], Visible[f_pos[c] + 1]) \in Seq(Units)
        BY <1>0, <4>1, ElementOfSeq DEF TypeOK
      <4> QED
        BY <1>0, <3>1, <4>2 DEF TypeOK
    <3>2. CASE UNCHANGED <<reply, f_pos>>
      BY <1>0, <3>2 DEF TypeOK
    <3> QED
      BY <1>7, <3>1, <3>2 DEF Send
  <2>2. served' \in [Client -> BOOLEAN]
    BY <1>0, <1>7 DEF TypeOK, Send
  <2>3. file_mutex' \in Client \cup {NULL}
    BY <1>0, <1>7 DEF TypeOK, Send, FailUnlocked
  <2>4. UNCHANGED <<active, main, server_fd, server_addr, cur, todo, head, block, list_mutex, complete,
                    file, received, seekto, sock, request, stamper, stamps, written>>
    BY <1>7 DEF Send
  <2>5. /\ seekto' \in [Client -> Units \cup {NULL}] /\ written' \in Seq(Units)
        /\ file' \in [Client -> {"none", "open"}]
    BY <1>0, <2>4, Zenon DEF TypeOK
  <2>6. UNCHANGED Aside
    BY <2>4 DEF Aside
  <2> QED
    BY <1>0, <2>1, <2>2, <2>3, <2>5, <2>6, AsideTyped
<1>8. CASE SigPipe(c)
  BY <1>0, <1>8 DEF TypeOK, SigPipe
<1>9. CASE Close(c)
  BY <1>0, <1>9 DEF TypeOK, Close
<1>10. CASE Finish(c)
  BY <1>0, <1>10 DEF TypeOK, Finish
<1>11. CASE ThreadExit(c)
  <2>1. reply' \in [Client -> Seq(Units)]
    BY <1>0, <1>11 DEF TypeOK, ThreadExit
  <2>2. served' \in [Client -> BOOLEAN] /\ seekto' \in [Client -> Units \cup {NULL}]
    BY <1>0, <1>11 DEF TypeOK, ThreadExit
  <2> QED
    BY <1>0, <1>11, <2>1, <2>2 DEF TypeOK, ThreadExit
<1> QED
  BY <1>1, <1>2, <1>3, <1>4, <1>5, <1>6, <1>7, <1>8, <1>9, <1>10, <1>11 DEF ThreadStep

LEMMA TypeOther ==
  ASSUME IInv, StamperStep \/ signal_handler \/ (\E c \in Client, r \in Request : Connect(c, r))
  PROVE  TypeOK'
<1> USE DEF mainVars, setupVars, threadVars, clientVars, stampVars
<1>0. TypeOK
  BY DEF IInv
<1>1. CASE StamperCheck \/ StamperWake
  BY <1>0, <1>1, SMTT(30) DEF TypeOK, StamperCheck, StamperWake, StamperOnly
<1>2. CASE StamperWrite
  <2>1. /\ Packet(Stamper) \in Seq(Units) /\ <<Stamper, 1>> \in Units
    BY UnitsOfClients DEF Packet
  <2>2. written \o Packet(Stamper) \in Seq(Units) /\ Append(written, <<Stamper, 1>>) \in Seq(Units)
    BY <1>0, <2>1 DEF TypeOK
  <2>3. written' \in Seq(Units)
    BY <1>0, <1>2, <2>2 DEF TypeOK, StamperWrite
  <2>4. stamps' \in 0 .. MaxStamps /\ stamper' \in {"none", "check", "lock", "sleep", "exited"}
    BY <1>0, <1>2, OutputAssumption DEF TypeOK, StamperWrite, IInv, StamperInv
  <2> QED
    BY <1>0, <1>2, <2>3, <2>4 DEF TypeOK, StamperWrite, StamperOnly
<1>3. CASE signal_handler
  <2>1. main' \in Starting \cup {"loop", "accept", "spawn", "insert", "lock", "sweep",
                                 "cleanup", "drain", "join", "exited", "killed"}
    BY <1>0, <1>3 DEF TypeOK, signal_handler
  <2>2. thread' \in [Client -> Places]
    BY <1>0, <1>3 DEF TypeOK, signal_handler, Places
  <2>3. active' \in BOOLEAN
    BY <1>3 DEF signal_handler
  <2> QED
    BY <1>0, <1>3, <2>1, <2>2, <2>3 DEF TypeOK, signal_handler
<1>4. ASSUME NEW c \in Client, NEW r \in Request, Connect(c, r) PROVE TypeOK'
  BY <1>0, <1>4 DEF TypeOK, Connect
<1> QED
  BY <1>1, <1>2, <1>3, <1>4 DEF StamperStep

LEMMA TypeStep == IInv /\ [Next]_vars => TypeOK'
<1> SUFFICES ASSUME IInv, [Next]_vars PROVE TypeOK'
  OBVIOUS
<1>1. CASE UNCHANGED vars
  <2>1. TypeOK
    BY DEF IInv
  <2> QED
    BY <1>1, <2>1 DEF TypeOK, vars, mainVars, setupVars, threadVars, clientVars, stampVars
<1> QED
  BY <1>1, TypeMain, TypeThread, TypeOther DEF Next
-----------------------------------------------------------------------------
(* Set-up and stamper.                                                     *)

(* What a client's thread leaves alone.                                    *)
LEMMA ThreadFrame ==
  ASSUME TypeOK, NEW c \in Client, ThreadStep(c)
  PROVE  /\ UNCHANGED <<active, setupVars, cur, todo, head, block, list_mutex, stampVars, request>>
         /\ Alive /\ (main' = main \/ main' = "killed")
         /\ thread[c] \notin Ended /\ thread'[c] # "none"
         /\ \A d \in Client : d # c =>
              /\ thread'[d] = thread[d] /\ sock'[d] = sock[d] /\ file'[d] = file[d]
              /\ f_pos'[d] = f_pos[d] /\ served'[d] = served[d] /\ reply'[d] = reply[d]
<1> USE DEF ThreadOnly, Goto, FailUnlocked, mainVars, setupVars, threadVars, clientVars, stampVars,
            TypeOK, Ended
<1>1. Alive
  BY DEF ThreadStep
<1>2. CASE OpenFile(c) \/ AllocFails(c) \/ RecvCheck(c)
  BY <1>1, <1>2 DEF OpenFile, AllocFails, RecvCheck
<1>3. CASE Recv(c) \/ LockFile(c)
  BY <1>1, <1>3 DEF Recv, LockFile
<1>4. CASE Ioctl(c)
  BY <1>1, <1>4 DEF Ioctl, AfterIoctl
<1>5. CASE Write(c) \/ Lseek(c)
  BY <1>1, <1>5 DEF Write, Store, Lseek
<1>6. CASE Send(c) \/ SigPipe(c)
  BY <1>1, <1>6 DEF Send, SigPipe
<1>7. CASE Close(c) \/ Finish(c) \/ ThreadExit(c)
  BY <1>1, <1>7 DEF Close, Finish, ThreadExit
<1> QED
  BY <1>2, <1>3, <1>4, <1>5, <1>6, <1>7 DEF ThreadStep

LEMMA SetupStep ==
  ASSUME IInv, Next
  PROVE  SetupInv' /\ StamperInv'
<1> USE DEF mainVars, setupVars, threadVars, clientVars, stampVars, Starting
<1>0. TypeOK /\ SetupInv /\ StamperInv
  BY DEF IInv
<1>1. CASE SetUp
  <2> USE DEF close, freeaddrinfo, SetupInv
  <2>1. /\ main \in Starting /\ main' \in Starting \cup {"loop", "exited"}
        /\ UNCHANGED <<active, head, sock, stamps>>
    BY <1>0, <1>1, SetupFrame
  <2>2. main' \in Starting => head' = << >> /\ \A c \in Client : sock'[c] = "none"
    BY <1>0, <2>1
  <2>3. CASE getaddrinfo \/ socket
    BY <1>0, <2>1, <2>2, <2>3 DEF StamperInv, getaddrinfo, socket
  <2>4. CASE setsockopt \/ bind
    BY <1>0, <2>1, <2>2, <2>4 DEF StamperInv, setsockopt, SetsockoptFails, bind
  <2>5. CASE fork \/ setsid \/ chdir
    BY <1>0, <2>1, <2>2, <2>5 DEF StamperInv, fork, setsid, chdir
  <2>6. CASE listen
    BY <1>0, <2>1, <2>2, <2>6 DEF StamperInv, listen
  <2>7. CASE StartStamper
    BY <1>0, <2>1, <2>2, <2>7, OutputAssumption DEF StamperInv, StartStamper
  <2> QED
    BY <1>1, <2>3, <2>4, <2>5, <2>6, <2>7 DEF SetUp
<1>3. CASE \/ CheckActive \/ Accept \/ Spawn \/ Insert \/ LockList \/ Sweep \/ SweepEnds
           \/ LockCleanup \/ Drain \/ DrainEnds
  BY <1>0, <1>3 DEF SetupInv, StamperInv, CheckActive, AfterTest, Accept, AfterAccept, Spawn,
                    Insert, LockList, Sweep, SweepEnds, LockCleanup, Drain, DrainEnds, MainOnly
<1>4. CASE Exit
  BY <1>0, <1>4 DEF SetupInv, StamperInv, Exit
<1>5. ASSUME NEW c \in Client, ThreadStep(c) PROVE SetupInv' /\ StamperInv'
  <2>1. /\ main' = main \/ main' = "killed"
        /\ UNCHANGED <<active, setupVars, head, stampVars>>
    BY <1>0, <1>5, ThreadFrame
  <2>2. main \notin Starting
    BY <1>0, <1>5, ThreadFrame DEF IInv, ClientInv, SetupInv, Ended
  <2>3. main' \notin Starting /\ main # "exited" /\ main' # "exited"
    BY <1>5, <2>1, <2>2 DEF ThreadStep, Alive
  <2>4. StamperInv'
    BY <1>0, <2>1, <2>2 DEF StamperInv
  <2> QED
    BY <1>0, <2>1, <2>2, <2>3, <2>4 DEF SetupInv
<1>6. CASE StamperStep
  BY <1>0, <1>6, OutputAssumption, SMTT(30)
     DEF TypeOK, SetupInv, StamperInv, StamperStep, StamperCheck, StamperWrite, StamperWake,
         StamperOnly, Alive
<1>7. CASE signal_handler
  BY <1>0, <1>7 DEF SetupInv, StamperInv, signal_handler
<1>8. ASSUME NEW c \in Client, NEW r \in Request, Connect(c, r) PROVE SetupInv' /\ StamperInv'
  BY <1>0, <1>8 DEF SetupInv, StamperInv, Connect
<1> QED
  BY <1>1, <1>3, <1>4, <1>5, <1>6, <1>7, <1>8 DEF Next, MainStep
-----------------------------------------------------------------------------
(* Connections and threads.                                                *)

LEMMA ClientStep ==
  ASSUME IInv, Next
  PROVE  ClientInv'
<1> USE DEF mainVars, setupVars, threadVars, clientVars, stampVars, Starting
<1>0. TypeOK /\ SetupInv /\ ClientInv /\ MainInv
  BY DEF IInv
<1>1. CASE SetUp
  BY <1>0, <1>1, SetupFrame DEF ClientInv, SetupInv, Alive
<1>2. CASE CheckActive \/ Insert \/ LockList \/ SweepEnds \/ LockCleanup \/ DrainEnds
  BY <1>0, <1>2 DEF ClientInv, Alive, CheckActive, AfterTest, Insert, LockList, SweepEnds,
                    LockCleanup, DrainEnds, MainOnly
<1>3. CASE Accept
  BY <1>0, <1>3 DEF TypeOK, ClientInv, Alive, Accept, AfterAccept
<1>4. CASE Spawn
  BY <1>0, <1>4 DEF TypeOK, ClientInv, MainInv, Alive, Spawn, Idle
<1>5. CASE Sweep \/ Drain
  <2>1. CASE Sweep
    BY <1>0, <2>1 DEF TypeOK, ClientInv, Alive, Sweep, MainOnly
  <2>2. CASE Drain
    BY <1>0, <2>2 DEF TypeOK, ClientInv, Alive, Drain, MainOnly
  <2> QED
    BY <1>5, <2>1, <2>2
<1>6. CASE Exit
  BY <1>0, <1>6 DEF TypeOK, ClientInv, Alive, Exit
<1>7. ASSUME NEW c \in Client, ThreadStep(c) PROVE ClientInv'
  <2>1. /\ UNCHANGED <<cur, block, request>> /\ Alive /\ (Alive' => main' = main)
        /\ thread[c] \notin Ended /\ thread'[c] # "none"
        /\ \A d \in Client : d # c =>
              thread'[d] = thread[d] /\ sock'[d] = sock[d] /\ file'[d] = file[d]
    BY <1>0, <1>7, ThreadFrame DEF Alive
  <2>2. /\ sock'[c] \notin {"none", "pending"} /\ sock[c] # "none"
        /\ thread'[c] \in {"finish", "ending", "exited"} => sock'[c] = "closed"
        /\ file'[c] = "open" => thread'[c] \notin Idle
        /\ thread'[c] \in {"seek_lock", "seek"} => request[c].kind = "seek"
    <3> USE <1>0 DEF TypeOK, ClientInv, Idle, Goto, FailUnlocked, ThreadOnly
    <3>1. CASE OpenFile(c) \/ AllocFails(c) \/ RecvCheck(c)
      BY <3>1 DEF OpenFile, AllocFails, RecvCheck
    <3>2. CASE Recv(c) \/ LockFile(c)
      BY <3>2 DEF Recv, LockFile
    <3>3. CASE Ioctl(c)
      BY <3>3 DEF Ioctl, AfterIoctl
    <3>4. CASE Write(c) \/ Lseek(c)
      <4>1. CASE Write(c)
        BY <4>1 DEF Write
      <4>2. CASE Lseek(c)
        BY <4>2 DEF Lseek
      <4> QED
        BY <3>4, <4>1, <4>2
    <3>5. CASE Send(c) \/ SigPipe(c)
      BY <3>5 DEF Send, SigPipe
    <3>6. CASE Close(c) \/ Finish(c) \/ ThreadExit(c)
      BY <3>6 DEF Close, Finish, ThreadExit
    <3> QED
      BY <1>7, <3>1, <3>2, <3>3, <3>4, <3>5, <3>6 DEF ThreadStep
  <2> QED
    BY <1>0, <2>1, <2>2 DEF ClientInv
<1>8. CASE StamperStep
  BY <1>0, <1>8 DEF ClientInv, Alive, StamperStep, StamperCheck, StamperWrite, StamperWake,
                    StamperOnly
<1>9. CASE signal_handler
  BY <1>0, <1>9 DEF TypeOK, ClientInv, Alive, Idle, signal_handler
<1>10. ASSUME NEW c \in Client, NEW r \in Request, Connect(c, r) PROVE ClientInv'
  BY <1>0, <1>10 DEF TypeOK, ClientInv, Alive, Connect
<1> QED
  BY <1>1, <1>2, <1>3, <1>4, <1>5, <1>6, <1>7, <1>8, <1>9, <1>10 DEF Next, MainStep

(* The struct thread_data of each client and main's list of them.          *)
LEMMA ListStep ==
  ASSUME IInv, Next
  PROVE  ThreadDataLives' /\ MainInv'
<1> USE DEF mainVars, setupVars, threadVars, clientVars, stampVars, Starting
<1>0. TypeOK /\ SetupInv /\ ClientInv /\ ThreadDataLives /\ MainInv
  BY DEF IInv
<1> SUFFICES ASSUME Alive' PROVE ThreadDataLives' /\ MainInv'
  BY DEF ThreadDataLives, MainInv
<1>1. CASE SetUp
  BY <1>0, <1>1, SetupFrame DEF ThreadDataLives, MainInv, Alive
<1>2. CASE CheckActive \/ SweepEnds \/ LockCleanup
  BY <1>0, <1>2 DEF ThreadDataLives, MainInv, Alive, CheckActive, AfterTest, SweepEnds,
                    LockCleanup, MainOnly
<1>3. CASE Accept
  BY <1>0, <1>3 DEF TypeOK, ThreadDataLives, MainInv, ClientInv, Alive, Accept, AfterAccept
<1>4. CASE Spawn
  <2>1. /\ Alive /\ main = "spawn" /\ UNCHANGED <<todo, head>>
        /\ cur \in Client /\ sock[cur] = "open" /\ thread[cur] = "none" /\ block[cur] # "live"
    BY <1>0, <1>4 DEF MainInv, ClientInv, Alive, Spawn
  <2>2. IsInjective(head) /\ \A c \in Client : block[c] = "live" <=> c \in Range(head)
    BY <1>0, <2>1 DEF ThreadDataLives
  <2>3. CASE main' = "insert"
    <3>1. /\ block' = [block EXCEPT ![cur] = "live"] /\ thread' = [thread EXCEPT ![cur] = "open"]
          /\ cur' = cur
      BY <1>4, <2>3 DEF Spawn
    <3> QED
      BY <1>0, <2>1, <2>2, <2>3, <3>1 DEF TypeOK, ThreadDataLives, MainInv
  <2>4. CASE main' = "loop" /\ UNCHANGED <<block, thread>>
    BY <1>0, <2>1, <2>2, <2>4 DEF ThreadDataLives, MainInv
  <2> QED
    BY <1>4, <2>3, <2>4 DEF Spawn
<1>5. CASE Insert
  <2>1. /\ cur \in Client /\ cur \notin Range(head) /\ IsInjective(head) /\ head \in Seq(Client)
    BY <1>0, <1>5 DEF TypeOK, ThreadDataLives, MainInv, Alive, Insert
  <2>2. IsInjective(head') /\ Range(head') = Range(head) \cup {cur}
    BY <1>5, <2>1, ConsRange DEF Insert
  <2> QED
    BY <1>0, <1>5, <2>1, <2>2 DEF ThreadDataLives, MainInv, Alive, Insert, MainOnly
<1>6. CASE LockList
  BY <1>0, <1>6 DEF ThreadDataLives, MainInv, Alive, LockList, MainOnly
<1>7. CASE Sweep
  <2> DEFINE d == Head(todo)
  <2>1. /\ Alive /\ main = "sweep" /\ main' = "sweep" /\ todo' = Tail(todo) /\ UNCHANGED thread
        /\ head \in Seq(Client) /\ IsInjective(head)
        /\ todo \in Seq(Client) /\ todo # << >> /\ IsInjective(todo)
        /\ Range(todo) \subseteq Range(head)
    BY <1>0, <1>7 DEF TypeOK, ThreadDataLives, MainInv, Alive, Sweep, MainOnly
  <2>2. /\ d \in Client /\ d \in Range(head) /\ IsInjective(todo')
        /\ Range(todo') = Range(todo) \ {d}
    BY <2>1, TailRange
  <2> HIDE DEF d
  <2>3. CASE Finished(d)
    <3>1. /\ Joined(d) /\ block' = [block EXCEPT ![d] = "none"]
          /\ \E i \in DOMAIN head : head[i] = d /\ head' = RemoveAt(head, i)
      BY <1>7, <2>3 DEF Sweep, d
    <3>2. IsInjective(head') /\ Range(head') = Range(head) \ {d}
      BY <2>1, <3>1, RemoveAtRange, LenProperties
    <3>3. Range(todo') \subseteq Range(head')
      BY <2>1, <2>2, <3>2
    <3> QED
      BY <1>0, <2>1, <2>2, <3>1, <3>2, <3>3 DEF TypeOK, ThreadDataLives, MainInv, Joined
  <2>4. CASE ~Finished(d)
    <3>1. UNCHANGED <<head, block>>
      BY <1>7, <2>4 DEF Sweep, d
    <3> QED
      BY <1>0, <2>1, <2>2, <3>1 DEF ThreadDataLives, MainInv
  <2> QED
    BY <2>3, <2>4
<1>8. CASE Drain
  <2> DEFINE d == Head(head)
  <2>1. /\ Alive /\ main = "drain" /\ main' = "drain" /\ UNCHANGED thread
        /\ head \in Seq(Client) /\ head # << >> /\ IsInjective(head) /\ head' = Tail(head)
        /\ Joined(d) /\ block' = [block EXCEPT ![d] = "none"]
    BY <1>0, <1>8 DEF TypeOK, ThreadDataLives, Alive, Drain, MainOnly
  <2>2. /\ d \in Client /\ IsInjective(head') /\ Range(head') = Range(head) \ {d}
    BY <2>1, TailRange
  <2> HIDE DEF d
  <2> QED
    BY <1>0, <2>1, <2>2 DEF TypeOK, ThreadDataLives, MainInv, Joined
<1>9. CASE DrainEnds
  BY <1>0, <1>9 DEF ThreadDataLives, MainInv, Alive, DrainEnds, Drained, MainOnly
<1>10. CASE Exit
  BY <1>10 DEF Exit, Alive
<1>11. ASSUME NEW c \in Client, ThreadStep(c) PROVE ThreadDataLives' /\ MainInv'
  <2>1. /\ UNCHANGED <<cur, todo, head, block>> /\ Alive /\ main' = main
        /\ thread[c] \notin {"none", "exited"}
        /\ \A d \in Client : d # c => thread'[d] = thread[d] /\ sock'[d] = sock[d]
    BY <1>0, <1>11, ThreadFrame DEF Alive, Ended
  <2> QED
    BY <1>0, <2>1 DEF ThreadDataLives, MainInv
<1>12. CASE StamperStep
  BY <1>0, <1>12 DEF ThreadDataLives, MainInv, Alive, StamperStep, StamperCheck, StamperWrite,
                    StamperWake, StamperOnly
<1>13. CASE signal_handler
  BY <1>0, <1>13 DEF TypeOK, ThreadDataLives, MainInv, Alive, signal_handler
<1>14. ASSUME NEW c \in Client, NEW r \in Request, Connect(c, r)
       PROVE  ThreadDataLives' /\ MainInv'
  BY <1>0, <1>14 DEF TypeOK, ThreadDataLives, MainInv, Alive, Connect
<1> QED
  BY <1>1, <1>2, <1>3, <1>4, <1>5, <1>6, <1>7, <1>8, <1>9, <1>10, <1>11, <1>12, <1>13, <1>14
     DEF Next, MainStep

(* A list that is empty, or set-up: no client has a thread or a block.     *)
LEMMA NobodyLeft ==
  ASSUME IInv, main = "join" \/ main \in Starting
  PROVE  \A c \in Client : /\ thread[c] \in Ended /\ block[c] # "live" /\ sock[c] # "open"
                           /\ file[c] # "open"
<1>1. Alive /\ main # "insert" /\ main # "spawn" /\ head = << >>
  BY DEF IInv, MainInv, SetupInv, Alive, Starting
<1>2. Range(head) = {}
  BY <1>1 DEF Range
<1>3. \A c \in Client : block[c] # "live" /\ thread[c] \in Ended
  BY <1>1, <1>2 DEF IInv, ThreadDataLives, Ended
<1> QED
  BY <1>1, <1>3 DEF IInv, TypeOK, ClientInv, Ended, Idle

LEMMA ExitStep ==
  ASSUME IInv, Next
  PROVE  CleanExit'
<1> USE DEF mainVars, setupVars, threadVars, clientVars, stampVars
<1> SUFFICES ASSUME main' = "exited" PROVE CleanExit'
  BY DEF CleanExit
<1>0. TypeOK /\ SetupInv
  BY DEF IInv
<1>1. CASE Exit
  <2>1. /\ main = "join" /\ UNCHANGED <<server_addr, thread, block, file>>
        /\ \A c \in Client : sock'[c] = IF sock[c] = "pending" THEN "closed" ELSE sock[c]
    BY <1>1 DEF Exit
  <2>2. server_fd' = "closed" /\ server_addr = "freed"
    BY <1>0, <1>1, <2>1 DEF Exit, close, SetupInv
  <2> QED
    BY <1>0, <2>1, <2>2, NobodyLeft DEF TypeOK, CleanExit, Ended
<1>2. CASE SetUp
  <2> USE DEF close, freeaddrinfo, SetupInv
  <2>1. ASSUME getaddrinfo
        PROVE  server_fd' \in {"none", "closed"} /\ server_addr' \in {"none", "freed"}
    BY <1>0, <2>1 DEF getaddrinfo
  <2>2. ASSUME socket
        PROVE  server_fd' \in {"none", "closed"} /\ server_addr' \in {"none", "freed"}
    BY <1>0, <2>2 DEF socket
  <2>3. ASSUME setsockopt
        PROVE  server_fd' \in {"none", "closed"} /\ server_addr' \in {"none", "freed"}
    BY <1>0, <2>3 DEF setsockopt, SetsockoptFails
  <2>4. ASSUME bind
        PROVE  server_fd' \in {"none", "closed"} /\ server_addr' \in {"none", "freed"}
    BY <1>0, <2>4 DEF bind
  <2>5. ASSUME fork \/ setsid \/ chdir \/ StartStamper \/ listen
        PROVE  server_fd' \in {"none", "closed"} /\ server_addr' \in {"none", "freed"}
    BY <1>0, <2>5 DEF fork, setsid, chdir, StartStamper, listen
  <2>6. server_fd' \in {"none", "closed"} /\ server_addr' \in {"none", "freed"}
    BY <1>2, <2>1, <2>2, <2>3, <2>4, <2>5 DEF SetUp
  <2>7. main \in Starting /\ UNCHANGED <<thread, block, file, sock>>
    BY <1>0, <1>2, SetupFrame
  <2> QED
    BY <1>0, <2>6, <2>7, NobodyLeft DEF CleanExit, Ended
<1>3. Exit \/ SetUp
  <2>2. CASE \/ CheckActive \/ Accept \/ Spawn \/ Insert \/ LockList \/ Sweep \/ SweepEnds
             \/ LockCleanup \/ Drain \/ DrainEnds
    BY <2>2 DEF CheckActive, AfterTest, Accept, AfterAccept, Spawn, Insert, LockList, Sweep,
                SweepEnds, LockCleanup, Drain, DrainEnds
  <2>3. ASSUME NEW c \in Client, ThreadStep(c) PROVE FALSE
    BY <1>0, <2>3, ThreadFrame DEF Alive
  <2>4. CASE StamperStep \/ signal_handler \/ \E c \in Client, r \in Request : Connect(c, r)
    BY <2>4 DEF StamperStep, StamperCheck, StamperWrite, StamperWake, StamperOnly, Alive,
                signal_handler, Connect
  <2> QED
    BY <2>2, <2>3, <2>4 DEF Next, MainStep
<1> QED
  BY <1>1, <1>2, <1>3
-----------------------------------------------------------------------------
(* file_mutex and OUTPUT_FILE.                                             *)

(* The steps of main, which leave the threads alone but for starting them. *)
LEMMA MainFrame ==
  ASSUME IInv, MainStep
  PROVE  /\ UNCHANGED <<file_mutex, f_pos, served, reply>>
         /\ ~Exit => UNCHANGED written
         /\ \A c \in Client : \/ thread'[c] = thread[c]
                              \/ thread[c] = "none" /\ thread'[c] = "open"
<1> USE DEF mainVars, setupVars, threadVars, clientVars, stampVars, MainOnly
<1>1. CASE SetUp
  BY <1>1, SetupFrame DEF IInv
<1>2. CASE CheckActive \/ Accept \/ Insert \/ LockList \/ SweepEnds \/ LockCleanup \/ DrainEnds
  BY <1>2 DEF CheckActive, Accept, Insert, LockList, SweepEnds, LockCleanup, DrainEnds
<1>3. CASE Sweep \/ Drain
  BY <1>3 DEF Sweep, Drain
<1>4. CASE Spawn
  <2>1. cur \in Client /\ thread[cur] = "none" /\ thread \in [Client -> Places]
    BY <1>4 DEF IInv, TypeOK, MainInv, Alive, Spawn
  <2> QED
    BY <1>4, <2>1 DEF Spawn
<1>5. CASE Exit
  BY <1>5 DEF Exit
<1> QED
  BY <1>1, <1>2, <1>3, <1>4, <1>5 DEF MainStep

LEMMA MutexStep ==
  ASSUME IInv, Next
  PROVE  MutexInv'
<1> USE DEF mainVars, setupVars, threadVars, clientVars, stampVars, MutexInv, Inside
<1>0. TypeOK /\ MutexInv
  BY DEF IInv
<1>1. CASE MainStep
  BY <1>0, <1>1, MainFrame, ActorAssumption
<1>2. ASSUME NEW c \in Client, ThreadStep(c) PROVE MutexInv'
  <2> USE DEF TypeOK, Goto, FailUnlocked
  <2>1. CASE OpenFile(c) \/ AllocFails(c) \/ RecvCheck(c) \/ Recv(c)
    <3>1. file_mutex' = file_mutex /\ thread \in [Client -> Places] /\ thread[c] \notin Inside
      BY <1>0, <2>1 DEF OpenFile, AllocFails, RecvCheck, Recv, ThreadOnly
    <3>2. PICK l \in {"close", "recv_check", "recv", "lseek", "write_lock", "seek_lock"} :
            thread' = [thread EXCEPT ![c] = l]
      BY <2>1 DEF OpenFile, AllocFails, RecvCheck, Recv
    <3> QED
      BY <1>0, <3>1, <3>2
  <2>2. CASE LockFile(c)
    BY <1>0, <2>2, ActorAssumption DEF LockFile, FileMutexFree
  <2>3. CASE Ioctl(c)
    <3>1. file_mutex = c /\ thread \in [Client -> Places]
      BY <1>0, <2>3 DEF Ioctl, AfterIoctl
    <3>2. /\ thread' = [thread EXCEPT ![c] = "close"] \/ thread' = [thread EXCEPT ![c] = "send_lock"]
          /\ file_mutex' = NULL
      BY <2>3 DEF Ioctl, AfterIoctl
    <3> QED
      BY <1>0, <3>1, <3>2, ActorAssumption, ZenonT(30)
  <2>4. CASE Write(c)
    BY <1>0, <2>4, ActorAssumption DEF Write
  <2>5. CASE Lseek(c) \/ Close(c) \/ Finish(c) \/ ThreadExit(c) \/ SigPipe(c)
    BY <1>0, <2>5 DEF Lseek, Close, Finish, ThreadExit, SigPipe
  <2>6. CASE Send(c)
    BY <1>0, <2>6, ActorAssumption DEF Send
  <2> QED
    BY <1>2, <2>1, <2>2, <2>3, <2>4, <2>5, <2>6 DEF ThreadStep
<1>3. CASE StamperStep
  BY <1>0, <1>3 DEF StamperStep, StamperCheck, StamperWrite, StamperWake, StamperOnly
<1>4. CASE signal_handler
  BY <1>0, <1>4 DEF TypeOK, signal_handler
<1>5. CASE \E c \in Client, r \in Request : Connect(c, r)
  BY <1>0, <1>5 DEF Connect
<1> QED
  BY <1>1, <1>2, <1>3, <1>4, <1>5 DEF Next

(* What a write appends, position by position.                             *)
LEMMA Appended ==
  ASSUME TypeOK, NEW u \in Seq(Units), written' = written \o u
  PROVE  /\ Len(written) \in Nat /\ Len(u) \in Nat /\ Len(written') = Len(written) + Len(u)
         /\ \A k \in 1 .. Len(written) : written'[k] = written[k]
         /\ \A k \in 1 .. Len(u) : written'[Len(written) + k] = u[k]
<1>1. written \in Seq(Units) /\ Len(written) \in Nat /\ Len(u) \in Nat
  BY LenProperties DEF TypeOK
<1>2. /\ Len(written') = Len(written) + Len(u)
      /\ \A k \in 1 .. Len(written) + Len(u) :
           written'[k] = IF k <= Len(written) THEN written[k] ELSE u[k - Len(written)]
  BY <1>1, ConcatProperties, Zenon
<1> QED
  BY <1>1, <1>2

(* What one holder of file_mutex can append to OUTPUT_FILE at a time.      *)
Appendable(w, u) ==
  \/ u = Packet(w)
  \/ ~Device /\ u = <<<<w, 1>>>>
  \/ ~Device /\ u = <<<<w, 2>>>> /\ written # << >> /\ written[Len(written)] = <<w, 1>>

LEMMA AppendableType ==
  ASSUME NEW w \in Client \cup {Stamper}, NEW u, Appendable(w, u)
  PROVE  u \in Seq(Units)
<1>1. /\ <<<<w, 1>>, <<w, 2>>>> \in Seq(Units) /\ <<<<w, 1>>>> \in Seq(Units)
      /\ <<<<w, 2>>>> \in Seq(Units)
  BY UnitsOfClients
<1> QED
  BY <1>1, Zenon DEF Appendable, Packet

LEMMA AppendStep ==
  ASSUME TypeOK, OutputInv, NEW w \in Client \cup {Stamper}, NEW u, Appendable(w, u),
         written' = written \o u
  PROVE  /\ PacketsWhole'
         /\ Device => /\ Len(written') % 2 = 0
                      /\ \A k \in 1 .. Len(written') : written'[k][2] = 2 => k % 2 = 0
         /\ \A d \in Client : d # w /\ (\A k \in 1 .. Len(written) : written[k] # <<d, 2>>) =>
              \A k \in 1 .. Len(written') : written'[k] # <<d, 2>>
<1> DEFINE n == Len(written)
<1>2. u \in Seq(Units)
  BY AppendableType
<1>3. /\ n \in Nat /\ Len(u) \in Nat /\ Len(written') = n + Len(u)
      /\ \A k \in 1 .. n : written'[k] = written[k]
      /\ \A k \in 1 .. Len(u) : written'[n + k] = u[k]
  BY <1>2, Appended
<1>4. /\ \A k \in 1 .. n : written[k][2] = 2 => k > 1 /\ written[k - 1] = <<written[k][1], 1>>
      /\ Device => n % 2 = 0 /\ \A k \in 1 .. n : written[k][2] = 2 => k % 2 = 0
  BY DEF OutputInv, PacketsWhole
<1>5. CASE u = Packet(w)
  <2>1. /\ Len(written') = n + 2
        /\ written'[n + 1] = <<w, 1>> /\ written'[n + 2] = <<w, 2>>
    BY <1>3, <1>5 DEF Packet
  <2> HIDE DEF n
  <2>2. \A k \in 1 .. n + 2 : k \in 1 .. n \/ k = n + 1 \/ k = n + 2
    BY <1>3
  <2>3. ASSUME NEW k \in 1 .. n + 2, written'[k][2] = 2
        PROVE  /\ k > 1 /\ written'[k - 1] = <<written'[k][1], 1>>
               /\ Device => k % 2 = 0
    <3>1. CASE k \in 1 .. n
      <4>1. /\ k > 1 /\ written[k - 1] = <<written[k][1], 1>> /\ written'[k] = written[k]
            /\ Device => k % 2 = 0
        BY <1>3, <1>4, <2>3, <3>1
      <4>2. written'[k - 1] = written[k - 1]
        BY <1>3, <3>1, <4>1
      <4> QED
        BY <4>1, <4>2
    <3>2. CASE k = n + 1
      BY <2>1, <2>3, <3>2
    <3>3. CASE k = n + 2
      <4>1. k > 1 /\ k - 1 = n + 1
        BY <1>3, <3>3
      <4>2. Device => k % 2 = 0
        BY <1>3, <1>4, <3>3
      <4> QED
        BY <2>1, <3>3, <4>1, <4>2
    <3> QED
      BY <2>2, <3>1, <3>2, <3>3
  <2>4. Device => (n + 2) % 2 = 0
    BY <1>3, <1>4
  <2>5. ASSUME NEW d \in Client, d # w, \A k \in 1 .. n : written[k] # <<d, 2>>,
               NEW k \in 1 .. n + 2
        PROVE  written'[k] # <<d, 2>>
    <3>1. <<w, 1>> # <<d, 2>> /\ <<w, 2>> # <<d, 2>>
      BY <2>5
    <3> QED
      BY <1>3, <2>1, <2>2, <2>5, <3>1, Zenon
  <2> QED
    BY <2>1, <2>3, <2>4, <2>5 DEF PacketsWhole, n
<1>6. CASE ~Device /\ u = <<<<w, 1>>>>
  <2>1. Len(written') = n + 1 /\ written'[n + 1] = <<w, 1>>
    BY <1>3, <1>6
  <2> HIDE DEF n
  <2>2. \A k \in 1 .. n + 1 : k \in 1 .. n \/ k = n + 1
    BY <1>3
  <2>3. \A k \in 1 .. n + 1 : written'[k][2] = 2 => k > 1 /\ written'[k - 1] = <<written'[k][1], 1>>
    BY <1>3, <1>4, <2>1, <2>2
  <2>4. ASSUME NEW d \in Client, d # w, \A k \in 1 .. n : written[k] # <<d, 2>>,
               NEW k \in 1 .. n + 1
        PROVE  written'[k] # <<d, 2>>
    <3>1. <<w, 1>> # <<d, 2>> /\ <<w, 2>> # <<d, 2>>
      BY <2>4
    <3> QED
      BY <1>3, <2>1, <2>2, <2>4, <3>1, Zenon
  <2> QED
    BY <1>6, <2>1, <2>3, <2>4 DEF PacketsWhole, n
<1>7. CASE ~Device /\ u = <<<<w, 2>>>> /\ written # << >> /\ written[n] = <<w, 1>>
  <2>1. Len(written') = n + 1 /\ written'[n + 1] = <<w, 2>> /\ n > 0
    BY <1>3, <1>7, EmptySeq DEF TypeOK
  <2> HIDE DEF n
  <2>2. \A k \in 1 .. n + 1 : k \in 1 .. n \/ k = n + 1
    BY <1>3
  <2>3. \A k \in 1 .. n + 1 : written'[k][2] = 2 => k > 1 /\ written'[k - 1] = <<written'[k][1], 1>>
    <3> SUFFICES ASSUME NEW k \in 1 .. n + 1, written'[k][2] = 2
                 PROVE  k > 1 /\ written'[k - 1] = <<written'[k][1], 1>>
      OBVIOUS
    <3>1. CASE k \in 1 .. n
      BY <1>3, <1>4, <3>1
    <3>2. CASE k = n + 1
      <4>1. k > 1 /\ k - 1 = n /\ n \in 1 .. n
        BY <1>3, <2>1, <3>2
      <4>2. written'[n] = <<w, 1>> /\ written'[k][1] = w
        BY <1>3, <1>7, <2>1, <3>2, <4>1
      <4> QED
        BY <4>1, <4>2
    <3> QED
      BY <2>2, <3>1, <3>2
  <2>4. ASSUME NEW d \in Client, d # w, \A k \in 1 .. n : written[k] # <<d, 2>>,
               NEW k \in 1 .. n + 1
        PROVE  written'[k] # <<d, 2>>
    <3>1. <<w, 1>> # <<d, 2>> /\ <<w, 2>> # <<d, 2>>
      BY <2>4
    <3> QED
      BY <1>3, <2>1, <2>2, <2>4, <3>1, Zenon
  <2> QED
    BY <1>7, <2>1, <2>3, <2>4 DEF PacketsWhole, n
<1> QED
  BY <1>5, <1>6, <1>7 DEF Appendable

(* Who is at a place where it has yet to write, when nothing is written.   *)
LEMMA OutputSame ==
  ASSUME OutputInv, UNCHANGED written,
         \A c \in Client : /\ thread'[c] \in Before => thread[c] \in Before
                           /\ thread'[c] = "write_rest" => thread[c] = "write_rest"
  PROVE  OutputInv'
BY DEF OutputInv, PacketsWhole

LEMMA OutputStep ==
  ASSUME IInv, Next
  PROVE  OutputInv'
<1> USE DEF mainVars, setupVars, threadVars, clientVars, stampVars
<1>0. TypeOK /\ OutputInv /\ MutexInv
  BY DEF IInv
<1>1. CASE MainStep /\ ~Exit
  BY <1>0, <1>1, MainFrame, OutputSame DEF Before
<1>2. CASE Exit
  <2>1. thread' = thread /\ written' = IF Device THEN written ELSE << >>
    BY <1>2 DEF Exit
  <2>2. \A c \in Client : thread[c] # "write_rest"
    BY <1>2, NobodyLeft DEF Exit, Ended
  <2>3. CASE Device
    BY <1>0, <2>1, <2>3, OutputSame
  <2>4. CASE ~Device
    BY <2>1, <2>2, <2>4 DEF OutputInv, PacketsWhole
  <2> QED
    BY <2>3, <2>4
<1>3. ASSUME NEW c \in Client, ThreadStep(c), UNCHANGED written PROVE OutputInv'
  <2>1. \A d \in Client : d # c => thread'[d] = thread[d]
    BY <1>0, <1>3, ThreadFrame
  <2>2. /\ thread'[c] \in Before => thread[c] \in Before
        /\ thread'[c] = "write_rest" => thread[c] = "write_rest"
    <3> USE <1>0 DEF TypeOK, Before, Goto, FailUnlocked
    <3>1. CASE OpenFile(c) \/ AllocFails(c) \/ RecvCheck(c)
      BY <3>1 DEF OpenFile, AllocFails, RecvCheck
    <3>2. CASE Recv(c) \/ LockFile(c)
      BY <3>2 DEF Recv, LockFile
    <3>3. CASE Ioctl(c)
      BY <3>3 DEF Ioctl, AfterIoctl
    <3>4. CASE Write(c)
      <4>1. written \in Seq(Units) /\ Len(written) \in Nat
        BY LenProperties
      <4>2. \A u \in Seq(Units) : Len(u) > 0 => ~Store(c, u)
        BY <1>3, <4>1, Appended DEF Store
      <4>3. /\ Packet(c) \in Seq(Units) /\ <<<<c, 1>>>> \in Seq(Units)
            /\ Len(Packet(c)) > 0 /\ Len(<<<<c, 1>>>>) > 0
        BY UnitsOfClients DEF Packet
      <4> QED
        BY <3>4, <4>2, <4>3 DEF Write
    <3>5. CASE Lseek(c)
      BY <3>5 DEF Lseek
    <3>6. CASE Send(c) \/ SigPipe(c)
      BY <3>6 DEF Send, SigPipe
    <3>7. CASE Close(c) \/ Finish(c) \/ ThreadExit(c)
      BY <3>7 DEF Close, Finish, ThreadExit
    <3> QED
      BY <1>3, <3>1, <3>2, <3>3, <3>4, <3>5, <3>6, <3>7 DEF ThreadStep
  <2> QED
    BY <1>0, <1>3, <2>1, <2>2, OutputSame
<1>4. ASSUME NEW c \in Client, ThreadStep(c), Write(c), written' # written PROVE OutputInv'
  <2>1. \A d \in Client : d # c => thread'[d] = thread[d]
    BY <1>0, <1>4, ThreadFrame
  <2>2. /\ thread[c] \in Inside /\ thread \in [Client -> Places]
        /\ \A d \in Client : d # c => thread[d] # "write_rest"
    BY <1>0, <1>4 DEF Write, MutexInv, Inside, TypeOK
  <2>3. PICK u : /\ Appendable(c, u) /\ written' = written \o u
                 /\ \/ thread'[c] = "lseek"
                    \/ ~Device /\ u = <<<<c, 1>>>> /\ thread'[c] = "write_rest" /\ thread[c] = "write"
    <3>1. CASE thread[c] = "write"
      BY <1>4, <2>2, <3>1 DEF Write, Store, Goto, Appendable
    <3>2. CASE thread[c] = "write_rest"
      BY <1>0, <1>4, <2>2, <3>2 DEF Write, Store, Goto, Appendable, OutputInv
    <3> QED
      BY <1>4, <3>1, <3>2 DEF Write
  <2>4. /\ PacketsWhole'
        /\ Device => /\ Len(written') % 2 = 0
                     /\ \A k \in 1 .. Len(written') : written'[k][2] = 2 => k % 2 = 0
        /\ \A d \in Client : d # c /\ thread'[d] \in Before =>
              \A k \in 1 .. Len(written') : written'[k] # <<d, 2>>
    BY <1>0, <2>1, <2>3, AppendStep DEF OutputInv
  <2>5. CASE thread'[c] = "lseek"
    BY <2>1, <2>2, <2>4, <2>5 DEF OutputInv, Before
  <2>6. CASE ~Device /\ u = <<<<c, 1>>>> /\ thread'[c] = "write_rest" /\ thread[c] = "write"
    <3>1. /\ Len(written) \in Nat /\ Len(written') = Len(written) + 1
          /\ written'[Len(written) + 1] = <<c, 1>>
          /\ \A k \in 1 .. Len(written) : written'[k] = written[k]
      BY <1>0, <2>3, <2>6, UnitsOfClients, Appended
    <3>2. \A k \in 1 .. Len(written') : written'[k] # <<c, 2>>
      BY <1>0, <2>6, <3>1 DEF OutputInv, Before
    <3>3. written' # << >>
      BY <3>1
    <3> QED
      BY <2>1, <2>2, <2>4, <2>6, <3>1, <3>2, <3>3 DEF OutputInv
  <2> QED
    BY <2>3, <2>5, <2>6
<1>5. ASSUME NEW c \in Client, ThreadStep(c), written' # written PROVE Write(c)
  BY <1>5 DEF ThreadStep, OpenFile, AllocFails, RecvCheck, Recv, LockFile, Ioctl, AfterIoctl, Lseek, Send,
              SigPipe, Close, Finish, ThreadExit
<1>6. CASE StamperStep
  <2>1. thread' = thread
    BY <1>6 DEF StamperStep, StamperCheck, StamperWrite, StamperWake, StamperOnly
  <2>2. CASE written' = written
    BY <1>0, <2>1, <2>2, OutputSame
  <2>3. CASE written' # written
    <3>1. /\ StamperWrite /\ ~Device
          /\ written' \in {written \o Packet(Stamper), Append(written, <<Stamper, 1>>)}
      BY <1>6, <2>3 DEF StamperStep, StamperCheck, StamperWrite, StamperWake, IInv, StamperInv
    <3>2. Append(written, <<Stamper, 1>>) = written \o <<<<Stamper, 1>>>>
      BY <1>0, HalfStamp
    <3>3. \E u : Appendable(Stamper, u) /\ written' = written \o u
      BY <3>1, <3>2 DEF Appendable
    <3>4. /\ PacketsWhole'
          /\ \A d \in Client : thread[d] \in Before =>
                \A k \in 1 .. Len(written') : written'[k] # <<d, 2>>
      BY <1>0, <3>3, AppendStep, ActorAssumption DEF OutputInv
    <3>5. \A d \in Client : thread[d] # "write_rest"
      BY <1>0, <3>1, ActorAssumption DEF StamperWrite, FileMutexFree, MutexInv, Inside
    <3> QED
      BY <2>1, <3>1, <3>4, <3>5 DEF OutputInv
  <2> QED
    BY <2>2, <2>3
<1>7. CASE signal_handler
  <2>1. /\ UNCHANGED written
        /\ \A d \in Client : thread'[d] = thread[d] \/ thread'[d] = "close"
    BY <1>0, <1>7 DEF TypeOK, signal_handler
  <2> QED
    BY <1>0, <2>1, OutputSame DEF Before
<1>8. CASE \E c \in Client, r \in Request : Connect(c, r)
  BY <1>0, <1>8, OutputSame DEF Connect
<1> QED
  BY <1>1, <1>2, <1>3, <1>4, <1>5, <1>6, <1>7, <1>8 DEF Next
-----------------------------------------------------------------------------
(* Replies.                                                                *)

LEMMA ReplySame ==
  ASSUME NEW c \in Client, ReplyOK(c), UNCHANGED written,
         thread'[c] = thread[c], reply'[c] = reply[c], served'[c] = served[c], f_pos'[c] = f_pos[c]
  PROVE  ReplyOK(c)'
BY DEF ReplyOK, Wrote, Visible

(* A thread that has left, or not yet reached, send_data and its lock.     *)
LEMMA ReplyElsewhere ==
  ASSUME NEW c \in Client, ReplyOK(c), reply'[c] = reply[c], served'[c] = served[c],
         thread[c] # "send", thread'[c] \notin {"send_lock", "send"},
         thread[c] \in {"close", "finish", "ending"} => thread'[c] \in {"close", "finish", "ending"}
  PROVE  ReplyOK(c)'
BY DEF ReplyOK

(* A step of the client's own thread that leaves OUTPUT_FILE alone.        *)
LEMMA ReplyOwn ==
  ASSUME IInv, NEW c \in Client, ThreadStep(c), UNCHANGED written
  PROVE  ReplyOK(c)'
<1> USE DEF mainVars, setupVars, threadVars, clientVars, stampVars, Goto, FailUnlocked
<1>0. TypeOK /\ ReplyOK(c)
  BY DEF IInv, ReplyInv
<1>1. Visible' = Visible /\ Wrote(c)' = Wrote(c)
  BY DEF Visible, Wrote
<1>2. CASE OpenFile(c) \/ RecvCheck(c) \/ Recv(c)
  BY <1>0, <1>2, ReplyElsewhere DEF TypeOK, OpenFile, RecvCheck, Recv
<1>3. CASE AllocFails(c) \/ Close(c) \/ Finish(c)
  BY <1>0, <1>3, ReplyElsewhere DEF TypeOK, AllocFails, Close, Finish
<1>4. CASE LockFile(c)
  <2>1. CASE thread'[c] = "send"
    <3>1. /\ thread[c] = "send_lock" /\ reply[c] = << >> /\ ~served[c] /\ f_pos[c] \in Nat
          /\ reply'[c] = reply[c] /\ served'[c] = served[c] /\ f_pos'[c] = f_pos[c]
          /\ Wrote(c) => f_pos[c] = 0
      BY <1>0, <1>4, <2>1 DEF TypeOK, LockFile, ReplyOK
    <3> QED
      BY <1>1, <2>1, <3>1 DEF ReplyOK
  <2>2. CASE thread'[c] # "send"
    BY <1>0, <1>4, <2>2, ReplyElsewhere DEF TypeOK, LockFile
  <2> QED
    BY <2>1, <2>2
<1>5. CASE Ioctl(c)
  <2>1. /\ thread[c] = "seek" /\ thread'[c] \in {"send_lock", "close"}
        /\ reply'[c] = reply[c] /\ served'[c] = served[c]
    BY <1>0, <1>5 DEF TypeOK, Ioctl, AfterIoctl
  <2>2. ~Wrote(c)
    BY <2>1 DEF IInv, OutputInv, Before, Wrote
  <2> QED
    BY <1>0, <1>1, <2>1, <2>2 DEF ReplyOK
<1>6. CASE Write(c)
  BY <1>0, <1>6, ReplyElsewhere DEF TypeOK, Write
<1>7. CASE Lseek(c)
  <2>1. /\ thread[c] = "lseek" /\ thread'[c] \in {"send_lock", "close"}
        /\ reply'[c] = reply[c] /\ served'[c] = served[c]
        /\ thread'[c] = "send_lock" => f_pos'[c] = 0
    BY <1>0, <1>7 DEF TypeOK, Lseek, Rewound
  <2> QED
    BY <1>0, <1>1, <2>1 DEF ReplyOK
<1>8. CASE Send(c)
  <2>1. thread[c] = "send" /\ f_pos[c] \in Nat /\ reply[c] \in Seq(Units) /\ Len(reply[c]) \in Nat
    BY <1>0, <1>8, LenProperties DEF TypeOK, Send
  <2>2. CASE /\ f_pos[c] < Len(Visible)
             /\ reply' = [reply EXCEPT ![c] = Append(@, Visible[f_pos[c] + 1])]
             /\ f_pos' = [f_pos EXCEPT ![c] = @ + 1]
             /\ UNCHANGED <<thread, file_mutex, served>>
    <3> DEFINE l == Len(reply[c])
               x == Visible[f_pos[c] + 1]
    <3>1. f_pos[c] + 1 \in 1 .. Len(Visible) /\ Len(Visible) \in Nat /\ Visible \in Seq(Units)
      BY <1>0, <2>1, <2>2, VisibleType
    <3>2. x \in Units
      BY <3>1, ElementOfSeq
    <3>3. /\ reply'[c] = Append(reply[c], x) /\ f_pos'[c] = f_pos[c] + 1
          /\ thread'[c] = "send" /\ served'[c] = served[c]
      BY <1>0, <2>1, <2>2 DEF TypeOK
    <3>4. /\ Len(reply'[c]) = l + 1 /\ reply'[c][l + 1] = x
          /\ \A i \in 1 .. l : reply'[c][i] = reply[c][i]
      BY <2>1, <3>2, <3>3, AppendProperties
    <3>5. /\ l <= f_pos[c] /\ ~served[c]
          /\ \A i \in 1 .. l : reply[c][i] = Visible[f_pos[c] - l + i]
          /\ Wrote(c) => f_pos[c] = l
      BY <1>0, <2>1 DEF ReplyOK
    <3> HIDE DEF l
    <3>6. l \in Nat
      BY <2>1 DEF l
    <3>7. ASSUME NEW i \in 1 .. l + 1
          PROVE  reply'[c][i] = Visible[f_pos'[c] - (l + 1) + i]
      <4>1. CASE i \in 1 .. l
        <5>1. f_pos'[c] - (l + 1) + i = f_pos[c] - l + i
          BY <2>1, <3>3, <3>6
        <5> QED
          BY <3>4, <3>5, <4>1, <5>1
      <4>2. CASE i = l + 1
        <5>1. f_pos'[c] - (l + 1) + i = f_pos[c] + 1
          BY <2>1, <3>3, <3>6, <4>2
        <5> QED
          BY <3>4, <4>2, <5>1
      <4> QED
        BY <3>6, <4>1, <4>2
    <3>8. l + 1 <= f_pos'[c] /\ f_pos'[c] <= Len(Visible) /\ (Wrote(c) => f_pos'[c] = l + 1)
      BY <2>1, <3>1, <3>3, <3>5, <3>6
    <3> QED
      BY <1>1, <3>3, <3>4, <3>5, <3>7, <3>8 DEF ReplyOK
  <2>3. CASE thread'[c] = "close"
    BY <2>3 DEF ReplyOK
  <2> QED
    BY <1>0, <1>8, <2>2, <2>3 DEF TypeOK, Send
<1>9. CASE SigPipe(c)
  BY <1>0, <1>9, ReplySame DEF SigPipe
<1>10. CASE ThreadExit(c)
  BY <1>0, <1>10 DEF TypeOK, ThreadExit, ReplyOK
<1> QED
  BY <1>2, <1>3, <1>4, <1>5, <1>6, <1>7, <1>8, <1>9, <1>10 DEF ThreadStep

(* Whoever writes does so while nobody sends; it has its reply before it.  *)
LEMMA WriteStep ==
  ASSUME IInv, Next, written' # written, ~Exit
  PROVE  /\ UNCHANGED <<reply, served>>
         /\ \A d \in Client : thread[d] # "send"
         /\ \E w \in Client \cup {Stamper}, u \in Seq(Units) :
              /\ Appendable(w, u) /\ written' = written \o u
              /\ \A d \in Client : d # w => thread'[d] = thread[d] /\ f_pos'[d] = f_pos[d]
              /\ w \in Client => /\ thread[w] \in {"write", "write_rest"}
                                 /\ thread'[w] \in {"lseek", "write_rest"}
<1> USE DEF mainVars, setupVars, threadVars, clientVars, stampVars
<1>0. TypeOK /\ MutexInv /\ OutputInv
  BY DEF IInv
<1>1. ~MainStep
  BY MainFrame
<1>2. ASSUME NEW c \in Client, ThreadStep(c)
      PROVE  /\ UNCHANGED <<reply, served>>
             /\ \A d \in Client : thread[d] # "send"
             /\ \E w \in Client \cup {Stamper}, u \in Seq(Units) :
                  /\ Appendable(w, u) /\ written' = written \o u
                  /\ \A d \in Client : d # w => thread'[d] = thread[d] /\ f_pos'[d] = f_pos[d]
                  /\ w \in Client => /\ thread[w] \in {"write", "write_rest"}
                                     /\ thread'[w] \in {"lseek", "write_rest"}
  <2>1. Write(c)
    BY <1>2 DEF ThreadStep, OpenFile, AllocFails, RecvCheck, Recv, LockFile, Ioctl, AfterIoctl, Lseek, Send,
              SigPipe, Close, Finish, ThreadExit
  <2>2. /\ thread[c] \in {"write", "write_rest"} /\ UNCHANGED <<reply, served>>
        /\ thread \in [Client -> Places]
    BY <1>0, <2>1 DEF Write, TypeOK
  <2>3. \A d \in Client : thread[d] # "send"
    BY <1>0, <2>2 DEF MutexInv, Inside
  <2>4. \A d \in Client : d # c => thread'[d] = thread[d] /\ f_pos'[d] = f_pos[d]
    BY <1>0, <1>2, ThreadFrame
  <2>5. \E u : /\ Appendable(c, u) /\ written' = written \o u
               /\ thread'[c] \in {"lseek", "write_rest"}
    <3>1. CASE thread[c] = "write"
      BY <2>1, <2>2, <3>1 DEF Write, Store, Goto, Appendable
    <3>2. CASE thread[c] = "write_rest"
      BY <1>0, <2>1, <2>2, <3>2 DEF Write, Store, Goto, Appendable, OutputInv
    <3> QED
      BY <2>2, <3>1, <3>2
  <2>6. \A u : Appendable(c, u) => u \in Seq(Units)
    BY AppendableType
  <2> QED
    BY <2>2, <2>3, <2>4, <2>5, <2>6
<1>3. ASSUME StamperStep
      PROVE  /\ UNCHANGED <<reply, served>>
             /\ \A d \in Client : thread[d] # "send"
             /\ \E w \in Client \cup {Stamper}, u \in Seq(Units) :
                  /\ Appendable(w, u) /\ written' = written \o u
                  /\ \A d \in Client : d # w => thread'[d] = thread[d] /\ f_pos'[d] = f_pos[d]
                  /\ w \in Client => /\ thread[w] \in {"write", "write_rest"}
                                     /\ thread'[w] \in {"lseek", "write_rest"}
  <2>1. /\ StamperWrite /\ ~Device /\ UNCHANGED <<thread, f_pos, reply, served>>
        /\ written' \in {written \o Packet(Stamper), Append(written, <<Stamper, 1>>)}
    BY <1>3 DEF StamperStep, StamperCheck, StamperWrite, StamperWake, StamperOnly, IInv, StamperInv
  <2>2. Append(written, <<Stamper, 1>>) = written \o <<<<Stamper, 1>>>>
    BY <1>0, HalfStamp
  <2>3. PICK u : Appendable(Stamper, u) /\ written' = written \o u
    BY <2>1, <2>2 DEF Appendable
  <2>4. u \in Seq(Units)
    BY <2>3, AppendableType
  <2>5. \A d \in Client : thread[d] # "send"
    BY <1>0, <2>1, ActorAssumption DEF StamperWrite, FileMutexFree, MutexInv, Inside
  <2> QED
    BY <2>1, <2>3, <2>4, <2>5, ActorAssumption
<1>4. ~signal_handler /\ ~\E c \in Client, r \in Request : Connect(c, r)
  BY DEF signal_handler, Connect
<1> QED
  BY <1>1, <1>2, <1>3, <1>4 DEF Next

LEMMA ReplyStep ==
  ASSUME IInv, Next
  PROVE  ReplyInv'
<1> USE DEF mainVars, setupVars, threadVars, clientVars, stampVars
<1>0. TypeOK /\ OutputInv /\ ReplyInv
  BY DEF IInv
<1> SUFFICES ASSUME NEW d \in Client PROVE ReplyOK(d)'
  BY DEF ReplyInv
<1>1. ReplyOK(d)
  BY <1>0 DEF ReplyInv
<1>2. CASE Exit
  BY <1>1, <1>2, NobodyLeft, ReplyElsewhere DEF Exit, Ended
<1>3. CASE written' # written /\ ~Exit
  <2>1. UNCHANGED <<reply, served>> /\ thread[d] # "send"
    BY <1>3, WriteStep
  <2>2. PICK w \in Client \cup {Stamper}, u \in Seq(Units) :
          /\ Appendable(w, u) /\ written' = written \o u
          /\ d # w => thread'[d] = thread[d] /\ f_pos'[d] = f_pos[d]
          /\ w \in Client => /\ thread[w] \in {"write", "write_rest"}
                             /\ thread'[w] \in {"lseek", "write_rest"}
    BY <1>3, WriteStep
  <2>3. CASE d = w
    BY <1>1, <2>1, <2>2, <2>3, ReplyElsewhere
  <2>4. CASE d # w
    <3>1. Wrote(d)' => Wrote(d)
      BY <1>0, <2>2, <2>4, AppendStep DEF Wrote
    <3> QED
      BY <1>1, <2>1, <2>2, <2>4, <3>1 DEF ReplyOK
  <2> QED
    BY <2>3, <2>4
<1>4. CASE written' = written
  <2>1. CASE MainStep
    <3>1. /\ UNCHANGED <<f_pos, served, reply>>
          /\ thread'[d] = thread[d] \/ (thread[d] = "none" /\ thread'[d] = "open")
      BY <2>1, MainFrame
    <3> QED
      BY <1>1, <1>4, <3>1, ReplySame, ReplyElsewhere
  <2>2. ASSUME NEW c \in Client, ThreadStep(c) PROVE ReplyOK(d)'
    <3>1. CASE c = d
      BY <1>4, <2>2, <3>1, ReplyOwn
    <3>2. CASE c # d
      BY <1>0, <1>1, <1>4, <2>2, <3>2, ThreadFrame, ReplySame
    <3> QED
      BY <3>1, <3>2
  <2>3. CASE StamperStep
    BY <1>1, <1>4, <2>3, ReplySame
       DEF StamperStep, StamperCheck, StamperWrite, StamperWake, StamperOnly
  <2>4. CASE signal_handler
    <3>1. /\ UNCHANGED <<f_pos, served, reply>>
          /\ thread'[d] = thread[d] \/ (thread[d] = "recv" /\ thread'[d] = "close")
      BY <1>0, <2>4 DEF TypeOK, signal_handler
    <3> QED
      BY <1>1, <1>4, <3>1, ReplySame, ReplyElsewhere
  <2>5. CASE \E c \in Client, r \in Request : Connect(c, r)
    BY <1>1, <1>4, <2>5, ReplySame DEF Connect
  <2> QED
    BY <2>1, <2>2, <2>3, <2>4, <2>5 DEF Next
<1> QED
  BY <1>2, <1>3, <1>4

(* What OwnPacketInReply says of one client.                               *)
OwnOK(c) ==
  served[c] =>
    \A k \in 2 .. Len(written) : written[k] = <<c, 2>> =>
      \/ \E i \in 2 .. Len(reply[c]) : SubSeq(reply[c], i - 1, i) = Packet(c)
      \/ Device /\ Len(written) - k >= 2 * MaxOps

(* Two units in a row.                                                     *)
LEMMA Pair ==
  ASSUME NEW S, NEW s \in Seq(S), NEW i \in 2 .. Len(s)
  PROVE  SubSeq(s, i - 1, i) = <<s[i - 1], s[i]>>
<1>1. Len(s) \in Nat /\ \A j \in i - 1 .. i : s[j] \in S
  BY LenProperties, ElementOfSeq
<1>2. /\ SubSeq(s, i - 1, i) \in Seq(S) /\ Len(SubSeq(s, i - 1, i)) = 2
      /\ \A j \in 1 .. 2 : SubSeq(s, i - 1, i)[j] = s[i - 1 + j - 1]
  BY <1>1, SubSeqProperties
<1>3. SubSeq(s, i - 1, i)[1] = s[i - 1] /\ SubSeq(s, i - 1, i)[2] = s[i]
  BY <1>2
<1>4. s[i - 1] \in S /\ s[i] \in S
  BY <1>1
<1> DEFINE t == <<s[i - 1], s[i]>>
<1>5. t \in Seq(S) /\ Len(t) = 2 /\ t[1] = s[i - 1] /\ t[2] = s[i]
  BY <1>4
<1>6. \A j \in 1 .. 2 : j = 1 \/ j = 2
  OBVIOUS
<1>7. \A j \in 1 .. 2 : SubSeq(s, i - 1, i)[j] = t[j]
  BY <1>3, <1>5, <1>6, Zenon
<1> HIDE DEF t
<1>8. SubSeq(s, i - 1, i) = t
  BY <1>2, <1>5, <1>7, SeqEqual
<1> QED
  BY <1>8 DEF t

LEMMA EvenGap ==
  \A n, k, m \in Nat : n % 2 = 0 /\ k % 2 = 0 /\ k < n - 2 * m + 2 => n - k >= 2 * m
OBVIOUS

(* What a reply that reached the end of OUTPUT_FILE has in it.  On the     *)
(* device the first unit shown never is the second half of a packet.       *)
LEMMA ReplyComplete ==
  ASSUME IInv, NEW c \in Client, thread[c] = "send", f_pos[c] >= Len(Visible),
         NEW k \in 2 .. Len(written), written[k] = <<c, 2>>
  PROVE  \/ \E i \in 2 .. Len(reply[c]) : SubSeq(reply[c], i - 1, i) = Packet(c)
         \/ Device /\ Len(written) - k >= 2 * MaxOps
<1> DEFINE n == Len(written)
           v == Len(Visible)
           r == reply[c]
<1>1. /\ n \in Nat /\ v \in Nat /\ v = IF Device /\ n > 2 * MaxOps THEN 2 * MaxOps ELSE n
      /\ \A i \in 1 .. v : Visible[i] = written[n - v + i]
  BY VisibleType, OutputAssumption DEF IInv
<1>2. r \in Seq(Units) /\ f_pos[c] \in Nat
  BY DEF IInv, TypeOK
<1>3. written[k - 1] = <<c, 1>> /\ (Device => n % 2 = 0 /\ k % 2 = 0)
  BY DEF IInv, OutputInv, PacketsWhole
<1>4. /\ f_pos[c] = Len(r)
      /\ r # << >> => f_pos[c] <= v
      /\ \A i \in 1 .. Len(r) : r[i] = Visible[f_pos[c] - Len(r) + i]
  BY DEF IInv, ReplyInv, ReplyOK, Wrote
<1>0. k \in Nat /\ 2 <= k /\ k <= n
  BY <1>1
<1> HIDE DEF n, v, r
<1>5. v > 0 /\ v <= n
  BY <1>0, <1>1, OutputAssumption
<1>6. Len(r) = v
  BY <1>1, <1>2, <1>4, <1>5, EmptySeq DEF v
<1>7. ASSUME NEW i \in 1 .. v PROVE r[i] = written[n - v + i]
  <2>1. f_pos[c] - Len(r) + i = i
    BY <1>1, <1>2, <1>4, <1>6
  <2> QED
    BY <1>1, <1>4, <1>6, <2>1
<1>10. n \in Nat /\ v \in Nat
  BY <1>1
<1>8. CASE k >= n - v + 2
  <2> DEFINE i == k - (n - v)
  <2>1. i \in 2 .. v /\ i \in 1 .. v /\ i - 1 \in 1 .. v /\ n - v + i = k /\ n - v + (i - 1) = k - 1
    BY <1>0, <1>5, <1>8, <1>10
  <2> HIDE DEF i
  <2>2. r[i] = written[k] /\ r[i - 1] = written[k - 1]
    BY <1>7, <2>1
  <2>3. SubSeq(r, i - 1, i) = Packet(c)
    <3>1. i \in 2 .. Len(r)
      BY <1>6, <2>1
    <3>2. SubSeq(r, i - 1, i) = <<r[i - 1], r[i]>>
      BY <1>2, <3>1, Pair, Zenon
    <3> QED
      BY <1>3, <2>2, <3>2 DEF Packet
  <2> QED
    BY <1>6, <2>1, <2>3 DEF r
<1>9. CASE k < n - v + 2
  <2>1. Device /\ v = 2 * MaxOps /\ n > v
    BY <1>1, <1>9, OutputAssumption
  <2>2. n - k >= 2 * MaxOps
    BY <1>0, <1>1, <1>3, <1>9, <2>1, EvenGap, OutputAssumption
  <2> QED
    BY <2>1, <2>2 DEF n
<1> QED
  BY <1>1, <1>8, <1>9

LEMMA OwnStep ==
  ASSUME IInv, Next
  PROVE  OwnPacketInReply'
<1> USE DEF mainVars, setupVars, threadVars, clientVars, stampVars
<1>0. TypeOK /\ OutputInv /\ ReplyInv
  BY DEF IInv
<1> SUFFICES ASSUME NEW d \in Client PROVE OwnOK(d)'
  BY DEF OwnPacketInReply, OwnOK
<1>1. OwnOK(d) /\ ReplyOK(d)
  BY <1>0 DEF IInv, OwnPacketInReply, OwnOK, ReplyInv
<1>2. ASSUME reply'[d] = reply[d], served'[d] = served[d], UNCHANGED written PROVE OwnOK(d)'
  BY <1>1, <1>2 DEF OwnOK
<1>3. CASE Exit
  <2>1. UNCHANGED <<reply, served>> /\ written' = IF Device THEN written ELSE << >>
    BY <1>3 DEF Exit
  <2>2. CASE Device
    BY <1>2, <2>1, <2>2
  <2>3. CASE ~Device
    BY <2>1, <2>3 DEF OwnOK
  <2> QED
    BY <2>2, <2>3
<1>4. CASE written' # written /\ ~Exit
  <2>1. UNCHANGED <<reply, served>>
    BY <1>4, WriteStep
  <2>2. PICK w \in Client \cup {Stamper}, u \in Seq(Units) :
          /\ Appendable(w, u) /\ written' = written \o u
          /\ w \in Client => thread[w] \in {"write", "write_rest"}
    BY <1>4, WriteStep
  <2>3. CASE d = w
    BY <1>1, <2>1, <2>2, <2>3 DEF OwnOK, ReplyOK
  <2>4. CASE d # w
    <3>1. /\ Len(written) \in Nat /\ Len(u) \in Nat /\ Len(written') = Len(written) + Len(u)
          /\ \A k \in 1 .. Len(written) : written'[k] = written[k]
          /\ \A k \in 1 .. Len(u) : written'[Len(written) + k] = u[k]
      BY <1>0, <2>2, Appended
    <3>2. \A k \in 1 .. Len(u) : u[k] # <<d, 2>>
      BY <2>2, <2>4 DEF Appendable, Packet
    <3>3. ASSUME NEW k \in 2 .. Len(written'), written'[k] = <<d, 2>>
          PROVE  k \in 2 .. Len(written) /\ written[k] = <<d, 2>>
      <4>1. CASE k <= Len(written)
        BY <3>1, <3>3, <4>1
      <4>2. CASE k > Len(written)
        <5>1. /\ k - Len(written) \in 1 .. Len(u)
              /\ Len(written) + (k - Len(written)) = k
          BY <3>1, <4>2
        <5> QED
          BY <3>1, <3>2, <3>3, <5>1
      <4> QED
        BY <3>1, <4>1, <4>2
    <3>4. ASSUME NEW k \in 2 .. Len(written), Len(written) - k >= 2 * MaxOps
          PROVE  Len(written') - k >= 2 * MaxOps
      BY <3>1, <3>4, OutputAssumption
    <3> QED
      BY <1>1, <2>1, <3>3, <3>4 DEF OwnOK
  <2> QED
    BY <2>3, <2>4
<1>5. CASE written' = written
  <2>1. CASE MainStep
    BY <1>2, <1>5, <2>1, MainFrame
  <2>2. ASSUME NEW c \in Client, ThreadStep(c) PROVE OwnOK(d)'
    <3>1. CASE c # d
      BY <1>0, <1>2, <1>5, <2>2, <3>1, ThreadFrame
    <3>2. CASE c = d /\ Send(d)
      <4>1. thread[d] = "send" /\ ~served[d]
        BY <1>1, <3>2 DEF Send, ReplyOK
      <4>2. CASE served'[d] = served[d]
        BY <4>1, <4>2 DEF OwnOK
      <4>3. CASE served'[d] # served[d]
        <5>1. f_pos[d] >= Len(Visible) /\ UNCHANGED reply
          BY <3>2, <4>3 DEF Send
        <5> QED
          BY <1>5, <4>1, <5>1, ReplyComplete DEF OwnOK
      <4> QED
        BY <4>2, <4>3
    <3>3. CASE c = d /\ ThreadExit(d)
      BY <1>0, <3>3 DEF TypeOK, ThreadExit, OwnOK
    <3>4. CASE c = d /\ ~Send(d) /\ ~ThreadExit(d)
      <4>1. UNCHANGED <<reply, served>>
        BY <2>2, <3>4
           DEF ThreadStep, OpenFile, AllocFails, RecvCheck, Recv, LockFile, Ioctl, AfterIoctl, Write, Lseek,
               SigPipe, Close, Finish
      <4> QED
        BY <1>2, <1>5, <4>1
    <3> QED
      BY <3>1, <3>2, <3>3, <3>4
  <2>3. CASE StamperStep
    BY <1>2, <1>5, <2>3 DEF StamperStep, StamperCheck, StamperWrite, StamperWake, StamperOnly
  <2>4. CASE signal_handler
    BY <1>2, <1>5, <2>4 DEF signal_handler
  <2>5. CASE \E c \in Client, r \in Request : Connect(c, r)
    BY <1>2, <1>5, <2>5 DEF Connect
  <2> QED
    BY <2>1, <2>2, <2>3, <2>4, <2>5 DEF Next
<1> QED
  BY <1>3, <1>4, <1>5
-----------------------------------------------------------------------------
(* The invariant holds.                                                    *)

LEMMA Halves ==
  ASSUME NEW n \in Nat, NEW i \in 1 .. 2 * n
  PROVE  /\ (i + 1) \div 2 \in 1 .. n /\ (2 - (i % 2)) \in {1, 2}
         /\ 2 - (i % 2) = 2 => i % 2 = 0 /\ i > 1 /\ i - 1 \in 1 .. 2 * n
                               /\ i \div 2 = (i + 1) \div 2 /\ 2 - ((i - 1) % 2) = 1
OBVIOUS

LEMMA InitOutput ==
  ASSUME Init
  PROVE  written \in Seq(Units) /\ OutputInv
<1> DEFINE n == Len(Earlier)
           e(i) == Earlier[(i + 1) \div 2]
<1>1. n \in Nat /\ \A j \in 1 .. n : Earlier[j] \in Range(Earlier)
  BY EarlierAssumption, LenProperties, ElementOfSeq
<1>2. /\ DOMAIN written = 1 .. 2 * n
      /\ \A i \in 1 .. 2 * n : written[i] = Packet(e(i))[2 - (i % 2)]
  BY DEF Init
<1>3. \A i \in 1 .. 2 * n : e(i) \in Range(Earlier) /\ written[i] = <<e(i), 2 - (i % 2)>>
  <2> SUFFICES ASSUME NEW i \in 1 .. 2 * n
               PROVE  e(i) \in Range(Earlier) /\ written[i] = <<e(i), 2 - (i % 2)>>
    OBVIOUS
  <2>1. (i + 1) \div 2 \in 1 .. n /\ 2 - (i % 2) \in {1, 2}
    BY <1>1, Halves
  <2>2. e(i) \in Range(Earlier)
    BY <1>1, <2>1
  <2> HIDE DEF e
  <2>3. \A j \in {1, 2} : Packet(e(i))[j] = <<e(i), j>>
    BY DEF Packet
  <2> QED
    BY <1>2, <2>1, <2>2, <2>3
<1> HIDE DEF e
<1>4. ASSUME NEW i \in 1 .. 2 * n PROVE written[i] \in Units
  <2>1. written[i] = <<e(i), 2 - (i % 2)>> /\ e(i) \in Range(Earlier) /\ 2 - (i % 2) \in {1, 2}
    BY <1>1, <1>3, Halves
  <2> QED
    BY <2>1 DEF Units
<1>5. written \in Seq(Units) /\ Len(written) = 2 * n
  <2>1. 2 * n \in Nat
    BY <1>1
  <2>2. written = [i \in 1 .. 2 * n |-> written[i]]
    BY <1>2 DEF Init
  <2>3. written \in [1 .. 2 * n -> Units]
    BY <1>4, <2>2
  <2> QED
    BY <2>1, <2>3, LenProperties
<1>6. PacketsWhole
  <2> SUFFICES ASSUME NEW i \in 1 .. 2 * n, written[i][2] = 2
               PROVE  i > 1 /\ written[i - 1] = <<written[i][1], 1>>
    BY <1>5 DEF PacketsWhole
  <2>1. written[i] = <<e(i), 2 - (i % 2)>> /\ 2 - (i % 2) = 2
    BY <1>3
  <2>2. i > 1 /\ i - 1 \in 1 .. 2 * n /\ (i - 1 + 1) \div 2 = (i + 1) \div 2 /\ 2 - ((i - 1) % 2) = 1
    BY <1>1, <2>1, Halves
  <2>3. e(i - 1) = e(i)
    BY <2>2 DEF e
  <2> QED
    BY <1>3, <2>1, <2>2, <2>3
<1>7. \A c \in Client, k \in 1 .. 2 * n : written[k] # <<c, 2>>
  BY <1>3, EarlierAssumption
<1>8. (2 * n) % 2 = 0 /\ \A k \in 1 .. 2 * n : written[k][2] = 2 => k % 2 = 0
  BY <1>1, <1>3
<1>9. \A c \in Client : thread[c] = "none"
  BY DEF Init
<1> QED
  BY <1>5, <1>6, <1>7, <1>8, <1>9 DEF OutputInv

LEMMA InitIInv == Init => IInv
<1> SUFFICES ASSUME Init PROVE IInv
  OBVIOUS
<1>1. written \in Seq(Units) /\ OutputInv
  BY InitOutput
<1>2. /\ todo \in Seq(Client) /\ head \in Seq(Client) /\ 0 \in 0 .. MaxStamps
      /\ reply \in [Client -> Seq(Units)]
  BY OutputAssumption DEF Init
<1>3. thread \in [Client -> Places] /\ main \in Starting
  BY DEF Init, Places, Starting
<1>4. TypeOK
  BY <1>1, <1>2, <1>3 DEF Init, TypeOK
<1>5. SetupInv /\ StamperInv /\ CleanExit
  BY DEF Init, SetupInv, StamperInv, CleanExit
<1>6. ClientInv /\ MainInv
  BY DEF Init, ClientInv, MainInv, Alive, Idle
<1>7. ThreadDataLives
  BY DEF Init, ThreadDataLives, IsInjective, Range
<1>8. MutexInv
  BY ActorAssumption DEF Init, MutexInv, Inside
<1>9. OwnPacketInReply
  BY DEF Init, OwnPacketInReply
<1>10. ReplyInv
  <2> SUFFICES ASSUME NEW c \in Client PROVE ReplyOK(c)
    BY DEF ReplyInv
  <2>1. thread[c] = "none" /\ reply[c] = << >> /\ ~served[c]
    BY DEF Init
  <2> QED
    BY <2>1 DEF ReplyOK
<1> QED
  BY <1>1, <1>4, <1>5, <1>6, <1>7, <1>8, <1>9, <1>10 DEF IInv

LEMMA NextIInv == IInv /\ [Next]_vars => IInv'
<1> SUFFICES ASSUME IInv, [Next]_vars PROVE IInv'
  OBVIOUS
<1>1. CASE Next
  BY <1>1, TypeStep, SetupStep, ClientStep, ListStep, ExitStep, MutexStep, OutputStep, ReplyStep,
     OwnStep DEF IInv
<1>2. CASE UNCHANGED vars
  <2> USE DEF vars, mainVars, setupVars, threadVars, clientVars, stampVars
  <2>1. TypeOK' /\ SetupInv' /\ StamperInv'
    BY <1>2, TypeStep DEF IInv, SetupInv, StamperInv
  <2>2. ClientInv' /\ ThreadDataLives' /\ MainInv'
    BY <1>2 DEF IInv, ClientInv, ThreadDataLives, MainInv, Alive
  <2>3. CleanExit' /\ MutexInv' /\ OutputInv'
    BY <1>2 DEF IInv, CleanExit, MutexInv, OutputInv, PacketsWhole
  <2>4. ReplyInv' /\ OwnPacketInReply'
    BY <1>2, ReplySame DEF IInv, ReplyInv, OwnPacketInReply
  <2> QED
    BY <2>1, <2>2, <2>3, <2>4 DEF IInv
<1> QED
  BY <1>1, <1>2

(* What has been sent is a piece of what OUTPUT_FILE shows.                *)
LEMMA Snapshot == IInv => ReplyIsSnapshot
<1> SUFFICES ASSUME IInv, NEW c \in Client, thread[c] = "send"
             PROVE  reply[c] = SubSeq(Visible, f_pos[c] - Len(reply[c]) + 1, f_pos[c])
  BY DEF ReplyIsSnapshot
<1> DEFINE r == reply[c]
           p == f_pos[c]
           m == p - Len(r) + 1
<1>1. r \in Seq(Units) /\ Len(r) \in Nat /\ p \in Nat /\ Visible \in Seq(Units)
  BY LenProperties, VisibleType DEF IInv, TypeOK
<1>2. /\ Len(r) <= p /\ (r # << >> => p <= Len(Visible))
      /\ \A i \in 1 .. Len(r) : r[i] = Visible[p - Len(r) + i]
  BY DEF IInv, ReplyInv, ReplyOK
<1> HIDE DEF r, p
<1>3. CASE r = << >>
  <2>1. m = p + 1
    BY <1>1, <1>3
  <2>2. SubSeq(Visible, m, p) = << >>
    BY <1>1, <2>1, SubSeqEmpty
  <2> QED
    BY <1>3, <2>2 DEF r, p
<1>4. CASE r # << >>
  <2>1. /\ Len(r) > 0 /\ m \in Int /\ m <= p /\ p - m + 1 = Len(r)
        /\ \A i \in m .. p : i \in 1 .. Len(Visible)
    BY <1>1, <1>2, <1>4, EmptySeq
  <2>2. \A i \in m .. p : Visible[i] \in Units
    BY <1>1, <2>1, ElementOfSeq
  <2> DEFINE s == SubSeq(Visible, m, p)
  <2>3. /\ s \in Seq(Units) /\ Len(s) = Len(r)
        /\ \A i \in 1 .. Len(r) : s[i] = Visible[m + i - 1]
    BY <1>1, <2>1, <2>2, SubSeqProperties
  <2>4. \A i \in 1 .. Len(r) : m + i - 1 = p - Len(r) + i
    BY <1>1
  <2>5. \A i \in 1 .. Len(r) : s[i] = r[i]
    BY <1>2, <2>3, <2>4
  <2> HIDE DEF s
  <2>6. s = r
    BY <1>1, <2>3, <2>5, SeqEqual
  <2> QED
    BY <2>6 DEF s, r, p
<1> QED
  BY <1>3, <1>4

(***************************************************************************)
(* The inductive invariant of the server: where each thread is, who holds  *)
(* the file mutex, what is in OUTPUT_FILE and what has been sent.          *)
(***************************************************************************)
THEOREM IInvHolds == Spec => []IInv
BY InitIInv, NextIInv, PTL DEF Spec

(* Every thread of aesdsocket.c is at a place of its code, each mutex has  *)
(* a holder and the units written and sent are units of some packet.       *)
THEOREM TypeCorrect == Spec => []TypeOK
<1>1. IInv => TypeOK
  BY DEF IInv
<1> QED
  BY <1>1, IInvHolds, PTL

(***************************************************************************)
(* A thread's struct thread_data is live from before pthread_create to     *)
(* after pthread_join, and is in the list exactly once: for any number of  *)
(* clients, through every sweep and the shutdown.                          *)
(***************************************************************************)
THEOREM ThreadDataIsLive == Spec => []ThreadDataLives
<1>1. IInv => ThreadDataLives
  BY DEF IInv
<1> QED
  BY <1>1, IInvHolds, PTL

(* Whenever main returns, no client thread runs, and main's socket and     *)
(* address list and the clients' blocks, files and sockets are given back. *)
THEOREM ExitsClean == Spec => []CleanExit
<1>1. IInv => CleanExit
  BY DEF IInv
<1> QED
  BY <1>1, IInvHolds, PTL

(* file_mutex keeps the packets and the time stamps in OUTPUT_FILE whole,  *)
(* however the writes of receive_data and of the stamper are cut short.    *)
THEOREM PacketsAreWhole == Spec => []PacketsWhole
<1>1. IInv => PacketsWhole
  BY DEF IInv, OutputInv
<1> QED
  BY <1>1, IInvHolds, PTL

(* What send_data sends is an unbroken piece of OUTPUT_FILE as it is.      *)
THEOREM RepliesAreSnapshots == Spec => []ReplyIsSnapshot
BY Snapshot, IInvHolds, PTL

(* A client that has written its packet and been served got it back, but   *)
(* for one that MaxOps later packets have pushed out of the device.        *)
THEOREM OwnPacketReturned == Spec => []OwnPacketInReply
<1>1. IInv => OwnPacketInReply
  BY DEF IInv
<1> QED
  BY <1>1, IInvHolds, PTL
-----------------------------------------------------------------------------
(* The device under the server: pairs of bytes in a row.                   *)

(* A set of naturals has a least element: what holds at every index is     *)
(* shown by the absence of a first exception.                              *)
Less == {p \in Nat \X Nat : p[1] < p[2]}

LEMMA LeastElement ==
  ASSUME NEW S, S \subseteq Nat, S # {}
  PROVE  \E n \in S : \A m \in S : n <= m
<1>1. IsWellFoundedOn(Less, Nat)
  BY NatLessThanWellFounded, Zenon DEF OpToRel, Less
<1>2. PICK n \in S : \A m \in S : <<m, n>> \notin Less
  BY <1>1, WFMin
<1>3. \A m \in S : ~(m < n)
  BY <1>2 DEF Less
<1> QED
  BY <1>2, <1>3

(* The first i of the pairs pp, in a row.                                  *)
InARow(pp, i) == [k \in 1 .. 2 * i |-> IF k % 2 = 1 THEN pp[(k + 1) \div 2][1] ELSE pp[k \div 2][2]]

(* Sequences of length two, in a sequence.                                 *)
Pairs(T, pp) ==
  /\ pp \in Seq(Seq(T))
  /\ \A i \in 1 .. Len(pp) : Len(pp[i]) = 2

(* Where the elements of the pairs are.                                    *)
LEMMA RowType ==
  ASSUME NEW T, NEW pp, Pairs(T, pp), NEW i \in 0 .. Len(pp)
  PROVE  /\ InARow(pp, i) \in Seq(T) /\ Len(InARow(pp, i)) = 2 * i
         /\ \A j \in 1 .. i : InARow(pp, i)[2 * j - 1] = pp[j][1] /\ InARow(pp, i)[2 * j] = pp[j][2]
<1>0. Len(pp) \in Nat /\ i \in Nat
  BY LenProperties DEF Pairs
<1>1. \A j \in 1 .. Len(pp) : pp[j] \in Seq(T) /\ Len(pp[j]) = 2
  BY ElementOfSeq DEF Pairs
<1>2. \A j \in 1 .. Len(pp) : pp[j][1] \in T /\ pp[j][2] \in T
  <2>1. ASSUME NEW s \in Seq(T), Len(s) = 2 PROVE s[1] \in T /\ s[2] \in T
    <3>1. 1 \in 1 .. Len(s) /\ 2 \in 1 .. Len(s)
      BY <2>1
    <3> QED
      BY <3>1, ElementOfSeq
  <2> QED
    BY <1>1, <2>1
<1>3. \A k \in 1 .. 2 * i : /\ k % 2 = 1 => (k + 1) \div 2 \in 1 .. Len(pp)
                            /\ k % 2 # 1 => k \div 2 \in 1 .. Len(pp)
  BY <1>0
<1>4. \A k \in 1 .. 2 * i : (IF k % 2 = 1 THEN pp[(k + 1) \div 2][1] ELSE pp[k \div 2][2]) \in T
  BY <1>2, <1>3
<1>5. InARow(pp, i) \in [1 .. 2 * i -> T]
  BY <1>4 DEF InARow
<1>6. InARow(pp, i) \in Seq(T) /\ Len(InARow(pp, i)) = 2 * i
  BY <1>0, <1>5
<1>7. ASSUME NEW j \in 1 .. i
      PROVE  /\ 2 * j - 1 \in 1 .. 2 * i /\ (2 * j - 1) % 2 = 1 /\ ((2 * j - 1) + 1) \div 2 = j
             /\ 2 * j \in 1 .. 2 * i /\ (2 * j) % 2 # 1 /\ (2 * j) \div 2 = j
  BY <1>0
<1> QED
  BY <1>6, <1>7 DEF InARow

(* One more pair.                                                          *)
LEMMA RowGrows ==
  ASSUME NEW T, NEW pp, Pairs(T, pp), NEW i \in 2 .. Len(pp)
  PROVE  InARow(pp, i - 1) \o pp[i] = InARow(pp, i)
<1> DEFINE a == InARow(pp, i - 1)
           b == InARow(pp, i)
           p == pp[i]
<1>0. Len(pp) \in Nat /\ i \in Nat /\ i - 1 \in 0 .. Len(pp) /\ i \in 0 .. Len(pp) /\ i \in 1 .. Len(pp)
  BY LenProperties DEF Pairs
<1>1. a \in Seq(T) /\ Len(a) = 2 * (i - 1)
  BY <1>0, RowType
<1>2. b \in Seq(T) /\ Len(b) = 2 * i /\ b[2 * i - 1] = p[1] /\ b[2 * i] = p[2]
  <2>1. i \in 1 .. i
    BY <1>0
  <2>2. /\ b \in Seq(T) /\ Len(b) = 2 * i
        /\ \A j \in 1 .. i : b[2 * j - 1] = pp[j][1] /\ b[2 * j] = pp[j][2]
    BY <1>0, RowType
  <2> HIDE DEF b
  <2> QED
    BY <2>1, <2>2
<1>3. p \in Seq(T) /\ Len(p) = 2
  BY <1>0, ElementOfSeq DEF Pairs
<1>4. \A k \in 1 .. 2 * (i - 1) : a[k] = b[k]
  <2>1. \A k \in 1 .. 2 * (i - 1) : k \in 1 .. 2 * i
    BY <1>0
  <2> QED
    BY <2>1 DEF InARow
<1> HIDE DEF a, b, p
<1>5. /\ a \o p \in Seq(T) /\ Len(a \o p) = Len(a) + Len(p)
      /\ \A k \in 1 .. Len(a) + Len(p) : (a \o p)[k] = IF k <= Len(a) THEN a[k] ELSE p[k - Len(a)]
  BY <1>1, <1>3, ConcatProperties, Zenon
<1>6. Len(a \o p) = 2 * i /\ Len(a) + Len(p) = 2 * i
  BY <1>0, <1>1, <1>3, <1>5
<1>7. ASSUME NEW k \in 1 .. 2 * i PROVE (a \o p)[k] = b[k]
  <2>0. (a \o p)[k] = IF k <= 2 * (i - 1) THEN a[k] ELSE p[k - 2 * (i - 1)]
    BY <1>1, <1>5, <1>6
  <2>1. CASE k <= 2 * (i - 1)
    BY <1>0, <1>4, <2>0, <2>1
  <2>2. CASE ~(k <= 2 * (i - 1))
    <3>1. (k = 2 * i - 1 /\ k - 2 * (i - 1) = 1) \/ (k = 2 * i /\ k - 2 * (i - 1) = 2)
      BY <1>0, <2>2
    <3> QED
      BY <1>2, <2>0, <2>2, <3>1
  <2> QED
    BY <2>1, <2>2
<1>8. a \o p = b
  BY <1>2, <1>5, <1>6, <1>7, SeqEqual
<1> QED
  BY <1>8 DEF a, b, p

(* FlattenSeq of the library puts pairs in a row.                          *)
LEMMA FlattenPairs ==
  ASSUME NEW T, NEW pp, Pairs(T, pp)
  PROVE  FlattenSeq(pp) = InARow(pp, Len(pp))
<1>0. Len(pp) \in Nat
  BY LenProperties DEF Pairs
<1>1. CASE Len(pp) = 0
  <2>1. pp = << >>
    BY <1>1, EmptySeq DEF Pairs
  <2>2. InARow(pp, 0) = << >>
    BY <1>0, <1>1, RowType, EmptySeq
  <2> QED
    BY <1>1, <2>1, <2>2 DEF FlattenSeq
<1>2. CASE Len(pp) # 0
  <2> DEFINE n == Len(pp)
             IsTable(t) == t = [i \in 1 .. n |-> IF i = 1 THEN pp[i] ELSE t[i - 1] \o pp[i]]
             row == [i \in 1 .. n |-> InARow(pp, i)]
             table == CHOOSE t : t = [i \in 1 .. n |-> IF i = 1 THEN pp[i] ELSE t[i - 1] \o pp[i]]
  <2>0. n \in Nat \ {0} /\ n \in 1 .. n /\ 1 \in 1 .. n /\ 1 \in 0 .. Len(pp) /\ 2 * 1 = 2
    BY <1>0, <1>2
  <2>1. FlattenSeq(pp) = table[n]
    BY <1>2 DEF FlattenSeq
  <2>2. InARow(pp, 1) = pp[1]
    <3>1. InARow(pp, 1) \in Seq(T) /\ Len(InARow(pp, 1)) = 2
      <4>1. \A i \in 0 .. Len(pp) : InARow(pp, i) \in Seq(T) /\ Len(InARow(pp, i)) = 2 * i
        BY RowType
      <4> QED
        BY <2>0, <4>1
    <3>2. InARow(pp, 1)[1] = pp[1][1] /\ InARow(pp, 1)[2] = pp[1][2]
      <4>1. \A j \in 1 .. 1 : InARow(pp, 1)[2 * j - 1] = pp[j][1] /\ InARow(pp, 1)[2 * j] = pp[j][2]
        BY <2>0, RowType
      <4> QED
        BY <4>1
    <3>3. pp[1] \in Seq(T) /\ Len(pp[1]) = 2
      BY <2>0, ElementOfSeq DEF Pairs
    <3>4. \A k \in 1 .. 2 : InARow(pp, 1)[k] = pp[1][k]
      BY <3>2
    <3> QED
      BY <3>1, <3>3, <3>4, SeqEqual
  <2>3. ASSUME NEW i \in 1 .. n, i # 1
        PROVE  InARow(pp, i) = InARow(pp, i - 1) \o pp[i] /\ i - 1 \in 1 .. n
    <3>1. i \in 2 .. Len(pp) /\ i - 1 \in 1 .. n
      BY <2>0, <2>3
    <3> QED
      BY <3>1, RowGrows
  <2> HIDE DEF n
  <2>4. IsTable(row)
    BY <2>2, <2>3, Zenon
  <2>5. IsTable(table)
    BY <2>4, Zenon
  <2> HIDE DEF table
  <2>6. \A i \in 1 .. n : table[i] = IF i = 1 THEN pp[i] ELSE table[i - 1] \o pp[i]
    BY <2>5
  <2> DEFINE Bad == {i \in 1 .. n : table[i] # InARow(pp, i)}
  <2>7. ASSUME Bad # {} PROVE FALSE
    <3>1. Bad \subseteq Nat
      BY <2>0
    <3>2. PICK m \in Bad : \A i \in Bad : m <= i
      BY <2>7, <3>1, LeastElement
    <3>3. m # 1
      BY <2>2, <2>6, <3>2
    <3>4. m \in 1 .. n /\ m \in Nat /\ m - 1 \in 1 .. n /\ ~(m <= m - 1)
      BY <2>0, <3>1, <3>2, <3>3
    <3>5. table[m - 1] = InARow(pp, m - 1)
      BY <3>2, <3>4
    <3> QED
      BY <2>3, <2>6, <3>2, <3>3, <3>4, <3>5
  <2> QED
    BY <2>0, <2>1, <2>7 DEF n
<1> QED
  BY <1>1, <1>2

(* A sequence of whole packets as a sequence of commands of two bytes.     *)
Bytes == {ByteOf(u) : u \in Units}
Commands(v) ==
  [i \in 1 .. Len(v) \div 2 |-> <<ByteOf(v[2 * i - 1]), ByteOf(v[2 * i])>>]

LEMMA CommandsType ==
  ASSUME NEW v \in Seq(Units)
  PROVE  /\ Pairs(Bytes, Commands(v)) /\ Len(Commands(v)) = Len(v) \div 2
         /\ \A i \in 1 .. Len(v) \div 2 :
              /\ 2 * i - 1 \in 1 .. Len(v) /\ 2 * i \in 1 .. Len(v)
              /\ Commands(v)[i] = <<ByteOf(v[2 * i - 1]), ByteOf(v[2 * i])>>
<1>0. Len(v) \in Nat /\ Len(v) \div 2 \in Nat
  BY LenProperties
<1>1. \A i \in 1 .. Len(v) \div 2 : 2 * i - 1 \in 1 .. Len(v) /\ 2 * i \in 1 .. Len(v)
  BY <1>0
<1>2. \A k \in 1 .. Len(v) : ByteOf(v[k]) \in Bytes
  BY ElementOfSeq DEF Bytes
<1>3. \A i \in 1 .. Len(v) \div 2 :
        /\ <<ByteOf(v[2 * i - 1]), ByteOf(v[2 * i])>> \in Seq(Bytes)
        /\ Len(<<ByteOf(v[2 * i - 1]), ByteOf(v[2 * i])>>) = 2
  <2>1. \A x, y \in Bytes : <<x, y>> \in Seq(Bytes) /\ Len(<<x, y>>) = 2
    OBVIOUS
  <2> QED
    BY <1>1, <1>2, <2>1, Zenon
<1>4. Commands(v) \in [1 .. Len(v) \div 2 -> Seq(Bytes)]
  BY <1>3, Zenon DEF Commands
<1>5. Commands(v) \in Seq(Seq(Bytes)) /\ Len(Commands(v)) = Len(v) \div 2
  <2> DEFINE S == Seq(Bytes)
             n == Len(v) \div 2
             f == Commands(v)
  <2>1. n \in Nat /\ f \in [1 .. n -> S]
    BY <1>0, <1>4
  <2> HIDE DEF S, n, f
  <2>2. f \in Seq(S) /\ Len(f) = n
    BY <2>1
  <2> QED
    BY <2>2 DEF S, n, f
<1>6. \A i \in 1 .. Len(v) \div 2 : Commands(v)[i] = <<ByteOf(v[2 * i - 1]), ByteOf(v[2 * i])>>
  BY Zenon DEF Commands
<1>7. \A i \in 1 .. Len(Commands(v)) : Len(Commands(v)[i]) = 2
  BY <1>3, <1>5, <1>6, Zenon
<1> QED
  BY <1>1, <1>5, <1>6, <1>7, Zenon DEF Pairs

(* The bytes of the commands, one after the other.                         *)
LEMMA BytesInARow ==
  ASSUME NEW v \in Seq(Units), Len(v) % 2 = 0
  PROVE  /\ Len(FlattenSeq(Commands(v))) = Len(v)
         /\ \A k \in 1 .. Len(v) : FlattenSeq(Commands(v))[k] = ByteOf(v[k])
<1> DEFINE h == Len(v) \div 2
           cc == Commands(v)
<1>0. Len(v) \in Nat /\ h \in Nat /\ Len(v) = 2 * h
  BY LenProperties
<1>1. Pairs(Bytes, cc) /\ Len(cc) = h
  BY CommandsType
<1>2. \A i \in 1 .. h : cc[i][1] = ByteOf(v[2 * i - 1]) /\ cc[i][2] = ByteOf(v[2 * i])
  BY CommandsType
<1> HIDE DEF h, cc
<1>3. FlattenSeq(cc) = InARow(cc, h)
  BY <1>1, FlattenPairs
<1>4. h \in 0 .. Len(cc)
  BY <1>0, <1>1
<1>5. /\ Len(InARow(cc, h)) = 2 * h
      /\ \A j \in 1 .. h : InARow(cc, h)[2 * j - 1] = cc[j][1] /\ InARow(cc, h)[2 * j] = cc[j][2]
  BY <1>1, <1>4, RowType
<1>6. ASSUME NEW k \in 1 .. Len(v) PROVE InARow(cc, h)[k] = ByteOf(v[k])
  <2>1. \E j \in 1 .. h : k = 2 * j - 1 \/ k = 2 * j
    <3>1. CASE k % 2 = 1
      <4>1. (k + 1) \div 2 \in 1 .. h /\ k = 2 * ((k + 1) \div 2) - 1
        BY <1>0, <3>1
      <4> QED
        BY <4>1
    <3>2. CASE k % 2 # 1
      <4>1. k \div 2 \in 1 .. h /\ k = 2 * (k \div 2)
        BY <1>0, <3>2
      <4> QED
        BY <4>1
    <3> QED
      BY <3>1, <3>2
  <2>2. PICK j \in 1 .. h : k = 2 * j - 1 \/ k = 2 * j
    BY <2>1
  <2> QED
    BY <1>2, <1>5, <2>2
<1> QED
  BY <1>0, <1>3, <1>5, <1>6 DEF cc

(* The first commands of several, and their bytes.                         *)
LEMMA FirstPairs ==
  ASSUME NEW T, NEW pp, Pairs(T, pp), NEW k \in 0 .. Len(pp)
  PROVE  Len(FlattenSeq(SubSeq(pp, 1, k))) = 2 * k
<1> DEFINE S == Seq(T)
           qq == SubSeq(pp, 1, k)
<1>0. pp \in Seq(S) /\ Len(pp) \in Nat /\ \A i \in 1 .. Len(pp) : Len(pp[i]) = 2
  BY LenProperties DEF Pairs
<1>1. qq \in Seq(S) /\ Len(qq) = k /\ \A i \in 1 .. k : qq[i] = pp[i]
  <2> HIDE DEF S
  <2> QED
    BY <1>0
<1>2. Pairs(T, qq) /\ k \in 0 .. Len(qq)
  <2>1. \A i \in 1 .. k : Len(qq[i]) = 2
    BY <1>0, <1>1
  <2> QED
    BY <1>1, <2>1 DEF Pairs
<1> HIDE DEF qq
<1>3. FlattenSeq(qq) = InARow(qq, k)
  BY <1>1, <1>2, FlattenPairs
<1>4. Len(InARow(qq, k)) = 2 * k
  BY <1>2, RowType
<1> QED
  BY <1>3, <1>4 DEF qq
-----------------------------------------------------------------------------
(* The device as the server sees it.                                       *)

LEMMA DeviceIs == DeviceLog = Commands(Visible)
BY DEF DeviceLog, Commands

(* The stream of the device is what file_fd shows, byte by byte.           *)
LEMMA StreamIs ==
  ASSUME TypeOK, OutputInv, Device
  PROVE  /\ Len(Dev!Stream) = Len(Visible) /\ Len(Visible) \in Nat
         /\ \A k \in 1 .. Len(Visible) : Dev!Stream[k] = ByteOf(Visible[k])
<1>1. Visible \in Seq(Units) /\ Len(Visible) % 2 = 0 /\ Len(Visible) \in Nat
  BY VisibleType, EvenVisible
<1>2. Dev!Stream = FlattenSeq(Commands(Visible))
  BY DeviceIs DEF Dev!Stream, Dev!FlattenSeq, FlattenSeq
<1> QED
  BY <1>1, <1>2, BytesInARow

(* Command and offset of a seek, in units of what file_fd shows.           *)
LEMMA SeekIs ==
  ASSUME TypeOK, OutputInv, Device, NEW cmd \in Nat, NEW off \in Nat,
         2 * cmd < Len(Visible), off < 2
  PROVE  /\ Dev!HasByte(cmd, off) /\ Dev!PositionOf(cmd, off) = 2 * cmd + off
         /\ DeviceLog[cmd + 1][off + 1] = ByteOf(Visible[2 * cmd + off + 1])
<1> DEFINE h == Len(Visible) \div 2
<1>1. Visible \in Seq(Units) /\ Len(Visible) % 2 = 0 /\ Len(Visible) \in Nat
  BY VisibleType, EvenVisible
<1>2. /\ Pairs(Bytes, DeviceLog) /\ Len(DeviceLog) = h
      /\ \A i \in 1 .. h : DeviceLog[i] = <<ByteOf(Visible[2 * i - 1]), ByteOf(Visible[2 * i])>>
  BY <1>1, CommandsType, DeviceIs
<1>3. cmd + 1 \in 1 .. h /\ cmd < h /\ cmd \in 0 .. h /\ h \in Nat
  BY <1>1
<1>4. off = 0 \/ off = 1
  OBVIOUS
<1> HIDE DEF h
<1>5. DeviceLog[cmd + 1] = <<ByteOf(Visible[2 * (cmd + 1) - 1]), ByteOf(Visible[2 * (cmd + 1)])>>
  BY <1>2, <1>3
<1>6. 2 * (cmd + 1) - 1 = 2 * cmd + 0 + 1 /\ 2 * (cmd + 1) = 2 * cmd + 1 + 1
  OBVIOUS
<1>7. DeviceLog[cmd + 1] = <<ByteOf(Visible[2 * cmd + 0 + 1]), ByteOf(Visible[2 * cmd + 1 + 1])>>
  BY <1>5, <1>6
<1>8. DeviceLog[cmd + 1][off + 1] = ByteOf(Visible[2 * cmd + off + 1]) /\ Len(DeviceLog[cmd + 1]) = 2
  <2> DEFINE x == ByteOf(Visible[2 * cmd + 0 + 1])
             y == ByteOf(Visible[2 * cmd + 1 + 1])
  <2>1. DeviceLog[cmd + 1] = <<x, y>>
    BY <1>7
  <2>2. ByteOf(Visible[2 * cmd + off + 1]) = IF off = 0 THEN x ELSE y
    BY <1>4
  <2> HIDE DEF x, y
  <2> QED
    BY <1>4, <2>1, <2>2
<1>9. Len(FlattenSeq(SubSeq(DeviceLog, 1, cmd))) = 2 * cmd
  BY <1>2, <1>3, FirstPairs, SMTT(30)
<1>10. Dev!PositionOf(cmd, off) = 2 * cmd + off
  BY <1>9 DEF Dev!PositionOf, Dev!FlattenSeq, FlattenSeq
<1>11. Dev!HasByte(cmd, off)
  BY <1>2, <1>3, <1>8 DEF Dev!HasByte
<1> QED
  BY <1>8, <1>10, <1>11

(* A packet that is written becomes the last command; the oldest command   *)
(* is forgotten if there are MaxOps of them.                               *)
LEMMA PacketRemembered ==
  ASSUME NEW w \in Seq(Units), Len(w) % 2 = 0, NEW c \in Client
  PROVE  LET log == Commands(Shown(w))
         IN  Commands(Shown(w \o Packet(c))) =
               Append(IF Len(log) < MaxOps THEN log ELSE Tail(log), <<c, "newline">>)
<1> DEFINE u == w \o Packet(c)
           v == Shown(w)
           x == Shown(u)
           l == Len(w)
           log == Commands(v)
           old == IF Len(log) < MaxOps THEN log ELSE Tail(log)
           new == Append(old, <<c, "newline">>)
           S == Seq(Bytes)
<1>0. /\ MaxOps \in Nat /\ MaxOps > 0 /\ Packet(c) \in Seq(Units) /\ Len(Packet(c)) = 2
      /\ Packet(c)[1] = <<c, 1>> /\ Packet(c)[2] = <<c, 2>>
  BY UnitsOfClients, OutputAssumption DEF Packet
<1>1. /\ u \in Seq(Units) /\ l \in Nat /\ l % 2 = 0 /\ Len(u) = l + 2
      /\ \A k \in 1 .. l : u[k] = w[k]
      /\ u[l + 1] = <<c, 1>> /\ u[l + 2] = <<c, 2>>
  <2>1. /\ u \in Seq(Units) /\ Len(u) = Len(w) + Len(Packet(c)) /\ Len(w) \in Nat
        /\ \A k \in 1 .. Len(w) + Len(Packet(c)) :
             u[k] = IF k <= Len(w) THEN w[k] ELSE Packet(c)[k - Len(w)]
    BY <1>0, ConcatProperties, LenProperties, Zenon
  <2> HIDE DEF u
  <2>2. /\ l + 1 \in 1 .. l + 2 /\ ~(l + 1 <= l) /\ l + 1 - l = 1
        /\ l + 2 \in 1 .. l + 2 /\ ~(l + 2 <= l) /\ l + 2 - l = 2
    BY <2>1
  <2>3. \A k \in 1 .. l : k \in 1 .. l + 2 /\ k <= l
    BY <2>1
  <2> QED
    BY <1>0, <2>1, <2>2, <2>3
<1>2. /\ v \in Seq(Units) /\ Len(v) = IF l > 2 * MaxOps THEN 2 * MaxOps ELSE l
      /\ \A i \in 1 .. Len(v) : v[i] = w[l - Len(v) + i]
  BY ShownIs
<1>3. /\ x \in Seq(Units) /\ Len(x) = IF l + 2 > 2 * MaxOps THEN 2 * MaxOps ELSE l + 2
      /\ \A i \in 1 .. Len(x) : x[i] = u[l + 2 - Len(x) + i]
  <2> HIDE DEF u, l
  <2>1. /\ Shown(u) \in Seq(Units) /\ Len(u) \in Nat
        /\ Len(Shown(u)) = IF Len(u) > 2 * MaxOps THEN 2 * MaxOps ELSE Len(u)
        /\ \A i \in 1 .. Len(Shown(u)) : Shown(u)[i] = u[Len(u) - Len(Shown(u)) + i]
    BY <1>1, ShownIs
  <2>2. Len(u) = l + 2
    BY <1>1
  <2>3. /\ Len(Shown(u)) = IF l + 2 > 2 * MaxOps THEN 2 * MaxOps ELSE l + 2
        /\ \A i \in 1 .. Len(Shown(u)) : Shown(u)[i] = u[l + 2 - Len(Shown(u)) + i]
    <3>1. Len(Shown(u)) = IF l + 2 > 2 * MaxOps THEN 2 * MaxOps ELSE l + 2
      BY ONLY <2>1, <2>2
    <3>2. ASSUME NEW i \in 1 .. Len(Shown(u)) PROVE Shown(u)[i] = u[l + 2 - Len(Shown(u)) + i]
      <4>1. Shown(u)[i] = u[Len(u) - Len(Shown(u)) + i]
        BY <2>1, <3>2
      <4>2. Len(u) - Len(Shown(u)) + i = l + 2 - Len(Shown(u)) + i
        <5>1. Len(Shown(u)) \in Nat /\ l \in Nat
          BY <1>1, <2>1, LenProperties
        <5> QED
          BY ONLY <2>2, <5>1, i \in 1 .. Len(Shown(u))
      <4> QED
        BY <4>1, <4>2
    <3> QED
      BY <3>1, <3>2
  <2> QED
    BY <2>1, <2>3, Zenon
<1> HIDE DEF u, v, x, l
(* Both logs, command by command.                                          *)
<1>4. /\ log \in Seq(S) /\ Len(log) = Len(v) \div 2
      /\ \A i \in 1 .. Len(v) \div 2 : log[i] = <<ByteOf(v[2 * i - 1]), ByteOf(v[2 * i])>>
  BY <1>2, CommandsType DEF Pairs
<1>5. /\ Commands(x) \in Seq(S) /\ Len(Commands(x)) = Len(x) \div 2
      /\ \A i \in 1 .. Len(x) \div 2 : Commands(x)[i] = <<ByteOf(x[2 * i - 1]), ByteOf(x[2 * i])>>
  BY <1>3, CommandsType DEF Pairs
<1>6. c \in Bytes /\ "newline" \in Bytes /\ ByteOf(<<c, 1>>) = c /\ ByteOf(<<c, 2>>) = "newline"
  <2>1. ByteOf(<<c, 1>>) = c /\ ByteOf(<<c, 2>>) = "newline"
    BY DEF ByteOf
  <2>2. <<c, 1>> \in Units /\ <<c, 2>> \in Units
    BY UnitsOfClients
  <2>3. ByteOf(<<c, 1>>) \in Bytes /\ ByteOf(<<c, 2>>) \in Bytes
    BY <2>2, Zenon DEF Bytes
  <2> QED
    BY <2>1, <2>3
<1>7. <<c, "newline">> \in S
  BY <1>6
<1> HIDE DEF S, log
<1>8. CASE l < 2 * MaxOps
  <2> DEFINE h == l \div 2
  <2>1. /\ Len(v) = l /\ Len(x) = l + 2 /\ h \in Nat /\ (l + 2) \div 2 = h + 1
        /\ h < MaxOps /\ l = 2 * h /\ l \div 2 = h
    <3>1. \A a, m \in Nat : a % 2 = 0 /\ a < 2 * m =>
            /\ a + 2 <= 2 * m /\ a \div 2 \in Nat /\ (a + 2) \div 2 = a \div 2 + 1
            /\ a \div 2 < m /\ a = 2 * (a \div 2)
      OBVIOUS
    <3>2. /\ l + 2 <= 2 * MaxOps /\ h \in Nat /\ (l + 2) \div 2 = h + 1 /\ h < MaxOps /\ l = 2 * h
      BY <1>0, <1>1, <1>8, <3>1
    <3>3. ~(l > 2 * MaxOps) /\ ~(l + 2 > 2 * MaxOps)
      BY <1>0, <1>1, <3>2
    <3> QED
      BY <1>2, <1>3, <3>2, <3>3, Zenon
  <2> HIDE DEF h
  <2>2. new = Append(log, <<c, "newline">>)
    BY <1>4, <2>1
  <2>3. /\ new \in Seq(S) /\ Len(new) = h + 1 /\ new[h + 1] = <<c, "newline">>
        /\ \A i \in 1 .. h : new[i] = log[i]
    BY <1>4, <1>7, <2>1, <2>2, AppendProperties
  <2>4. ASSUME NEW i \in 1 .. h + 1 PROVE Commands(x)[i] = new[i]
    <3>1. Commands(x)[i] = <<ByteOf(x[2 * i - 1]), ByteOf(x[2 * i])>>
      BY <1>5, <2>1
    <3>2. /\ 2 * i - 1 \in 1 .. Len(x) /\ x[2 * i - 1] = u[2 * i - 1]
          /\ 2 * i \in 1 .. Len(x) /\ x[2 * i] = u[2 * i]
      <4>1. /\ 2 * i - 1 \in 1 .. Len(x) /\ 2 * i \in 1 .. Len(x)
            /\ l + 2 - Len(x) + (2 * i - 1) = 2 * i - 1 /\ l + 2 - Len(x) + 2 * i = 2 * i
        <5>1. \A n, k \in Nat : \A j \in 1 .. k + 1 : n = 2 * k =>
                /\ 2 * j - 1 \in 1 .. n + 2 /\ 2 * j \in 1 .. n + 2
                /\ n + 2 - (n + 2) + (2 * j - 1) = 2 * j - 1 /\ n + 2 - (n + 2) + 2 * j = 2 * j
          OBVIOUS
        <5>2. l \in Nat /\ h \in Nat /\ l = 2 * h /\ Len(x) = l + 2
          BY <1>1, <2>1
        <5>3. /\ 2 * i - 1 \in 1 .. l + 2 /\ 2 * i \in 1 .. l + 2
              /\ l + 2 - (l + 2) + (2 * i - 1) = 2 * i - 1 /\ l + 2 - (l + 2) + 2 * i = 2 * i
          BY <5>1, <5>2
        <5> QED
          BY <5>2, <5>3, Zenon
      <4> QED
        BY <1>3, <4>1
    <3>3. CASE i = h + 1
      <4>1. 2 * i - 1 = l + 1 /\ 2 * i = l + 2
        BY <1>1, <2>1, <3>3
      <4>2. x[2 * i - 1] = <<c, 1>> /\ x[2 * i] = <<c, 2>>
        BY <1>1, <3>2, <4>1
      <4>3. Commands(x)[i] = <<c, "newline">>
        BY <1>6, <3>1, <4>2
      <4> QED
        BY <2>3, <3>3, <4>3
    <3>4. CASE i # h + 1
      <4>1. i \in 1 .. h /\ 2 * i - 1 \in 1 .. l /\ 2 * i \in 1 .. l
        BY <1>1, <2>1, <3>4
      <4>2. /\ u[2 * i - 1] = w[2 * i - 1] /\ v[2 * i - 1] = w[2 * i - 1]
            /\ u[2 * i] = w[2 * i] /\ v[2 * i] = w[2 * i]
        BY <1>1, <1>2, <2>1, <4>1
      <4>3. log[i] = <<ByteOf(v[2 * i - 1]), ByteOf(v[2 * i])>> /\ new[i] = log[i]
        BY <1>4, <2>1, <2>3, <4>1
      <4> QED
        BY <3>1, <3>2, <4>2, <4>3
    <3> QED
      BY <3>3, <3>4
  <2>5. Commands(x) = new
    <3> HIDE DEF new
    <3> QED
      BY <1>5, <2>1, <2>3, <2>4, SeqEqual
  <2> QED
    BY <2>5 DEF u, v, x, log
<1>9. CASE ~(l < 2 * MaxOps)
  <2> DEFINE q == MaxOps - 1
  <2>1. /\ Len(v) = 2 * MaxOps /\ Len(x) = 2 * MaxOps /\ (2 * MaxOps) \div 2 = MaxOps
        /\ q \in Nat /\ MaxOps = q + 1
    <3>1. \A a, m \in Nat : m > 0 /\ ~(a < 2 * m) =>
            /\ (a > 2 * m \/ a = 2 * m) /\ a + 2 > 2 * m /\ (2 * m) \div 2 = m
            /\ m - 1 \in Nat /\ m = (m - 1) + 1
      OBVIOUS
    <3>2. /\ (l > 2 * MaxOps \/ l = 2 * MaxOps) /\ l + 2 > 2 * MaxOps
          /\ (2 * MaxOps) \div 2 = MaxOps /\ q \in Nat /\ MaxOps = q + 1
      BY <1>0, <1>1, <1>9, <3>1
    <3> QED
      BY <1>2, <1>3, <3>2, Zenon
  <2> HIDE DEF q
  <2>2. Len(log) = q + 1 /\ new = Append(Tail(log), <<c, "newline">>)
    BY <1>4, <2>1
  <2>3. /\ Tail(log) \in Seq(S) /\ Len(Tail(log)) = q
        /\ \A i \in 1 .. q : Tail(log)[i] = log[i + 1]
    <3>1. log # << >>
      BY <2>1, <2>2
    <3> QED
      BY <1>4, <2>1, <2>2, <3>1, HeadTailProperties
  <2>4. /\ new \in Seq(S) /\ Len(new) = q + 1 /\ new[q + 1] = <<c, "newline">>
        /\ \A i \in 1 .. q : new[i] = log[i + 1]
    BY <1>7, <2>2, <2>3, AppendProperties
  <2>5. ASSUME NEW i \in 1 .. q + 1 PROVE Commands(x)[i] = new[i]
    <3>0. i \in Nat /\ i > 0 /\ i <= q + 1
      BY <2>1
    <3>1. Commands(x)[i] = <<ByteOf(x[2 * i - 1]), ByteOf(x[2 * i])>>
      BY <1>5, <2>1
    <3>2. /\ x[2 * i - 1] = u[l + 2 - 2 * MaxOps + (2 * i - 1)]
          /\ x[2 * i] = u[l + 2 - 2 * MaxOps + 2 * i]
      BY <1>3, <2>1, SMTT(30)
    <3>3. CASE i = q + 1
      <4>1. l + 2 - 2 * MaxOps + (2 * i - 1) = l + 1 /\ l + 2 - 2 * MaxOps + 2 * i = l + 2
        BY <1>1, <2>1, <3>3
      <4>2. x[2 * i - 1] = <<c, 1>> /\ x[2 * i] = <<c, 2>>
        BY <1>1, <3>2, <4>1
      <4>3. Commands(x)[i] = <<c, "newline">>
        BY <1>6, <3>1, <4>2
      <4> QED
        BY <2>4, <3>3, <4>3
    <3>4. CASE i # q + 1
      <4>1. /\ i \in 1 .. q /\ i + 1 \in 1 .. MaxOps
            /\ 2 * (i + 1) - 1 \in 1 .. 2 * MaxOps /\ 2 * (i + 1) \in 1 .. 2 * MaxOps
            /\ l + 2 - 2 * MaxOps + (2 * i - 1) = l - 2 * MaxOps + (2 * (i + 1) - 1)
            /\ l + 2 - 2 * MaxOps + 2 * i = l - 2 * MaxOps + 2 * (i + 1)
            /\ l - 2 * MaxOps + (2 * (i + 1) - 1) \in 1 .. l /\ l - 2 * MaxOps + 2 * (i + 1) \in 1 .. l
        BY <1>0, <1>1, <1>9, <2>1, <3>0, <3>4
      <4>2. /\ v[2 * (i + 1) - 1] = w[l - 2 * MaxOps + (2 * (i + 1) - 1)]
            /\ v[2 * (i + 1)] = w[l - 2 * MaxOps + 2 * (i + 1)]
        BY <1>2, <2>1, <4>1
      <4>3. x[2 * i - 1] = v[2 * (i + 1) - 1] /\ x[2 * i] = v[2 * (i + 1)]
        BY <1>1, <3>2, <4>1, <4>2
      <4>4. log[i + 1] = <<ByteOf(v[2 * (i + 1) - 1]), ByteOf(v[2 * (i + 1)])>> /\ new[i] = log[i + 1]
        BY <1>4, <2>1, <2>4, <4>1
      <4> QED
        BY <3>1, <4>3, <4>4
    <3> QED
      BY <3>3, <3>4
  <2>6. Commands(x) = new
    <3> HIDE DEF new
    <3> QED
      BY <1>5, <2>1, <2>4, <2>5, SeqEqual
  <2> QED
    BY <2>6 DEF u, v, x, log
<1> QED
  BY <1>8, <1>9
-----------------------------------------------------------------------------
(* The calls of the device.                                                *)

(* A thread has a file_fd from open to close; it starts at position 0.     *)
HasFile == {"recv_check", "recv", "seek_lock", "seek", "write_lock", "write", "write_rest",
            "lseek", "send_lock", "send"}
FileInv ==
  \A c \in Client : /\ thread[c] \in HasFile => file[c] = "open"
                    /\ file[c] = "none" => f_pos[c] = 0

(* What the steps of the others leave alone.                               *)
LEMMA FilesAside ==
  ASSUME IInv,
         \/ MainStep \/ signal_handler \/ StamperStep
         \/ \E c \in Client, r \in Request : Connect(c, r)
  PROVE  UNCHANGED <<file, f_pos, reply>> /\ (Device => UNCHANGED written)
<1> USE DEF mainVars, setupVars, threadVars, clientVars, stampVars, MainOnly
<1>1. CASE MainStep
  <2>1. CASE SetUp
    BY <2>1, SetupFrame DEF IInv
  <2>2. CASE CheckActive \/ Accept \/ Insert \/ LockList \/ SweepEnds \/ LockCleanup \/ DrainEnds
    BY <2>2 DEF CheckActive, Accept, Insert, LockList, SweepEnds, LockCleanup, DrainEnds
  <2>3. CASE Sweep \/ Drain \/ Spawn \/ Exit
    BY <2>3 DEF Sweep, Drain, Spawn, Exit
  <2> QED
    BY <1>1, <2>1, <2>2, <2>3 DEF MainStep
<1>2. CASE signal_handler
  BY <1>2 DEF signal_handler
<1>3. CASE StamperStep
  <2>1. Device => stamper = "none"
    BY DEF IInv, StamperInv
  <2> QED
    BY <1>3, <2>1 DEF StamperStep, StamperCheck, StamperWrite, StamperWake, StamperOnly
<1>4. CASE \E c \in Client, r \in Request : Connect(c, r)
  BY <1>4 DEF Connect
<1> QED
  BY <1>1, <1>2, <1>3, <1>4

LEMMA FileStep ==
  ASSUME IInv, FileInv, Next
  PROVE  FileInv'
<1>0. TypeOK /\ ClientInv
  BY DEF IInv
<1> USE DEF mainVars, setupVars, threadVars, clientVars, stampVars, FileInv, HasFile
<1>1. CASE MainStep \/ signal_handler \/ StamperStep \/ \E c \in Client, r \in Request : Connect(c, r)
  <2>1. UNCHANGED <<file, f_pos>>
    BY <1>1, FilesAside
  <2>2. \A c \in Client : thread'[c] \in HasFile => thread[c] \in HasFile
    <3>1. CASE MainStep
      BY <3>1, MainFrame
    <3>2. CASE signal_handler
      BY <1>0, <3>2 DEF signal_handler, TypeOK
    <3>3. CASE StamperStep
      BY <3>3 DEF StamperStep, StamperCheck, StamperWrite, StamperWake, StamperOnly
    <3>4. CASE \E c \in Client, r \in Request : Connect(c, r)
      BY <3>4 DEF Connect
    <3> QED
      BY <1>1, <3>1, <3>2, <3>3, <3>4
  <2> QED
    BY <2>1, <2>2
<1>2. ASSUME NEW c \in Client, ThreadStep(c) PROVE FileInv'
  <2>0. \A d \in Client : d # c => thread'[d] = thread[d] /\ file'[d] = file[d] /\ f_pos'[d] = f_pos[d]
    BY <1>0, <1>2, ThreadFrame
  <2>1. thread'[c] \in HasFile => file'[c] = "open"
    <3> USE <1>0 DEF TypeOK, Goto, ThreadOnly, FailUnlocked
    <3>1. CASE OpenFile(c) \/ AllocFails(c) \/ RecvCheck(c) \/ Recv(c) \/ LockFile(c)
      BY <3>1 DEF OpenFile, AllocFails, RecvCheck, Recv, LockFile
    <3>2. CASE Ioctl(c) \/ Write(c) \/ Lseek(c) \/ Send(c) \/ SigPipe(c)
      BY <3>2 DEF Ioctl, AfterIoctl, Write, Lseek, Send, SigPipe
    <3>3. CASE Close(c) \/ Finish(c) \/ ThreadExit(c)
      BY <3>3 DEF Close, Finish, ThreadExit
    <3> QED
      BY <1>2, <3>1, <3>2, <3>3 DEF ThreadStep
  <2>2. file'[c] = "none" => f_pos'[c] = 0
    <3> USE <1>0 DEF TypeOK, ThreadOnly
    <3>1. CASE OpenFile(c) \/ AllocFails(c) \/ RecvCheck(c) \/ Recv(c) \/ LockFile(c)
      BY <3>1 DEF OpenFile, AllocFails, RecvCheck, Recv, LockFile
    <3>2. CASE Ioctl(c) \/ Write(c) \/ Lseek(c) \/ Send(c) \/ SigPipe(c)
      BY <3>2 DEF Ioctl, AfterIoctl, Write, Lseek, Send, SigPipe
    <3>3. CASE Close(c) \/ Finish(c) \/ ThreadExit(c)
      BY <3>3 DEF Close, Finish, ThreadExit
    <3> QED
      BY <1>2, <3>1, <3>2, <3>3 DEF ThreadStep
  <2> QED
    BY <2>0, <2>1, <2>2
<1> QED
  BY <1>1, <1>2 DEF Next

(* What the device holds and who has it open follow the server's state.    *)
LEMMA DeviceSame ==
  ASSUME Device, UNCHANGED written
  PROVE  UNCHANGED DeviceLog
BY DEF DeviceLog, Visible

LEMMA DeviceShown ==
  ASSUME Device
  PROVE  DeviceLog = Commands(Shown(written)) /\ DeviceLog' = Commands(Shown(written'))
BY DEF DeviceLog, Commands, Visible, Shown

LEMMA FilesOf ==
  ASSUME TypeOK, NEW c \in Client
  PROVE  /\ file' = [file EXCEPT ![c] = "open"] => DeviceFiles' = DeviceFiles \cup {c}
         /\ file' = [file EXCEPT ![c] = "none"] => DeviceFiles' = DeviceFiles \ {c}
         /\ file' = file => DeviceFiles' = DeviceFiles
         /\ c \in DeviceFiles <=> file[c] = "open"
<1>1. file \in [Client -> {"none", "open"}]
  BY DEF TypeOK
<1> QED
  BY <1>1 DEF DeviceFiles

(* The calls of a client's thread, one by one.                             *)
LEMMA OpenCalls ==
  ASSUME IInv, FileInv, Device, NEW c \in Client, OpenFile(c) \/ Close(c)
  PROVE  DeviceCall(c) \/ UNCHANGED <<DeviceLog, DeviceFiles, f_pos>>
<1>0. /\ TypeOK /\ f_pos \in [Client -> Nat] /\ file \in [Client -> {"none", "open"}]
      /\ (file[c] = "none" => f_pos[c] = 0) /\ (file[c] = "open" => thread[c] \notin Idle)
  BY DEF IInv, TypeOK, FileInv, ClientInv
<1>1. UNCHANGED written /\ UNCHANGED DeviceLog
  <2>1. UNCHANGED written
    BY DEF OpenFile, Close
  <2> QED
    BY <2>1, DeviceSame
<1>2. CASE OpenFile(c)
  <2>1. UNCHANGED f_pos /\ thread[c] = "open"
    BY <1>2 DEF OpenFile
  <2>2. file[c] = "none" /\ f_pos[c] = 0
    BY <1>0, <2>1 DEF Idle
  <2>3. f_pos' = [f_pos EXCEPT ![c] = 0]
    BY <1>0, <2>1, <2>2
  <2>4. CASE UNCHANGED file
    BY <1>0, <1>1, <2>1, <2>4, FilesOf
  <2>5. CASE file' = [file EXCEPT ![c] = "open"]
    <3>1. c \notin DeviceFiles /\ DeviceFiles' = DeviceFiles \cup {c}
      BY <1>0, <2>2, <2>5, FilesOf
    <3>2. Dev!Open(c)
      BY <1>1, <2>3, <3>1 DEF Dev!Open
    <3> QED
      BY <3>2 DEF DeviceCall
  <2> QED
    BY <1>2, <2>4, <2>5 DEF OpenFile
<1>3. CASE Close(c)
  <2>1. f_pos' = [f_pos EXCEPT ![c] = 0] /\ file' = [file EXCEPT ![c] = "none"]
    BY <1>3 DEF Close
  <2>2. CASE file[c] = "none"
    <3>1. UNCHANGED <<f_pos, file>>
      BY <1>0, <2>1, <2>2
    <3> QED
      BY <1>0, <1>1, <3>1, FilesOf
  <2>3. CASE file[c] = "open"
    <3>1. c \in DeviceFiles /\ DeviceFiles' = DeviceFiles \ {c}
      BY <1>0, <2>1, <2>3, FilesOf
    <3>2. Dev!Close(c)
      BY <1>1, <2>1, <3>1 DEF Dev!Close
    <3> QED
      BY <3>2 DEF DeviceCall
  <2> QED
    BY <1>0, <2>2, <2>3
<1> QED
  BY <1>2, <1>3

LEMMA WriteCalls ==
  ASSUME IInv, FileInv, Device, NEW c \in Client, Write(c)
  PROVE  DeviceCall(c) \/ UNCHANGED <<DeviceLog, DeviceFiles, f_pos>>
<1>0. TypeOK /\ OutputInv /\ written \in Seq(Units) /\ Len(written) % 2 = 0
  BY DEF IInv, TypeOK, OutputInv
<1>1. thread[c] = "write" /\ UNCHANGED file
  BY <1>0 DEF Write, OutputInv
<1>2. c \in DeviceFiles /\ UNCHANGED DeviceFiles
  BY <1>0, <1>1, FilesOf DEF FileInv, HasFile
<1>3. CASE UNCHANGED <<written, f_pos>>
  BY <1>2, <1>3, DeviceSame
<1>4. CASE Store(c, Packet(c))
  <2> DEFINE command == << >> \o <<c, "newline">>
  <2>1. written' = written \o Packet(c) /\ f_pos' = [f_pos EXCEPT ![c] = @ + Len(Packet(c))]
    BY <1>4 DEF Store
  <2>2. Len(Packet(c)) = 2 /\ Len(<<c, "newline">>) = 2
    BY DEF Packet
  <2>3. f_pos' = [f_pos EXCEPT ![c] = @ + Len(<<c, "newline">>)]
    BY <2>1, <2>2
  <2>4. command = <<c, "newline">> /\ "newline" \in Range(command)
    BY DEF Range
  <2>5. DeviceLog' = Append(IF Len(DeviceLog) < MaxOps THEN DeviceLog ELSE Tail(DeviceLog),
                            <<c, "newline">>)
    BY <1>0, <2>1, DeviceShown, PacketRemembered
  <2>6. Dev!Takes(c, <<c, "newline">>)
    BY <2>3, <2>4, <2>5 DEF Dev!Takes, Dev!Commands!Remember, Dev!Range, Range
  <2> QED
    BY <1>2, <2>6 DEF DeviceCall
<1> QED
  BY <1>1, <1>3, <1>4 DEF Write

LEMMA SendCalls ==
  ASSUME IInv, FileInv, Device, NEW c \in Client, Send(c) \/ Lseek(c)
  PROVE  DeviceCall(c) \/ UNCHANGED <<DeviceLog, DeviceFiles, f_pos>>
<1>0. /\ TypeOK /\ OutputInv /\ f_pos \in [Client -> Nat] /\ reply \in [Client -> Seq(Units)]
  BY DEF IInv, TypeOK
<1>1. UNCHANGED <<written, file>> /\ thread[c] \in {"send", "lseek"}
  BY DEF Send, Lseek
<1>2. c \in DeviceFiles /\ UNCHANGED DeviceFiles /\ UNCHANGED DeviceLog
  BY <1>0, <1>1, FilesOf, DeviceSame DEF FileInv, HasFile
<1>3. CASE UNCHANGED f_pos
  BY <1>2, <1>3
<1>4. CASE Lseek(c) /\ f_pos' = [f_pos EXCEPT ![c] = 0]
  <2>1. DevRewind(c)
    BY <1>2, <1>4 DEF DevRewind, Dev!Moves, Lseek
  <2> QED
    BY <1>2, <2>1 DEF DeviceCall
<1>5. CASE /\ f_pos[c] < Len(Visible)
           /\ reply' = [reply EXCEPT ![c] = Append(@, Visible[f_pos[c] + 1])]
           /\ f_pos' = [f_pos EXCEPT ![c] = @ + 1]
  <2> DEFINE p == f_pos[c]
             u == Visible[p + 1]
             r == reply[c]
  <2>1. /\ Len(Dev!Stream) = Len(Visible) /\ Len(Visible) \in Nat
        /\ \A k \in 1 .. Len(Visible) : Dev!Stream[k] = ByteOf(Visible[k])
    BY <1>0, StreamIs
  <2>2. p \in Nat /\ p + 1 \in 1 .. Len(Visible) /\ p < Len(Dev!Stream)
    BY <1>0, <1>5, <2>1
  <2>3. u \in Units /\ r \in Seq(Units)
    BY <1>0, <2>2, VisibleType, ElementOfSeq
  <2>4. reply'[c] = Append(r, u)
    BY <1>0, <1>5
  <2>5. Len(Append(r, u)) = Len(r) + 1 /\ Append(r, u)[Len(r) + 1] = u
    BY <2>3, AppendProperties
  <2>6. Len(reply'[c]) = Len(reply[c]) + 1 /\ Last(reply'[c]) = u
    BY <2>4, <2>5 DEF Last
  <2>7. ByteOf(Last(reply'[c])) = Dev!Stream[f_pos[c] + 1]
    BY <2>1, <2>2, <2>6
  <2>8. Dev!Moves(c, f_pos[c] + 1)
    BY <1>2, <1>5 DEF Dev!Moves
  <2>9. DevRead(c)
    BY <2>2, <2>6, <2>7, <2>8 DEF DevRead
  <2> QED
    BY <1>2, <2>9 DEF DeviceCall
<1> QED
  BY <1>3, <1>4, <1>5 DEF Send, Lseek, Rewound

LEMMA IoctlCalls ==
  ASSUME IInv, FileInv, Device, NEW c \in Client, Ioctl(c)
  PROVE  DeviceCall(c) \/ UNCHANGED <<DeviceLog, DeviceFiles, f_pos>>
<1> DEFINE r == request[c]
           pos == 2 * r.cmd + r.off
<1>0. TypeOK /\ OutputInv /\ seekto \in [Client -> Units \cup {NULL}]
  BY DEF IInv, TypeOK
<1>1. UNCHANGED <<written, file>> /\ thread[c] = "seek"
  BY DEF Ioctl, AfterIoctl
<1>2. c \in DeviceFiles /\ UNCHANGED DeviceFiles /\ UNCHANGED DeviceLog
  BY <1>0, <1>1, FilesOf, DeviceSame DEF FileInv, HasFile
<1>3. CASE UNCHANGED f_pos
  BY <1>2, <1>3
<1>4. ASSUME 2 * r.cmd < Len(Visible), r.off < 2,
             f_pos' = [f_pos EXCEPT ![c] = pos],
             seekto' = [seekto EXCEPT ![c] = Visible[pos + 1]]
      PROVE  DeviceCall(c)
  <2>1. r.kind = "seek" /\ r.cmd \in Nat /\ r.off \in Nat
    BY <1>0, <1>1, RequestAssumption DEF IInv, ClientInv, TypeOK
  <2>2. /\ Dev!HasByte(r.cmd, r.off) /\ Dev!PositionOf(r.cmd, r.off) = pos
        /\ DeviceLog[r.cmd + 1][r.off + 1] = ByteOf(Visible[pos + 1])
    BY <1>0, <1>4, <2>1, SeekIs
  <2>3. seekto'[c] = Visible[pos + 1]
    BY <1>0, <1>4
  <2>4. Visible[pos + 1] \in Units
    <3>1. Visible \in Seq(Units) /\ Len(Visible) \in Nat /\ Len(Visible) % 2 = 0
      BY <1>0, VisibleType, EvenVisible
    <3>2. pos + 1 \in 1 .. Len(Visible)
      BY <1>4, <2>1, <3>1, EvenIndex
    <3> QED
      BY <3>1, <3>2, ElementOfSeq
  <2>5. seekto'[c] # NULL
    BY <2>3, <2>4, UnitAssumption
  <2>6. Dev!Moves(c, Dev!PositionOf(r.cmd, r.off))
    BY <1>2, <1>4, <2>2 DEF Dev!Moves
  <2>7. DevSeek(c)
    BY <2>1, <2>2, <2>3, <2>5, <2>6 DEF DevSeek
  <2> QED
    BY <1>2, <2>7 DEF DeviceCall
<1> QED
  BY <1>3, <1>4 DEF Ioctl, AfterIoctl

(* Nobody but the clients' threads calls the device.                       *)
LEMMA ServerCalls ==
  ASSUME IInv, FileInv, Device, Next
  PROVE  (\E c \in Client : DeviceCall(c)) \/ UNCHANGED <<DeviceLog, DeviceFiles, f_pos>>
<1>1. CASE MainStep \/ signal_handler \/ StamperStep \/ \E c \in Client, r \in Request : Connect(c, r)
  <2>1. UNCHANGED <<file, f_pos, written>>
    BY <1>1, FilesAside
  <2> QED
    BY <2>1, DeviceSame DEF DeviceFiles
<1>2. ASSUME NEW c \in Client, ThreadStep(c)
      PROVE  DeviceCall(c) \/ UNCHANGED <<DeviceLog, DeviceFiles, f_pos>>
  <2>1. CASE \/ AllocFails(c) \/ RecvCheck(c) \/ Recv(c) \/ LockFile(c)
             \/ SigPipe(c) \/ Finish(c) \/ ThreadExit(c)
    <3>1. UNCHANGED <<file, f_pos, written>>
      BY <2>1 DEF AllocFails, RecvCheck, Recv, LockFile, SigPipe, Finish, ThreadExit, threadVars
    <3> QED
      BY <3>1, DeviceSame DEF DeviceFiles
  <2> QED
    BY <1>2, <2>1, OpenCalls, WriteCalls, SendCalls, IoctlCalls DEF ThreadStep
<1> QED
  BY <1>1, <1>2 DEF Next

(***************************************************************************)
(* In the device build, everything the server does to /dev/aesdchar and to *)
(* the positions of its files is a call that the device answers as AesdLog *)
(* promises, for any number of clients in any interleaving: a packet is    *)
(* one command, a reply is read byte by byte from the stream, and a seek   *)
(* selects the byte the client asked for.                                  *)
(***************************************************************************)
THEOREM DeviceUsedAsPromised ==
  ASSUME Device
  PROVE  Spec => UsesDevice
<1>1. Init => FileInv
  BY DEF Init, FileInv, HasFile
<1>2. IInv /\ FileInv /\ [Next]_vars => FileInv'
  <2>1. ASSUME FileInv, UNCHANGED vars PROVE FileInv'
    BY <2>1 DEF FileInv, vars, threadVars
  <2> QED
    BY <2>1, FileStep
<1>3. IInv /\ FileInv /\ [Next]_vars =>
        [\E c \in Client : DeviceCall(c)]_<<DeviceLog, DeviceFiles, f_pos>>
  <2>1. ASSUME UNCHANGED vars PROVE UNCHANGED <<DeviceLog, DeviceFiles, f_pos>>
    BY <2>1, DeviceSame DEF vars, threadVars, DeviceFiles
  <2> QED
    BY <2>1, ServerCalls
<1> QED
  BY <1>1, <1>2, <1>3, IInvHolds, PTL DEF Spec, UsesDevice
=============================================================================
