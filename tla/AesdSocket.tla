----------------------------- MODULE AesdSocket -----------------------------
(***************************************************************************)
(* The server of server/aesdsocket.c: the main thread, one thread for each *)
(* accepted client, the stamper thread (file build only), the two mutexes  *)
(* and the list of struct thread_data.                                     *)
(*                                                                         *)
(* A client connects once, with one request.  Its packet is two units of   *)
(* text, so that a short write can leave half of it; OUTPUT_FILE is the    *)
(* sequence of units ever written, of which the device shows the last      *)
(* MaxOps packets and the file shows all.  An action is what a thread does *)
(* between two points where another thread can interfere.                  *)
(***************************************************************************)
EXTENDS Integers, SequencesExt

CONSTANTS
  Client,      \* the clients, each with its connection and its thread
  Device,      \* USE_AESD_CHAR_DEVICE is defined: OUTPUT_FILE is /dev/aesdchar
  MaxOps,      \* the commands the device keeps
  Earlier,     \* packets the device holds when the server starts
  Request,     \* what a client can ask for, and whether it may leave before it
               \* has read the whole reply
  MaxStamps,   \* bound on the time stamps written
  Stamper, Main, NULL

ASSUME ActorAssumption ==
  /\ Stamper \notin Client /\ Main \notin Client /\ NULL \notin Client
  /\ Stamper # Main /\ NULL \notin {Main, Stamper}
ASSUME OutputAssumption ==
  Device \in BOOLEAN /\ MaxOps \in Nat \ {0} /\ MaxStamps \in Nat \ {0}
ASSUME EarlierAssumption ==   \* every connection of this run is a new client
  Earlier \in Seq(Range(Earlier)) /\ Range(Earlier) \cap Client = {}
ASSUME RequestAssumption ==   \* both numbers of a seek command are unsigned
  \A r \in Request : /\ r.leaves \in BOOLEAN
                     /\ r.kind = "seek" => r.cmd \in Nat /\ r.off \in Nat

VARIABLES
  active,       \* cleared by signal_handler
  main,         \* where the main thread is
  server_fd,    \* the listening socket: "none", "open" or "closed"
  server_addr,  \* the addrinfo list: "none", "live" or "freed"; each of the two
                \* is a "fault" when it is given back and not held
  cur,          \* main: the client it has accepted, or NULL
  todo,         \* main: what SLIST_FOREACH_SAFE has still to visit
  head,         \* the thread pool list
  list_mutex,   \* its holder, or NULL; client threads take it and give it back
                \* in one step
  file_mutex,   \* its holder, or NULL
  block,        \* a client's struct thread_data: "none" or "live"
  complete,     \* its thread_complete
  thread,       \* where the client's thread is
  sock,         \* the client's connection: "none", "pending", "open", "closed"
  file,         \* the thread's file_fd: "none" or "open"
  f_pos,        \* the position of file_fd, in units
  request,      \* what the client asks for
  received,     \* receive_data: bytes_received has been assigned
  seekto,       \* the unit that AESDCHAR_IOCSEEKTO selected, or NULL
  served,       \* send_data returned 0
  reply,        \* the units sent to the client
  stamper,      \* where the stamper thread is
  stamps,       \* the time stamps written
  written       \* every unit ever written to OUTPUT_FILE

setupVars  == <<server_fd, server_addr>>
mainVars   == <<setupVars, main, cur, todo, head, block>>
threadVars == <<complete, thread, file, f_pos, received, seekto, served, reply>>
clientVars == <<sock, request>>
stampVars  == <<stamper, stamps>>
vars == <<active, mainVars, list_mutex, file_mutex, threadVars, clientVars,
          stampVars, written>>

Packet(who) == <<<<who, 1>>, <<who, 2>>>>

(* What a file_fd shows; its position counts from the first unit of this.  *)
Visible ==
  IF Device /\ Len(written) > 2 * MaxOps
  THEN SubSeq(written, Len(written) - 2 * MaxOps + 1, Len(written))
  ELSE written
-----------------------------------------------------------------------------
Starting == {"getaddrinfo", "socket", "setsockopt", "bind", "fork", "setsid", "chdir",
             "stamper", "listen"}

(* The world: clients connect, users send SIGINT or SIGTERM.               *)

Connect(c, r) ==
  /\ main \notin Starting \cup {"exited", "killed"}
  /\ sock[c] = "none"
  /\ sock' = [sock EXCEPT ![c] = "pending"]
  /\ request' = [request EXCEPT ![c] = r]
  /\ UNCHANGED <<active, mainVars, list_mutex, file_mutex, threadVars, stampVars, written>>

(***************************************************************************)
(* signal_handler runs in one thread of the process.  sa_flags has no      *)
(* SA_RESTART: if that thread is blocked in accept or recv the call fails  *)
(* with EINTR, but not if it is just about to make the call.               *)
(***************************************************************************)
signal_handler ==
  /\ main \notin {"exited", "killed"}
  /\ active' = FALSE
  /\ \/ UNCHANGED <<main, thread>>
     \/ main = "accept" /\ main' = "loop" /\ UNCHANGED thread
     \/ \E c \in Client :
          /\ thread[c] = "recv"
          /\ thread' = [thread EXCEPT ![c] = "close"]
          /\ UNCHANGED main
  /\ UNCHANGED <<setupVars, cur, todo, head, block, list_mutex, file_mutex, complete, file,
                 f_pos, received, seekto, served, reply, clientVars, stampVars, written>>
-----------------------------------------------------------------------------
(* main.                                                                   *)

MainOnly == UNCHANGED <<active, setupVars, file_mutex, threadVars, clientVars, stampVars, written>>

(***************************************************************************)
(* The set-up.  Every call can fail, and each error path gives back by     *)
(* itself what main holds at that point before main returns.               *)
(***************************************************************************)
SetupOnly == UNCHANGED <<active, cur, todo, head, block, list_mutex, file_mutex, threadVars,
                         clientVars, stamps, written>>

freeaddrinfo == server_addr' = IF server_addr = "live" THEN "freed" ELSE "fault"

close == server_fd' = IF server_fd = "open" THEN "closed" ELSE "fault"

getaddrinfo ==
  /\ main = "getaddrinfo"
  /\ \/ main' = "socket" /\ server_addr' = "live"
     \/ main' = "exited" /\ UNCHANGED server_addr
  /\ UNCHANGED <<server_fd, stamper>> /\ SetupOnly

socket ==
  /\ main = "socket"
  /\ \/ main' = "setsockopt" /\ server_fd' = "open" /\ UNCHANGED server_addr
     \/ main' = "exited" /\ freeaddrinfo /\ UNCHANGED server_fd
  /\ UNCHANGED stamper /\ SetupOnly

(* Mistake: this error path forgets the socket.                            *)
SetsockoptFails_KeepsSocket == main' = "exited" /\ freeaddrinfo /\ UNCHANGED server_fd

SetsockoptFails == main' = "exited" /\ freeaddrinfo /\ close

setsockopt ==
  /\ main = "setsockopt"
  /\ \/ main' = "bind" /\ UNCHANGED setupVars
     \/ SetsockoptFails
  /\ UNCHANGED stamper /\ SetupOnly

(* After bind main goes on in this process or, with -d, as a daemon.       *)
bind ==
  /\ main = "bind"
  /\ \/ main' \in {"fork", "stamper"} /\ freeaddrinfo /\ UNCHANGED server_fd
     \/ main' = "exited" /\ freeaddrinfo /\ close
  /\ UNCHANGED stamper /\ SetupOnly

(* The child goes on with the socket; the parent exits at once.            *)
fork ==
  /\ main = "fork"
  /\ \/ main' = "setsid" /\ UNCHANGED server_fd
     \/ main' = "exited" /\ close
  /\ UNCHANGED <<server_addr, stamper>> /\ SetupOnly

setsid ==
  /\ main = "setsid"
  /\ \/ main' = "chdir" /\ UNCHANGED server_fd
     \/ main' = "exited" /\ close
  /\ UNCHANGED <<server_addr, stamper>> /\ SetupOnly

chdir ==
  /\ main = "chdir"
  /\ \/ main' = "stamper" /\ UNCHANGED server_fd
     \/ main' = "exited" /\ close
  /\ UNCHANGED <<server_addr, stamper>> /\ SetupOnly

(* The stamper thread of the file build.                                   *)
StartStamper ==
  /\ main = "stamper"
  /\ \/ /\ main' = "listen" /\ stamper' = IF Device THEN "none" ELSE "check"
        /\ UNCHANGED server_fd
     \/ ~Device /\ main' = "exited" /\ close /\ UNCHANGED stamper
  /\ UNCHANGED server_addr /\ SetupOnly

(* The error path does not join the stamper, which ends with the process.  *)
listen ==
  /\ main = "listen"
  /\ \/ main' = "loop" /\ UNCHANGED server_fd
     \/ main' = "exited" /\ close
  /\ UNCHANGED <<server_addr, stamper>> /\ SetupOnly

(* Mistake: the loop does not end.                                         *)
AfterTest_Forever == "accept"

AfterTest == IF active THEN "accept" ELSE "cleanup"

CheckActive ==
  /\ main = "loop"
  /\ main' = AfterTest
  /\ MainOnly /\ UNCHANGED <<cur, todo, head, block, list_mutex>>

(* Mistake: the result of client_setup is not tested.                      *)
AfterAccept_Unchecked(ok) == "spawn"

AfterAccept(ok) == IF ok THEN "spawn" ELSE "loop"

(* client_setup: accept takes a pending connection, or fails and the       *)
(* connection is gone.  (A failure that leaves it pending, such as EMFILE, *)
(* only takes the loop around once more.)                                  *)
Accept ==
  /\ main = "accept"
  /\ \E c \in Client, ok \in BOOLEAN :
       /\ sock[c] = "pending"
       /\ sock' = [sock EXCEPT ![c] = IF ok THEN "open" ELSE "closed"]
       /\ cur' = IF ok THEN c ELSE NULL
       /\ main' = AfterAccept(ok)
  /\ UNCHANGED <<active, setupVars, todo, head, block, list_mutex, file_mutex, threadVars,
                 request, stampVars, written>>

(***************************************************************************)
(* malloc of the thread_data and pthread_create; when one of them fails    *)
(* the connection is closed and the block, if any, is freed.               *)
(***************************************************************************)
Spawn ==
  /\ main = "spawn"
  /\ \/ /\ main' = "insert"
        /\ block' = [block EXCEPT ![cur] = "live"]
        /\ thread' = [thread EXCEPT ![cur] = "open"]
        /\ UNCHANGED <<cur, sock>>
     \/ /\ main' = "loop" /\ cur' = NULL
        /\ sock' = [sock EXCEPT ![cur] = "closed"]
        /\ UNCHANGED <<block, thread>>
  /\ UNCHANGED <<active, setupVars, todo, head, list_mutex, file_mutex, complete, file, f_pos,
                 received, seekto, served, reply, request, stampVars, written>>

(* SLIST_INSERT_HEAD: without list_mutex, only main touches the links.     *)
Insert ==
  /\ main = "insert"
  /\ head' = <<cur>> \o head
  /\ main' = "lock" /\ cur' = NULL
  /\ MainOnly /\ UNCHANGED <<todo, block, list_mutex>>

LockList ==
  /\ main = "lock" /\ list_mutex = NULL
  /\ list_mutex' = Main
  /\ main' = "sweep" /\ todo' = head
  /\ MainOnly /\ UNCHANGED <<cur, head, block>>

(* Mistake: the thread is not waited for.                                  *)
Joined_NoWait(c) == TRUE

(* pthread_join returns.                                                   *)
Joined(c) == thread[c] = "exited"

(* Mistake: every thread is joined, finished or not.                       *)
Finished_Any(c) == TRUE

Finished(c) == complete[c]

(* One turn of SLIST_FOREACH_SAFE: a finished thread is joined and freed.  *)
Sweep ==
  /\ main = "sweep" /\ todo # << >>
  /\ LET c == Head(todo)
     IN  IF Finished(c)
         THEN /\ Joined(c)
              /\ \E i \in DOMAIN head : head[i] = c /\ head' = RemoveAt(head, i)
              /\ block' = [block EXCEPT ![c] = "none"]
         ELSE UNCHANGED <<head, block>>
  /\ todo' = Tail(todo)
  /\ MainOnly /\ UNCHANGED <<main, cur, list_mutex>>

SweepEnds ==
  /\ main = "sweep" /\ todo = << >>
  /\ list_mutex' = NULL
  /\ main' = "loop"
  /\ MainOnly /\ UNCHANGED <<cur, todo, head, block>>

(* Shutdown: main takes list_mutex and keeps it until every thread ended.  *)
LockCleanup ==
  /\ main = "cleanup" /\ list_mutex = NULL
  /\ list_mutex' = Main
  /\ main' = "drain"
  /\ MainOnly /\ UNCHANGED <<cur, todo, head, block>>

Drain ==
  /\ main = "drain" /\ head # << >>
  /\ Joined(Head(head))
  /\ block' = [block EXCEPT ![Head(head)] = "none"]
  /\ head' = Tail(head)
  /\ MainOnly /\ UNCHANGED <<main, cur, todo, list_mutex>>

(* Mistake: only the first thread of the list is waited for.               *)
Drained_Any == TRUE

Drained == head = << >>

DrainEnds ==
  /\ main = "drain" /\ Drained
  /\ list_mutex' = NULL
  /\ main' = "join"
  /\ MainOnly /\ UNCHANGED <<cur, todo, head, block>>

(* The stamper is joined; the sockets are closed and the file is unlinked. *)
Exit ==
  /\ main = "join" /\ stamper \in {"none", "exited"}
  /\ main' = "exited" /\ close
  /\ sock' = [c \in Client |-> IF sock[c] = "pending" THEN "closed" ELSE sock[c]]
  /\ written' = IF Device THEN written ELSE << >>
  /\ UNCHANGED <<active, server_addr, cur, todo, head, block, list_mutex, file_mutex, threadVars,
                 request, stampVars>>
-----------------------------------------------------------------------------
(* client_handler.                                                         *)

Goto(c, l) == thread' = [thread EXCEPT ![c] = l]
ThreadOnly == UNCHANGED <<active, mainVars, list_mutex, stampVars, request>>

OpenFile(c) ==
  /\ thread[c] = "open"
  /\ \/ Goto(c, "close") /\ UNCHANGED file
     \/ Goto(c, "recv_check") /\ file' = [file EXCEPT ![c] = "open"]
  /\ ThreadOnly
  /\ UNCHANGED <<file_mutex, complete, f_pos, received, seekto, served, reply, sock, written>>

(* A malloc or realloc of receive_data or send_data fails.                 *)
AllocFails(c) ==
  /\ thread[c] \in {"recv_check", "send_lock"}
  /\ Goto(c, "close")
  /\ ThreadOnly
  /\ UNCHANGED <<file_mutex, complete, file, f_pos, received, seekto, served, reply, sock, written>>

(***************************************************************************)
(* The test of `active' before recv.  If the loop ends here before the     *)
(* first recv, bytes_received is compared with -1 uninitialised.           *)
(***************************************************************************)
RecvCheck(c) ==
  /\ thread[c] = "recv_check"
  /\ \/ active /\ Goto(c, "recv")
     \/ ~active /\ Goto(c, "lseek")
     \/ ~active /\ ~received[c] /\ Goto(c, "close")
  /\ ThreadOnly
  /\ UNCHANGED <<file_mutex, complete, file, f_pos, received, seekto, served, reply, sock, written>>

(***************************************************************************)
(* recv: the rest of the request, a part of it (once: one short recv       *)
(* stands for any number), or, if the client hung up, 0 or -1.             *)
(***************************************************************************)
Recv(c) ==
  /\ thread[c] = "recv"
  /\ received' = [received EXCEPT ![c] = TRUE]
  /\ \/ request[c].kind \in {"packet", "stalled"} /\ Goto(c, "write_lock")
     \/ request[c].kind = "seek" /\ Goto(c, "seek_lock")
     \/ request[c].kind = "hangup" /\ (Goto(c, "lseek") \/ Goto(c, "close"))
     \/ ~received[c] /\ Goto(c, "recv_check")
  /\ ThreadOnly
  /\ UNCHANGED <<file_mutex, complete, file, f_pos, seekto, served, reply, sock, written>>

(* Mistake: the thread goes on without file_mutex.                         *)
FileMutexFree_Any == TRUE

FileMutexFree == file_mutex = NULL

LockFile(c) ==
  /\ FileMutexFree
  /\ file_mutex' = c
  /\ \/ thread[c] = "write_lock" /\ Goto(c, "write")
     \/ thread[c] = "seek_lock" /\ Goto(c, "seek")
     \/ thread[c] = "send_lock" /\ Goto(c, "send")
  /\ ThreadOnly
  /\ UNCHANGED <<complete, file, f_pos, received, seekto, served, reply, sock, written>>

(* Mistake: an error return keeps file_mutex.                              *)
FailUnlocked_KeepsLock(c) == Goto(c, "close") /\ UNCHANGED file_mutex

(* An error under file_mutex: unlock and return -1.                        *)
FailUnlocked(c) == Goto(c, "close") /\ file_mutex' = NULL

(* Mistake: a seek command, too, is followed by the lseek to the start.    *)
AfterIoctl_Rewinds == "lseek"

(* ioctl_seekto_received: the lseek is skipped.                            *)
AfterIoctl == "send_lock"

(***************************************************************************)
(* AESDCHAR_IOCSEEKTO on the device, which then has to be valid; the file  *)
(* build always fails here.  A failure ends the connection.                *)
(***************************************************************************)
Ioctl(c) ==
  LET r == request[c]
      pos == 2 * r.cmd + r.off
  IN  /\ thread[c] = "seek"
      /\ \/ /\ Device /\ 2 * r.cmd < Len(Visible) /\ r.off < 2
            /\ f_pos' = [f_pos EXCEPT ![c] = pos]
            /\ seekto' = [seekto EXCEPT ![c] = Visible[pos + 1]]
            /\ Goto(c, AfterIoctl) /\ file_mutex' = NULL
         \/ FailUnlocked(c) /\ UNCHANGED <<f_pos, seekto>>
      /\ ThreadOnly
      /\ UNCHANGED <<complete, file, received, served, reply, sock, written>>

(* Mistake: a write to the device leaves the position where it is.         *)
Store_KeepsPosition(c, u) ==
  /\ written' = written \o u
  /\ f_pos' = [f_pos EXCEPT ![c] = IF Device THEN @ ELSE Len(written \o u)]

(* What a write of the units u does to OUTPUT_FILE and to the position.    *)
Store(c, u) ==
  /\ written' = written \o u
  /\ f_pos' = [f_pos EXCEPT ![c] = IF Device THEN @ + Len(u) ELSE Len(written \o u)]

(***************************************************************************)
(* The write loop: the rest of the packet, or (file only) half of it, or a *)
(* failure, which leaves in the file what was written before.              *)
(***************************************************************************)
Write(c) ==
  LET rest == IF thread[c] = "write" THEN Packet(c) ELSE <<<<c, 2>>>>
  IN  /\ thread[c] \in {"write", "write_rest"}
      /\ \/ Store(c, rest) /\ Goto(c, "lseek") /\ file_mutex' = NULL
         \/ /\ ~Device /\ thread[c] = "write"
            /\ Store(c, <<<<c, 1>>>>) /\ Goto(c, "write_rest") /\ UNCHANGED file_mutex
         \/ FailUnlocked(c) /\ UNCHANGED <<written, f_pos>>
      /\ ThreadOnly
      /\ UNCHANGED <<complete, file, received, seekto, served, reply, sock>>

(* Mistake: the reply starts where the write left off.                     *)
Rewound_Not(pos) == pos

Rewound(pos) == 0

(* lseek(file_fd, 0, SEEK_SET), not under file_mutex.                      *)
Lseek(c) ==
  /\ thread[c] = "lseek"
  /\ \/ Goto(c, "send_lock") /\ f_pos' = [f_pos EXCEPT ![c] = Rewound(@)]
     \/ Goto(c, "close") /\ UNCHANGED f_pos
  /\ ThreadOnly
  /\ UNCHANGED <<file_mutex, complete, file, received, seekto, served, reply, sock, written>>

(***************************************************************************)
(* send_data under file_mutex: read and send, until read returns 0 or one  *)
(* of the two fails.                                                       *)
(***************************************************************************)
Send(c) ==
  /\ thread[c] = "send"
  /\ \/ /\ f_pos[c] < Len(Visible)
        /\ reply' = [reply EXCEPT ![c] = Append(@, Visible[f_pos[c] + 1])]
        /\ f_pos' = [f_pos EXCEPT ![c] = @ + 1]
        /\ UNCHANGED <<thread, file_mutex, served>>
     \/ /\ f_pos[c] >= Len(Visible)
        /\ served' = [served EXCEPT ![c] = TRUE]
        /\ Goto(c, "close") /\ file_mutex' = NULL
        /\ UNCHANGED <<f_pos, reply>>
     \/ FailUnlocked(c) /\ UNCHANGED <<f_pos, reply, served>>
  /\ ThreadOnly
  /\ UNCHANGED <<complete, file, received, seekto, sock, written>>

(* send to a client that has closed its end before it has read the whole   *)
(* reply raises SIGPIPE, which is not handled.                             *)
SigPipe(c) ==
  /\ thread[c] = "send" /\ f_pos[c] < Len(Visible)
  /\ request[c].leaves
  /\ main' = "killed"
  /\ UNCHANGED <<active, setupVars, cur, todo, head, block, list_mutex, file_mutex, threadVars,
                 clientVars, stampVars, written>>

(* close(file_fd) and close(client_fd), on success and on every failure;   *)
(* the position and the locals of receive_data are gone.                   *)
Close(c) ==
  /\ thread[c] = "close"
  /\ file' = [file EXCEPT ![c] = "none"]
  /\ f_pos' = [f_pos EXCEPT ![c] = 0]
  /\ received' = [received EXCEPT ![c] = FALSE]
  /\ sock' = [sock EXCEPT ![c] = "closed"]
  /\ Goto(c, "finish")
  /\ ThreadOnly
  /\ UNCHANGED <<file_mutex, complete, seekto, served, reply, written>>

(* data->thread_complete = 1 under list_mutex.                             *)
Finish(c) ==
  /\ thread[c] = "finish" /\ list_mutex = NULL
  /\ complete' = [complete EXCEPT ![c] = TRUE]
  /\ Goto(c, "ending")
  /\ ThreadOnly
  /\ UNCHANGED <<file_mutex, file, f_pos, received, seekto, served, reply, sock, written>>

(* The thread returns; what its client got is not followed any further.    *)
ThreadExit(c) ==
  /\ thread[c] = "ending"
  /\ Goto(c, "exited")
  /\ served' = [served EXCEPT ![c] = FALSE]
  /\ seekto' = [seekto EXCEPT ![c] = NULL]
  /\ reply' = [reply EXCEPT ![c] = << >>]
  /\ ThreadOnly
  /\ UNCHANGED <<file_mutex, complete, file, f_pos, received, sock, written>>
-----------------------------------------------------------------------------
(* stamper_handler, in the file build.                                     *)

StamperOnly == UNCHANGED <<active, mainVars, list_mutex, threadVars, clientVars>>

(* The loop's test and the open, which may fail.                           *)
StamperCheck ==
  /\ stamper = "check"
  /\ \/ active /\ stamper' = "lock"
     \/ stamper' = "exited"
  /\ StamperOnly /\ UNCHANGED <<file_mutex, stamps, written>>

(* From pthread_mutex_lock to pthread_mutex_unlock; a short write is not   *)
(* noticed, a failed one ends the thread.                                  *)
StamperWrite ==
  /\ stamper = "lock" /\ FileMutexFree
  /\ \/ /\ written' \in {written \o Packet(Stamper), Append(written, <<Stamper, 1>>)}
        /\ stamps' = stamps + 1
        /\ stamper' = "sleep"
     \/ stamper' = "exited" /\ UNCHANGED <<written, stamps>>
  /\ StamperOnly /\ UNCHANGED file_mutex

StamperWake ==
  /\ stamper = "sleep"
  /\ stamps < MaxStamps \/ ~active
  /\ stamper' = "check"
  /\ StamperOnly /\ UNCHANGED <<file_mutex, stamps, written>>
-----------------------------------------------------------------------------
Init ==
  /\ active = TRUE
  /\ main = "getaddrinfo" /\ server_fd = "none" /\ server_addr = "none"
  /\ cur = NULL /\ todo = << >> /\ head = << >>
  /\ list_mutex = NULL /\ file_mutex = NULL
  /\ block = [c \in Client |-> "none"]
  /\ complete = [c \in Client |-> FALSE]
  /\ thread = [c \in Client |-> "none"]
  /\ sock = [c \in Client |-> "none"]
  /\ file = [c \in Client |-> "none"]
  /\ f_pos = [c \in Client |-> 0]
  /\ request = [c \in Client |-> NULL]
  /\ received = [c \in Client |-> FALSE]
  /\ seekto = [c \in Client |-> NULL]
  /\ served = [c \in Client |-> FALSE]
  /\ reply = [c \in Client |-> << >>]
  /\ stamper = "none" /\ stamps = 0
  /\ written = [i \in 1 .. 2 * Len(Earlier) |-> Packet(Earlier[(i + 1) \div 2])[2 - (i % 2)]]

SetUp ==
  \/ getaddrinfo \/ socket \/ setsockopt \/ bind
  \/ fork \/ setsid \/ chdir \/ StartStamper \/ listen

MainStep ==
  \/ SetUp
  \/ CheckActive \/ Accept \/ Spawn \/ Insert
  \/ LockList \/ Sweep \/ SweepEnds \/ LockCleanup \/ Drain \/ DrainEnds \/ Exit

(* The threads of the process stop with it.                                *)
Alive == main \notin {"exited", "killed"}

ThreadStep(c) ==
  /\ Alive
  /\ \/ OpenFile(c) \/ AllocFails(c) \/ RecvCheck(c) \/ Recv(c) \/ LockFile(c)
     \/ Ioctl(c) \/ Write(c) \/ Lseek(c) \/ Send(c) \/ SigPipe(c)
     \/ Close(c) \/ Finish(c) \/ ThreadExit(c)

StamperStep == Alive /\ (StamperCheck \/ StamperWrite \/ StamperWake)

Next ==
  \/ MainStep
  \/ StamperStep
  \/ signal_handler
  \/ \E c \in Client : ThreadStep(c)
  \/ \E c \in Client, r \in Request : Connect(c, r)

Spec == Init /\ [][Next]_vars

(***************************************************************************)
(* Every thread that can run does.  Each one takes a mutex a bounded       *)
(* number of times, the stamper once in ten seconds, so weak fairness also *)
(* says that a mutex that is given back is got.  Clients send what they    *)
(* announced and read what they are sent, but for a "stalled" one; they    *)
(* need not connect, and nobody need send a signal.                        *)
(***************************************************************************)
Stalled(c, place) == thread[c] = place /\ request[c].kind = "stalled"

FairSpec ==
  /\ Spec
  /\ WF_vars(MainStep)
  /\ WF_vars(StamperStep)
  /\ \A c \in Client : WF_vars(~Stalled(c, "recv") /\ ~Stalled(c, "send") /\ ThreadStep(c))
-----------------------------------------------------------------------------
Places == {"none", "open", "recv_check", "recv", "seek_lock", "seek", "write_lock",
           "write", "write_rest", "lseek", "send_lock", "send", "close", "finish",
           "ending", "exited"}
Units == (Client \cup {Stamper} \cup Range(Earlier)) \X {1, 2}
ASSUME UnitAssumption == NULL \notin Units

(* Each thread is at a place of its code and each mutex has a holder.      *)
TypeOK ==
  /\ active \in BOOLEAN
  /\ server_fd \in {"none", "open", "closed", "fault"}
  /\ server_addr \in {"none", "live", "freed", "fault"}
  /\ main \in Starting \cup {"loop", "accept", "spawn", "insert", "lock", "sweep",
               "cleanup", "drain", "join", "exited", "killed"}
  /\ cur \in Client \cup {NULL}
  /\ todo \in Seq(Client) /\ head \in Seq(Client)
  /\ list_mutex \in {NULL, Main} /\ file_mutex \in Client \cup {NULL}
  /\ block \in [Client -> {"none", "live"}]
  /\ complete \in [Client -> BOOLEAN]
  /\ received \in [Client -> BOOLEAN] /\ served \in [Client -> BOOLEAN]
  /\ thread \in [Client -> Places]
  /\ sock \in [Client -> {"none", "pending", "open", "closed"}]
  /\ file \in [Client -> {"none", "open"}]
  /\ f_pos \in [Client -> Nat]
  /\ reply \in [Client -> Seq(Units)]
  /\ request \in [Client -> Request \cup {NULL}]
  /\ seekto \in [Client -> Units \cup {NULL}]
  /\ stamper \in {"none", "check", "lock", "sleep", "exited"} /\ stamps \in 0 .. MaxStamps
  /\ written \in Seq(Units)

(***************************************************************************)
(* The struct thread_data of a client lives from before its thread starts  *)
(* until the thread has been joined, and main can find it all that time:   *)
(* it is in the list, once, or main is about to insert it.  So no thread   *)
(* writes thread_complete to freed memory, none is joined twice and none   *)
(* is forgotten, whichever of the sweep and the shutdown gets to it.       *)
(***************************************************************************)
ThreadDataLives ==
  Alive =>
    /\ IsInjective(head)
    /\ \A c \in Client :
         /\ thread[c] \notin {"none", "exited"} => block[c] = "live"
         /\ block[c] = "live" <=> c \in Range(head) \/ (main = "insert" /\ cur = c)

(***************************************************************************)
(* Whenever main returns, after a shutdown or from one of the error paths  *)
(* of the set-up, it has given back the listening socket and the address   *)
(* list, if it got them, once each; every client's thread has ended, its   *)
(* thread_data is freed and its connection and its file are closed.        *)
(***************************************************************************)
CleanExit ==
  main = "exited" =>
    /\ server_fd \in {"none", "closed"} /\ server_addr \in {"none", "freed"}
    /\ \A c \in Client : /\ thread[c] \in {"none", "exited"}
                         /\ block[c] # "live"
                         /\ sock[c] \in {"none", "closed"} /\ file[c] # "open"

(***************************************************************************)
(* file_mutex keeps packets whole: the second half of a packet or a stamp  *)
(* always directly follows its first half, although a write may be short   *)
(* and may fail half way.                                                  *)
(***************************************************************************)
PacketsWhole ==
  \A i \in 1 .. Len(written) :
    written[i][2] = 2 => i > 1 /\ written[i - 1] = <<written[i][1], 1>>

(***************************************************************************)
(* While send_data runs, what it has sent so far is an unbroken piece of   *)
(* OUTPUT_FILE as it is now and ends at the position of file_fd: nothing   *)
(* is written or evicted between two reads.                                *)
(***************************************************************************)
ReplyIsSnapshot ==
  \A c \in Client : thread[c] = "send" =>
    reply[c] = SubSeq(Visible, f_pos[c] - Len(reply[c]) + 1, f_pos[c])

(***************************************************************************)
(* A client whose packet was written and whose reply was sent in full      *)
(* finds its own packet in the reply, unless, on the device, MaxOps others *)
(* were written after it and before the reply.                             *)
(***************************************************************************)
OwnPacketInReply ==
  \A c \in Client : served[c] =>
    \A k \in 2 .. Len(written) : written[k] = <<c, 2>> =>
      \/ \E i \in 2 .. Len(reply[c]) : SubSeq(reply[c], i - 1, i) = Packet(c)
      \/ Device /\ Len(written) - k >= 2 * MaxOps

(***************************************************************************)
(* "For AESDCHAR_IOCSEEKTO, preserve ioctl-adjusted position": the reply   *)
(* to a seek command starts with the byte that the ioctl selected.  The    *)
(* mutex is free between the ioctl and the reply, and positions count from *)
(* the oldest command of the device: after evictions the reply may start   *)
(* later, but never earlier and by no more than the device has evicted.    *)
(***************************************************************************)
ReplyFollowsSeek ==
  \A c \in Client : served[c] /\ seekto[c] # NULL /\ reply[c] # << >> =>
    \E j, k \in DOMAIN written :
      /\ written[j] = seekto[c] /\ written[k] = reply[c][1]
      /\ k - j \in 0 .. Len(written) - Len(Visible)

(***************************************************************************)
(* A client that sends a whole packet is dealt with, unless the server is  *)
(* stopped or some client stops reading: its connection is closed after    *)
(* its reply or a failure, however many clients are connected and silent.  *)
(***************************************************************************)
ClientsServed ==
  \A c \in Client : (sock[c] = "pending" /\ request[c].kind = "packet") ~>
    (sock[c] = "closed" \/ ~active \/ \E d \in Client : Stalled(d, "send"))

(***************************************************************************)
(* main always gets back to accept, or out of its loop: it never waits for *)
(* a client, also when one has stopped reading in the middle of its reply  *)
(* and the threads that need file_mutex can do nothing any more.           *)
(***************************************************************************)
AcceptsAgain ==
  main \in {"spawn", "insert", "lock", "sweep", "loop"}
    ~> main \in {"accept", "cleanup", "killed"}

(***************************************************************************)
(* "Exit loop if signal was caught": a signal that misses accept, because  *)
(* main is about to call it or another thread handles it, is noticed when  *)
(* the next client connects, at the latest.                                *)
(***************************************************************************)
SignalNoticed ==
  (~active /\ \E c \in Client : sock[c] = "pending")
    ~> main \in {"cleanup", "drain", "join", "exited"}

(***************************************************************************)
(* "Clean up remaining client threads once server shutdowm signal is       *)
(* received": when main starts to clean up, it gets done.                  *)
(***************************************************************************)
CleanupCompletes == main = "drain" ~> main = "exited"
=============================================================================
