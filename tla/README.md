# A TLA+ development of the AESD device and server

This directory specifies the two programs at the heart of the repository: the
character device driver (`aesd-char-driver/`), with the circular buffer it is
built on, and the socket server (`server/aesdsocket.c`) that writes to the
device or to a plain file; and the three small programs beside them, `writer`,
the system call exercise and the threading exercise. The modules are translated
from the C code; TLC checks them on small instances, and TLAPS proves for every
size all the safety properties that TLC finds to hold and the refinements of
the buffer, the driver and the server's list.

## 1. Inventory

### Circular buffer (`aesd-circular-buffer.c/.h`)
State: an array of `AESDCHAR_MAX_WRITE_OPERATIONS_SUPPORTED` entries (pointer
and size), `in_offs`, `out_offs`, `full`. Operations: `init`, `add_entry`,
`find_entry_offset_for_fpos`, `calculate_size`. It locks nothing and owns no
memory; the driver does both. Hard: the wrap, the instant `full` is set, a
position at the end of an entry, the shortcut "count = full ? MAX : in_offs".
Correct when it is the log of the last MAX commands and search and size agree
with the concatenated commands.

### Driver (`main.c`, `aesdchar.h`, `aesd_ioctl.h`)
State: one `aesd_device` with the buffer, the working `entry` (the command that
has no newline yet), a mutex and kernel memory; a position per open file.
Operations: load, unload, open, release, read, write, llseek, ioctl. Calls of
different files interleave; waits are interrupted by signals, `krealloc` fails,
copies from and to user space fault. Correct when users see one atomic log
whatever fails, when every block is owned once and when every call gives the
mutex back.

### Server (`aesdsocket.c`)
State: `active`, the list of `struct thread_data`, `list_mutex`, `file_mutex`;
per client a connection, a file descriptor with its position and a buffer.
Threads: main (accept, create, sweep, shut down), one per client (receive a
packet, write it or seek, send the output file back), the stamper (file build).
Signals arrive at any time. Correct when packets stay whole, replies are
consistent and hold the client's own packet, when each `thread_data` outlives
its thread and is freed once, when clients are served and the server can be
stopped.

The server uses the driver by `open`, `write`, `lseek`, `ioctl`, `read` and
`close`; `AesdSocket` knows of the device only what `AesdLog` promises (a log of
the last commands, positions counted from the oldest), and `ServerOnDevice`
checks that it knows nothing else.

`receive_data` is a component of its own: a buffer that doubles until it holds a
line, the search for the newline with `strchr`, the seek command recognised by
`sscanf`, the write loop. Hard: how TCP cuts the data, the size of the buffer
as an `int`, NUL bytes, what comes after the newline, the many error returns.
So is the list (`server/queue.h`): main unlinks and frees nodes while it walks
over them, and `malloc` hands their memory out again.

### Writer (`finder-app/writer.c`)
State: the file, a pointer and a length that `write` moves. Operations: open
with truncation, the write loop, close. Hard: short, interrupted and failing
writes in any order, a kill, a second run on the same file. Correct when the
file is a beginning of the string and exit code 0 means all of it.

### System calls (`examples/systemcalls/systemcalls.c`)
Three functions that run a command: with `system`, with fork, exec and wait, and
with the output redirected. State: the children and their exit status, the open
file. Hard: each call fails on its own, in either process, and a child can
outlive its call. Correct when `true` means that the command was run and waited
for, when the child never returns into the caller's code and when each call
returns.

### Threading (`examples/threading/threading.c`)
A function that starts a thread, which sleeps, takes a mutex, sleeps and gives
it back. State: a `struct thread_data` per thread, the mutex. Hard: the thread
may return before `pthread_create` does, so who owns the struct at which time;
failing calls. Correct when each struct is owned by one user until it is freed,
once, when the success flag tells the truth and when every thread returns.

### The rest
The shell scripts, the build and the test files hold no state of their own and
are left out (section 6).

## 2. Modules

| Module | What it is |
|---|---|
| `AesdCircularBuffer` | the functions of `aesd-circular-buffer.c` as operators on the struct |
| `CircularBuffer` | the buffer as a state machine: init, then any number of `add_entry` |
| `CommandLog` | what the buffer promises: the last MaxOps commands |
| `CircularBufferLemmas`, `CircularBufferProofs` | lemmas on the operators, on loops and on flattened sequences; theorems |
| `AesdChar` | the driver |
| `AesdLog` | what the driver promises: an atomic log; uses `CommandLog` |
| `AesdCharProofs` | theorems about the driver |
| `AesdSocket` | the server |
| `ServerOnDevice` | the server's device build compared with `AesdLog` |
| `AesdSocketProofs` | theorems about the server and about its use of the device |
| `ReceiveBuffer`, `ReceiveBufferProofs` | `receive_data` byte by byte, for one client; theorems |
| `ThreadPool`, `Pool` | the server's linked list on pointers; what it promises: a sequence |
| `ThreadPoolProofs` | theorems about the list |
| `Writer`, `WriterProofs` | `writer.c`; theorems |
| `SystemCalls` | `systemcalls.c` and the child processes |
| `Threading` | `threading.c` and a program that uses it |
| `ExampleProofs` | theorems about both exercises |
| `MC*` | finite instances, with the `.cfg` files; `MCExercises` holds both exercises |

`AesdChar` extends the operators of `AesdCircularBuffer`; `CircularBuffer`
refines `CommandLog`, `AesdChar` refines `AesdLog` and `ThreadPool` refines
`Pool`. `ServerOnDevice` extends `AesdSocket` and instantiates `AesdLog`. Operators whose names
have a suffix and whose comment starts with "Mistake" (`Lock_NotForRead`, ...) are
plausible errors in the code; each is used to confirm that a property notices
it, and no specification refers to them.

### How the driver is modelled
A call starts (`Call`), waits for the mutex (`Lock`, or `Interrupted` with
`-ERESTARTSYS`), works, and returns. Read and write are cut where they touch the
device twice: `ReadFind`/`ReadCopy`, `WriteAlloc`/`WriteCopy`. The steps in
between would show what happens without the mutex. Memory is the function
`memory` from allocated blocks to bytes; `krealloc` may move the block, keep
it, or fail, and gives `ZERO_SIZE_PTR` for size 0; bytes it adds are `Junk`
until copied over. `done` records the call that the last step completed, with
its arguments, its result and its data; `AesdLog` says which of these a user may
see. Assumptions on what is outside the repository:

* a file is used by one thread at a time (the kernel's position lock covers
  read, write and llseek; two threads that share a descriptor and race an ioctl
  are not modelled);
* the kernel refuses a read or a write whose position plus count is no `loff_t`
  before the driver sees it; `llseek` gets any offset, and sums wrap (`Loff`);
* the module cannot be removed while a file is open (`cdev.owner`);
* a copy of 0 bytes does not fault.

A faulting copy is all or nothing: `copy_to_user` that copies part of the data
and faults returns `-EFAULT` in this driver, and the bytes the user did get are
not part of the result.

### How the server is modelled
An action is what a thread does between two points where another can interfere:
a mutex operation, a blocking call, a call on shared data. A request is a whole
packet, a seek command, a connection closed before a packet, or a packet of a
client that may stop sending or reading ("stalled"); each says whether its
client may leave before it has read the whole reply (`leaves`). A packet is two units of text so that `write` can be short; `written` is every
unit ever written, and `Visible` what the file (all of it) or the device (the
last `MaxOps` packets) shows. `list_mutex` is taken and given back by client
threads in one step, since nothing happens in between. All failures of library
calls are choices: open, malloc/realloc, recv, ioctl, write, lseek, read, send,
accept, pthread_create. Each call of the set-up is an action (`getaddrinfo`,
`socket`, `setsockopt`, `bind`, `fork`, `setsid`, `chdir`, `StartStamper`,
`listen`) with an error path of its own, which releases what the code releases
there: `server_fd` and `server_addr` say what is held, what was given back, and
whether something was given back that was not held ("fault"). `bytes_received`
is read uninitialised when `active` is cleared before the first recv; both
outcomes are in `RecvCheck`. Signals are handled by any thread: the call it is
blocked in fails, or no call is interrupted. `SigPipe` ends the process when a
reply is sent to a client, of any kind of request, that has left. An `accept` that fails and leaves the connection
pending (no free descriptors) is left out: it only repeats the loop. Reads of
the reply are one unit each (the code reads up to 1024 bytes), which allows
more interleavings.

### How the server and the device are composed
`ServerOnDevice` reads the state of `AesdSocket` as a state of `AesdLog`: the
packets that `Visible` shows are the commands of the log, a thread's `file_fd` is
a file of the device, its position is `f_pos`. `UsesDevice` says that each step
of the server that changes any of these is a call that the device offers, with
the effect it promises: a packet is one whole command, a position moves by what
was written, a read returns the byte at the position, a seek goes to the byte
the command names. As `AesdChar` implements `AesdLog` (`DeviceSpec`), the checks
of the server's device build are checks of the server on the driver.

### How the receive buffer is modelled
A symbol of the client's stream stands for a byte, except `Cmd` and `Args`, which
stand for `AESDCHAR_IOCSEEKTO:` and its two numbers. `recv` returns any part of
what is left, 0 when the client has closed, or an error. `Double` wraps at
`INT_MAX` as the `int` does in the build; a negative size is, as a `size_t`, too
much for `realloc`. `memory` has the allocated blocks with their sizes and `ptr`
is the pointer; `realloc` keeps the block, moves it or fails, and each error
return (`ReallocFails`, `IoctlFails`, `WriteFails`, `RecvFails`, `LseekFails`)
frees for itself, as in the code. `IsSeek` is what `sscanf` accepts: `%u`
skips white space, newlines too. The global `active` may be cleared at any time.

### How the list is modelled
`slh_first` and `sle_next` are the pointers, `alloc` the blocks that `malloc` has
given; any free block can be given again. Every macro notes the blocks it
follows (`Use`), and `fault` records that one of them was not allocated.
`SLIST_FOREACH_SAFE` is cut into its test, which takes the successor, its body
and its step. Client threads only set `thread_complete`, when main does not hold
`list_mutex`. Only the macros the server uses are there.

### How the small programs are modelled
`Writer` runs again and again on one file with any of the strings; `Kill` ends it
anywhere. A write writes some or all of the rest, is interrupted (`EINTR`) or
fails. `SystemCalls` makes up to `MaxCalls` calls one after the other; the
children are processes of their own. An argument is only what the code looks at,
its first character. `Threading` has the program around it, marked external: it
may hold the mutex once, joins the threads and frees what they return.
`start_thread_obtaining_mutex` is cut at `malloc`, `pthread_create` and its
return, so that the thread can run, and even return, before `pthread_create`
does; freed structs are given out again. A failed `malloc` is not checked in
the code and crashes. Its specification is
`ThreadsSpec` (`ThreadsInit`, `ThreadsNext`), so that `ExampleProofs` can extend
both exercises.

## 3. Runs

| Run | Instance | Shows |
|---|---|---|
| `ring` | 3 slots, sizes 0..3 | `TypeOK`, `RingInv`, `FindsTheByte`, `SizeIsTotal`; refines `CommandLog` (`LogSpec`) |
| `device` | 1 file, 2 slots, 4 blocks of up to 3 bytes, all offsets of a `loff_t` -7..6 | `TypeOK`, `Ownership`, `CommandsComplete`, `OnlyEvictionLoses`; refines `AesdLog` (`DeviceSpec`) |
| `device_two_files` | 2 files, 1 slot, 2 blocks of up to 2 bytes | `PositionsValid`, `DeviceSpec` and, under `FairSpec`, `CallsReturn` with interleaved calls |
| `server_file` | 2 clients, file, 1 stamp | `TypeOK`, `ThreadDataLives`, `CleanExit`, `PacketsWhole` |
| `server_device` | 2 clients, device with 1 command | `ReplyIsSnapshot`, `OwnPacketInReply`, `ReplyFollowsSeek`, and `UsesDevice`: the server's use of the device is what `AesdLog` offers |
| `server_serves` | 2 clients that may stop sending or reading, device | `ClientsServed`, `AcceptsAgain`, `SignalNoticed` under `FairSpec` |
| `server_cleanup` | 1 client, device | violates `CleanupCompletes` (section 5) |
| `receive` | buffer of 2 bytes, `INT_MAX` 7, 2 blocks, text of up to 8 bytes, mixed streams of up to 4 symbols | `InBounds`, `NothingLeft`, `WritesFirstLine`, `IdleOnlyAtEnd` |
| `thread_pool` | 4 blocks | `NoUseAfterFree`, `ListIsAllocated`; refines `Pool` (`PoolSpec`) |
| `writer` | strings of up to 3 of 2 characters, any number of runs | `FileIsPrefix`, `ExitTellsTruth`, `RunsEnd` |
| `exercises` | 3 calls of the system call functions; 3 threads, 3 structs and the program | `TrueMeansWaited`, `OutputRedirected`, `CallsReturn`; `StructsOwned`, `SuccessTellsTruth`, `ThreadsReturn` |
| `exercise_comments` | the same | violates `SomeCommentHolds` (section 5) |

Why the bounds are enough. The buffer's operations are invariant under the
number of slots except for the wrap, which 3 slots pass with entries before and
after it; the proofs cover all sizes. In the driver, two slots and data of one
or two bytes let a command be built from several writes, be completed by one,
be evicted and be read in parts; with four blocks (two slots, the working entry
and one more) the leak of one block leaves the device fully working. Once
blocks run out `krealloc` fails, so the bound on memory is itself the
out-of-memory case. With two files one slot is enough: every complete command
evicts what the other file may be reading, and a command of two bytes can be
read and written in parts. In the server, two clients are enough for one to run between any two
steps of the other; a device that keeps one command makes every later packet an
eviction. Deadlock is not checked in the server's runs: the process ends, and it
can really stop in shutdown (section 5). The same holds of the other programs'
runs, which end, except `writer`, which runs again.

In `receive` the buffer grows from 2 over 4 to 8, which overflows `INT_MAX` = 7:
8 bytes of text reach every size; with two blocks a `realloc` can stay, move and
move back. As many structs as threads in `exercises` let each be used again.
The clients of the safety runs may all leave early; those of `server_serves` and
`server_cleanup` stay, since the server does not survive one that leaves
(section 5). Four blocks of the list let the sweep remove
the first, a middle, the last and several neighbouring nodes, with one being
allocated again. Three calls in `exercises` are one that leaves its child
behind, one that could mistake that child for its own, and one after. The two
exercises share nothing; a behaviour of `MCExercises` is one of the system calls
or one of the threads, so that their states add up and do not multiply.

Fairness. `AesdChar!FairSpec`: a call inside a handler goes on (`WF`), and the
kernel mutex, which hands over to a waiter that was passed by, is strongly fair
(`SF` on `Lock`). Callers need not call and signals need not come.
`AesdSocket!FairSpec`: weak fairness of each thread. Each client thread takes
`file_mutex` at most twice and no thread takes it in a tight loop, so weak
fairness gives a waiter its turn. It includes that clients send what they
announced and read what they are sent, except for a "stalled" client, of whose
thread nothing is assumed in `recv` and in `send`. One that does not send blocks
only its own thread. One that does not read holds `file_mutex` for as long as it
likes: `ClientsServed` promises nothing then, `AcceptsAgain` still says that main
goes on.
`Writer!FairSpec`: the process is scheduled; `RunsEnd` assumes that the
interruptions stop, since the loop repeats an interrupted write for ever.
`SystemCalls!Fairness`: both processes are scheduled and commands end; `waitpid`
need not fail. `Threading!ThreadsFairness`: sleeps end, the program gives the mutex
back, and a thread that waits gets it: each holder takes it once.

## 4. Proofs

Eight modules hold theorems. Each theorem is about the specification that the
runs check, for all values of its constants that satisfy the assumptions named
here; TLC evaluates the assumptions in the runs.

### Circular buffer (`CircularBufferLemmas`, `CircularBufferProofs`)
Assumptions: `MaxOps \in 1..255`, the range in which the `uint8_t` index of
`AESD_CIRCULAR_BUFFER_FOREACH` ends; sizes and positions are natural numbers
(`size_t`); a cleared entry has size 0; NULL is no place of the buffer.
* `TypeCorrect`, `RingCorrect`: `[]TypeOK`, `[]RingInv`. The inductive invariant
  is both together: the arithmetic modulo MaxOps needs the offsets' ranges.
* `ImplementsLog`: `Spec => LogSpec`. A step maps to a `Remember`; this needs
  `RingInv`, because a buffer that is not full but starts in the middle would
  lose an entry. The key lemma is `AddEntryContents`: the contents after
  `add_entry` are those before, without the first if there were MaxOps, with
  the new one appended.
* `FindIsCorrect`: `[]FindsTheByte`. `WalkCorrect` says what the search returns
  from any entry on and for any rest of the position; `BytesPlaced` says where
  the bytes of an entry are in the concatenation.
* `SizeIsCorrect`: `[]SizeIsTotal`. `VisitedSlots`: a walk of MaxOps steps from
  `out_offs` meets each slot once; `SumRemove`: a sum over a set does not depend
  on the order; `UncountedEmpty`: the slots that are not counted are empty.

The loops are recursive functions, as are `FlattenSeq` and the sum over a set.
What they compute is proved without an induction principle: `LeastElement` (a
non-empty set of naturals has a least element) shows that there is no first
index at which the claim fails. For each such function one lemma shows that the
recursion has a solution, one that the solution is unique, and one gives the
recursion's step as an equation.

### Driver (`AesdCharProofs`)
Assumptions: the pointers NULL and `ZERO_SIZE_PTR` are no blocks, a file is not
NULL, the sizes are natural numbers, the user's data are sequences of bytes,
offsets are values of `loff_t`, and a full buffer is no longer than a `loff_t`
can say (`StreamAssumption`: MaxOps blocks of `KMALLOC_MAX_SIZE`). Any number of
files and blocks, up to 255 slots.
* `TypeCorrect`, `OwnershipCorrect`: `[]TypeOK`, `[]Ownership`;
  `MutualExclusion`: at most one call is between lock and unlock, and no file is
  open on a module that is not loaded.
* `CommandsAreComplete`: `[]CommandsComplete`.
* `EvictionAloneLoses`: `Spec => OnlyEvictionLoses`, an action property.
* `PositionsAreValid`: `[]PositionsValid`.
* `ImplementsDevice`: `Spec => DeviceSpec`, the refinement of `AesdLog`.

The first three come from one inductive invariant: `TypeOK`, the ring's shape,
`LockInv`, `ModuleInv` and `Ownership`. Ownership alone is not inductive. Its
statement about a write between `krealloc` and the copy survives other calls
only because they are not in a critical section (`LockInv`); its statement about
the slots that hold commands needs the ring's shape; and load starts it from a
clean device only because no file is open (`ModuleInv`). Type correctness also
needs Ownership: that a command is not empty follows from the newline, which is
in the block only if the block is as long as the entry says. There is one lemma
per action, and lemmas for what `krealloc` and `kfree` do to the blocks of
others.

`CommandsComplete` is inductive on top of that: a block's text changes only by
the write that owns it. `PositionsValid` needs `PosInv`: the place a read has
found is the one of its position *now*, although other calls ran between the
search and the copy, and the room a write needs was there when the kernel
checked it. For the refinement (`AInv`, all of these together) the mapping reads
the log as the texts of the buffer's commands; every step of a handler before
its last is a stutter, the last is one call of the log. The read is the
hard case: what `copy_to_user` copies from a slot and an offset is the piece of
the flattened log at the position (`FlattenResult`, `FindResult`). The ioctl
needs that the sum over the first entries is the length of the flattened first
commands (`StartsPrefix`).

### Server (`AesdSocketProofs`)
Assumptions: main, the stamper and the clients are different, there is room for
a packet and a stamp, earlier content of the file is by nobody of this run, the
numbers of a seek command are unsigned, and `NULL` is no part of a packet. Any
number of clients, any requests, both builds.
* `TypeCorrect`, `ThreadDataIsLive`, `ExitsClean`, `PacketsAreWhole`,
  `RepliesAreSnapshots`, `OwnPacketReturned`: `TypeOK`, `ThreadDataLives`,
  `CleanExit`, `PacketsWhole`, `ReplyIsSnapshot` and `OwnPacketInReply` always
  hold.
* `DeviceUsedAsPromised`: in the device build, `Spec => UsesDevice`.

The inductive invariant joins them with what the code relies on: at each place of
the set-up it is known which of the socket and the address list are held
(`SetupInv`), without which the releases of an error path could be too few or
too many; a thread is
between lock and unlock of `file_mutex` exactly if it holds it (`MutexInv`);
main's variables agree with the list, and the nodes a sweep still has to visit
are in it (`MainInv`); connection, file, block and thread of a client fit
together (`ClientInv`); half a packet is only there while its writer holds the
mutex (`OutputInv`); a reply ends at the position and that of a writer starts at
0 (`ReplyInv`). `OwnPacketInReply` is about the end of a reply, and needs all of
them: that nothing was written between two reads, and that the packet was whole.

`UsesDevice` relates the server's view of its output, a sequence of units of
which only the last commands are `Visible`, to the log and the byte stream of
`AesdLog`. What is visible has whole packets only (`OutputInv`), so the log is
its units taken in pairs (`DeviceIs`), and flattening pairs gives the units back
(`FlattenPairs`, from which `StreamIs` follows); this is shown by looking at the
shortest sequence for which it would fail, since induction is out of reach.
`PacketRemembered` says that writing a packet does to the log what
`CommandLog!Remember` does, the eviction of the oldest command included, and
`SeekIs` that both sides agree which byte a seek names and at which position it
is. `FileInv` adds to the invariant that a thread between `open` and `close` has
a file and that a file not yet opened is at position 0. Then each system call has
its lemma (`OpenCalls`, `WriteCalls`, `SendCalls`, `IoctlCalls`), and the other
steps leave the device alone.

### List (`ThreadPoolProofs`)
Assumption: finitely many blocks, NULL is none of them.
* `NothingUsedAfterFree`: `[]NoUseAfterFree`; `ListHoldsTheAllocated`:
  `[]ListIsAllocated`; `ImplementsPool`: `Spec => PoolSpec`.

The inductive invariant `ListInv` says that the links spell out a sequence that
ends and repeats no block (`IsList`), that its blocks are the allocated ones, and
that the cursors of the sweep point into it. Without the absence of repetitions
the successor taken by `SLIST_FOREACH_SAFE` could be the block that the body
frees. `ListInsert`, `ListRemoveHead` and `ListRemoveAfter` say what each macro
does to the sequence; `ListNodes` says that following the links gives it.

### Receive buffer (`ReceiveBufferProofs`)
Assumptions: streams are sequences of bytes, the first size of the buffer is at
least 2 and an `int`, `NULL` is no block; any stream, any width, any blocks.
* `StaysInBounds`: `[]InBounds`; `LeavesNothing`: `[]NothingLeft`;
  `WritesTheLine`: `[]WritesFirstLine`; `NeverIdle`: `[]IdleOnlyAtEnd`.

The inductive invariant has one part for each question: what was received is a
beginning of the stream (`Prefix`); the one allocated block is the one `buf`
points to (`Owned`), without which a return that frees `buf` could leave the
block that `realloc` moved away from; `buf_size` is the size of the block and the
data are shorter (`Sizes`); what is written is a beginning of the line in the
buffer (`Written`); leaving the loop has a reason (`Reason`). `InBounds` is not
inductive: that `recv` has room after a doubling needs that the doubling
happened exactly when the buffer was full, and that a doubling that overflows
ended the call. `WritesFirstLine` speaks of the stream and the code of the
buffer: `Prefix` joins them.

### Writer (`WriterProofs`)
Assumption: strings are sequences of characters.
* `PrefixWritten`: `[]FileIsPrefix`; `ZeroMeansWritten`: `[]ExitTellsTruth`. The
  strengthening `Counts` relates pointer, length and position between the write
  and the test of its result.

### Exercises (`ExampleProofs`)
System calls: any number of calls, any arguments.
* `TrueIsWaited`: `[]TrueMeansWaited`; `OutputIsRedirected`: `[]OutputRedirected`.
  The invariant follows each child from fork on (`ChildOK`: what its output is,
  that a zombie has a status) and the caller (`PlaceOK`: an fd that is open
  belongs to a redirect that has not come past `close`). A step concerns one
  call only (`OneCall`), so the children that failed waits left behind do not
  matter.

Threading: any number of threads and structs. Assumption: the program is no
thread, and `None` is neither a thread nor the program.
* `StructsAreOwned`: `[]StructsOwned`; `SuccessIsTrue`: `[]SuccessTellsTruth`. The
  inductive invariant `ThreadInv` follows each call and its thread (`ThreadOK`:
  there is a thread only if `pthread_create` made one, it is between lock and
  unlock only with the mutex, its struct is allocated, its flag agrees with what
  it did) and says that every allocated struct has a user (`Used`) and that no
  two users share one (`Apart`). Both theorems need `Apart`: otherwise one of two
  users could free the struct of the other, or overwrite what it has reported.

### Only model-checked
All liveness (`CallsReturn` of the driver and of the system calls,
`ClientsServed`, `AcceptsAgain`, `SignalNoticed`, `RunsEnd`, `ThreadsReturn`),
which the prover does not reach, and `ReplyFollowsSeek`. Every other property of
the passing runs is stated by a theorem.

## 5. What the code does otherwise than it says

Those with a run in parentheses are shown by a counterexample of that run; the
one of `exercise_comments`, which checks that at least one of three comments
holds, breaks all three of them. The others are steps of the models. Each names the property that says what still
holds.

* **Shutdown can deadlock** (`server_cleanup`). main joins client threads with
  `list_mutex` held (`aesdsocket.c:568`), which they need to finish (`:367`).
  The sweep in the loop is not affected: it joins only threads that have set
  `thread_complete` (`AcceptsAgain`). `CleanExit` says what holds when shutdown
  does complete.
* **Evicted commands leak.** `aesd_write` hands its block to the buffer; when the
  buffer is full, `add_entry` overwrites the oldest entry and nobody frees its
  block (`main.c:142`). The comments leave freeing to the cleanup function
  (`main.c:42`, `:319`), which cannot see it any more. `OnlyEvictionLoses`: this
  is the only leak.
* **Seek and reply are not atomic.** The mutex is released between the ioctl
  (`aesdsocket.c:193`) and the "seek+read" (`:290`); a packet written in between
  evicts a command and shifts what the position means. `ReplyFollowsSeek`: the
  reply starts at the byte that was asked for or, by no more than what was
  evicted, after it. `ReplyIsSnapshot`: once the reply has begun, nothing moves.
* **A signal can be late.** Between the test of `active` (`aesdsocket.c:520`) and
  `accept` (`:115`), or in another thread, it does not interrupt `accept`.
  `SignalNoticed`: main leaves its loop after the next connection.
* **A client that leaves before it has read its reply ends the server.** `send` (`aesdsocket.c:297`) raises
  `SIGPIPE`, whose action is the default one (`SigPipe`); the branch for a failing
  send (`:298`) is not reached.
* **A NUL byte hides the newline.** `strchr` (`:162`) stops at it; the server goes
  on receiving although it has a complete packet. **One line per connection:**
  "Keep receiving data until client closes connection" (`:156`) ends with the
  first line; the rest is dropped. **The next line can make a seek:** `sscanf`
  (`:178`) parses the whole buffer, and numbers of the next line complete a
  command without any. `WritesFirstLine`: what is written is the first line.
* **`true` for a command that failed** (`exercise_comments`, `SystemTold`
  and `ExecTold`). The exit status is not looked at (`systemcalls.c:21`, `:102`,
  `:194`), whereas the comments (`:5-8`, `:41-44`) promise `false` for a failed `execv` and for a
  non-zero status. `TrueMeansWaited` is what `true` does mean.
* **The output file stays open when fork fails** (`exercise_comments`,
  `FileClosed`): "This file will be closed at completion of the function call"
  (`systemcalls.c:115`), but the
  return at `:165-169` comes before the `close` (`:187`). `TrueMeansWaited`: it is
  closed when `true` is returned.
* **An unchecked `malloc`** crashes the program where the comment promises
  `false` (`threading.c:52`, `:64`).

## 6. Not modelled, and known limits

* The shell scripts (`finder.sh`, `writer.sh`, start/stop, load/unload, QEMU): a
  sequence of external commands each, no state of their own. The build and test
  files; the `autotest` submodule is empty in this tree.
* The macros of `queue.h` that nothing uses: other singly-linked list macros,
  tail queues, lists, the debugging switches. No program gives them a meaning to
  check.
* Time: sleeps and the stamper's ten seconds are any delay, so the overflow of
  `wait_to_obtain_ms * 1000` has no effect in the model. The buffers of stdio that
  a forked child inherits.
* The contents of addresses and `syslog`; the mutexes that are destroyed while the
  stamper may use them, when `listen` fails, since the process ends at once.
* Two threads that share one descriptor of the device.

## 7. Plan

Done: the buffer, the driver, the server with its receive buffer and its list,
the server on the device, and the three small programs; proofs of all their
invariants (but `ReplyFollowsSeek`) and action properties and of the refinements.
Left are that one, the liveness properties, which stay with TLC, and the parts
of section 6.
